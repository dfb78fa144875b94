--------------------------- MODULE PendingValues ---------------------------
(***************************************************************************)
(* The two cookies that hold several signed values at once, the OAuth      *)
(* states and the Polar checkouts (class PendingValues in                  *)
(* frontend/session.py), and the four handlers that add to them and spend  *)
(* from them (frontend/web_server.py).  `purpose` says which of the two    *)
(* cookies a behaviour is about; they share no state.                      *)
(*                                                                         *)
(* A browser has one jar and several tabs.  A request carries the cookie   *)
(* as it was when it left; the answer sets it when it arrives, whatever    *)
(* other tabs did in between.                                              *)
(*                                                                         *)
(* The cookie lists its entries newest first.  A new entry goes before all *)
(* that a browser has and is numbered after all that were minted, so the   *)
(* list is kept as a set, whose order is that of the values.               *)
(***************************************************************************)
EXTENDS SignedCookies, FiniteSets

CONSTANTS
  Browsers, Tabs, BrowserOf,   \* BrowserOf: tab -> its browser
  MaxPending,    \* MAX_PENDING
  TTL,           \* STATE_TTL, CHECKOUT_TTL: how long an entry is accepted
  LastTime,      \* bound: when the clock stops
  MaxRequests,   \* bound: requests sent
  MaxRotations   \* bound: changes of the signing key

CONSENT  == "oauth-state"
CHECKOUT == "checkout"

\* What a cookie may list, and what may be on its way; None is neither.
Entries  == [purpose : {CONSENT, CHECKOUT}, value : Nat, iat : Nat, key : Nat]
Sendings == [at : {"asked"}, entry : Entries \union {None}, seen : SUBSET Entries]
Answers  == [at : {"answered"}, entry : Entries \union {None}, set : SUBSET Entries,
             drops : BOOLEAN]

PendingValuesAssumption ==
  /\ BrowserOf \in [Tabs -> Browsers]
  /\ MaxPending \in Nat \ {0} /\ TTL \in Nat
  /\ None \notin Entries /\ None \notin Sendings /\ None \notin Answers

VARIABLES
  purpose,    \* which cookie: CONSENT or CHECKOUT
  now, ring,
  jar,        \* browser -> the cookie's entries
  sent,       \* requests so far
  request,    \* tab -> its request or answer on the way, or None
  links,      \* entries out at Google or Polar, to be returned with
  begunIn,    \* history: value -> the browser that began it, in order of minting
  acceptedIn, \* history: value -> the browsers a return with it was accepted in
  returned,   \* history: values some return was answered for
  cleared,    \* history: browser -> values minted when its cookie was last dropped
  raced       \* history: browsers in which two requests overlapped

past == <<begunIn, acceptedIn, returned, cleared, raced>>
vars == <<purpose, now, ring, jar, sent, request, links, past>>

----------------------------------------------------------------------------
Ours(c) == Opens(c, purpose, TTL, now, ring)

Live(entries) == {e \in entries : Ours(e)}

\* Broken variant: the cookie is never cut off.
RenderAll(entries) == entries

\* The newest that the cookie has room for.
Render(entries) ==
  {e \in entries : Cardinality({f \in entries : f.value > e.value}) < MaxPending}

WithEntry(c, entries) == Render({c} \union Live(entries))

\* Broken variant: the entry stays in the cookie.
WithoutRemoval(c, entries) == Render(Live(entries))

Without(c, entries) == Render(Live(entries) \ {c})

\* Signed by us, in time, and pending in this browser.
IsOurs(c, entries) == Ours(c) /\ c \in Live(entries)

----------------------------------------------------------------------------
Init ==
  /\ purpose \in {CONSENT, CHECKOUT}
  /\ now = 0 /\ ring = <<1>>
  /\ jar = [b \in Browsers |-> {}]
  /\ request = [t \in Tabs |-> None] /\ links = {} /\ sent = 0
  /\ begunIn = <<>> /\ acceptedIn = <<>> /\ returned = {}
  /\ cleared = [b \in Browsers |-> 0] /\ raced = {}

\* GET /auth/login or /billing/checkout has no entry yet; GET /auth/callback or
\* /billing/return brings one back, from any tab that has the link.
Send(t) ==
  /\ request[t] = None /\ sent < MaxRequests /\ sent' = sent + 1
  /\ \E c \in links \union {None} :
       request' = [request EXCEPT ![t] =
         [at |-> "asked", entry |-> c, seen |-> jar[BrowserOf[t]]]]
  /\ raced' = IF \E u \in Tabs : BrowserOf[u] = BrowserOf[t] /\ request[u] # None
              THEN raced \union {BrowserOf[t]} ELSE raced
  /\ UNCHANGED <<purpose, now, ring, jar, links, begunIn, acceptedIn, returned, cleared>>

\* The Set-Cookie of an answer, whether it drops the whole cookie, and where
\* the redirect sends the tab.
Answer(t, entries, drops, link) ==
  request' = [request EXCEPT ![t] = [at |-> "answered", entry |-> link,
                                     set |-> entries, drops |-> drops]]

Asked(t) == request[t] # None /\ request[t].at = "asked"

ServeBegin(t) ==
  LET c == Sign(purpose, Len(begunIn) + 1, now, ring)
  IN /\ Asked(t) /\ request[t].entry = None
     /\ Answer(t, WithEntry(c, request[t].seen), FALSE, c)
     /\ begunIn' = Append(begunIn, BrowserOf[t])
     /\ acceptedIn' = Append(acceptedIn, <<>>)
     /\ UNCHANGED <<purpose, now, ring, jar, sent, links, returned, cleared, raced>>

\* No cookie is set when the daemon or Polar does not answer, when nobody is
\* signed in, or when a checkout comes back to a browser that did not begin it.
ServeNothing(t) ==
  /\ Asked(t)
  /\ request[t].entry # None =>
       purpose = CHECKOUT /\ ~IsOurs(request[t].entry, request[t].seen)
  /\ request' = [request EXCEPT ![t] = None]
  /\ UNCHANGED <<purpose, now, ring, jar, sent, links, past>>

\* A consent is spent whatever comes of it, refusals included, and one that
\* signs in drops the whole cookie; a checkout is spent once it is settled.
ServeReturn(t) ==
  LET c == request[t].entry
      mine == request[t].seen
      ours == IsOurs(c, mine)
  IN /\ Asked(t) /\ c # None
     /\ \/ purpose = CONSENT /\ ours /\ Answer(t, {}, TRUE, None)
        \/ purpose = CONSENT /\ Answer(t, Without(c, mine), FALSE, None)
        \/ purpose = CHECKOUT /\ ours /\ Answer(t, Without(c, mine), FALSE, None)
     /\ acceptedIn' = IF ours THEN [acceptedIn EXCEPT ![c.value] = Append(@, BrowserOf[t])]
                      ELSE acceptedIn
     /\ returned' = returned \union {c.value}
     /\ UNCHANGED <<purpose, now, ring, jar, sent, links, begunIn, cleared, raced>>

Deliver(t) ==
  LET r == request[t]
      b == BrowserOf[t]
  IN /\ r # None /\ r.at = "answered"
     /\ jar' = [jar EXCEPT ![b] = r.set]
     /\ links' = IF r.entry = None THEN links ELSE links \union {r.entry}
     /\ cleared' = IF r.drops THEN [cleared EXCEPT ![b] = Len(begunIn)] ELSE cleared
     /\ request' = [request EXCEPT ![t] = None]
     /\ UNCHANGED <<purpose, now, ring, sent, begunIn, acceptedIn, returned, raced>>

Rotate == /\ Head(ring) <= MaxRotations
          /\ ring' = Rotated(ring)
          /\ UNCHANGED <<purpose, now, jar, sent, request, links, past>>

Tick == /\ now < LastTime /\ now' = now + 1
        /\ UNCHANGED <<purpose, ring, jar, sent, request, links, past>>

Next == \/ \E t \in Tabs : \/ Send(t) \/ ServeBegin(t) \/ ServeNothing(t)
                           \/ ServeReturn(t) \/ Deliver(t)
        \/ Rotate \/ Tick

Spec == Init /\ [][Next]_vars

----------------------------------------------------------------------------
Values == 1..MaxRequests
Entry  == [purpose : {purpose}, value : Values, iat : 0..LastTime, key : 1..MaxRotations + 1]

\* No cookie ever carries more than MAX_PENDING entries.
TypeOK ==
  /\ purpose \in {CONSENT, CHECKOUT} /\ now \in 0..LastTime /\ sent \in 0..MaxRequests
  /\ \A b \in Browsers : jar[b] \subseteq Entry /\ Cardinality(jar[b]) <= MaxPending
  /\ links \subseteq Entry /\ returned \subseteq Values
  /\ cleared \in [Browsers -> 0..MaxRequests] /\ raced \subseteq Browsers

\* A consent or a checkout is finished only in the browser that began it, and
\* once, whatever tabs, expiries and key changes lie between -- except where two
\* requests of the browser overlap, and the second leaves with, or is answered
\* over, a cookie in which the value was not spent yet.
OneShot ==
  \A v \in 1..Len(begunIn) :
    /\ Range(acceptedIn[v]) \subseteq {begunIn[v]}
    /\ begunIn[v] \in raced \/ Len(acceptedIn[v]) <= 1

Pending(b, c) ==
  /\ begunIn[c.value] = b /\ c.value \notin returned /\ c.value > cleared[b]
  /\ Ours(c)
  /\ Cardinality({e \in links : e.value > c.value /\ begunIn[e.value] = b}) < MaxPending

\* Opening a second tab adds a pending value rather than invalidating the first
\* one (the comment above PendingValues), as long as no two requests of the
\* browser overlap.
PendingKept ==
  \A b \in Browsers \ raced : \A c \in links : Pending(b, c) => c \in jar[b]

\* Both: a pending value opens until it is returned with, and then never again.
PendingValuesHold == OneShot /\ PendingKept

\* The same without that condition, which is what the comment says.
SecondTabKeepsFirst ==
  \A b \in Browsers : \A c \in links : Pending(b, c) => c \in jar[b]
===========================================================================
