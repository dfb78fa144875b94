------------------------------ MODULE ContactForm ------------------------------
(* The contact form's limit on what one address may send (web_server.py): a     *)
(* bucket of tokens for each source, refilled by the clock, and forgotten once  *)
(* it is full.  A token is CONTACT_REFILL_SECONDS units of the model's clock,   *)
(* so a level is a number and refilling is exact.                               *)
EXTENDS Integers, Sequences, FiniteSetsExt

CONSTANTS
  Sources, None,
  CONTACT_BURST, CONTACT_REFILL_SECONDS,
  LastTime, MaxPosts   \* bounds

ContactFormAssumption == /\ CONTACT_BURST \in Nat /\ CONTACT_REFILL_SECONDS \in Nat \ {0}
                         /\ None \notin [tokens : Nat, at : Nat]
                         /\ None \notin [source : Sources, at : Nat]

VARIABLES
  clock,
  buckets,    \* _CONTACT_BUCKETS: source -> [tokens, at], or None
  accepted,   \* history: source -> when its messages were accepted
  refused,    \* history: the last refusal: [source, at], or None
  posts

vars == <<clock, buckets, accepted, refused, posts>>

Full == CONTACT_BURST * CONTACT_REFILL_SECONDS

Init == /\ clock = 0 /\ buckets = [s \in Sources |-> None]
        /\ accepted = [s \in Sources |-> <<>>] /\ refused = None /\ posts = 0

Refilled(entry) == Min({Full, entry.tokens + (clock - entry.at)})

SpareOne(entry) == Refilled(entry) >= CONTACT_REFILL_SECONDS
Spare(entry) == Refilled(entry) >= Full

\* _contact_allowed, and the answer the page gives: 200 once the message is
\* logged, whether or not Telegram takes it, or 429.
Post(source) ==
  /\ posts < MaxPosts /\ posts' = posts + 1
  /\ LET swept == [s \in Sources |-> IF s # source /\ buckets[s] # None /\ Spare(buckets[s])
                                     THEN None ELSE buckets[s]]
         level == IF buckets[source] = None THEN Full ELSE Refilled(buckets[source])
         allowed == level >= CONTACT_REFILL_SECONDS
     IN /\ buckets' = [swept EXCEPT ![source] =
                         [tokens |-> IF allowed THEN level - CONTACT_REFILL_SECONDS ELSE level,
                          at |-> clock]]
        /\ accepted' = IF allowed THEN [accepted EXCEPT ![source] = Append(@, clock)] ELSE accepted
        /\ refused' = IF allowed THEN None ELSE [source |-> source, at |-> clock]
  /\ UNCHANGED clock

Tick == /\ clock < LastTime /\ clock' = clock + 1 /\ refused' = None
        /\ UNCHANGED <<buckets, accepted, posts>>

Next == (\E s \in Sources : Post(s)) \/ Tick

Spec == Init /\ [][Next]_vars

-------------------------------------------------------------------------------
TypeOK == \A s \in Sources : buckets[s] # None => buckets[s].tokens \in 0..Full /\ buckets[s].at <= clock

\* How many of a source's messages were accepted from one time to another.
Within(s, from, to) == Cardinality({i \in DOMAIN accepted[s] : accepted[s][i] \in from..to})

\* What an address may send between two times, both included.
Allowance(from, to) == CONTACT_BURST + (to - from) \div CONTACT_REFILL_SECONDS

\* Over any stretch of time, an address has no more accepted than the burst and
\* what was refilled in it, although its bucket is forgotten and begun again.
NeverTooMany ==
  \A s \in Sources : \A from \in 0..clock : Within(s, from, clock) <= Allowance(from, clock)

\* And it is refused only when another message would break that: a forgotten or
\* rounded bucket costs nobody a message.  (_refilled: "continuous rather than
\* stepped")
NeverTooFew ==
  refused # None =>
    \E from \in 0..clock : Within(refused.source, from, clock) + 1 > Allowance(from, clock)

\* Nobody but the one just served stays in the table with nothing owed.
\* (_contact_allowed: "an entry only means something while it holds a deficit")
ForgottenWhenFull ==
  posts' # posts =>
    \A s \in Sources : accepted'[s] = accepted[s] /\ refused' = None /\ buckets'[s] # None =>
      ~ Spare(buckets[s])

ContactStep == NeverTooMany' /\ NeverTooFew' /\ ForgottenWhenFull
ContactHolds == [][ContactStep]_vars
===============================================================================
