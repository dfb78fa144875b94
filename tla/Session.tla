------------------------------ MODULE Session ------------------------------
(***************************************************************************)
(* Who a browser is signed in as, and what its forms may change: the       *)
(* session cookie and the form token of frontend/session.py, and the       *)
(* handlers of frontend/web_server.py that ask for them.  The session      *)
(* holds an address; whether an account has it is looked up on every       *)
(* request.  How a sign-in is reached is in PendingValues.                 *)
(***************************************************************************)
EXTENDS SignedCookies, Integers

CONSTANTS
  Browsers, Tabs, BrowserOf,   \* BrowserOf: tab -> its browser
  Accounts,
  SessionTTL,    \* SESSION_TTL
  LastTime,      \* bound: when the clock stops
  MaxRotations   \* bound: changes of the signing key

SessionAssumption == SessionTTL \in Nat

VARIABLES
  now, ring,
  cookie,     \* browser -> its session cookie, or None
  page,       \* tab -> the form token of the page it shows, or None
  manifest,   \* accounts that exist
  rotatedAt   \* history: when the key last changed, or -1

vars == <<now, ring, cookie, page, manifest, rotatedAt>>

\* get_email and _get_account.
SignedIn(c) == Opens(c, "session", SessionTTL, now, ring) /\ c.value \in manifest

FormOkForAnyone(token, account) == Opens(token, "csrf", SessionTTL, now, ring)

\* csrf_ok: a token of ours, in time, rendered for the account asking now.
FormOk(token, account) ==
  Opens(token, "csrf", SessionTTL, now, ring) /\ token.value = account

Init == /\ now = 0 /\ ring = <<1>> /\ manifest = {} /\ rotatedAt = -1
        /\ cookie = [b \in Browsers |-> None] /\ page = [t \in Tabs |-> None]

\* A successful /auth/callback registers whoever consented, or knows them.
SignIn(b, account) ==
  /\ manifest' = manifest \union {account}
  /\ cookie' = [cookie EXCEPT ![b] = Sign("session", account, now, ring)]
  /\ UNCHANGED <<now, ring, page, rotatedAt>>

\* /auth/logout asks for no form token.
Logout(b) == /\ cookie[b] # None
             /\ cookie' = [cookie EXCEPT ![b] = None]
             /\ UNCHANGED <<now, ring, page, manifest, rotatedAt>>

\* _require_auth, then a page with a form.
Open(t) ==
  LET c == cookie[BrowserOf[t]]
  IN /\ SignedIn(c)
     /\ page' = [page EXCEPT ![t] = Sign("csrf", c.value, now, ring)]
     /\ UNCHANGED <<now, ring, cookie, manifest, rotatedAt>>

\* POST of that form, here the one that is the hardest to take back.
Delete(t) ==
  LET c == cookie[BrowserOf[t]]
  IN /\ page[t] # None /\ SignedIn(c) /\ FormOk(page[t], c.value)
     /\ manifest' = manifest \ {c.value}
     /\ cookie' = [cookie EXCEPT ![BrowserOf[t]] = None]
     /\ page' = [page EXCEPT ![t] = None]
     /\ UNCHANGED <<now, ring, rotatedAt>>

\* The operator rotates the secret and restarts the server.
Rotate == /\ Head(ring) <= MaxRotations
          /\ ring' = Rotated(ring) /\ rotatedAt' = now
          /\ UNCHANGED <<now, cookie, page, manifest>>

Tick == /\ now < LastTime /\ now' = now + 1
        /\ UNCHANGED <<ring, cookie, page, manifest, rotatedAt>>

Next == \/ \E b \in Browsers : Logout(b) \/ \E a \in Accounts : SignIn(b, a)
        \/ \E t \in Tabs : Open(t) \/ Delete(t)
        \/ Rotate \/ Tick

Spec == Init /\ [][Next]_vars

----------------------------------------------------------------------------------
\* A form changes the account whose page it was, though its browser signed in
\* as somebody else in another tab meanwhile: an account goes only by a form of
\* its own.
FormActed ==
  \A a \in manifest \ manifest' :
    \E t \in Tabs : page[t] # None /\ page'[t] = None /\ page[t].value = a

\* Moving the outgoing key to SESSION_SECRET_PREVIOUS signs nobody out, provided
\* the rotation before it is older than any session still accepted.
RotationKept ==
  ring' # ring /\ (rotatedAt = -1 \/ now - rotatedAt > SessionTTL) =>
    \A b \in Browsers : SignedIn(cookie[b]) => SignedIn(cookie[b])'

\* No step of any tab, and no rotation, changes another account or signs out a
\* browser it should not. (csrf_ok, _keyring)
SessionStep == FormActed /\ RotationKept
SessionsHold == [][SessionStep]_vars
===========================================================================
