---------------------------- MODULE AccessTokens ----------------------------
(***************************************************************************)
(* The access tokens the mail daemon works with, for one address:          *)
(* backend/custody/tokens.py, which keeps one token per account and        *)
(* refreshes it under a lock, and google_client.py above it, which keeps a *)
(* Google client per thread with credentials of its own.  A sign-in and a  *)
(* deletion run on a thread of the handoff server meanwhile.               *)
(*                                                                         *)
(* External: Google (grants, and the time a token is good for) and the     *)
(* co-signer, which releases a key for the handle the record was made      *)
(* under, or does not answer.  The nonce Google asks for, and the one      *)
(* retry it costs, are inside Post and PostFails: no decision here reads   *)
(* it.                                                                     *)
(***************************************************************************)
EXTENDS Integers, FiniteSets

CONSTANTS
  Threads,       \* threads of the daemon that call Google
  None,
  Life,          \* expires_in: how long Google accepts a token
  EXPIRY_MARGIN, \* how much sooner the cache gives it up
  Delay,         \* bound: from Google's answer to the clock read after it
  LastTime, MaxConsents    \* bounds

AccessTokensAssumption ==
  /\ Life \in Nat /\ EXPIRY_MARGIN \in 0..Life /\ Delay \in 0..EXPIRY_MARGIN
  /\ LastTime \in Nat /\ MaxConsents \in Nat \ {0}
  /\ None \notin Threads

VARIABLES
  now,
  handle,     \* the address's handle in the manifest, 0 for no account
  grant,      \* the consent whose refresh token is on disk, 0 for none
  live,       \* Google: consents not revoked
  cache,      \* _access_cache[uid]: [token, expiry], or None
  lock,       \* _lock
  services,   \* thread -> its cached client: [handle, token, expiry], or None
  at,         \* thread -> where its call is
  hand,       \* thread -> what it holds: when it asked, the consent it read, its token
  op,         \* the sign-in or deletion under way: [step, handle, grant]
  used,       \* handles and grants given out so far
  torn        \* history: threads that paired one token with another's expiry

rows == <<handle, grant, used>>
vars   == <<now, handle, grant, live, cache, lock, services, at, hand, op, used, torn>>

NoOp  == [step |-> "none", handle |-> 0, grant |-> 0]
Empty == [asked |-> 0, grant |-> 0, token |-> None]

Init ==
  /\ now = 0 /\ handle = 1 /\ grant = 1 /\ used = 1
  /\ live = {1}
  /\ cache = None /\ lock = None
  /\ services = [t \in Threads |-> None] /\ at = [t \in Threads |-> "idle"]
  /\ hand = [t \in Threads |-> Empty]
  /\ op = NoOp /\ torn = {}

Go(t, place) == at' = [at EXCEPT ![t] = place]

----------------------------------------------------------------------------
(* A call to Google.                                                       *)

\* The client's own token is used while it looks valid and Google takes it.
Usable(s) == /\ s.token # None /\ s.expiry > now
             /\ s.token.until > now /\ s.token.grant \in live

\* service(): built for the account as it is now, and kept.  The clock is read
\* before the lock is waited for.
Ask(t) ==
  /\ at[t] = "idle" /\ handle # 0
  /\ IF services[t] = None
     THEN services' = [services EXCEPT ![t] = [handle |-> handle, token |-> None, expiry |-> 0]]
     ELSE ~Usable(services[t]) /\ UNCHANGED services
  /\ hand' = [hand EXCEPT ![t] = [Empty EXCEPT !.asked = now]]
  /\ Go(t, "asking")
  /\ UNCHANGED <<now, rows, live, cache, lock, op, torn>>

CacheGood(t) == cache # None /\ cache.expiry > hand[t].asked

FromCache(t) ==
  /\ hand' = [hand EXCEPT ![t].token = cache.token]
  /\ Go(t, "pairing")
  /\ UNCHANGED <<now, rows, live, cache, lock, services, op, torn>>

EnterUnlocked(t) ==
  /\ at[t] = "asking"
  /\ \/ CacheGood(t) /\ FromCache(t)
     \/ /\ ~CacheGood(t)
        /\ Go(t, "refreshing")
        /\ UNCHANGED <<now, rows, live, cache, lock, services, hand, op, torn>>

Enter(t) ==
  /\ at[t] = "asking" /\ lock = None
  /\ \/ CacheGood(t) /\ FromCache(t)
     \/ /\ ~CacheGood(t)
        /\ lock' = t
        /\ Go(t, "refreshing")
        /\ UNCHANGED <<now, rows, live, cache, services, hand, op, torn>>

\* Whatever raises leaves the lock and the cache as `with` leaves them.
Raise(t) == /\ Go(t, "idle")
            /\ hand' = [hand EXCEPT ![t] = Empty]
            /\ lock' = IF lock = t THEN None ELSE lock

\* The key and the first proof in one round trip, under the handle of the
\* account the client was built for.
Release(t) ==
  /\ at[t] = "refreshing"
  /\ grant # 0 /\ services[t].handle = handle
  /\ hand' = [hand EXCEPT ![t].grant = grant]
  /\ Go(t, "posting")
  /\ UNCHANGED <<now, rows, live, cache, lock, services, op, torn>>

\* No record, a record of another handle, or no answer from the co-signer.
ReleaseFails(t) ==
  /\ at[t] = "refreshing" /\ Raise(t)
  /\ UNCHANGED <<now, rows, live, cache, services, op, torn>>

\* A revoked grant, a proof refused twice, or no answer.
PostFails(t) ==
  /\ at[t] = "posting" /\ Raise(t)
  /\ UNCHANGED <<now, rows, live, cache, services, op, torn>>

Post(t) ==
  /\ at[t] = "posting" /\ hand[t].grant \in live
  /\ hand' = [hand EXCEPT ![t].token = [grant |-> hand[t].grant, until |-> now + Life]]
  /\ Go(t, "storing")
  /\ UNCHANGED <<now, rows, live, cache, lock, services, op, torn>>

ExpiryNoMargin == now + Life
Expiry == now + Life - EXPIRY_MARGIN

Store(t) ==
  /\ at[t] = "storing"
  /\ cache' = [token |-> hand[t].token, expiry |-> Expiry]
  /\ lock' = IF lock = t THEN None ELSE lock
  /\ Go(t, "pairing")
  /\ UNCHANGED <<now, rows, live, services, hand, op, torn>>

\* refresh_handler_for: the cache is read again, without the lock.  Gone, and
\* it is a KeyError; replaced, and the expiry is another token's.
Pair(t) ==
  /\ at[t] = "pairing"
  /\ Go(t, "idle")
  /\ IF cache = None THEN UNCHANGED <<services, torn>>
     ELSE /\ services' = [services EXCEPT ![t].token = hand[t].token,
                                          ![t].expiry = cache.expiry]
          /\ torn' = IF cache.token = hand[t].token THEN torn \ {t} ELSE torn \union {t}
  /\ hand' = [hand EXCEPT ![t] = Empty]
  /\ UNCHANGED <<now, rows, live, cache, lock, op>>

----------------------------------------------------------------------------
(* The handoff thread.                                                     *)

\* The code is exchanged with a proof of its own; an address that has a row
\* keeps its handle.
Consent ==
  /\ op.step = "none" /\ used < MaxConsents
  /\ used' = used + 1
  /\ live' = live \union {used'}
  /\ op' = [step |-> "consented", handle |-> IF handle = 0 THEN used' ELSE handle,
            grant |-> used']
  /\ UNCHANGED <<now, handle, grant, cache, lock, services, at, hand, torn>>

\* take_custody() and register_account(), which Custody takes apart.
Settle ==
  /\ op.step = "consented"
  /\ handle' = op.handle /\ grant' = op.grant
  /\ op' = [op EXCEPT !.step = "settled"]
  /\ UNCHANGED <<now, used, live, cache, lock, services, at, hand, torn>>

\* tokens.forget() waits for a refresh under way; forget_services() clears the
\* clients of the thread it runs on, which is none of these.
ForgetUnlocked ==
  /\ op.step = "settled"
  /\ cache' = None /\ op' = NoOp
  /\ UNCHANGED <<now, rows, live, lock, services, at, hand, torn>>

Forget ==
  /\ op.step = "settled" /\ lock = None
  /\ cache' = None /\ op' = NoOp
  /\ UNCHANGED <<now, rows, live, lock, services, at, hand, torn>>

\* _account_forget: best effort at Google, then the cache; the row goes after.
Revoke ==
  /\ op.step = "none" /\ handle # 0
  /\ live' \in {live, live \ {grant}}
  /\ op' = [NoOp EXCEPT !.step = "revoked"]
  /\ UNCHANGED <<now, rows, cache, lock, services, at, hand, torn>>

DropCache ==
  /\ op.step = "revoked" /\ lock = None
  /\ cache' = None /\ op' = [op EXCEPT !.step = "dropped"]
  /\ UNCHANGED <<now, rows, live, lock, services, at, hand, torn>>

RemoveRow ==
  /\ op.step = "dropped"
  /\ handle' = 0 /\ grant' = 0 /\ op' = NoOp
  /\ UNCHANGED <<now, used, live, cache, lock, services, at, hand, torn>>

----------------------------------------------------------------------------
\* The answer is read within Delay of Google's minting the token.
Tick ==
  /\ now < LastTime
  /\ \A t \in Threads : at[t] = "storing" => now + 1 <= hand[t].token.until - Life + Delay
  /\ now' = now + 1
  /\ UNCHANGED <<rows, live, cache, lock, services, at, hand, op, torn>>

Call(t) == \/ Ask(t) \/ Enter(t) \/ Release(t) \/ ReleaseFails(t)
           \/ PostFails(t) \/ Post(t) \/ Store(t) \/ Pair(t)

Handoff == Consent \/ Settle \/ Forget \/ Revoke \/ DropCache \/ RemoveRow

Next == (\E t \in Threads : Call(t)) \/ Handoff \/ Tick

Spec == Init /\ [][Next]_vars

----------------------------------------------------------------------------
Tokens == [grant : 1..MaxConsents, until : 0..LastTime + Life]
Steps  == {"idle", "asking", "refreshing", "posting", "storing", "pairing"}

TypeOK ==
  /\ now \in 0..LastTime /\ handle \in 0..MaxConsents /\ grant \in 0..used
  /\ used \in 1..MaxConsents /\ live \subseteq 1..used
  /\ cache = None \/ cache \in [token : Tokens, expiry : 0..LastTime + Life]
  /\ lock \in Threads \union {None}
  /\ \A t \in Threads :
       /\ at[t] \in Steps
       /\ services[t] = None \/
            (services[t].handle \in 1..used /\ services[t].token \in Tokens \union {None})
       /\ lock = t => at[t] \in {"refreshing", "posting", "storing"}
  /\ torn \subseteq Threads

\* Once a sign-in or a deletion is over, the cached token comes from the
\* consent whose refresh token is on disk: a refresh that had read the record
\* before cannot put the old one back after the cache was dropped.
CacheIsCurrent == op.step = "none" /\ handle # 0 /\ cache # None => cache.token.grant = grant

\* No token is counted on for longer than Google honours it, whatever the
\* delay before the clock was read, except by a client that paired it with
\* the expiry of the token that replaced it.
TokenOutlivesItsExpiry ==
  /\ cache # None => cache.expiry <= cache.token.until
  /\ \A t \in Threads :
       services[t] # None /\ services[t].token # None /\ t \notin torn =>
         services[t].expiry <= services[t].token.until

\* A refresh costs the account one of the co-signer's grants, so a token is
\* replaced only when there is none or it is spent.
OneRefreshPerToken ==
  cache' # cache /\ cache' # None => cache = None \/ cache.expiry <= now

AccessTokensStep == CacheIsCurrent' /\ TokenOutlivesItsExpiry' /\ OneRefreshPerToken
AccessTokensHold == [][AccessTokensStep]_vars

\* forget_services(): "A re-consent changes which credentials a service
\* carries, so the cached one must not outlive it."  It reaches the clients of
\* its own thread only, so those of the daemon keep the deleted account's
\* handle when its address signs up again.
ServicesFollowSignUp ==
  op.step = "none" /\ handle # 0 =>
    \A t \in Threads : services[t] # None => services[t].handle = handle
=============================================================================
