----------------------------- MODULE SigningCerts -----------------------------
(* The webhook's verdict on a push: Google's signing certificates, cached by  *)
(* SigningCerts and shared by the threads of the server, and verify_jwt, which *)
(* answers 204, 401 or 503 (gmail_hook_server.py).  Google rotates its keys    *)
(* and withdraws old ones; a fetch takes time, and may fail.                   *)
(*                                                                             *)
(* A token is the key that signed it: its claims and dates are in order.       *)
(* Spooling an accepted push is MailPipeline's.                                *)
EXTENDS Integers, FiniteSetsExt

CONSTANTS
  Threads, None,
  CERTS_TTL_MIN, CERTS_TTL_MAX, CERTS_REFETCH_FLOOR, CERTS_FETCH_TIMEOUT,
  Stated,                          \* lifetimes the endpoint may state
  LastTime, MaxKeys, MaxPushes     \* bounds

SigningCertsAssumption ==
  /\ {CERTS_TTL_MIN, CERTS_TTL_MAX, CERTS_REFETCH_FLOOR} \subseteq Nat \ {0}
  /\ CERTS_REFETCH_FLOOR <= CERTS_TTL_MIN /\ CERTS_TTL_MIN <= CERTS_TTL_MAX
  /\ Stated \subseteq Nat /\ MaxKeys \in Nat \ {0} /\ None \notin Threads \cup Nat

VARIABLES
  now,
  signing,    \* Google's newest key; key 0 is nobody's
  published,  \* the keys Google publishes
  gone,       \* history: key -> when it was withdrawn, or None
  cached,     \* _certs, _fetched, _expires
  lock,       \* _lock: the thread that holds it, or None
  push,       \* thread -> the push it serves
  arrivals,
  last,       \* history: the last fetch and whether it worked
  hurried     \* history: a fetch began too soon after one that worked

vars == <<now, signing, published, gone, cached, lock, push, arrivals, last, hurried>>

NoPush == [step |-> "idle", kid |-> 0, code |-> 0, at |-> 0, had |-> 0, met |-> "none"]

Init ==
  /\ now = 0 /\ signing = 1 /\ published = {1} /\ gone = [k \in 1..MaxKeys |-> None]
  /\ cached = [keys |-> {}, fetched |-> 0, expires |-> 0]
  /\ lock = None /\ push = [t \in Threads |-> NoPush] /\ arrivals = 0
  /\ last = [at |-> 0, ok |-> FALSE] /\ hurried = FALSE

LifetimeAsStated(stated) == Max({stated, CERTS_TTL_MIN})

\* cache_lifetime
Lifetime(stated) == Min({Max({stated, CERTS_TTL_MIN}), CERTS_TTL_MAX})

Expired == now >= cached.expires
MayRefetch(kid) == kid \notin cached.keys /\ now - cached.fetched >= CERTS_REFETCH_FLOOR

\* What decoding under these certificates comes to.
Verdict(kid, keys) == IF kid \in keys THEN 204 ELSE 401

\* A push that Google signed with a key it has or had, or one that nobody's key
\* signed.
Arrive(t) ==
  /\ push[t].step = "idle" /\ arrivals < MaxPushes
  /\ \E kid \in 0..signing : push' = [push EXCEPT ![t] = [NoPush EXCEPT !.step = "waits", !.kid = kid]]
  /\ arrivals' = arrivals + 1
  /\ UNCHANGED <<now, signing, published, gone, cached, lock, last, hurried>>

\* for_kid up to a fetch, or to its end when the set will do.
Enter(t) ==
  /\ push[t].step = "waits" /\ lock = None
  /\ IF Expired \/ MayRefetch(push[t].kid)
     THEN /\ push' = [push EXCEPT ![t].step = IF Expired THEN "must" ELSE "may", ![t].at = now]
          /\ lock' = t
     ELSE /\ push' = [push EXCEPT ![t] = [@ EXCEPT !.step = "answered", !.at = now,
                        !.code = Verdict(push[t].kid, cached.keys), !.had = cached.fetched]]
          /\ UNCHANGED lock
  /\ UNCHANGED <<now, signing, published, gone, cached, arrivals, last, hurried>>

\* The fetch ends, and the thread with it: _refresh dates the set from before
\* the fetch, and a failure is dated nowhere.
Fetched(t) ==
  /\ push[t].step \in {"must", "may"}
  /\ \E ok \in BOOLEAN :
       /\ last' = [at |-> push[t].at, ok |-> ok]
       /\ IF ok THEN \E s \in Stated : cached' = [keys |-> published, fetched |-> push[t].at,
                                                  expires |-> push[t].at + Lifetime(s)]
          ELSE UNCHANGED cached
       /\ push' = [push EXCEPT ![t] = [@ EXCEPT !.step = "answered", !.at = now,
            !.code = IF ~ok /\ push[t].step = "must" THEN 503 ELSE Verdict(push[t].kid, cached'.keys),
            !.had = cached'.fetched, !.met = IF ok THEN "fetch" ELSE "failure"]]
  /\ hurried' = (hurried \/ (last.ok /\ push[t].at - last.at < CERTS_REFETCH_FLOOR))
  /\ lock' = None
  /\ UNCHANGED <<now, signing, published, gone, arrivals>>

\* Google signs with a new key, which it publishes beside the old one, and in
\* time stops publishing the old.
Rotate ==
  /\ signing < MaxKeys /\ signing' = signing + 1
  /\ published' = {signing, signing + 1}
  /\ gone' = [k \in 1..MaxKeys |-> IF k \in published \ published' THEN now ELSE gone[k]]
  /\ UNCHANGED <<now, cached, lock, push, arrivals, last, hurried>>

Withdraw ==
  /\ published # {signing} /\ published' = {signing}
  /\ gone' = [k \in 1..MaxKeys |-> IF k \in published \ published' THEN now ELSE gone[k]]
  /\ UNCHANGED <<now, signing, cached, lock, push, arrivals, last, hurried>>

Restart ==
  /\ cached # [keys |-> {}, fetched |-> 0, expires |-> 0]
  /\ cached' = [keys |-> {}, fetched |-> 0, expires |-> 0]
  /\ lock' = None /\ push' = [t \in Threads |-> NoPush] /\ last' = [at |-> 0, ok |-> FALSE]
  /\ UNCHANGED <<now, signing, published, gone, arrivals, hurried>>

\* No thread waits for a lock that is free, and an answer has left by then.
Tick ==
  /\ now < LastTime /\ now' = now + 1
  /\ lock = None => \A t \in Threads : push[t].step # "waits"
  /\ lock # None => now - push[lock].at < CERTS_FETCH_TIMEOUT
  /\ push' = [t \in Threads |-> IF push[t].step = "answered" THEN NoPush ELSE push[t]]
  /\ UNCHANGED <<signing, published, gone, cached, lock, arrivals, last, hurried>>

Next == \/ \E t \in Threads : Arrive(t) \/ Enter(t) \/ Fetched(t)
        \/ Rotate \/ Withdraw \/ Restart \/ Tick

Spec == Init /\ [][Next]_vars

-------------------------------------------------------------------------------
Answered(t, code) == push[t].step = "answered" /\ push[t].code = code

\* A key that Google withdrew is trusted for less than CERTS_TTL_MAX longer,
\* whatever lifetime was stated and whatever fails.  (cache_lifetime)
WithdrawnKeysGo ==
  \A t \in Threads : Answered(t, 204) =>
    \/ gone[push[t].kid] = None \/ gone[push[t].kid] > push[t].at
    \/ push[t].at - gone[push[t].kid] < CERTS_TTL_MAX

\* A push under a key that Google publishes still is refused for good only when
\* the set is younger than the floor, or when its own refetch failed.
\* (verify_jwt: "401 is the verdict on the token, 503 is our own inability")
GenuineRefused ==
  \A t \in Threads : Answered(t, 401) /\ push[t].kid # 0 /\ gone[push[t].kid] = None =>
    \/ push[t].met = "failure"
    \/ push[t].met = "none" /\ push[t].at - push[t].had < CERTS_REFETCH_FLOOR

\* Two fetches begin less than the floor apart only when the first one failed.
\* (SigningCerts: "rate limited to one fetch per CERTS_REFETCH_FLOOR")
FetchesSpaced == ~hurried

CertsHold == WithdrawnKeysGo /\ GenuineRefused /\ FetchesSpaced

TypeOK ==
  /\ published \subseteq 1..signing /\ cached.keys \subseteq 1..signing
  /\ lock # None <=> \E t \in Threads : push[t].step \in {"must", "may"}
  /\ \A t \in Threads : push[t].code \in {0, 204, 401, 503}
===============================================================================
