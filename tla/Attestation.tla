---------------------------- MODULE Attestation ----------------------------
(***************************************************************************)
(* Who is on the other end, and for how long an answer stands: the quote   *)
(* policy and its cache of verdicts (backend/tee/quote_policy.py), used by *)
(* the enclave on the endpoint mail is sent to                             *)
(* (backend/integrations/inference_attestation.py) and by the co-signer on *)
(* the enclave that asks it for keys (cosigner/attest.py).                 *)
(*                                                                         *)
(* The other side is honest and not always the one that was reviewed: a    *)
(* hostname is a pool of machines that share a signing key, a machine      *)
(* starts and stops containers, Intel moves the required TCB level, and    *)
(* the collateral server is sometimes out of reach.                        *)
(***************************************************************************)
EXTENDS Naturals, Sequences

CONSTANTS
  Threads, None,
  Machines,      \* what may answer
  Pinned,        \* those whose measurement an allowlist that has entries names
  AddressOf,     \* Machines -> signing key
  Files,         \* compose files a machine may start
  Authorized,    \* those the allowlist names
  RECHECK_SECONDS, FAILURE_RECHECK_SECONDS,
  Delay,         \* bound: from a quote's check to the verdict's being cached
  LastTime, MaxActions    \* bounds

AttestationAssumption ==
  /\ Pinned \subseteq Machines /\ Authorized \subseteq Files
  /\ FAILURE_RECHECK_SECONDS \in Nat \ {0} /\ RECHECK_SECONDS \in Nat /\ Delay \in Nat
  /\ FAILURE_RECHECK_SECONDS < RECHECK_SECONDS

VARIABLES
  now,
  verifier,   \* "inference" or "cosigner"
  allowlist,  \* [mode, entries, expires]: the file, read once
  healthy,    \* the platform's TCB status is an allowed one
  reachable,  \* the collateral server answers
  log,        \* machine -> the actions its compose manager has attested
  cache,      \* subject -> [verdict, put]
  at,         \* thread -> "idle", "looking", "checking", "caching"
  report,     \* thread -> the machine that answered it, with its log
  answer      \* thread -> the last verdict it was given, with what it is for

world == <<healthy, reachable, log>>
vars  == <<now, verifier, allowlist, world, cache, at, report, answer>>

\* Compose files brought up and not brought down since.
Started(actions) ==
  {f \in Files : \E i \in DOMAIN actions :
     /\ actions[i] = <<"compose_up", f>>
     /\ \A j \in i + 1..Len(actions) : actions[j] # <<"compose_down", f>>}

\* What a verdict is kept under: everything that decides it.
SubjectByAddress(r) == <<AddressOf[r.machine]>>
Subject(r) == IF verifier = "cosigner" THEN <<r.machine>>
              ELSE <<AddressOf[r.machine], r.machine, r.log>>

Init ==
  /\ now = 0 /\ verifier \in {"inference", "cosigner"}
  /\ allowlist \in [mode : {"required", "dev-insecure"}, entries : BOOLEAN,
                    expires : {None, 0}]
  /\ healthy = TRUE /\ reachable = TRUE
  /\ log = [m \in Machines |-> <<>>] /\ cache = <<>>
  /\ at = [t \in Threads |-> "idle"]
  /\ report = [t \in Threads |-> None] /\ answer = [t \in Threads |-> None]

\* mode(): the escape hatch closes when the box is provisioned, and on a date
\* it has to name; then nothing is decided at all.
Refuses == /\ allowlist.mode = "dev-insecure"
           /\ \/ allowlist.entries
              \/ allowlist.expires = None
              \/ allowlist.expires # None /\ now > allowlist.expires
Required == allowlist.mode = "required"

Verdict(ok) == [ok |-> ok, checked |-> now]
Given(r, verdict) == [ok |-> verdict.ok, checked |-> verdict.checked,
                      machine |-> r.machine, log |-> r.log, given |-> now]

----------------------------------------------------------------------------
Unverified(t, m) ==
  /\ at[t] = "idle" /\ ~Required
  /\ answer' = [answer EXCEPT ![t] =
       Given([machine |-> m, log |-> log[m]],
             Verdict(~Refuses))]
  /\ UNCHANGED <<now, verifier, allowlist, world, cache, at, report>>

\* fetch(): some machine of the pool answers, with our nonce and our model.
Fetch(t, m) ==
  /\ at[t] = "idle" /\ Required
  /\ report' = [report EXCEPT ![t] = [machine |-> m, log |-> log[m]]]
  /\ at' = [at EXCEPT ![t] = "looking"]
  /\ answer' = [answer EXCEPT ![t] = None]
  /\ UNCHANGED <<now, verifier, allowlist, world, cache>>

TTLOfAPass(verdict) == RECHECK_SECONDS
TTL(verdict) == IF verdict.ok THEN RECHECK_SECONDS ELSE FAILURE_RECHECK_SECONDS

Stale(entry) == now' - entry.put >= TTL(entry.verdict)

\* get() passes over a stale entry; here the clock takes it away.
Cached(r) == IF Subject(r) \in DOMAIN cache THEN cache[Subject(r)].verdict ELSE None

Look(t) ==
  /\ at[t] = "looking"
  /\ LET cached == Cached(report[t])
     IN IF cached = None
        THEN at' = [at EXCEPT ![t] = "checking"] /\ UNCHANGED <<answer, report>>
        ELSE /\ at' = [at EXCEPT ![t] = "idle"]
             /\ report' = [report EXCEPT ![t] = None]
             /\ answer' = [answer EXCEPT ![t] = Given(report[t], cached)]
  /\ UNCHANGED <<now, verifier, allowlist, world, cache>>

\* verify(), and for an endpoint the log of what it has run since it booted.
Decide(r) == /\ allowlist.entries /\ r.machine \in Pinned
             /\ reachable /\ healthy
             /\ verifier = "inference" => Started(r.log) \subseteq Authorized

Check(t) ==
  /\ at[t] = "checking"
  /\ answer' = [answer EXCEPT ![t] = Given(report[t], Verdict(Decide(report[t])))]
  /\ at' = [at EXCEPT ![t] = "caching"]
  /\ UNCHANGED <<now, verifier, allowlist, world, cache, report>>

\* put(): stamped with the time it is kept, not the time it was checked; the
\* last of two threads wins.
Put(t) ==
  /\ at[t] = "caching"
  /\ LET entry == [verdict |-> [ok |-> answer[t].ok, checked |-> answer[t].checked], put |-> now]
         subject == Subject(report[t])
     IN cache' = [s \in DOMAIN cache \union {subject} |->
                    IF s = subject THEN entry ELSE cache[s]]
  /\ answer' = [answer EXCEPT ![t].given = now]
  /\ at' = [at EXCEPT ![t] = "idle"]
  /\ report' = [report EXCEPT ![t] = None]
  /\ UNCHANGED <<now, verifier, allowlist, world>>

----------------------------------------------------------------------------
Compose(m, verb, f) ==
  /\ verifier = "inference" /\ Required /\ Len(log[m]) < MaxActions
  /\ log' = [log EXCEPT ![m] = Append(@, <<verb, f>>)]
  /\ UNCHANGED <<now, verifier, allowlist, healthy, reachable, cache, at, report, answer>>

TcbMoves ==
  /\ healthy /\ healthy' = FALSE
  /\ UNCHANGED <<now, verifier, allowlist, reachable, log, cache, at, report, answer>>

Outage ==
  /\ Required /\ reachable' = ~reachable
  /\ UNCHANGED <<now, verifier, allowlist, healthy, log, cache, at, report, answer>>

Tick ==
  /\ now < LastTime
  /\ \A t \in Threads : at[t] = "caching" => now < answer[t].checked + Delay
  /\ now' = now + 1
  /\ cache' = [s \in {s \in DOMAIN cache : ~Stale(cache[s])} |-> cache[s]]
  /\ UNCHANGED <<verifier, allowlist, world, at, report, answer>>

Verify(t) == \/ \E m \in Machines : Unverified(t, m) \/ Fetch(t, m)
             \/ Look(t) \/ Check(t) \/ Put(t)

Next == \/ \E t \in Threads : Verify(t)
        \/ \E m \in Machines, verb \in {"compose_up", "compose_down"}, f \in Files :
             Compose(m, verb, f)
        \/ TcbMoves \/ Outage \/ Tick

Spec == Init /\ [][Next]_vars

----------------------------------------------------------------------------
Answered == {t \in Threads : answer[t] # None}

TypeOK ==
  /\ now \in 0..LastTime /\ healthy \in BOOLEAN /\ reachable \in BOOLEAN
  /\ \A m \in Machines : log[m] \in Seq({"compose_up", "compose_down"} \X Files)
  /\ \A s \in DOMAIN cache : cache[s].put \in 0..now /\ cache[s].verdict.checked \in 0..cache[s].put
  /\ \A t \in Threads : at[t] \in {"idle", "looking", "checking", "caching"}
  /\ \A t \in Answered : answer[t].ok \in BOOLEAN /\ answer[t].checked \in 0..answer[t].given

\* A pass is given only to a machine that is itself pinned and runs nothing the
\* allowlist does not name, from a check made within a day and the time it took
\* to keep it; or on a box nobody has provisioned, before the date it names.
PassJustified ==
  \A t \in Answered : answer[t].ok =>
    LET a == answer[t]
    IN IF Required
       THEN /\ a.machine \in Pinned
            /\ verifier = "inference" => Started(a.log) \subseteq Authorized
            /\ a.given < a.checked + RECHECK_SECONDS + Delay
       ELSE ~allowlist.entries /\ a.given <= allowlist.expires

\* "Holding the second one as long as the first is how a five-second outage
\* becomes a day with no drafts": no refusal is given for longer than a minute
\* after the check that found it.
RefusalBrief ==
  \A t \in Answered : ~answer[t].ok =>
    answer[t].given < answer[t].checked + FAILURE_RECHECK_SECONDS + Delay

\* Both halves of what a verdict is kept for.
VerdictsHold == PassJustified /\ RefusalBrief
=============================================================================
