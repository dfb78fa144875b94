------------------------------- MODULE AuditTrail -------------------------------
(* The web tier's audit log (backend/audit.py): one row for each change of an  *)
(* account, written by the mutator that saved it, with the browser's address   *)
(* that the thread carries, and pruned by age from both processes.             *)
(*                                                                             *)
(* Two processes write the file, each with a connection, a lock and a mark of  *)
(* its last prune.  What a row says beside its origin and date is left out.    *)
EXTENDS Integers, Sequences, FiniteSets

CONSTANTS
  WebThreads, Daemon,        \* threads serving browsers; the daemon's loop
  Sources, None,
  RETENTION, PRUNE_INTERVAL,
  WAKE_POLL,                 \* the longest the daemon's loop waits
  LastTime, MaxChanges, MaxFaults, MaxCrashes   \* bounds

AuditTrailAssumption ==
  /\ RETENTION \in Nat /\ PRUNE_INTERVAL \in Nat /\ WAKE_POLL \in Nat
  /\ Daemon \notin WebThreads /\ None \notin Sources

Threads == WebThreads \union {Daemon}
Processes == {"web", "daemon"}
ProcessOf(t) == IF t = Daemon THEN "daemon" ELSE "web"

VARIABLES
  clock,
  origin,     \* thread -> _ORIGIN.value
  serves,     \* thread -> whose request it serves
  at,         \* thread -> where it is in a change
  events,     \* the rows: [change, ts, source]
  lastPrune,  \* process -> _LAST_PRUNE
  lastPass,   \* when the daemon's loop last went round
  made,       \* history: change -> [by, source, ts, fate]
  faults,     \* history: writes to the file that failed
  crashes

vars == <<clock, origin, serves, at, events, lastPrune, lastPass, made, faults, crashes>>

Idle == [step |-> "idle", now |-> 0, change |-> 0]

\* The clock is far past zero, so a new process prunes the first time it is asked.
Init ==
  /\ clock = RETENTION + PRUNE_INTERVAL
  /\ origin = [t \in Threads |-> None] /\ serves = origin
  /\ at = [t \in Threads |-> Idle]
  /\ events = {} /\ lastPrune = [p \in Processes |-> 0] /\ lastPass = clock
  /\ made = <<>> /\ faults = 0 /\ crashes = 0

-------------------------------------------------------------------------------
Becomes(t, place) == at' = [at EXCEPT ![t] = place]
GoesTo(t, step) == at' = [at EXCEPT ![t].step = step]
Fate(c, fate) == made' = [made EXCEPT ![c].fate = fate]
Fault == faults < MaxFaults /\ faults' = faults + 1

SetOriginForAll(t, source) == [other \in Threads |-> source]

\* request_context: the thread's own value, and the previous one at the end.
SetOrigin(t, source) == [origin EXCEPT ![t] = source]

Request(t) ==
  /\ t # Daemon /\ serves[t] = None
  /\ \E s \in Sources : serves' = [serves EXCEPT ![t] = s] /\ origin' = SetOrigin(t, s)
  /\ UNCHANGED <<clock, at, events, lastPrune, lastPass, made, faults, crashes>>

Respond(t) ==
  /\ serves[t] # None /\ at[t] = Idle
  /\ serves' = [serves EXCEPT ![t] = None] /\ origin' = SetOrigin(t, None)
  /\ UNCHANGED <<clock, at, events, lastPrune, lastPass, made, faults, crashes>>

\* A mutator's transaction: the manifest is saved, and the row is to come.  The
\* daemon's own changes, and those a browser had handed to it, have no origin.
Change(t) ==
  /\ at[t] = Idle /\ (t = Daemon \/ serves[t] # None) /\ Len(made) < MaxChanges
  /\ made' = Append(made, [by |-> t, source |-> serves[t], ts |-> None, fate |-> "saved"])
  /\ Becomes(t, [step |-> "record", now |-> 0, change |-> Len(made) + 1])
  /\ UNCHANGED <<clock, origin, serves, events, lastPrune, lastPass, faults, crashes>>

\* record(): the row is committed, or the write fails and the mutator with it.
Record(t) ==
  /\ at[t].step = "record"
  /\ LET c == at[t].change IN
     \/ /\ events' = events \union {[change |-> c, ts |-> clock, source |-> origin[t]]}
        /\ made' = [made EXCEPT ![c].ts = clock, ![c].fate = "recorded"]
        /\ Becomes(t, [at[t] EXCEPT !.step = "prune?", !.now = clock])
        /\ UNCHANGED faults
     \/ /\ Fault /\ Fate(c, "told") /\ Becomes(t, Idle) /\ UNCHANGED events
  /\ UNCHANGED <<clock, origin, serves, lastPrune, lastPass, crashes>>

\* prune_audit(), once in each round of the daemon's loop.
Pass ==
  /\ at[Daemon] = Idle
  /\ lastPass' = clock
  /\ Becomes(Daemon, [step |-> "prune?", now |-> clock, change |-> 0])
  /\ UNCHANGED <<clock, origin, serves, events, lastPrune, made, faults, crashes>>

\* maybe_prune(): the interval is marked before the rows are deleted.
MaybePrune(t) ==
  /\ at[t].step = "prune?"
  /\ LET p == ProcessOf(t) IN
     IF at[t].now - lastPrune[p] < PRUNE_INTERVAL
     THEN Becomes(t, Idle) /\ UNCHANGED lastPrune
     ELSE GoesTo(t, "prune") /\ lastPrune' = [lastPrune EXCEPT ![p] = at[t].now]
  /\ UNCHANGED <<clock, origin, serves, events, lastPass, made, faults, crashes>>

\* prune(): a failure ends a recorded change as well, and is only logged by the
\* daemon's loop.
Prune(t) ==
  /\ at[t].step = "prune"
  /\ \/ /\ events' = {e \in events : e.ts >= at[t].now - RETENTION}
        /\ UNCHANGED <<made, faults>>
     \/ /\ Fault /\ UNCHANGED <<events, made>>
  /\ Becomes(t, Idle)
  /\ UNCHANGED <<clock, origin, serves, lastPrune, lastPass, crashes>>

Crash(p) ==
  /\ crashes < MaxCrashes /\ crashes' = crashes + 1
  /\ LET theirs == {t \in Threads : ProcessOf(t) = p} IN
     /\ made' = [c \in DOMAIN made |->
                   IF made[c].by \in theirs /\ made[c].fate = "saved"
                   THEN [made[c] EXCEPT !.fate = "crashed"] ELSE made[c]]
     /\ at' = [t \in Threads |-> IF t \in theirs THEN Idle ELSE at[t]]
     /\ serves' = [t \in Threads |-> IF t \in theirs THEN None ELSE serves[t]]
     /\ origin' = [t \in Threads |-> IF t \in theirs THEN None ELSE origin[t]]
  /\ lastPrune' = [lastPrune EXCEPT ![p] = 0]
  /\ UNCHANGED <<clock, events, lastPass, faults>>

\* The daemon's loop goes round in time, and a change is over by then.
Tick ==
  /\ clock < LastTime /\ clock' = clock + 1
  /\ clock - lastPass < WAKE_POLL
  /\ \A t \in Threads : at[t] = Idle
  /\ UNCHANGED <<origin, serves, at, events, lastPrune, lastPass, made, faults, crashes>>

Next == \/ \E t \in Threads : \/ Request(t) \/ Respond(t) \/ Change(t) \/ Record(t)
                              \/ MaybePrune(t) \/ Prune(t)
        \/ Pass \/ Tick
        \/ \E p \in Processes : Crash(p)

Spec == Init /\ [][Next]_vars

-------------------------------------------------------------------------------
TypeOK ==
  /\ \A e \in events : e.change \in DOMAIN made /\ e.ts <= clock
  /\ \A t \in Threads : at[t].step \in {"idle", "record", "prune?", "prune"}
  /\ \A t \in Threads : lastPrune[ProcessOf(t)] <= clock

\* A saved change has its row for as long as rows are kept, under the address of
\* the request that made it and no other thread's, unless whoever made it was
\* given an error or the process died.  (record: "A failing write propagates")
ChangesOnRecord ==
  \A c \in DOMAIN made :
    /\ made[c].fate = "saved" => \E t \in Threads : at[t].step = "record" /\ at[t].change = c
    /\ made[c].fate = "recorded" =>
         \/ \E e \in events : e.change = c /\ e.ts = made[c].ts /\ e.source = made[c].source
         \/ clock - made[c].ts > RETENTION

\* No row outlives its retention by more than an interval and a round of the
\* daemon's loop; by as much again for each prune that failed, the failing one
\* having spent its interval; and by a round for each process that died, which
\* may have been about to prune.
RowsAge ==
  \A e \in events :
    clock - e.ts <= RETENTION + (faults + 1) * (PRUNE_INTERVAL + WAKE_POLL)
                    + crashes * WAKE_POLL

TrailHolds == ChangesOnRecord /\ RowsAge
===============================================================================
