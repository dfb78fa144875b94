-------------------------------- MODULE Voice --------------------------------
(* Building a voice profile: the daemon's table of generation jobs            *)
(* (voice_generation.py), the pages that start, follow and forget a job over  *)
(* the socket (handoff.py, handoff_server.py), and an account that is deleted *)
(* while a job runs.  A call over the socket may be answered, fail, or be     *)
(* served without the caller learning of it.                                  *)
(*                                                                            *)
(* What a write that races a deletion leaves on disk is Custody's.            *)
EXTENDS Naturals, Sequences, FiniteSetsExt

CONSTANTS
  Accounts, Tabs,
  AccountOf,         \* tab -> the account signed in there
  None,
  JOB_RETENTION,     \* how long a finished job stays readable
  AWAIT_TIMEOUT,     \* how long a deletion waits for a job
  LastTime, MaxRuns, MaxSignUps, MaxRestarts   \* bounds

VoiceAssumption ==
  /\ AccountOf \in [Tabs -> Accounts]
  /\ JOB_RETENTION \in Nat /\ AWAIT_TIMEOUT \in Nat /\ MaxSignUps \in Nat \ {0}
  /\ None \notin [state : {"running", "done", "failed"}, started : Nat, run : Nat]

VARIABLES
  clock,     \* the daemon's clock
  row,       \* account -> its sign-up, 0 when the manifest has no row
  jobs,      \* _JOBS: account -> [state, started, run] or None
  threads,   \* run -> how far its thread is
  page,      \* tab -> the request it is in
  restarts,
  runs,      \* history: what is known of every run
  forgotten  \* history: account -> how its last deletion waited

vars == <<clock, row, jobs, threads, page, restarts, runs, forgotten>>

Idle == [op |-> "none", seen |-> None, since |-> 0]
Running(a) == jobs[a] # None /\ jobs[a].state = "running"
SignedIn(t) == row[AccountOf[t]] # 0
Latest(a) == Max({r \in DOMAIN runs : runs[r].account = a} \cup {0})

Init ==
  /\ clock = 0
  /\ row = [a \in Accounts |-> 1]
  /\ jobs = [a \in Accounts |-> None] /\ threads = <<>>
  /\ page = [t \in Tabs |-> Idle]
  /\ restarts = 0 /\ runs = <<>>
  /\ forgotten = [a \in Accounts |-> [upTo |-> 0, how |-> "none"]]

-----------------------------------------------------------------------------
(* The table.  _prune_finished counts a job's age from its start.             *)
Old(job) == job # None /\ clock - job.started > JOB_RETENTION
PruneOld(table) == [a \in Accounts |-> IF Old(table[a]) THEN None ELSE table[a]]
PruneFinished(table) ==
  [a \in Accounts |-> IF Old(table[a]) /\ table[a].state # "running" THEN None ELSE table[a]]

\* A page over the socket: start() has the job begun, whether or not the answer
\* arrives.
Generate(t) ==
  LET a == AccountOf[t]  run == Len(runs) + 1 IN
  /\ page[t] = Idle /\ SignedIn(t)
  /\ ~Running(a)
  /\ run <= MaxRuns
  /\ jobs' = [jobs EXCEPT ![a] = [state |-> "running", started |-> clock, run |-> run]]
  /\ threads' = [r \in DOMAIN threads \cup {run} |-> IF r = run THEN "reading" ELSE threads[r]]
  /\ runs' = Append(runs, [account |-> a, row |-> row[a], began |-> clock,
                           told |-> FALSE, cut |-> FALSE, clearedFor |-> 0])
  /\ UNCHANGED <<clock, row, page, restarts, forgotten>>

\* GET /voice asks for the job, and prunes everybody's on the way.
Ask(t) ==
  /\ page[t] = Idle /\ SignedIn(t)
  /\ jobs' = PruneFinished(jobs)
  /\ \E answer \in {jobs'[AccountOf[t]], None} :
       page' = [page EXCEPT ![t] = IF answer = None \/ answer.state = "running" THEN Idle
                                   ELSE [op |-> "ask", seen |-> answer.run, since |-> 0]]
  /\ UNCHANGED <<clock, row, threads, restarts, runs, forgotten>>

\* clear_status: forget a job that is not running.
ClearStatus(table, a) ==
  [table EXCEPT ![a] = IF @ # None /\ @.state # "running" THEN None ELSE @]

\* The page with a job's outcome on it has the job forgotten first.
Render(t) ==
  LET a == AccountOf[t] IN
  /\ page[t].op = "ask"
  /\ page' = [page EXCEPT ![t] = Idle]
  /\ jobs' \in {jobs, ClearStatus(jobs, a)}
  /\ runs' = [r \in DOMAIN runs |->
       [runs[r] EXCEPT !.told = @ \/ r = page[t].seen,
                       !.clearedFor = IF jobs[a] # jobs'[a] /\ jobs[a].run = r THEN page[t].seen ELSE @]]
  /\ UNCHANGED <<clock, row, threads, restarts, forgotten>>

-----------------------------------------------------------------------------
(* The thread of a run: the sent mail, the model, the file, the pointer.      *)
At(r, step) == r \in DOMAIN threads /\ threads[r] = step
GoesTo(r, step) == threads' = [threads EXCEPT ![r] = step]

Collect(r) == /\ At(r, "reading") /\ \E step \in {"asking", "failed"} : GoesTo(r, step)
              /\ UNCHANGED <<clock, row, jobs, page, restarts, runs, forgotten>>

Synthesize(r) == /\ At(r, "asking") /\ \E step \in {"writing", "failed"} : GoesTo(r, step)
                 /\ UNCHANGED <<clock, row, jobs, page, restarts, runs, forgotten>>

\* save(): the document and then the manifest's pointer at it, each refused for
\* an account that is gone.
Save(r, step, next) ==
  /\ At(r, step)
  /\ GoesTo(r, IF row[runs[r].account] = 0 THEN "failed" ELSE next)
  /\ UNCHANGED <<clock, row, jobs, page, restarts, runs, forgotten>>

Finish(r) ==
  LET a == runs[r].account IN
  /\ \E state \in {"done", "failed"} :
       /\ At(r, state)
       /\ jobs' = [jobs EXCEPT ![a] = [state |-> state, run |-> r,
                     started |-> IF @ = None THEN clock ELSE @.started]]
  /\ threads' = [x \in DOMAIN threads \ {r} |-> threads[x]]
  /\ UNCHANGED <<clock, row, page, restarts, runs, forgotten>>

Run(r) == \/ Collect(r) \/ Synthesize(r)
          \/ Save(r, "writing", "pointing") \/ Save(r, "pointing", "done")
          \/ Finish(r)

-----------------------------------------------------------------------------
(* Deleting the account: the daemon waits for the job, then the row goes.     *)
BeginDelete(t) ==
  /\ page[t] = Idle /\ SignedIn(t)
  /\ page' = [page EXCEPT ![t] = [op |-> "delete", seen |-> None, since |-> clock]]
  /\ UNCHANGED <<clock, row, jobs, threads, restarts, runs, forgotten>>

\* await_job, as the answer it comes back with.
AwaitJob(t, how) ==
  LET a == AccountOf[t] IN
  \/ how = "finished" /\ ~Running(a) /\ jobs' = [jobs EXCEPT ![a] = None]
  \/ how = "timeout" /\ Running(a) /\ clock - page[t].since >= AWAIT_TIMEOUT /\ UNCHANGED jobs

Forget(t) ==
  LET a == AccountOf[t] IN
  /\ page[t].op = "delete"
  /\ \E how \in {"finished", "timeout", "unreached"} :
       /\ IF how = "unreached" THEN jobs' \in {jobs, ClearStatus(jobs, a)} ELSE AwaitJob(t, how)
       /\ forgotten' = [forgotten EXCEPT ![a] = [upTo |-> Latest(a), how |-> how]]
  /\ page' = [page EXCEPT ![t].op = "remove", ![t].since = 0]
  /\ UNCHANGED <<clock, row, threads, restarts, runs>>

Remove(t) ==
  /\ page[t].op = "remove"
  /\ row' = [row EXCEPT ![AccountOf[t]] = 0]
  /\ page' = [page EXCEPT ![t] = Idle]
  /\ UNCHANGED <<clock, jobs, threads, restarts, runs, forgotten>>

SignUps(a) == {runs[r].row : r \in {r \in DOMAIN runs : runs[r].account = a}} \cup {1}

SignUp(a) ==
  /\ row[a] = 0 /\ Max(SignUps(a)) < MaxSignUps
  /\ row' = [row EXCEPT ![a] = Max(SignUps(a)) + 1]
  /\ UNCHANGED <<clock, jobs, threads, page, restarts, runs, forgotten>>

\* The daemon restarts: the table and the threads are gone, and a deletion that
\* waits is told that the daemon cannot be reached.
Restart ==
  /\ restarts < MaxRestarts /\ restarts' = restarts + 1
  /\ jobs' = [a \in Accounts |-> None] /\ threads' = <<>>
  /\ runs' = [r \in DOMAIN runs |-> [runs[r] EXCEPT !.cut = TRUE]]
  /\ UNCHANGED <<clock, row, page, forgotten>>

Tick == clock < LastTime /\ clock' = clock + 1
        /\ UNCHANGED <<row, jobs, threads, page, restarts, runs, forgotten>>

Serve(t) == \/ Generate(t) \/ Ask(t) \/ Render(t)
            \/ BeginDelete(t) \/ Forget(t) \/ Remove(t)

Next == \/ \E t \in Tabs : Serve(t)
        \/ \E r \in DOMAIN threads : Run(r)
        \/ \E a \in Accounts : SignUp(a)
        \/ Restart \/ Tick

Spec == Init /\ [][Next]_vars

-----------------------------------------------------------------------------
TypeOK ==
  /\ clock \in 0..LastTime /\ row \in [Accounts -> 0..MaxSignUps]
  /\ \A a \in Accounts : jobs[a] # None =>
       /\ jobs[a].state \in {"running", "done", "failed"}
       /\ jobs[a].run \in DOMAIN runs /\ jobs[a].started <= clock
  /\ DOMAIN threads \subseteq DOMAIN runs
  /\ \A t \in Tabs : page[t].op \in {"none", "ask", "delete", "remove"}

\* A second press, in whatever tab, starts no second sweep of the mailbox.
\* (start's docstring)
OneRunPerAccount ==
  \A r, s \in DOMAIN threads : runs[r].account = runs[s].account => r = s

\* A page that waits is waiting for a thread, and a thread's account is busy.
WaitingEnds ==
  \A a \in Accounts : Running(a) <=> \E r \in DOMAIN threads : runs[r].account = a

\* An outcome leaves the table only after a page showed it, or once it is old
\* enough, counted from the start; unless the account asked again or was
\* deleted, the daemon restarted, or a page cleared it that had seen another.
\* (status, clear_status, _prune_finished)
OutcomeTold ==
  \A r \in DOMAIN runs :
    LET a == runs[r].account IN
    \/ r \in DOMAIN threads \/ runs[r].told
    \/ jobs[a] # None /\ jobs[a].run = r
    \/ clock - runs[r].began > JOB_RETENTION
    \/ Latest(a) > r \/ row[a] # runs[r].row \/ forgotten[a].upTo >= r
    \/ runs[r].cut \/ runs[r].clearedFor \notin {0, r}

\* A deletion leaves no run behind, except one that outlasted the wait, one the
\* wait did not reach, or one that was asked for after the wait.
\* (await_job's docstring)
DeletionWaits ==
  \A r \in DOMAIN threads :
    LET a == runs[r].account IN
    row[a] # runs[r].row => forgotten[a].how \in {"timeout", "unreached"} \/ r > forgotten[a].upTo

VoiceJobsHold == OneRunPerAccount /\ WaitingEnds /\ OutcomeTold /\ DeletionWaits
=============================================================================
