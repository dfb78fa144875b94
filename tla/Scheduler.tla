----------------------------- MODULE Scheduler -----------------------------
(***************************************************************************)
(* The schedule and the thread of the mail daemon that runs it             *)
(* (backend/daemons/scheduler.py), with the daily summary's sweep over the *)
(* accounts (backend/drafting/email_summary.py) as the job a person sees.  *)
(* The other two jobs are sweeps of the same shape.                        *)
(*                                                                         *)
(* Time is counted in minutes of a calendar whose hours, days and weeks    *)
(* are short.  The daemon may die or restart at any step; a job takes as   *)
(* long as it takes; the marker file is truncated before it is written.    *)
(***************************************************************************)
EXTENDS Naturals, Sequences, FiniteSetsExt

CONSTANTS
  SCHEDULE,     \* the jobs, in order: <<[name, hours, minute, weekday], ...>>
  Accounts,     \* active accounts with a linked chat
  None,
  MinutesPerHour, HoursPerDay, DaysPerWeek,   \* bounds: a short calendar
  LastMinute,   \* bound: when the clock stops
  MaxFaults     \* bound: deaths, lost files and failed saves

SUMMARY == "email-summary"
Jobs == {SCHEDULE[i].name : i \in DOMAIN SCHEDULE}

\* Cadence's assertions, of every job; and each job has a name of its own.
SchedulerAssumption ==
  /\ {MinutesPerHour, HoursPerDay, DaysPerWeek} \subseteq Nat \ {0} /\ None \notin Nat
  /\ SUMMARY \in Jobs /\ {LastMinute, MaxFaults} \subseteq Nat
  /\ Len(SCHEDULE) \in Nat /\ DOMAIN SCHEDULE = 1..Len(SCHEDULE)
  /\ \A i \in DOMAIN SCHEDULE :
       /\ SCHEDULE[i].hours # {} /\ SCHEDULE[i].hours \subseteq 0..HoursPerDay - 1
       /\ SCHEDULE[i].minute \in 0..MinutesPerHour - 1
       /\ SCHEDULE[i].weekday \in {None} \union (0..DaysPerWeek - 1)
       /\ \A k \in DOMAIN SCHEDULE : SCHEDULE[k].name = SCHEDULE[i].name => k = i

VARIABLES
  now,        \* the wall clock
  file,       \* state/schedule.json: job -> when it last ran, or None
  at,         \* where the thread is
  marks,      \* its copy of the file
  ready,      \* the places of the jobs this tick still has to run, in order
  ran,        \* the jobs this tick has begun
  todo,       \* accounts the running summary has not reached
  faults,
  runs,       \* history: job -> runs begun for its last firing
  lost,       \* history: job -> of those, runs whose mark was never saved
  summaries,  \* history: account -> summaries sent for the last firing
  owed        \* history: jobs that fired and have not finished a run since

tick    == <<marks, ready, ran, todo>>
history == <<runs, lost, summaries, owed>>
vars    == <<now, file, at, tick, faults, history>>

Times == 0..LastMinute
NoMarks == [j \in Jobs |-> None]

----------------------------------------------------------------------------
(* Cadences.                                                               *)

Hour(t)    == (t \div MinutesPerHour) % HoursPerDay
Weekday(t) == (t \div (MinutesPerHour * HoursPerDay)) % DaysPerWeek

\* A cadence searches this many hours: its longest gap and a day more.
HORIZON_HOURS == (DaysPerWeek + 1) * HoursPerDay

NextAfter(job, moment) ==
  LET start == moment - (moment % MinutesPerHour) + job.minute
  IN Min({t \in {start + step * MinutesPerHour : step \in 0..HORIZON_HOURS - 1} :
            t > moment /\ Hour(t) \in job.hours /\ job.weekday \in {None, Weekday(t)}})

\* What a cadence means, to hold it against.
Fires(job, t) == /\ t % MinutesPerHour = job.minute
                 /\ Hour(t) \in job.hours
                 /\ job.weekday \in {None, Weekday(t)}

\* Broken variant: a job is due only in the minute it is scheduled for.
DueOnTheMinute(known) ==
  {i \in DOMAIN SCHEDULE : known[SCHEDULE[i].name] # None /\ Fires(SCHEDULE[i], now)}

\* A job with no mark is not due: the tick seeds it instead.
Due(known) ==
  {i \in DOMAIN SCHEDULE : LET mark == known[SCHEDULE[i].name]
                           IN mark # None /\ NextAfter(SCHEDULE[i], mark) <= now}

----------------------------------------------------------------------------
Init ==
  /\ now = 0 /\ at = "asleep" /\ faults = 0
  /\ file \in {NoMarks, [j \in Jobs |-> 0]}
  /\ marks = NoMarks /\ ready = {} /\ ran = {} /\ todo = {}
  /\ runs = [j \in Jobs |-> 0] /\ lost = [j \in Jobs |-> 0]
  /\ summaries = [a \in Accounts |-> 0] /\ owed = {}

Current == SCHEDULE[Min(ready)].name

\* A run under way when its job fires again stands for that firing too.
Clock ==
  /\ now < LastMinute /\ now' = now + 1
  /\ LET fired   == {SCHEDULE[i].name : i \in {k \in DOMAIN SCHEDULE : Fires(SCHEDULE[k], now')}}
         running == IF at = "running" THEN {Current} ELSE {}
     IN /\ runs' = [j \in Jobs |-> IF j \notin fired THEN runs[j]
                                   ELSE IF j \in running THEN 1 ELSE 0]
        /\ lost' = [j \in Jobs |-> IF j \in fired THEN 0 ELSE lost[j]]
        /\ summaries' = IF SUMMARY \in fired THEN [a \in Accounts |-> 0] ELSE summaries
        /\ owed' = owed \union {j \in fired : file[j] # None}
  /\ UNCHANGED <<file, at, tick, faults>>

\* tick(): read the marks, seed what has none, list what is due.
Wake ==
  /\ at = "asleep"
  /\ LET seeded == {j \in Jobs : file[j] = None}
         known  == [j \in Jobs |-> IF j \in seeded THEN now ELSE file[j]]
     IN /\ marks' = known /\ ready' = Due(known)
        /\ owed' = owed \ seeded
        /\ at' = IF ready' # {} THEN "starting"
                 ELSE IF seeded # {} THEN "saving" ELSE "asleep"
        /\ at' # "asleep"
  /\ ran' = {} /\ todo' = {}
  /\ UNCHANGED <<now, file, faults, runs, lost, summaries>>

Start ==
  /\ at = "starting" /\ at' = "running"
  /\ ran' = ran \union {Current}
  /\ runs' = [runs EXCEPT ![Current] = @ + 1]
  /\ todo' = IF Current = SUMMARY THEN Accounts ELSE {}
  /\ UNCHANGED <<now, file, marks, ready, faults, lost, summaries, owed>>

\* One account of the daily summary: it is sent, or its mailbox, its model or
\* Telegram fails and the sweep goes on to the next.
Summarise(a) ==
  /\ at = "running" /\ a \in todo
  /\ todo' = todo \ {a}
  /\ summaries' \in {summaries, [summaries EXCEPT ![a] = @ + 1]}
  /\ UNCHANGED <<now, file, at, marks, ready, ran, faults, runs, lost, owed>>

\* Broken variant: the mark moves only when the job succeeds.
FinishOnSuccess ==
  /\ at = "running" /\ todo = {}
  /\ marks' \in {marks, [marks EXCEPT ![Current] = now]}
  /\ ready' = ready \ {Min(ready)}
  /\ at' = IF ready' = {} THEN "saving" ELSE "starting"
  /\ owed' = owed \ {Current}
  /\ UNCHANGED <<now, file, ran, todo, faults, runs, lost, summaries>>

\* A run that raises is still a run: the mark moves either way.
Finish ==
  /\ at = "running" /\ todo = {}
  /\ marks' = [marks EXCEPT ![Current] = now]
  /\ ready' = ready \ {Min(ready)}
  /\ at' = IF ready' = {} THEN "saving" ELSE "starting"
  /\ owed' = owed \ {Current}
  /\ UNCHANGED <<now, file, ran, todo, faults, runs, lost, summaries>>

Truncate ==
  /\ at = "saving" /\ at' = "truncated"
  /\ file' = NoMarks
  /\ UNCHANGED <<now, tick, faults, history>>

Save ==
  /\ at = "truncated" /\ at' = "asleep"
  /\ file' = marks
  /\ marks' = NoMarks /\ ready' = {} /\ ran' = {} /\ todo' = {}
  /\ UNCHANGED <<now, faults, history>>

\* What this tick began is not written down.
Unsaved ==
  /\ at' = "asleep"
  /\ marks' = NoMarks /\ ready' = {} /\ ran' = {} /\ todo' = {}
  /\ lost' = [j \in Jobs |-> IF j \in ran THEN lost[j] + 1 ELSE lost[j]]
  /\ faults < MaxFaults /\ faults' = faults + 1
  /\ UNCHANGED <<now, file, runs, summaries, owed>>

\* The disk refuses the file; the loop outlives it.
SaveFails == at \in {"saving", "truncated"} /\ Unsaved

\* The daemon dies, or restarts for restart.flag, which waits for no job.
Dies == at # "asleep" /\ Unsaved

\* Somebody deletes or spoils the file.
LoseFile ==
  /\ at = "asleep" /\ file # NoMarks
  /\ faults < MaxFaults /\ faults' = faults + 1
  /\ file' = NoMarks
  /\ UNCHANGED <<now, at, tick, history>>

Thread == \/ Wake \/ Start \/ Finish \/ Truncate \/ Save
          \/ \E a \in Accounts : Summarise(a)

Next == Thread \/ Clock \/ SaveFails \/ Dies \/ LoseFile

\* The thread polls every POLL_SECONDS and a job's calls carry timeouts.
Spec == Init /\ [][Next]_vars
FairSpec == Spec /\ WF_vars(Thread)

----------------------------------------------------------------------------
TypeOK ==
  /\ now \in Times /\ faults \in 0..MaxFaults
  /\ at \in {"asleep", "starting", "running", "saving", "truncated"}
  /\ file \in [Jobs -> Times \union {None}] /\ marks \in [Jobs -> Times \union {None}]
  /\ ready \subseteq DOMAIN SCHEDULE
  /\ ran \subseteq Jobs /\ todo \subseteq Accounts /\ owed \subseteq Jobs
  /\ runs \in [Jobs -> 0..1 + MaxFaults] /\ lost \in [Jobs -> 0..MaxFaults]
  /\ summaries \in [Accounts -> 0..1 + MaxFaults]

\* A firing is run once, and a second time only when the marks of a tick that
\* ran it were not written down: nothing else, and in particular no lost file,
\* runs a job twice ("runs later" rather than "runs twice").
RunsExplained ==
  /\ \A j \in Jobs : runs[j] <= 1 + lost[j]
  /\ \A a \in Accounts : summaries[a] <= runs[SUMMARY]

\* Catch-up: a scheduled time that passed while a job ran, the daemon was down
\* or a save failed is run, once the job has a mark to be late by.
CaughtUp == \A j \in Jobs : j \in owed ~> j \notin owed
===========================================================================
