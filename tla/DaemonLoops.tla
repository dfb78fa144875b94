---------------------------- MODULE DaemonLoops ----------------------------
(***************************************************************************)
(* Two loops of the mail daemon that must get round to their work, side by *)
(* side: the schedule and the intrusion reports.  They share no state, and *)
(* a behaviour is one loop's from beginning to end, as `part` says.        *)
(***************************************************************************)
EXTENDS Naturals

CONSTANTS
  None,
  SCHEDULE, Accounts, MinutesPerHour, HoursPerDay, DaysPerWeek, LastMinute,
  MaxFaults,                              \* Scheduler
  Roles, MAIL, REPORTING, MaxIntrusions   \* Intrusion

VARIABLES
  part,  \* which loop the behaviour is one of
  now, file, at, marks, ready, ran, todo, faults, runs, lost, summaries, owed,
  up, intruder, watcher, spool, inHand, daemon, appeared, logged, told, swallowed

scheduleVars == <<now, file, at, marks, ready, ran, todo, faults, runs, lost,
                  summaries, owed>>
intrusionVars == <<up, intruder, watcher, spool, inHand, daemon, appeared, logged,
                   told, swallowed>>

Schedule == INSTANCE Scheduler

Intrusions == INSTANCE Intrusion

ASSUME LoopsAssumption == Schedule!SchedulerAssumption /\ Intrusions!IntrusionAssumption

Init ==
  /\ part \in {"schedule", "intrusions"}
  /\ Schedule!Init /\ Intrusions!Init
  /\ part # "schedule" => file = Schedule!NoMarks

Next ==
  \/ part = "schedule" /\ Schedule!Next /\ UNCHANGED <<part, intrusionVars>>
  \/ part = "intrusions" /\ Intrusions!Next /\ UNCHANGED <<part, scheduleVars>>

vars == <<part, scheduleVars, intrusionVars>>

\* Each loop's own fairness, asked of it where it is the one that runs.
Fairness ==
  /\ WF_scheduleVars(part = "schedule" /\ Schedule!Thread)
  /\ \A r \in Roles :
       /\ WF_intrusionVars(part = "intrusions" /\ Intrusions!Watch(r))
       /\ WF_intrusionVars(part = "intrusions" /\ Intrusions!Restart(r))
  /\ \A r \in REPORTING : SF_intrusionVars(part = "intrusions" /\ Intrusions!Drain(r))
  /\ SF_intrusionVars(part = "intrusions" /\ Intrusions!Log)
  /\ SF_intrusionVars(part = "intrusions" /\ Intrusions!Tell)

Spec == Init /\ [][Next]_vars /\ Fairness

-----------------------------------------------------------------------------
\* Each loop's variables keep their shape.
TypesOK == /\ part = "schedule" => Schedule!TypeOK
           /\ part = "intrusions" => Intrusions!TypeOK

\* The loops' properties, as they stand in their modules.
RunsExplained == part = "schedule" => Schedule!RunsExplained
CaughtUp == Schedule!CaughtUp
EveryIntrusionHeard == Intrusions!EveryIntrusionHeard
=============================================================================
