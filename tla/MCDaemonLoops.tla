---------------------------- MODULE MCDaemonLoops ----------------------------
(* A small instance of DaemonLoops for TLC: a calendar of two minutes, two    *)
(* hours and two days, and three containers of which two can report.          *)
EXTENDS DaemonLoops

CONSTANTS a1, a2, mail, web, egress

\* A job of each cadence: daily, weekly and several times a day.
MCSchedule ==
  <<[name |-> "email-summary", hours |-> {1}, minute |-> 0, weekday |-> None],
    [name |-> "gmail-watch", hours |-> {1}, minute |-> 1, weekday |-> 0],
    [name |-> "billing-poller", hours |-> {0, 1}, minute |-> 0, weekday |-> None]>>
=============================================================================
