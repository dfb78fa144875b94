----------------------------- MODULE Intrusion -----------------------------
(***************************************************************************)
(* A process that should not be there, and how a person hears of it: the   *)
(* watcher in every container (backend/procwatch.py) reports to a spool of *)
(* its role (backend/intrusion.py, backend/spool.py) and ends its          *)
(* container; the mail daemon drains every spool and tells the operator    *)
(* (report_intrusions in backend/daemons/daemon_loop.py), by Telegram if   *)
(* Telegram answers and in its own log either way.                         *)
(*                                                                         *)
(* The intruder is what a watcher sees of it: a process in a container's   *)
(* list, gone when the container restarts, perhaps back later.             *)
(***************************************************************************)
EXTENDS Naturals, FiniteSets

CONSTANTS
  Roles,         \* the five containers
  MAIL,          \* the one that drains and holds the bot's token
  REPORTING,     \* REPORTING_ROLES: those with a volume to report onto
  MaxIntrusions  \* bound: processes that appear

IntrusionAssumption ==
  MAIL \in REPORTING /\ REPORTING \subseteq Roles /\ MaxIntrusions \in Nat

VARIABLES
  up,        \* containers running
  intruder,  \* role -> the unexpected process in it, 0 for none
  watcher,   \* role -> "watching" or "reporting"
  spool,     \* role -> reports waiting
  inHand,    \* reports the daemon drained and has not summarised
  daemon,    \* "starting", "serving", or "telling"
  appeared,  \* processes so far, which numbers them
  logged,    \* reports in the daemon's log
  told,      \* reports sent to the operator's chat
  swallowed  \* history: reports lost in hand, or that could not be written

spools == <<spool, inHand>>
fates  == <<logged, told, swallowed>>
vars   == <<up, intruder, watcher, spools, daemon, appeared, fates>>

Reports == 1..MaxIntrusions

Init ==
  /\ up = Roles /\ intruder = [r \in Roles |-> 0]
  /\ watcher = [r \in Roles |-> "watching"]
  /\ spool = [r \in REPORTING |-> {}] /\ inHand = {}
  /\ daemon = "starting" /\ appeared = 0
  /\ logged = {} /\ told = {} /\ swallowed = {}

Appear(r) ==
  /\ r \in up /\ intruder[r] = 0 /\ appeared < MaxIntrusions
  /\ appeared' = appeared + 1
  /\ intruder' = [intruder EXCEPT ![r] = appeared']
  /\ UNCHANGED <<up, watcher, spools, daemon, fates>>

\* check(): every pid but this one's own is a finding; _refuse() reports first.
Notice(r) ==
  /\ r \in up /\ watcher[r] = "watching" /\ intruder[r] # 0
  /\ watcher' = [watcher EXCEPT ![r] = "reporting"]
  /\ UNCHANGED <<up, intruder, spools, daemon, appeared, fates>>

\* The exit is not conditional on the report: a role with no volume has nowhere
\* to write one, and a write that fails is logged by a container about to go.
\* What the mail daemon held in memory goes with its container.
Refuse(r) ==
  /\ r \in up /\ watcher[r] = "reporting"
  /\ \E written \in {TRUE, FALSE} :
       LET lost == (IF written THEN {} ELSE {intruder[r]})
                     \union (IF r = MAIL THEN inHand \ logged ELSE {})
       IN /\ written => r \in REPORTING
          /\ spool' = IF written THEN [spool EXCEPT ![r] = @ \union {intruder[r]}]
                      ELSE spool
          /\ swallowed' = swallowed \union lost
  /\ inHand' = IF r = MAIL THEN {} ELSE inHand
  /\ up' = up \ {r}
  /\ UNCHANGED <<intruder, watcher, daemon, appeared, logged, told>>

\* `restart: always`: a fresh container, and for the mail role a fresh daemon.
Restart(r) ==
  /\ r \notin up /\ up' = up \union {r}
  /\ intruder' = [intruder EXCEPT ![r] = 0]
  /\ watcher' = [watcher EXCEPT ![r] = "watching"]
  /\ daemon' = IF r = MAIL THEN "starting" ELSE daemon
  /\ UNCHANGED <<spools, appeared, fates>>

\* One role's spool per step, each drained under its own lock.
Drain(r) ==
  /\ MAIL \in up /\ daemon \in {"starting", "serving"} /\ spool[r] # {}
  /\ inHand' = inHand \union spool[r]
  /\ spool' = [spool EXCEPT ![r] = {}]
  /\ UNCHANGED <<up, intruder, watcher, daemon, appeared, fates>>

\* Broken variant: the log is what Telegram delivers.
LogOnlyByTelegram ==
  /\ MAIL \in up /\ daemon \in {"starting", "serving"} /\ inHand # {}
  /\ daemon' = "telling"
  /\ UNCHANGED <<up, intruder, watcher, spools, appeared, fates>>

\* The summary goes to the log before it goes to Telegram.
Log ==
  /\ MAIL \in up /\ daemon \in {"starting", "serving"} /\ inHand # {}
  /\ logged' = logged \union inHand
  /\ daemon' = "telling"
  /\ UNCHANGED <<up, intruder, watcher, spools, appeared, told, swallowed>>

\* Broken variant: the spools are emptied once the summary was sent.
TellAndClear ==
  /\ MAIL \in up /\ daemon = "telling"
  /\ told' \in {told, told \union inHand}
  /\ spool' = [r \in REPORTING |-> {}]
  /\ inHand' = {} /\ daemon' = "serving"
  /\ UNCHANGED <<up, intruder, watcher, appeared, logged, swallowed>>

\* notify_error() never raises, whether or not anything was delivered.
Tell ==
  /\ MAIL \in up /\ daemon = "telling"
  /\ told' \in {told, told \union inHand}
  /\ inHand' = {} /\ daemon' = "serving"
  /\ UNCHANGED <<up, intruder, watcher, spool, appeared, logged, swallowed>>

Serve == /\ MAIL \in up /\ daemon = "starting" /\ inHand = {}
         /\ daemon' = "serving"
         /\ UNCHANGED <<up, intruder, watcher, spools, appeared, fates>>

Watch(r) == Notice(r) \/ Refuse(r)
Report   == (\E r \in REPORTING : Drain(r)) \/ Log \/ Tell \/ Serve

Next == \/ \E r \in Roles : Appear(r) \/ Watch(r) \/ Restart(r)
        \/ Report

\* The watcher polls every POLL_SECONDS, the container runtime restarts what
\* exits, and the daemon's loop comes round at every wake or poll.
FairSpec == /\ Init /\ [][Next]_vars
            /\ \A r \in Roles : WF_vars(Watch(r)) /\ WF_vars(Restart(r))
            /\ \A r \in REPORTING : SF_vars(Drain(r))
            /\ SF_vars(Log) /\ SF_vars(Tell)

----------------------------------------------------------------------------
TypeOK ==
  /\ up \subseteq Roles /\ intruder \in [Roles -> 0..MaxIntrusions]
  /\ watcher \in [Roles -> {"watching", "reporting"}]
  /\ spool \in [REPORTING -> SUBSET Reports] /\ inHand \subseteq Reports
  /\ daemon \in {"starting", "serving", "telling"} /\ appeared \in 0..MaxIntrusions
  /\ logged \subseteq Reports /\ told \subseteq logged /\ swallowed \subseteq Reports

\* Every process a watcher caught is in the daemon's log in the end, whatever
\* restarts: unless its report could not be written, or the mail container went
\* down with it in hand between the drain and the log.
EveryIntrusionHeard ==
  \A r \in Roles, n \in Reports :
    (watcher[r] = "reporting" /\ intruder[r] = n) ~> n \in logged \union swallowed
===========================================================================
