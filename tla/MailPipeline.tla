--------------------------- MODULE MailPipeline ---------------------------
(***************************************************************************)
(* From a Gmail push to a handled message.  The webhook                    *)
(* (daemons/gmail_hook_server.py) spools the address and pokes a FIFO; the *)
(* mail daemon (daemons/daemon_loop.py) waits on the FIFO with a timeout,  *)
(* drains the spool and runs one pass per account (daemons/pipeline.py)    *)
(* from the history cursor in the account's state file                     *)
(* (accounts/state.py), which a watch renewal on another thread            *)
(* (onboarding/watch_renew.py) also rewrites.                              *)
(*                                                                         *)
(* The i-th message of a mailbox is the one that makes its history id i.   *)
(* Gmail and Pub/Sub are external and modelled from how this code uses     *)
(* them.                                                                   *)
(***************************************************************************)
EXTENDS Integers, FiniteSets

CONSTANTS
  Accounts,
  Registered,  \* accounts whose state file holds a cursor from the start; that
               \* of the others may or may not
  Hooks,       \* request threads of the webhook
  Renewers,    \* threads that renew watches: the scheduler's, a sign-in's
  NoAccount,
  Unset,       \* lastHistoryId is None
  Torn,        \* a state file that does not parse
  MaxEmails,   \* MAX_EMAILS: messages fetched in one pass
  MaxMail,     \* bound: messages a mailbox receives
  MaxFaults,   \* bound: failed Gmail calls, forgotten histories, lapsed
               \* watches and plans
  MaxCrashes,  \* bound: crashes of the daemon
  MaxRenewals  \* bound: watch renewals begun

VARIABLES
  \* Gmail and Pub/Sub
  mailbox,   \* per account: its history id
  oldest,    \* per account: the oldest cursor history.list still answers
  pushes,    \* accounts with a notification that is not acknowledged yet
  \* the webhook
  hook,      \* per thread: whose push it has spooled and not yet answered
  \* what the two processes share
  spool,     \* wake_queue.jsonl, deduplicated as drain() does
  fifo,      \* an unread byte in wake.fifo
  \* disk
  file,      \* per account: state.json's lastHistoryId
  active,    \* accounts whose plan is active, in the manifest
  \* the daemon
  at,        \* where its main thread is
  woken,     \* what wait_for_wake returned
  batch,     \* accounts the running pass has still to process
  pass,      \* the account in hand
  renew,     \* per renewer: its progress
  \* history
  handled,   \* per account and message: how often it was drafted for
  lost,      \* <<account, message, why>>: passed over for a reason
  base,      \* per account: the cursor first registered
  stored,    \* per account: the cursor the last finished pass stored
  missed,    \* accounts whose last wake ended without reading the mailbox
  replays,   \* per account: passes interrupted and cursors rewound
  faults, crashes, renewals

gmail   == <<mailbox, oldest, pushes>>
shared  == <<spool, fifo>>
daemon  == <<at, woken, batch, pass>>
history == <<handled, lost, base, stored, missed, replays>>
counts  == <<faults, crashes, renewals>>
vars == <<gmail, hook, shared, file, active, daemon, renew, history, counts>>

ASSUME BoundsAssumption ==
  /\ MaxEmails \in Nat \ {0}
  /\ MaxMail \in Nat
  /\ MaxFaults \in Nat
  /\ MaxCrashes \in Nat
  /\ MaxRenewals \in Nat

\* What stands for no account, no cursor and a broken file is none of those.
ASSUME ValuesAssumption ==
  /\ NoAccount \notin Accounts
  /\ Unset # Torn /\ {Unset, Torn} \intersect (0 .. MaxMail) = {}

Messages == 1 .. MaxMail
Cursor == 0 .. MaxMail
Idle == [acct |-> NoAccount]
Whys == {"stale", "over-limit", "fetch-error", "draft-error", "registered-again"}

TypeOK ==
  /\ mailbox \in [Accounts -> Cursor]
  /\ oldest \in [Accounts -> Cursor]
  /\ pushes \subseteq Accounts
  /\ hook \in [Hooks -> Accounts \union {NoAccount}]
  /\ spool \subseteq Accounts
  /\ fifo \in BOOLEAN /\ woken \in BOOLEAN
  /\ file \in [Accounts -> Cursor \union {Unset, Torn}]
  /\ active \subseteq Accounts
  /\ at \in {"down", "startup", "waiting", "woke", "routed", "sweep"}
  /\ batch \subseteq Accounts
  /\ pass.acct \in Accounts \union {NoAccount}
  /\ pass = Idle \/ pass.at \in {"fetch", "handle", "truncate", "write"}
  /\ \A r \in Renewers :
       renew[r] = Idle \/ renew[r].at \in {"check", "load", "truncate", "write"}
  /\ handled \in [Accounts -> [Messages -> Nat]]
  /\ lost \subseteq (Accounts \X Messages \X Whys)
  /\ base \in [Accounts -> Cursor \union {Unset}]
  /\ stored \in [Accounts -> Cursor]
  /\ missed \subseteq Accounts
  /\ replays \in [Accounts -> Nat]

\* A message is behind the daemon once it was handled or lost.
Behind(a) == {i \in Messages : handled[a][i] > 0 \/ \E w \in Whys : <<a, i, w>> \in lost}

Init ==
  /\ mailbox = [a \in Accounts |-> 0]
  /\ oldest = [a \in Accounts |-> 0]
  /\ pushes = {}
  /\ hook = [h \in Hooks |-> NoAccount]
  /\ spool = {} /\ fifo = FALSE
  /\ file \in [Accounts -> {0, Unset}]
  /\ \A a \in Registered : file[a] = 0
  /\ active = Accounts
  /\ at = "down" /\ woken = FALSE /\ batch = {} /\ pass = Idle
  /\ renew = [r \in Renewers |-> Idle]
  /\ handled = [a \in Accounts |-> [i \in Messages |-> 0]]
  /\ lost = {}
  /\ base = file
  /\ stored = [a \in Accounts |-> 0]
  /\ missed = {}
  /\ replays = [a \in Accounts |-> 0]
  /\ faults = 0 /\ crashes = 0 /\ renewals = 0

---------------------------------------------------------------------------
\* Gmail and Pub/Sub.

\* A message arrives; a lapsed watch means no notification.
NewMail(a) ==
  /\ mailbox[a] < MaxMail
  /\ mailbox' = [mailbox EXCEPT ![a] = @ + 1]
  /\ \/ /\ pushes' = pushes \union {a}
        /\ UNCHANGED faults
     \/ /\ faults < MaxFaults
        /\ faults' = faults + 1
        /\ UNCHANGED pushes
  /\ UNCHANGED <<oldest, hook, shared, file, active, daemon, renew, history,
                 crashes, renewals>>

\* Gmail forgets the history of a mailbox up to its present id.
Forget(a) ==
  /\ oldest[a] < mailbox[a]
  /\ faults < MaxFaults
  /\ faults' = faults + 1
  /\ oldest' = [oldest EXCEPT ![a] = mailbox[a]]
  /\ UNCHANGED <<mailbox, pushes, hook, shared, file, active, daemon, renew,
                 history, crashes, renewals>>

---------------------------------------------------------------------------
\* The webhook.

\* A verified push: route_push() spools the address it names.
Spool(h) ==
  /\ hook[h] = NoAccount
  /\ \E a \in pushes :
       /\ hook' = [hook EXCEPT ![h] = a]
       /\ spool' = spool \union {a}
       /\ missed' = missed \ {a}
  /\ UNCHANGED <<gmail, fifo, file, active, daemon, renew, handled, lost,
                 base, stored, replays, counts>>

\* signal_daemon() and the 204.  The poke fails softly when nobody reads the
\* FIFO; the answer may be lost, and the process may die before the poke.
\* Pub/Sub then delivers the push again, as it does while another of the
\* account's pushes is unanswered.
Poke(h) ==
  /\ hook[h] # NoAccount
  /\ \/ /\ fifo' = (fifo \/ at # "down")
        /\ \/ pushes' = pushes \ {hook[h]}
           \/ UNCHANGED pushes
     \/ UNCHANGED <<fifo, pushes>>
  /\ hook' = [hook EXCEPT ![h] = NoAccount]
  /\ UNCHANGED <<mailbox, oldest, spool, file, active, daemon, renew,
                 history, counts>>

---------------------------------------------------------------------------
\* The daemon's main loop.

\* main() up to the startup sweep: the FIFO is opened, and what was queued
\* while the daemon was down is routed before everything is swept.
Start ==
  /\ at = "down"
  /\ at' = "startup"
  /\ batch' = spool
  /\ spool' = {}
  /\ fifo' = FALSE
  /\ UNCHANGED <<gmail, hook, file, active, woken, pass, renew, history,
                 counts>>

\* wait_for_wake(): the bytes are read and coalesce, or the poll times out.
Wake ==
  /\ at = "waiting"
  /\ woken' = fifo
  /\ fifo' = FALSE
  /\ at' = "woke"
  /\ UNCHANGED <<gmail, hook, spool, file, active, batch, pass, renew,
                 history, counts>>

\* Drain: route what was queued; a poke with an empty queue sweeps everything.
Route ==
  /\ at = "woke"
  /\ woken' = FALSE
  /\ IF spool # {} THEN at' = "routed" /\ batch' = spool /\ spool' = {}
     ELSE IF woken THEN at' = "sweep" /\ batch' = active /\ UNCHANGED spool
     ELSE at' = "waiting" /\ UNCHANGED <<spool, batch>>
  /\ UNCHANGED <<gmail, hook, fifo, file, active, pass, renew,
                 history, counts>>

\* Everything a stopping process loses; the service manager starts it again.
Stopped ==
  /\ at' = "down"
  /\ batch' = {}
  /\ fifo' = FALSE
  /\ woken' = FALSE
  /\ pass' = Idle
  /\ renew' = [r \in Renewers |-> Idle]
  /\ replays' = IF pass # Idle
                THEN [replays EXCEPT ![pass.acct] = @ + 1] ELSE replays

\* A deploy has left restart.flag, which is looked for between passes.
Exit ==
  /\ at = "woke"
  /\ Stopped
  /\ UNCHANGED <<gmail, hook, spool, file, active, handled, lost, base, stored, missed,
                 counts>>

\* A crash at any point, a state file caught between truncation and write
\* included.
Crash ==
  /\ at # "down"
  /\ crashes < MaxCrashes
  /\ crashes' = crashes + 1
  /\ Stopped
  /\ UNCHANGED <<gmail, hook, spool, file, active, handled, lost, base,
                 stored, missed, faults, renewals>>

\* Broken variant: the daemon comes up and waits, without sweeping.
FinishNoSweep ==
  /\ at \in {"startup", "routed", "sweep"}
  /\ pass = Idle /\ batch = {}
  /\ at' = "waiting" /\ UNCHANGED batch
  /\ UNCHANGED <<gmail, hook, shared, file, active, woken, pass, renew, history,
                 counts>>

\* The batch is done: the startup pass is followed by a sweep of every account.
Finish ==
  /\ at \in {"startup", "routed", "sweep"}
  /\ pass = Idle /\ batch = {}
  /\ IF at = "startup" THEN at' = "sweep" /\ batch' = active
     ELSE at' = "waiting" /\ UNCHANGED batch
  /\ UNCHANGED <<gmail, hook, shared, file, active, woken, pass, renew, history,
                 counts>>

---------------------------------------------------------------------------
\* One account's pass: pipeline.process_account() under _run_account().

InPass(step) == pass # Idle /\ pass.at = step
me == pass.acct
Move(step) == pass' = [pass EXCEPT !.at = step]

\* A pass that raises, or returns before it fetched: nobody else is affected.
GiveUp == pass' = Idle /\ missed' = missed \union {me}

\* The next account of the batch: its state file is read.  A routed address
\* that is not active is skipped; process_all() lists only active ones.
Begin ==
  /\ at \in {"startup", "routed", "sweep"}
  /\ pass = Idle
  /\ \E a \in batch :
       /\ batch' = batch \ {a}
       /\ IF (a \in active \/ at = "sweep") /\ file[a] \notin {Unset, Torn}
          THEN /\ pass' = [acct |-> a, at |-> "fetch", last |-> file[a]]
               /\ UNCHANGED missed
          ELSE missed' = missed \union {a} /\ UNCHANGED pass
  /\ UNCHANGED <<gmail, hook, shared, file, active, at, woken, renew, handled,
                 lost, base, stored, replays, counts>>

\* The grant is gone or Gmail fails: the cursor stays where it is.
FetchFails ==
  /\ InPass("fetch")
  /\ faults < MaxFaults
  /\ faults' = faults + 1
  /\ GiveUp
  /\ UNCHANGED <<gmail, hook, shared, file, active, at, woken, batch, renew,
                 handled, lost, base, stored, replays, crashes, renewals>>

Reason(ids, why) == {<<me, i, why>> : i \in ids}

\* Broken variant: the new cursor is one past the last id listed.
FetchPastEnd ==
  /\ InPass("fetch")
  /\ LET added == {i \in Messages : pass.last < i /\ i <= mailbox[me]}
     IN  pass' = [acct |-> me, at |-> "handle", last |-> pass.last,
                  todo |-> added, to |-> mailbox[me] + 1]
  /\ UNCHANGED <<gmail, hook, shared, file, active, at, woken, batch, renew,
                 history, counts>>

\* fetch_since_history(): a cursor Gmail no longer knows bootstraps to the
\* present; otherwise the first MAX_EMAILS ids are fetched, those Gmail fails
\* on are skipped, and the new cursor is the mailbox's.
Fetch ==
  /\ InPass("fetch")
  /\ LET added == {i \in Messages : pass.last < i /\ i <= mailbox[me]}
         first == {i \in added : Cardinality({j \in added : j < i}) < MaxEmails}
         Got(todo, gone) ==
           /\ pass' = [acct |-> me, at |-> "handle", last |-> pass.last,
                       todo |-> todo, to |-> mailbox[me]]
           /\ lost' = lost \union gone
     IN  \/ /\ pass.last < oldest[me]
            /\ Got({}, Reason(added, "stale"))
            /\ UNCHANGED faults
         \/ /\ pass.last >= oldest[me]
            /\ Got(first, Reason(added \ first, "over-limit"))
            /\ UNCHANGED faults
         \/ /\ pass.last >= oldest[me]
            /\ faults < MaxFaults
            /\ faults' = faults + 1
            /\ \E i \in first :
                 Got(first \ {i}, Reason(added \ first, "over-limit")
                                  \union Reason({i}, "fetch-error"))
  /\ UNCHANGED <<gmail, hook, shared, file, active, at, woken, batch, renew,
                 handled, base, stored, missed, replays, crashes, renewals>>

\* One fetched message is drafted for.  A request to the bot that raises is
\* caught by itself; one that raises out of process_emails() takes the rest of
\* the batch with it.
Handle ==
  /\ InPass("handle")
  /\ \E i \in pass.todo :
       \/ /\ pass' = [pass EXCEPT !.todo = @ \ {i}]
          /\ handled' = [handled EXCEPT ![me][i] = @ + 1]
          /\ UNCHANGED <<lost, faults>>
       \/ /\ faults < MaxFaults
          /\ faults' = faults + 1
          /\ \E gone \in {{i}, pass.todo} :
               /\ pass' = [pass EXCEPT !.todo = @ \ gone]
               /\ lost' = lost \union Reason(gone, "draft-error")
          /\ UNCHANGED handled
  /\ UNCHANGED <<gmail, hook, shared, file, active, at, woken, batch, renew,
                 base, stored, missed, replays, crashes, renewals>>

\* StateStore.update() and save(): read, then truncate, then write.
UpdateLoad ==
  /\ InPass("handle")
  /\ pass.todo = {}
  /\ IF file[me] = Torn THEN GiveUp /\ replays' = [replays EXCEPT ![me] = @ + 1]
     ELSE Move("truncate") /\ UNCHANGED <<missed, replays>>
  /\ UNCHANGED <<gmail, hook, shared, file, active, at, woken, batch, renew,
                 handled, lost, base, stored, counts>>

Truncate ==
  /\ InPass("truncate")
  /\ file' = [file EXCEPT ![me] = Torn]
  /\ Move("write")
  /\ UNCHANGED <<gmail, hook, shared, active, at, woken, batch, renew, history,
                 counts>>

\* What a write leaves: if another writer's text has appeared since the
\* truncation and is the longer one, its tail follows and nothing parses.
Written(a, cursor) == {cursor} \union (IF file[a] = Torn THEN {} ELSE {Torn})

\* Broken variant: the cursor the pass began from is stored again.
WriteOldCursor ==
  /\ InPass("write")
  /\ \E c \in Written(me, pass.last) : file' = [file EXCEPT ![me] = c]
  /\ stored' = [stored EXCEPT ![me] = pass.to]
  /\ pass' = Idle
  /\ UNCHANGED <<gmail, hook, shared, active, at, woken, batch, renew, handled,
                 lost, base, missed, replays, counts>>

Write ==
  /\ InPass("write")
  /\ \E c \in Written(me, pass.to) : file' = [file EXCEPT ![me] = c]
  /\ stored' = [stored EXCEPT ![me] = pass.to]
  /\ pass' = Idle
  /\ UNCHANGED <<gmail, hook, shared, active, at, woken, batch, renew, handled,
                 lost, base, missed, replays, counts>>

---------------------------------------------------------------------------
\* watch_renew.renew_account(), on the scheduler's thread or a sign-in's, in
\* the daemon's process.

RenewStep(r, step) == renew[r] # Idle /\ renew[r].at = step

\* register_watch() answers with the mailbox's history id.
RenewCall(r) ==
  /\ renew[r] = Idle
  /\ at # "down"
  /\ renewals < MaxRenewals
  /\ renewals' = renewals + 1
  /\ \E a \in Accounts :
       renew' = [renew EXCEPT ![r] = [acct |-> a, at |-> "check",
                                      hist |-> mailbox[a]]]
  /\ UNCHANGED <<gmail, hook, shared, file, active, daemon, history, faults,
                 crashes>>

\* Only an account without a cursor is given the watch's.
RenewCheck(r) ==
  /\ RenewStep(r, "check")
  /\ IF file[renew[r].acct] = Torn THEN renew' = [renew EXCEPT ![r] = Idle]
     ELSE renew' = [renew EXCEPT ![r] =
            [acct |-> @.acct, at |-> "load", hist |-> @.hist,
             first |-> file[@.acct] = Unset]]
  /\ UNCHANGED <<gmail, hook, shared, file, active, daemon, history, counts>>

\* Broken variant: the watch's history id is stored whatever the check found.
RenewLoadAlwaysSeeds(r) ==
  /\ RenewStep(r, "load")
  /\ IF file[renew[r].acct] = Torn THEN renew' = [renew EXCEPT ![r] = Idle]
     ELSE renew' = [renew EXCEPT ![r] =
            [acct |-> @.acct, at |-> "truncate", first |-> @.first, cursor |-> @.hist]]
  /\ UNCHANGED <<gmail, hook, shared, file, active, daemon, history, counts>>

\* update(): the whole file is read, the cursor with it.
RenewLoad(r) ==
  /\ RenewStep(r, "load")
  /\ IF file[renew[r].acct] = Torn THEN renew' = [renew EXCEPT ![r] = Idle]
     ELSE renew' = [renew EXCEPT ![r] =
            [acct |-> @.acct, at |-> "truncate", first |-> @.first,
             cursor |-> IF @.first THEN @.hist ELSE file[@.acct]]]
  /\ UNCHANGED <<gmail, hook, shared, file, active, daemon, history, counts>>

RenewTruncate(r) ==
  /\ RenewStep(r, "truncate")
  /\ file' = [file EXCEPT ![renew[r].acct] = Torn]
  /\ renew' = [renew EXCEPT ![r].at = "write"]
  /\ UNCHANGED <<gmail, hook, shared, active, daemon, history, counts>>

\* Two renewals that both found no cursor each store their own: the second's
\* passes over what the mailbox received between their two calls.
RenewWrite(r) ==
  /\ RenewStep(r, "write")
  /\ LET a == renew[r].acct
         cursor == renew[r].cursor
         between == {i \in Messages : base[a] < i /\ i <= cursor} \ Behind(a)
     IN  /\ \E c \in Written(a, cursor) :
              /\ file' = [file EXCEPT ![a] = c]
              /\ lost' = IF c = cursor /\ renew[r].first /\ base[a] # Unset
                         THEN lost \union {<<a, i, "registered-again">> : i \in between}
                         ELSE lost
         /\ base' = IF base[a] = Unset THEN [base EXCEPT ![a] = cursor] ELSE base
         /\ replays' = IF cursor < stored[a]
                       THEN [replays EXCEPT ![a] = @ + 1] ELSE replays
  /\ renew' = [renew EXCEPT ![r] = Idle]
  /\ UNCHANGED <<gmail, hook, shared, active, daemon, handled, stored, missed,
                 counts>>

---------------------------------------------------------------------------
\* The billing pass or the reconcile flips a plan.
FlipPlan(a) ==
  /\ \/ /\ a \in active
        /\ faults < MaxFaults
        /\ faults' = faults + 1
        /\ active' = active \ {a}
     \/ /\ a \notin active
        /\ active' = active \union {a}
        /\ UNCHANGED faults
  /\ UNCHANGED <<gmail, hook, shared, file, daemon, renew, history, crashes,
                 renewals>>

Daemon ==
  \/ Start \/ Wake \/ Route \/ Exit \/ Begin \/ Finish
  \/ FetchFails \/ Fetch \/ Handle
  \/ UpdateLoad \/ Truncate \/ Write

Renew(r) ==
  \/ RenewCall(r) \/ RenewCheck(r) \/ RenewLoad(r) \/ RenewTruncate(r)
  \/ RenewWrite(r)

Next ==
  \/ \E a \in Accounts : NewMail(a) \/ Forget(a) \/ FlipPlan(a)
  \/ \E h \in Hooks : Spool(h) \/ Poke(h)
  \/ Daemon
  \/ \E r \in Renewers : Renew(r)
  \/ Crash

Spec == Init /\ [][Next]_vars

\* The daemon is a process that keeps running and is restarted when it stops;
\* nothing else is obliged to move.
FairSpec == Spec /\ WF_vars(Daemon)

---------------------------------------------------------------------------
\* Properties.

\* The cursor never passes a message that no pass drafted for and none gave up
\* on for a reason the code knows: a stale cursor, MAX_EMAILS, a message Gmail
\* would not serve, a drafting that raised, two first registrations at once.  A
\* revoked grant, a crash, a torn file and a renewal that found a cursor are not
\* among them (process_account, renew_account).
NoMailSkipped ==
  \A a \in Accounts : file[a] \in Cursor /\ base[a] # Unset =>
    \A i \in Messages : base[a] < i /\ i <= file[a] => i \in Behind(a)

\* A message is drafted for again only when a pass was interrupted before its
\* cursor was stored, or a renewal stored an older one.
RepeatsExplained ==
  \A a \in Accounts, i \in Messages : handled[a][i] <= 1 + replays[a]

\* What a wake asks for: the account's mailbox read up to message i.
Served(a, i) == file[a] \in Cursor /\ file[a] >= i

\* A spooled wake is served whatever happens to the FIFO byte, the batch it was
\* drained into or the daemon: the pass reaches what the mailbox held, unless
\* that pass could not read the mailbox, the plan lapsed, or the state file was
\* left unreadable (wait_for_wake's timeout, main's startup sweep).
WakeServed ==
  \A a \in Accounts, i \in Messages :
    (a \in spool /\ mailbox[a] >= i)
      ~> (Served(a, i) \/ a \in missed \/ a \notin active \/ [](file[a] = Torn))

\* What watch_renew.py says of a renewal: it never rewinds the cursor.
CursorNeverRewinds ==
  [][\A r \in Renewers :
       RenewWrite(r) => renew[r].cursor >= stored[renew[r].acct]]_vars
===========================================================================
