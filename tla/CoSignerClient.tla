---------------------------- MODULE CoSignerClient ----------------------------
(* One process's channel to the co-signer (custody/client.py), under           *)
(* TEE_REQUIRED: the boot gate before it (tee_boot.py), the question whether   *)
(* the co-signer attests its callers, the client certificate that the guest    *)
(* agent issues, and the alert of an outage.  The threads of the process share *)
(* the module's globals, which no lock protects.                               *)
(*                                                                             *)
(* What the co-signer decides is CoSigner's, what its answers hold Custody's.  *)
EXTENDS Integers, FiniteSets

CONSTANTS
  Threads, None,
  ALERT_INTERVAL,
  LastTime, MaxBoots, MaxCalls, MaxModes   \* bounds

CoSignerClientAssumption == ALERT_INTERVAL \in Nat

VARIABLES
  clock,
  mode,        \* how the co-signer attests its callers, as it read at its start
  modes,       \* how often it restarted with another answer
  wrong,       \* what the gate would find wrong with this deployment
  running,     \* the process is past its gate
  boots,
  checked,     \* _attestation_checked
  identity,    \* _client_identity_cache: the pair is cached
  cert, key,   \* the two files: the keypair each is of, 0 for none
  lastAlert,   \* _last_alert
  thread,      \* thread -> the call it makes
  calls, minted,
  told,        \* history: what the co-signer told this process last
  alerted,     \* history: when an alert was last given to Telegram
  crowded,     \* history: two threads were at the pair at once
  silent       \* history: an outage of which nobody was told

vars == <<clock, mode, modes, wrong, running, boots, checked, identity, cert, key,
          lastAlert, thread, calls, minted, told, alerted, crowded, silent>>

REQUIRED == "required"
Faults == {"role", "volume", "agent", "compose", "kms", "secrets", "capability"}
NoCall == [step |-> "idle", asks |-> "none", pair |-> 0, since |-> 0]

Init ==
  /\ clock = ALERT_INTERVAL
  /\ mode \in {REQUIRED, "dev-insecure"} /\ modes = 0
  /\ wrong \in {{}} \cup {{f} : f \in Faults} /\ running = FALSE /\ boots = 0
  /\ checked = FALSE /\ identity = FALSE /\ cert = 0 /\ key = 0 /\ lastAlert = 0
  /\ thread = [t \in Threads |-> NoCall] /\ calls = 0 /\ minted = 0
  /\ told = None /\ alerted = 0 /\ crowded = FALSE /\ silent = FALSE

-------------------------------------------------------------------------------
(* The process.                                                                *)

\* gate_or_exit: every check passes, or the process ends and is started again.
Boot ==
  /\ ~running /\ boots < MaxBoots /\ wrong = {}
  /\ running' = TRUE /\ boots' = boots + 1
  /\ UNCHANGED <<clock, mode, modes, wrong, checked, identity, cert, key, lastAlert,
                 thread, calls, minted, told, alerted, crowded, silent>>

\* Everything it held is gone, the files too: their directory is a tmpfs.
Die ==
  /\ running /\ running' = FALSE
  /\ checked' = FALSE /\ identity' = FALSE /\ cert' = 0 /\ key' = 0 /\ lastAlert' = 0
  /\ thread' = [t \in Threads |-> NoCall]
  /\ told' = None /\ alerted' = 0 /\ crowded' = FALSE /\ silent' = FALSE
  /\ UNCHANGED <<clock, mode, modes, wrong, boots, calls, minted>>

Redeploy ==
  /\ ~running /\ wrong # {} /\ wrong' = {}
  /\ UNCHANGED <<clock, mode, modes, running, boots, checked, identity, cert, key,
                 lastAlert, thread, calls, minted, told, alerted, crowded, silent>>

CoSignerRestarts ==
  /\ modes < MaxModes /\ modes' = modes + 1
  /\ mode' = IF mode = REQUIRED THEN "dev-insecure" ELSE REQUIRED
  /\ UNCHANGED <<clock, wrong, running, boots, checked, identity, cert, key, lastAlert,
                 thread, calls, minted, told, alerted, crowded, silent>>

Tick ==
  /\ clock < LastTime /\ clock' = clock + 1
  /\ UNCHANGED <<mode, modes, wrong, running, boots, checked, identity, cert, key,
                 lastAlert, thread, calls, minted, told, alerted, crowded, silent>>

-------------------------------------------------------------------------------
(* A call.                                                                     *)
processVars == <<clock, mode, modes, wrong, running, boots>>

At(t, step) == running /\ thread[t].step = step
Becomes(t, call) == thread' = [thread EXCEPT ![t] = call]
GoesTo(t, step) == thread' = [thread EXCEPT ![t].step = step]

\* _request: a custody call asks first, unless the answer is known; the health
\* check is the one request that does not.
Call(t) ==
  /\ At(t, "idle") /\ calls < MaxCalls /\ calls' = calls + 1
  /\ Becomes(t, [NoCall EXCEPT !.step = "identify", !.asks = IF checked THEN "custody" ELSE "health"])
  /\ UNCHANGED <<processVars, checked, identity, cert, key, lastAlert, minted, told,
                 alerted, crowded, silent>>

AtThePair(t) == thread[t].step \in {"cert", "key"}

\* _client_identity: the cached pair, or a new one of the guest agent, which may
\* refuse; nobody is alerted of that.
Identify(t) ==
  /\ At(t, "identify")
  /\ \/ identity /\ GoesTo(t, "send") /\ UNCHANGED <<minted, crowded>>
     \/ ~identity /\ Becomes(t, NoCall) /\ UNCHANGED <<minted, crowded>>
     \/ /\ ~identity /\ minted' = minted + 1
        /\ Becomes(t, [thread[t] EXCEPT !.step = "cert", !.pair = minted + 1])
        /\ crowded' = (crowded \/ \E other \in Threads : AtThePair(other))
  /\ UNCHANGED <<processVars, checked, identity, cert, key, lastAlert, calls, told,
                 alerted, silent>>

WriteCert(t) ==
  /\ At(t, "cert") /\ cert' = thread[t].pair /\ GoesTo(t, "key")
  /\ UNCHANGED <<processVars, checked, identity, key, lastAlert, calls, minted, told,
                 alerted, crowded, silent>>

WriteKey(t) ==
  /\ At(t, "key") /\ key' = thread[t].pair /\ identity' = TRUE /\ GoesTo(t, "send")
  /\ UNCHANGED <<processVars, checked, cert, lastAlert, calls, minted, told, alerted,
                 crowded, silent>>

AcceptAnything(stated) == TRUE

\* _require_attesting_cosigner: the one answer that will do.
Accept(stated) == stated = REQUIRED

\* No answer, an answer that is not 200, or a pair of files that does not fit.
Unreachable(t) ==
  /\ At(t, "send") /\ GoesTo(t, "alert")
  /\ UNCHANGED <<processVars, checked, identity, cert, key, lastAlert, calls, minted, told,
                 alerted, crowded, silent>>

\* An answer that is no object, or has not what was asked for.
Malformed(t) ==
  /\ At(t, "send") /\ cert = key /\ Becomes(t, NoCall)
  /\ UNCHANGED <<processVars, checked, identity, cert, key, lastAlert, calls, minted, told,
                 alerted, crowded, silent>>

Health(t) ==
  /\ At(t, "send") /\ thread[t].asks = "health" /\ cert = key
  /\ told' = IF told = REQUIRED THEN told ELSE mode
  /\ checked' = (checked \/ Accept(mode))
  /\ IF Accept(mode) THEN Becomes(t, [thread[t] EXCEPT !.step = "identify", !.asks = "custody"])
     ELSE GoesTo(t, "alert")
  /\ UNCHANGED <<processVars, identity, cert, key, lastAlert, calls, minted, alerted,
                 crowded, silent>>

Served(t) ==
  /\ At(t, "send") /\ thread[t].asks = "custody" /\ cert = key /\ Becomes(t, NoCall)
  /\ UNCHANGED <<processVars, checked, identity, cert, key, lastAlert, calls, minted, told,
                 alerted, crowded, silent>>

\* _alert_operator: read the mark, write it, send.
ReadMark(t) ==
  /\ At(t, "alert")
  /\ IF clock - lastAlert < ALERT_INTERVAL
     THEN /\ Becomes(t, NoCall)
          /\ silent' = (silent \/ (clock - alerted >= ALERT_INTERVAL /\ \A o \in Threads : thread[o].step # "tell"))
     ELSE /\ Becomes(t, [thread[t] EXCEPT !.step = "mark", !.since = clock])
          /\ UNCHANGED silent
  /\ UNCHANGED <<processVars, checked, identity, cert, key, lastAlert, calls, minted, told,
                 alerted, crowded>>

WriteMark(t) ==
  /\ At(t, "mark") /\ lastAlert' = thread[t].since /\ GoesTo(t, "tell")
  /\ UNCHANGED <<processVars, checked, identity, cert, key, calls, minted, told, alerted,
                 crowded, silent>>

Tell(t) ==
  /\ At(t, "tell") /\ alerted' = clock /\ Becomes(t, NoCall)
  /\ UNCHANGED <<processVars, checked, identity, cert, key, lastAlert, calls, minted, told,
                 crowded, silent>>

Step(t) == \/ Call(t) \/ Identify(t) \/ WriteCert(t) \/ WriteKey(t)
           \/ Unreachable(t) \/ Malformed(t) \/ Health(t) \/ Served(t)
           \/ ReadMark(t) \/ WriteMark(t) \/ Tell(t)

Next == \/ Boot \/ Die \/ Redeploy \/ CoSignerRestarts \/ Tick
        \/ \E t \in Threads : Step(t)

Spec == Init /\ [][Next]_vars

-------------------------------------------------------------------------------
TypeOK ==
  /\ wrong \subseteq Faults /\ cert \in 0..minted /\ key \in 0..minted
  /\ \A t \in Threads : thread[t].asks \in {"none", "health", "custody"}
  /\ lastAlert <= clock /\ alerted <= clock

\* No record goes to a co-signer that has not told this process, since the
\* process passed its gate, that it attests its callers: whichever thread asked.
\* (_require_attesting_cosigner)
AskedFirst ==
  \A t \in Threads : thread[t].asks = "custody" => running /\ wrong = {} /\ told = REQUIRED

\* The certificate and the key on disk are of one pair once the pair is cached,
\* unless two threads fetched one at the same time.  (_client_identity)
PairFits ==
  identity /\ ~crowded /\ (\A t \in Threads : ~AtThePair(t)) => cert = key

\* An outage that is met in silence was told within the interval, or is being
\* told.  (_alert_operator: "One alert per outage")
OutageTold == ~silent

ClientHolds == AskedFirst /\ PairFits /\ OutageTold
===============================================================================
