------------------------------ MODULE Manifest ------------------------------
(***************************************************************************)
(* The account manifest (backend/accounts/account.py): one JSON file, read *)
(* whole, changed in one entry and written whole by seven operations in    *)
(* the threads of three processes.  _manifest_transaction wraps every one  *)
(* of them in the process's thread lock and in a lock on a file beside the *)
(* manifest; a process may die anywhere in it.                             *)
(*                                                                         *)
(* An entry keeps one field per writer.  The identity, the state file and  *)
(* the analyzer's flags travel with `settings`; an audit row is the number *)
(* of the call that wrote it.                                              *)
(***************************************************************************)
EXTENDS Naturals, FiniteSets

CONSTANTS
  Addresses, Chats, Customers, MaxAccounts, None,
  Processes,    \* web tier, mail daemon, operator's shell
  Threads,      \* threads of those processes
  ProcessOf,    \* thread -> its process
  MaxCalls,     \* bound: operations started in a behaviour
  MaxCrashes    \* bound: processes that die

VARIABLES
  manifest,    \* accounts.json: address -> its entry, or None
  tmp,         \* accounts.json.tmp
  threadLock,  \* process -> the thread inside _thread_lock, or None
  fileLock,    \* the thread whose descriptor holds the flock, or None
  at,          \* thread -> where it is in the transaction
  looked,      \* thread -> address -> the handle found for it when called
  data,        \* thread -> its copy of the store
  calls,       \* operations started
  crashes      \* processes that died

locks == <<threadLock, fileLock>>
vars  == <<manifest, tmp, locks, at, looked, data, calls, crashes>>

Places == {"idle", "called", "entered", "locked", "read", "edited", "written", "saved"}

Registered(store) == {a \in DOMAIN store : store[a] # None}

Fresh(handle) == [handle |-> handle, plan_status |-> "inactive", telegram |-> None,
                  settings |-> "default", voice_file |-> None,
                  polar_customer_id |-> None, token_file |-> TRUE]

ValuesOf == [plan_status       |-> {"active", "inactive"},
             telegram          |-> Chats \union {None},
             settings          |-> {"default", "chosen"},
             voice_file        |-> {"document", None},
             polar_customer_id |-> Customers]

Entry == [handle : Nat, plan_status : ValuesOf.plan_status,
          telegram : ValuesOf.telegram, settings : ValuesOf.settings,
          voice_file : ValuesOf.voice_file,
          polar_customer_id : Customers \union {None}, token_file : BOOLEAN]

Store == [Addresses -> Entry \union {None}]

ManifestAssumption ==
  /\ ProcessOf \in [Threads -> Processes] /\ IsFiniteSet(Addresses)
  /\ MaxAccounts \in Nat /\ MaxCalls \in Nat /\ MaxCrashes \in Nat
  /\ None \notin Chats \union Customers \union Threads \union Entry

----------------------------------------------------------------------------
(* The seven operations, as what each does to the copy it was handed.      *)

SetPlanStatus(store, who, status) == [store EXCEPT ![who].plan_status = status]
SetTelegram(store, who, chat)     == [store EXCEPT ![who].telegram = chat]
SetVoice(store, who, document)    == [store EXCEPT ![who].voice_file = document]
SetSettings(store, who, value)    == [store EXCEPT ![who].settings = value]
SetCustomer(store, who, customer) == [store EXCEPT ![who].polar_customer_id = customer]
Delete(store, who)                == [store EXCEPT ![who] = None]

\* A first consent adds an entry; a later one carries over everything the user
\* or billing set, the handle before all.
Register(store, who, handle) ==
  [store EXCEPT ![who] = IF @ = None THEN Fresh(handle)
                         ELSE [@ EXCEPT !.token_file = TRUE]]

Operations ==
  [kind : {"register"}, who : Addresses, handle : 0..MaxCalls]
    \union [kind : {"delete"}, who : Addresses, value : {None}]
    \union UNION {[kind : {field}, who : Addresses, value : ValuesOf[field]] :
                    field \in DOMAIN ValuesOf}

Edited(store, o) ==
  CASE o.kind = "register"          -> Register(store, o.who, o.handle)
    [] o.kind = "delete"            -> Delete(store, o.who)
    [] o.kind = "plan_status"       -> SetPlanStatus(store, o.who, o.value)
    [] o.kind = "telegram"          -> SetTelegram(store, o.who, o.value)
    [] o.kind = "voice_file"        -> SetVoice(store, o.who, o.value)
    [] o.kind = "settings"          -> SetSettings(store, o.who, o.value)
    [] o.kind = "polar_customer_id" -> SetCustomer(store, o.who, o.value)

\* _entry_for finds nobody, the store is full, or the customer is held.  A
\* delete that matches nobody is no error.
Refused(store, o) ==
  \/ o.kind \in DOMAIN ValuesOf /\ store[o.who] = None
  \/ /\ o.kind = "register"
     /\ store[o.who] = None
     /\ Cardinality(Registered(store)) >= MaxAccounts
  \/ /\ o.kind = "polar_customer_id"
     /\ \E b \in Registered(store) \ {o.who} : store[b].polar_customer_id = o.value

----------------------------------------------------------------------------
Init ==
  /\ manifest \in [Addresses -> {None} \union {Fresh(0)}]
  /\ \A a, b \in Registered(manifest) : a = b
  /\ tmp = None
  /\ threadLock = [p \in Processes |-> None] /\ fileLock = None
  /\ at = [t \in Threads |-> "idle"]
  /\ looked = [t \in Threads |-> None] /\ data = [t \in Threads |-> None]
  /\ calls = 0 /\ crashes = 0

Goes(t, place) == at' = [at EXCEPT ![t] = place]

\* Onboarding looks the handle up before it takes custody, long before
\* register_account reads the store again; one that is not found is drawn at
\* random, so it is one nobody holds.
HandleFor(who) ==
  IF manifest[who] = None THEN calls + 1 ELSE manifest[who].handle

Call(t) ==
  /\ at[t] = "idle" /\ calls < MaxCalls
  /\ calls' = calls + 1
  /\ looked' = [looked EXCEPT ![t] = [a \in Addresses |-> HandleFor(a)]]
  /\ Goes(t, "called")
  /\ UNCHANGED <<manifest, tmp, locks, data, crashes>>

Enter(t) ==
  /\ at[t] = "called" /\ threadLock[ProcessOf[t]] = None
  /\ threadLock' = [threadLock EXCEPT ![ProcessOf[t]] = t]
  /\ Goes(t, "entered")
  /\ UNCHANGED <<manifest, tmp, fileLock, looked, data, calls, crashes>>

FlockShared(t) ==
  /\ at[t] = "entered" /\ fileLock' = t
  /\ Goes(t, "locked")
  /\ UNCHANGED <<manifest, tmp, threadLock, looked, data, calls, crashes>>

Flock(t) ==
  /\ at[t] = "entered" /\ fileLock = None
  /\ fileLock' = t
  /\ Goes(t, "locked")
  /\ UNCHANGED <<manifest, tmp, threadLock, looked, data, calls, crashes>>

Read(t) ==
  /\ at[t] = "locked"
  /\ data' = [data EXCEPT ![t] = manifest]
  /\ Goes(t, "read")
  /\ UNCHANGED <<manifest, tmp, locks, looked, calls, crashes>>

\* Which operation was called matters from here on only, so it is chosen here.
\* An exception leaves through the `finally` with the store as it was; a copy
\* that did not change is not written.
Edit(t) ==
  /\ at[t] = "read"
  /\ \E o \in Operations :
       /\ o.kind = "register" => o.handle = looked[t][o.who]
       /\ LET edited == IF Refused(data[t], o) THEN data[t] ELSE Edited(data[t], o)
          IN /\ data' = [data EXCEPT ![t] = edited]
             /\ Goes(t, IF edited = data[t] THEN "saved" ELSE "edited")
  /\ UNCHANGED <<manifest, tmp, locks, looked, calls, crashes>>

WriteTmp(t) ==
  /\ at[t] = "edited"
  /\ tmp' = data[t]
  /\ Goes(t, "written")
  /\ UNCHANGED <<manifest, locks, looked, data, calls, crashes>>

Replace(t) ==
  /\ at[t] = "written"
  /\ manifest' = tmp /\ tmp' = None
  /\ Goes(t, "saved")
  /\ UNCHANGED <<locks, looked, data, calls, crashes>>

\* The `finally` of the transaction, then the two locks' own exits.
Release(t) ==
  /\ at[t] = "saved"
  /\ fileLock' = None
  /\ threadLock' = [threadLock EXCEPT ![ProcessOf[t]] = None]
  /\ Goes(t, "idle")
  /\ looked' = [looked EXCEPT ![t] = None] /\ data' = [data EXCEPT ![t] = None]
  /\ UNCHANGED <<manifest, tmp, calls, crashes>>

\* A process dies: its locks go with its descriptors, its temporary file stays.
Crash(p) ==
  LET dead == {t \in Threads : ProcessOf[t] = p}
      Reset(f, v) == [t \in Threads |-> IF t \in dead THEN v ELSE f[t]]
  IN /\ crashes < MaxCrashes /\ crashes' = crashes + 1
     /\ \E t \in dead : at[t] # "idle"
     /\ at' = Reset(at, "idle") /\ looked' = Reset(looked, None) /\ data' = Reset(data, None)
     /\ threadLock' = [threadLock EXCEPT ![p] = None]
     /\ fileLock' = IF fileLock \in dead THEN None ELSE fileLock
     /\ UNCHANGED <<manifest, tmp, calls>>

Step(t) == \/ Enter(t) \/ Flock(t) \/ Read(t) \/ Edit(t)
           \/ WriteTmp(t) \/ Replace(t) \/ Release(t)

Next == \/ \E t \in Threads : Call(t) \/ Step(t)
        \/ \E p \in Processes : Crash(p)

Spec == Init /\ [][Next]_vars

----------------------------------------------------------------------------
\* Every variable keeps its shape: in particular no copy, temporary file or
\* manifest is ever anything but a whole store.
TypeOK ==
  /\ manifest \in Store /\ tmp \in Store \union {None}
  /\ threadLock \in [Processes -> Threads \union {None}]
  /\ fileLock \in Threads \union {None}
  /\ at \in [Threads -> Places]
  /\ looked \in [Threads -> [Addresses -> Nat] \union {None}]
  /\ data \in [Threads -> Store \union {None}]
  /\ calls \in 0..MaxCalls /\ crashes \in 0..MaxCrashes

\* all_accounts() refuses to load a manifest in which two entries share a handle
\* or a Polar customer, which stops mail for everybody: no interleaving of
\* onboarding, checkouts and deletions writes one.
Loadable ==
  \A a, b \in Registered(manifest) : a # b =>
    /\ manifest[a].handle # manifest[b].handle
    /\ manifest[a].polar_customer_id # None =>
         manifest[a].polar_customer_id # manifest[b].polar_customer_id

\* The comment above _thread_lock: no writer's stale copy reverts another's
\* field or puts a deleted entry back.  Every change of the file is one
\* operation applied to the file as it was (AccountStore!Spec), and is Loadable.
AccountsStore == INSTANCE AccountStore WITH accounts <- manifest
ManifestStep == [AccountsStore!Next]_manifest /\ Loadable'
ManifestHolds == AccountsStore!Init /\ [][ManifestStep]_vars
===========================================================================
