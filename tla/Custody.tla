------------------------------ MODULE Custody ------------------------------
(***************************************************************************)
(* The custody of one mailbox's data key: custody/keyring.py and tokens.py *)
(* as sign-in (onboarding/provisioning.py, in the mail daemon), document   *)
(* writes (the web tier, and the daemon's voice job), account deletion     *)
(* (the web tier, calling the daemon first) and rotation (an operator's    *)
(* process) use them. Nothing serialises these: they meet in the account's *)
(* directory, in accounts.json and at the co-signer, and each process has  *)
(* a cache of opened keys of its own. Co-signer and Google are external.   *)
(***************************************************************************)
EXTENDS Integers

CONSTANTS
  Tasks,       \* threads that may be at work at once, whatever their process
  None,
  Wiped,       \* what zeroize() leaves of a key
  Cached,      \* a task's reference to the buffer in its process's cache
  MaxKeys,     \* bound: data keys minted, and handles drawn
  MaxTasks,    \* bound: operations started
  MaxFaults,   \* bound: failed calls, lost answers, refused sign-ups
  MaxCrashes   \* bound: processes that die

VARIABLES
  row,       \* accounts.json: the account's handle, None when not registered
  record,    \* dek.bin: the key, and the handle both its layers are bound to
  file,      \* token.bin and a document: key and handle each is sealed under
  cache,     \* _dek_cache of the web tier and of the mail daemon
  wrapped,   \* co-signer: handles ever wrapped
  grant,     \* Google: the grant of the last stored token stands
  task,      \* what each thread is doing
  drawn, minted, \* handles and data keys generated so far
  shredded,  \* history: keys destroyed by deletions
  scars,     \* history: the events that explain what went wrong
  started, faults, crashes

disk == <<row, record, file>>
outside == <<wrapped, grant>>
history == <<shredded, scars>>
bounds == <<started, faults, crashes>>
vars == <<disk, cache, outside, task, drawn, minted, history, bounds>>

Keys == 1 .. MaxKeys
Handles == 1 .. MaxKeys
Processes == {"web", "mail"}
Names == {"token", "doc"}
Record == [handle : Handles, key : Keys]
Sealed == [handle : Handles, key : Keys \union {Wiped}]

ASSUME CustodyAssumption ==
  /\ MaxKeys \in Nat \ {0} /\ {MaxTasks, MaxFaults, MaxCrashes} \subseteq Nat
  /\ None # Wiped /\ None # Cached /\ Wiped # Cached
  /\ {None, Wiped, Cached} \cap 1 .. MaxKeys = {}
  /\ None \notin Sealed \union [key : Keys, live : BOOLEAN]

\* The scars: operations that overlapped a deletion, by name; first sign-ins
\* that overlapped; a key wiped while a writer held it; an operation cut short
\* where it leaves a key or a wrap nobody owns; a deletion cut short; a
\* deletion the daemon or Google did not take part in.
Raced == {"signIn", "voice", "doc", "rotate", "read"}
Scars == Raced \union {"twins", "wiped", "stranded", "halfDeleted", "unreleased"}

Idle == [op |-> "none", pc |-> "idle", handle |-> None, key |-> None, held |-> None]

TypeOK ==
  /\ row \in Handles \union {None}
  /\ record \in Record \union {None}
  /\ file \in [Names -> Sealed \union {None}]
  /\ cache \in [Processes -> [key : Keys, live : BOOLEAN] \union {None}]
  /\ wrapped \subseteq Handles /\ grant \in BOOLEAN
  /\ task \in [Tasks -> [op : {"none", "signIn", "voice", "doc", "delete", "rotate"},
                         pc : {"idle", "take", "guard", "mint", "store", "open", "save",
                               "register", "settle", "release", "row", "forget",
                               "unlink", "rmtree", "load", "restore"},
                         handle : Handles \union {None}, key : Keys \union {None},
                         held : Keys \union {None, Wiped, Cached}]]
  /\ drawn \in 0 .. MaxKeys /\ minted \in 0 .. MaxKeys
  /\ shredded \subseteq Keys /\ scars \subseteq Scars
  /\ started \in 0 .. MaxTasks /\ faults \in 0 .. MaxFaults
  /\ crashes \in 0 .. MaxCrashes

\* A fresh box, an owner seeded without a sign-in, or an account in use.
Init ==
  /\ \/ row = None /\ record = None /\ drawn = 0
     \/ row = 1 /\ drawn = 1 /\ record \in {None, [handle |-> 1, key |-> 1]}
  /\ file = [n \in Names |-> record]
  /\ minted = IF record = None THEN 0 ELSE 1
  /\ wrapped = IF record = None THEN {} ELSE {1}
  /\ grant = (record # None)
  /\ cache = [p \in Processes |-> None]
  /\ task = [t \in Tasks |-> Idle]
  /\ shredded = {} /\ scars = {}
  /\ started = 0 /\ faults = 0 /\ crashes = 0

---------------------------------------------------------------------------
\* Helpers.

Process(op) == CASE op \in {"signIn", "voice"} -> "mail"
                 [] op \in {"doc", "delete"} -> "web"
                 [] OTHER -> "operator"

Doing(t, pc) == task[t].pc = pc
Fault == faults < MaxFaults /\ faults' = faults + 1

\* The tasks after process p's cached buffer became something else for those
\* that hold it: another object (the old bytes stay theirs), or zeros.
Holders(p) == {t \in Tasks : Process(task[t].op) = p /\ task[t].held = Cached}
Released(p, bytes) ==
  [t \in Tasks |-> IF t \in Holders(p) THEN [task[t] EXCEPT !.held = bytes] ELSE task[t]]

\* forget(): drop the cached key and overwrite it, whoever is using it.
Forgotten(p) == [cache EXCEPT ![p] = None]
WipedBy(p) == IF Holders(p) = {} THEN {} ELSE {"wiped"}

\* dek_for(): the cached key while it is fresh, else what the record opens to
\* under this handle, which replaces the cached buffer.
Fresh(p) == cache[p] # None /\ cache[p].live
Opens(h) == record # None /\ record.handle = h
Loaded(p, k) == [cache EXCEPT ![p] = [key |-> k, live |-> TRUE]]
Detached(p) == IF cache[p] = None THEN task ELSE Released(p, cache[p].key)

\* What ending t early would leave behind: a stored key under a handle the
\* manifest does not have, or a registered handle's only wrap spent; a
\* deletion after its row went.
Left(t) ==
  (IF \/ /\ task[t].op = "signIn" /\ task[t].handle # row
         /\ task[t].pc \in {"guard", "open", "save", "register"}
      \/ Doing(t, "store") /\ task[t].handle = row
   THEN {"stranded"} ELSE {})
  \union
  (IF task[t].pc \in {"forget", "unlink", "rmtree"} THEN {"halfDeleted"} ELSE {})

\* What starting op now overlaps with.
InFlight(op) == \E t \in Tasks : task[t].op = op
Overlap(op) ==
  IF op = "delete" THEN {task[t].op : t \in Tasks} \cap Raced
  ELSE IF InFlight("delete") THEN {op} ELSE {}

Begin(t, op, pc, h, more) ==
  /\ Doing(t, "idle")
  /\ started < MaxTasks /\ started' = started + 1
  /\ task' = [task EXCEPT ![t] = [Idle EXCEPT !.op = op, !.pc = pc, !.handle = h]]
  /\ scars' = scars \union Overlap(op) \union more
  /\ UNCHANGED <<disk, cache, outside, minted, shredded, faults, crashes>>

Goto(t, pc) == task' = [task EXCEPT ![t].pc = pc]
Stop(t) == task' = [task EXCEPT ![t] = Idle]

---------------------------------------------------------------------------
\* Writing under the key: take_custody(), write_encrypted(), create().

\* Broken variant: every consent draws a handle.
AlwaysNewHandle == drawn + 1

\* provision(): the returning user's handle, else a new one.
HandleFor == IF row # None THEN row ELSE drawn + 1

\* The code is exchanged; provision() looks the handle up.
StartSignIn(t) ==
  /\ HandleFor \in Handles
  /\ drawn' = IF HandleFor > drawn THEN HandleFor ELSE drawn
  /\ Begin(t, "signIn", "take", HandleFor,
           IF row = None /\ InFlight("signIn") THEN {"twins"} ELSE {})

\* A page saves a document, or the daemon's one voice job for this account
\* writes its profile. The Account is the one loaded here.
StartWrite(t, op) ==
  /\ row # None
  /\ op = "voice" => ~InFlight("voice")
  /\ Begin(t, op, "guard", row, {})
  /\ UNCHANGED drawn

\* take_custody(): create() first when there is no key.
Take(t) ==
  /\ Doing(t, "take")
  /\ Goto(t, IF record = None THEN "mint" ELSE "guard")
  /\ UNCHANGED <<disk, cache, outside, drawn, minted, history, bounds>>

\* write_encrypted(): a key there is; or one must be minted, which a deleted
\* account is refused. A sign-in carries a pair and is not asked.
Guard(t) ==
  /\ Doing(t, "guard")
  /\ \/ record # None /\ Goto(t, "open")
     \/ record = None /\ (task[t].op = "signIn" \/ row # None) /\ Goto(t, "mint")
  /\ UNCHANGED <<disk, cache, outside, drawn, minted, history, bounds>>

RefuseDeleted(t) ==
  LET p == Process(task[t].op)
  IN  /\ Doing(t, "guard") /\ task[t].op # "signIn"
      /\ record = None /\ row = None
      /\ cache' = Forgotten(p)
      /\ task' = [Released(p, Wiped) EXCEPT ![t] = Idle]
      /\ scars' = scars \union WipedBy(p)
      /\ UNCHANGED <<disk, outside, drawn, minted, shredded, bounds>>

\* create(): refused when a key appeared meanwhile; otherwise the co-signer
\* wraps a new one, once per handle.
Mint(t) ==
  /\ Doing(t, "mint") /\ record = None /\ task[t].handle \notin wrapped
  /\ minted < MaxKeys /\ minted' = minted + 1
  /\ wrapped' = wrapped \union {task[t].handle}
  /\ task' = [task EXCEPT ![t].pc = "store", ![t].key = minted']
  /\ UNCHANGED <<disk, cache, grant, drawn, history, bounds>>

MintRefused(t) ==
  /\ Doing(t, "mint") /\ (record # None \/ task[t].handle \in wrapped)
  /\ scars' = scars \union Left(t)
  /\ Stop(t)
  /\ UNCHANGED <<disk, cache, outside, drawn, minted, shredded, bounds>>

\* The co-signer granted the wrap and its answer did not arrive.
WrapLost(t) ==
  /\ Doing(t, "mint") /\ record = None /\ task[t].handle \notin wrapped /\ Fault
  /\ wrapped' = wrapped \union {task[t].handle}
  /\ scars' = scars \union IF task[t].handle = row THEN {"stranded"} ELSE {}
  /\ Stop(t)
  /\ UNCHANGED <<disk, cache, grant, drawn, minted, shredded, started, crashes>>

\* store_record() and the seeding of the cache.
StoreKey(t) ==
  LET p == Process(task[t].op)
  IN  /\ Doing(t, "store")
      /\ record' = [handle |-> task[t].handle, key |-> task[t].key]
      /\ cache' = Loaded(p, task[t].key)
      /\ task' = [Detached(p) EXCEPT
                    ![t].pc = IF task[t].op = "signIn" THEN "guard" ELSE "open"]
      /\ UNCHANGED <<row, file, outside, drawn, minted, history, bounds>>

\* dek_for(), under the process's lock for the whole of its round trip.
Open(t) ==
  LET p == Process(task[t].op)
  IN  /\ Doing(t, "open")
      /\ \/ /\ Fresh(p)
            /\ task' = [task EXCEPT ![t].pc = "save", ![t].held = Cached]
            /\ UNCHANGED cache
         \/ /\ ~Fresh(p) /\ Opens(task[t].handle)
            /\ cache' = Loaded(p, record.key)
            /\ task' = [Detached(p) EXCEPT ![t].pc = "save", ![t].held = Cached]
      /\ UNCHANGED <<disk, outside, drawn, minted, history, bounds>>

OpenFails(t) ==
  /\ Doing(t, "open") /\ ~Fresh(Process(task[t].op))
  /\ Opens(task[t].handle) => faults < MaxFaults
  /\ faults' = IF Opens(task[t].handle) THEN faults + 1 ELSE faults
  /\ scars' = scars \union Left(t)
  /\ Stop(t)
  /\ UNCHANGED <<disk, cache, outside, drawn, minted, shredded, started, crashes>>

\* The key as this task sees it when it encrypts.
KeyInHand(t) ==
  IF task[t].held = Cached THEN cache[Process(task[t].op)].key ELSE task[t].held

\* Broken variant: the handle is left out of what the file is bound to.
SaveUnbound(t) ==
  LET signIn == task[t].op = "signIn"
  IN  /\ Doing(t, "save")
      /\ file' = [file EXCEPT ![IF signIn THEN "token" ELSE "doc"] =
                    [handle |-> None, key |-> KeyInHand(t)]]
      /\ grant' = (grant \/ signIn)
      /\ IF signIn THEN task' = [task EXCEPT ![t].pc = "register", ![t].held = None]
                   ELSE Stop(t)
      /\ UNCHANGED <<row, record, cache, wrapped, drawn, minted, history, bounds>>

\* encrypt() and the rename. A sign-in's file is the refresh token.
Save(t) ==
  LET signIn == task[t].op = "signIn"
  IN  /\ Doing(t, "save")
      /\ file' = [file EXCEPT ![IF signIn THEN "token" ELSE "doc"] =
                    [handle |-> task[t].handle, key |-> KeyInHand(t)]]
      /\ grant' = (grant \/ signIn)
      /\ IF signIn THEN task' = [task EXCEPT ![t].pc = "register", ![t].held = None]
                   ELSE Stop(t)
      /\ UNCHANGED <<row, record, cache, wrapped, drawn, minted, history, bounds>>

\* register_account(): an existing row keeps its handle; a new one is refused
\* on a full box, and the token is discarded then.
Register(t) ==
  /\ Doing(t, "register")
  /\ row' = IF row = None THEN task[t].handle ELSE row
  /\ Goto(t, "settle")
  /\ UNCHANGED <<record, file, cache, outside, drawn, minted, history, bounds>>

RegisterRefused(t) ==
  /\ Doing(t, "register") /\ row = None /\ Fault
  /\ file' = [file EXCEPT !["token"] = None]
  /\ scars' = scars \union Left(t)
  /\ Stop(t)
  /\ UNCHANGED <<row, record, cache, outside, drawn, minted, shredded, started, crashes>>

\* tokens.forget() at the end of provision().
Settle(t) ==
  /\ Doing(t, "settle")
  /\ cache' = Forgotten("mail")
  /\ task' = [Released("mail", Wiped) EXCEPT ![t] = Idle]
  /\ scars' = scars \union WipedBy("mail")
  /\ UNCHANGED <<disk, outside, drawn, minted, shredded, bounds>>

---------------------------------------------------------------------------
\* Deletion: POST /account/delete.

StartDelete(t) ==
  /\ row # None
  /\ Begin(t, "delete", "release", None, {})
  /\ UNCHANGED drawn

\* account_forget() in the daemon: revoke the grant with the stored token while
\* its key exists, then drop the caches. A running voice job is waited for a
\* minute at most, so nothing is assumed to have ended.
Revocable ==
  /\ row # None /\ file["token"] # None /\ file["token"].handle = row
  /\ IF Fresh("mail") THEN cache["mail"].key = file["token"].key
     ELSE Opens(row) /\ record.key = file["token"].key

\* Broken variant: the release runs when the account is gone already.
ReleaseTooLate(t) ==
  /\ Doing(t, "release")
  /\ cache' = Forgotten("mail")
  /\ task' = [Released("mail", Wiped) EXCEPT ![t].pc = "row"]
  /\ scars' = scars \union WipedBy("mail")
  /\ UNCHANGED <<disk, outside, drawn, minted, shredded, bounds>>

Release(t) ==
  /\ Doing(t, "release")
  /\ \/ grant' = (grant /\ ~Revocable) /\ scars' = scars \union WipedBy("mail")
        /\ UNCHANGED faults
     \/ Fault /\ UNCHANGED grant
        /\ scars' = scars \union WipedBy("mail") \union {"unreleased"}
  /\ cache' = Forgotten("mail")
  /\ task' = [Released("mail", Wiped) EXCEPT ![t].pc = "row"]
  /\ UNCHANGED <<disk, wrapped, drawn, minted, shredded, started, crashes>>

\* The daemon is down, and the deletion goes ahead.
Unreleased(t) ==
  /\ Doing(t, "release") /\ Fault
  /\ scars' = scars \union {"unreleased"}
  /\ Goto(t, "row")
  /\ UNCHANGED <<disk, cache, outside, drawn, minted, shredded, started, crashes>>

\* delete_account(): the row, in a transaction; nothing more if it was gone.
DropRow(t) ==
  /\ Doing(t, "row")
  /\ row' = None
  /\ IF row = None THEN Stop(t) ELSE Goto(t, "forget")
  /\ UNCHANGED <<record, file, cache, outside, drawn, minted, history, bounds>>

\* Broken variant: destroy() unlinks the record and leaves the cache.
ForgetNothing(t) ==
  /\ Doing(t, "forget")
  /\ Goto(t, "unlink")
  /\ UNCHANGED <<disk, cache, outside, drawn, minted, history, bounds>>

\* destroy(): this process's cache, then the record.
ForgetKey(t) ==
  /\ Doing(t, "forget")
  /\ cache' = Forgotten("web")
  /\ task' = [Released("web", Wiped) EXCEPT ![t].pc = "unlink"]
  /\ scars' = scars \union WipedBy("web")
  /\ UNCHANGED <<disk, outside, drawn, minted, shredded, bounds>>

Unlink(t) ==
  /\ Doing(t, "unlink")
  /\ record' = None
  /\ shredded' = shredded \union IF record = None THEN {} ELSE {record.key}
  /\ Goto(t, "rmtree")
  /\ UNCHANGED <<row, file, cache, outside, drawn, minted, scars, bounds>>

Rmtree(t) ==
  /\ Doing(t, "rmtree")
  /\ record' = None /\ file' = [n \in Names |-> None]
  /\ Stop(t)
  /\ UNCHANGED <<row, cache, outside, drawn, minted, history, bounds>>

---------------------------------------------------------------------------
\* Rotation, reading, time and crashes.

\* rotate(): an account of the manifest that has a key.
StartRotate(t) ==
  /\ row # None /\ record # None
  /\ Begin(t, "rotate", "load", row, {})
  /\ UNCHANGED drawn

\* rewrap(): the record is read and sent to the co-signer...
Load(t) ==
  /\ Doing(t, "load") /\ Opens(task[t].handle)
  /\ task' = [task EXCEPT ![t].pc = "restore", ![t].key = record.key]
  /\ UNCHANGED <<disk, cache, outside, drawn, minted, history, bounds>>

LoadFails(t) ==
  /\ Doing(t, "load") /\ ~Opens(task[t].handle)
  /\ Stop(t)
  /\ UNCHANGED <<disk, cache, outside, drawn, minted, history, bounds>>

\* ...and what comes back, the same key under the current outer key, is stored.
Restore(t) ==
  /\ Doing(t, "restore")
  /\ record' = [handle |-> task[t].handle, key |-> task[t].key]
  /\ Stop(t)
  /\ UNCHANGED <<row, file, cache, outside, drawn, minted, history, bounds>>

\* read_encrypted() of a document, by a page or by the drafter, with an Account
\* that was loaded before a deletion in progress took its row.
Reader == row # None \/ \E t \in Tasks : task[t].pc \in {"forget", "unlink", "rmtree"}

Read(p) ==
  /\ Reader /\ file["doc"] # None /\ ~Fresh(p)
  /\ record # None /\ (row # None => Opens(row))
  /\ cache' = Loaded(p, record.key)
  /\ task' = Detached(p)
  /\ scars' = scars \union Overlap("read")
  /\ UNCHANGED <<disk, outside, drawn, minted, shredded, bounds>>

\* The user empties a document.
ClearDoc ==
  /\ row # None /\ file["doc"] # None
  /\ file' = [file EXCEPT !["doc"] = None]
  /\ UNCHANGED <<row, record, cache, outside, task, drawn, minted, history, bounds>>

\* DEK_TTL passes; the buffer stays until it is replaced or forgotten.
Expire(p) ==
  /\ Fresh(p)
  /\ cache' = [cache EXCEPT ![p].live = FALSE]
  /\ UNCHANGED <<disk, outside, task, drawn, minted, history, bounds>>

Crash(p) ==
  LET killed == {t \in Tasks : Process(task[t].op) = p}
  IN  /\ crashes < MaxCrashes /\ crashes' = crashes + 1
      /\ killed # {}
      /\ task' = [t \in Tasks |-> IF t \in killed THEN Idle ELSE task[t]]
      /\ cache' = [cache EXCEPT ![p] = None]
      /\ scars' = scars \union UNION {Left(t) : t \in killed}
      /\ UNCHANGED <<disk, outside, drawn, minted, shredded, started, faults>>

\* audit.record() raises after the manifest is saved: register_account() and
\* delete_account() end there, what follows undone.
Unrecorded(t) ==
  /\ task[t].pc \in {"settle", "forget"} /\ Fault
  /\ scars' = scars \union Left(t)
  /\ Stop(t)
  /\ UNCHANGED <<disk, cache, outside, drawn, minted, shredded, started, crashes>>

Arrive(t) ==
  \/ StartSignIn(t) \/ StartWrite(t, "voice") \/ StartWrite(t, "doc")
  \/ StartDelete(t) \/ StartRotate(t)

Write(t) ==
  \/ Take(t) \/ Guard(t) \/ RefuseDeleted(t)
  \/ Mint(t) \/ MintRefused(t) \/ WrapLost(t) \/ StoreKey(t)
  \/ Open(t) \/ OpenFails(t) \/ Save(t)
  \/ Register(t) \/ RegisterRefused(t) \/ Settle(t)

Delete(t) ==
  \/ Release(t) \/ Unreleased(t) \/ DropRow(t)
  \/ ForgetKey(t) \/ Unlink(t) \/ Rmtree(t)

Rotate(t) == Load(t) \/ LoadFails(t) \/ Restore(t)

Next ==
  \/ \E t \in Tasks : Arrive(t) \/ Write(t) \/ Delete(t) \/ Rotate(t) \/ Unrecorded(t)
  \/ \E p \in Processes : Read(p) \/ Expire(p) \/ Crash(p)
  \/ ClearDoc

Spec == Init /\ [][Next]_vars

---------------------------------------------------------------------------
\* Properties.

Quiet == \A t \in Tasks : Doing(t, "idle")

\* A sign-in can always repair or continue an account, since the co-signer
\* wraps a handle once ever: a registered account's record is sealed for its
\* own handle, or its one wrap is unspent or about to be stored; an address
\* without a row has no key left over. What can break it is named: first
\* sign-ins that overlap, an operation or a deletion cut short, and writers
\* and rotations that a deletion overtakes (provisioning.py provision,
\* keyring.py create, account.py delete_account).
NeverLockedOut ==
  scars \cap {"twins", "stranded", "halfDeleted", "signIn", "voice", "doc", "rotate"} = {} =>
    /\ row # None =>
         IF record # None THEN record.handle = row
         ELSE row \in wrapped =>
                \E t \in Tasks : Doing(t, "store") /\ task[t].handle = row
    /\ row = None /\ Quiet => record = None

\* What was stored can be read back: each file of a registered account is
\* sealed under the key on disk and bound to the account's handle, across
\* re-consents, rotations, expiring caches in two processes, deletions
\* followed by a new sign-up and crashes, unless a named event spoiled it. A
\* key wiped while a writer held it is one of them (keyring.py forget,
\* write_encrypted).
FilesOpen ==
  scars \cap (Raced \union {"twins", "stranded", "halfDeleted", "wiped"}) = {} /\ row # None =>
    \A n \in Names : file[n] # None =>
      Opens(row) /\ file[n] = [handle |-> row, key |-> record.key]

\* Crypto-shredding is final: no sign-in, document write or crash puts a
\* destroyed key back on disk. Only a rotation that read the record before the
\* deletion can (keyring.py destroy, rewrap).
OnlyRotationRestores ==
  record # None /\ record.key \in shredded => "rotate" \in scars

FilesHold == FilesOpen /\ OnlyRotationRestores

\* When a deletion that nothing overlapped ends, the account is gone: no row,
\* record or file, no key in either process, and no grant standing at Google;
\* the daemon's part, which needs the key, came first and was not skipped
\* (handoff_server.py _account_forget, account.py delete_account).
DeletionLeavesNothing ==
  \A t \in Tasks :
    /\ Doing(t, "rmtree") /\ task'[t] = Idle /\ scars' = {}
    => /\ row' = None /\ record' = None /\ ~grant'
       /\ \A n \in Names : file'[n] = None
       /\ \A p \in Processes : cache'[p] = None

DeletionErases == [][DeletionLeavesNothing]_vars

\* An account's key is minted once and never replaced while it exists, as
\* create() and DataKeyExists say of it (keyring.py).
OneKeyPerAccount ==
  [][record # None /\ record' # None => record'.key = record.key]_vars
===========================================================================
