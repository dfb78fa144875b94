---------------------------- MODULE TrustProofs -----------------------------
(***************************************************************************)
(* What the parts promise that decide whom to believe, for every value of  *)
(* their constants: the co-signer's key versions, a process's channel to   *)
(* the co-signer, the attestation verdicts, Google's signing certificates  *)
(* and the relay.                                                          *)
(*                                                                         *)
(* Each has its inductive invariant, the steps that keep it, and last the  *)
(* property of SideBySide that follows. That a part's behaviours are       *)
(* SideBySide's (its IsAPart lemma) is what ties the two.                  *)
(***************************************************************************)
EXTENDS SideBySide, Integers, Sequences, TLAPS

-----------------------------------------------------------------------------
(* KeyVersions (cosigner/keys.py, custody/rotate.py).                        *)
(* RecordsOpen is not inductive: a record opens today because its version    *)
(* is no older than the last finished sweep, and no credential as young as   *)
(* that is ever retired. While a sweep is under way the same is true of the  *)
(* version it began at, but for the accounts it has still to do.             *)

LEMMA KeyVersionsAssumed ==
  MAX_VERSION \in Nat \ {0} /\ None \notin Nat /\ (\A S \in SUBSET Accounts : S # None)
BY PartsAssumption DEF Keys!KeyVersionsAssumption

LEMMA KeysIsAPart == Spec => Keys!Spec
<1>1. Init => Keys!Init
  BY DEF Init
<1>2. [Next]_vars => [Keys!Next]_(Keys!vars)
  BY DEF Next, vars, keysVars, Keys!vars, Keys!cosigner, Keys!signups, Keys!rotation
<1> QED BY <1>1, <1>2, PTL DEF Spec, Keys!Spec

\* The credentials the running process may still need are on the disk.
KeysFilesInv ==
  /\ rotated..KEY_VERSION \subseteq files
  /\ deployed \in files
  /\ files \subseteq 1..KEY_VERSION + 1

KeysCachedInv == cached \subseteq 1..KEY_VERSION

\* An account has an answer to store or a record, and never both.
KeysSignUpInv == \A a \in Accounts : answers[a] = None \/ record[a] = None

\* Nothing an account has is older than the last sweep, unless it was missed.
KeysYoungInv ==
  \A a \in Accounts \ missed :
    /\ answers[a] # None => answers[a] \in rotated..KEY_VERSION
    /\ record[a] # None => record[a] \in rotated..KEY_VERSION

\* A sweep has brought forward what it is done with.
KeysSweepInv ==
  sweep # None =>
    /\ since \in rotated..KEY_VERSION
    /\ \A a \in Accounts \ missed :
         /\ answers[a] # None => answers[a] \in since..KEY_VERSION
         /\ record[a] # None /\ a \notin sweep => record[a] \in since..KEY_VERSION

KeysFetchedInv ==
  fetched # None =>
    /\ sweep # None /\ fetched.account \in sweep
    /\ fetched.version \in since..KEY_VERSION

KeysIInv ==
  Keys!TypeOK /\ KeysFilesInv /\ KeysCachedInv /\ KeysSignUpInv /\ KeysYoungInv /\ KeysSweepInv
      /\ KeysFetchedInv

-----------------------------------------------------------------------------
\* The process that runs holds at most the versions it can have been given.
LEMMA KeysKnownIsCurrent ==
  ASSUME Keys!TypeOK
  PROVE  Keys!Known \subseteq 1..KEY_VERSION /\ Keys!Known \subseteq Keys!Versions
BY KeyVersionsAssumed DEF Keys!TypeOK, Keys!Known, Keys!Versions, Keys!FIRST_VERSION

LEMMA KeysInitIInv == Keys!Init => KeysIInv
BY KeyVersionsAssumed
   DEF Keys!Init, KeysIInv, Keys!TypeOK, KeysFilesInv, KeysCachedInv, KeysSignUpInv,
   KeysYoungInv, KeysSweepInv, KeysFetchedInv,
       Keys!Versions, Keys!FIRST_VERSION
\* What the co-signer's own steps and the operator's leave true.  A credential
\* is retired only below the last finished sweep.
LEMMA KeysCosignerStep ==
  ASSUME KeysIInv, Keys!Provision \/ Keys!Bump \/ Keys!Restart \/ Keys!Retire
  PROVE  KeysIInv'
<1> USE KeyVersionsAssumed
<1>1. CASE Keys!Provision
  <2>1. UNCHANGED <<deployed, KEY_VERSION, cached, answers, record, rows, sweep,
  fetched,
                    since, rotated, missed>>
    BY <1>1 DEF Keys!Provision, Keys!signups, Keys!rotation
  <2>2. files' \subseteq Keys!Versions
    BY <1>1 DEF KeysIInv, Keys!TypeOK, Keys!Provision, Keys!Versions, Keys!FIRST_VERSION
  <2>3. Keys!TypeOK'
    BY <2>1, <2>2 DEF KeysIInv, Keys!TypeOK
  <2> QED
    BY <1>1, <2>3 DEF KeysIInv, Keys!TypeOK, KeysFilesInv, KeysCachedInv,
       KeysSignUpInv, KeysYoungInv, KeysSweepInv,
       KeysFetchedInv, Keys!Provision, Keys!Versions, Keys!FIRST_VERSION, Keys!signups,
       Keys!rotation
<1>2. CASE Keys!Bump
  <2>1. Keys!TypeOK'
    BY <1>2 DEF KeysIInv, Keys!TypeOK, KeysFilesInv, Keys!Bump, Keys!Versions,
       Keys!FIRST_VERSION, Keys!signups, Keys!rotation
  <2> QED
    BY <1>2, <2>1 DEF KeysIInv, Keys!TypeOK, KeysFilesInv, KeysCachedInv,
       KeysSignUpInv, KeysYoungInv, KeysSweepInv,
       KeysFetchedInv, Keys!Bump, Keys!Versions, Keys!FIRST_VERSION, Keys!signups,
       Keys!rotation
<1>3. CASE Keys!Restart
  <2>1. KEY_VERSION \in Nat /\ KEY_VERSION' \in Nat /\ KEY_VERSION <= KEY_VERSION'
    BY <1>3 DEF KeysIInv, Keys!TypeOK, Keys!Restart, Keys!Versions, Keys!FIRST_VERSION
  <2>2. Keys!TypeOK'
    BY <1>3, <2>1 DEF KeysIInv, Keys!TypeOK, Keys!Restart, Keys!Versions,
       Keys!FIRST_VERSION, Keys!signups, Keys!rotation
  <2>3. KeysFilesInv' /\ KeysCachedInv'
    BY <1>3, <2>1 DEF KeysIInv, Keys!TypeOK, KeysFilesInv, KeysCachedInv, Keys!Restart,
       Keys!Versions, Keys!FIRST_VERSION,
       Keys!signups, Keys!rotation
  <2>4. KeysSignUpInv' /\ KeysYoungInv'
    BY <1>3, <2>1 DEF KeysIInv, Keys!TypeOK, KeysSignUpInv, KeysYoungInv, Keys!Restart,
       Keys!Versions, Keys!FIRST_VERSION,
       Keys!signups, Keys!rotation
  <2>5. KeysSweepInv' /\ KeysFetchedInv'
    BY <1>3, <2>1 DEF KeysIInv, Keys!TypeOK, KeysSweepInv, KeysFetchedInv,
       Keys!Restart, Keys!Versions, Keys!FIRST_VERSION,
       Keys!signups, Keys!rotation
  <2> QED BY <2>2, <2>3, <2>4, <2>5 DEF KeysIInv
<1>4. CASE Keys!Retire
  <2>1. Keys!TypeOK'
    BY <1>4 DEF KeysIInv, Keys!TypeOK, Keys!Retire, Keys!Versions, Keys!FIRST_VERSION,
       Keys!signups, Keys!rotation
  <2> QED
    BY <1>4, <2>1 DEF KeysIInv, Keys!TypeOK, KeysFilesInv, KeysCachedInv,
       KeysSignUpInv, KeysYoungInv, KeysSweepInv,
       KeysFetchedInv, Keys!Retire, Keys!Versions, Keys!FIRST_VERSION, Keys!signups,
       Keys!rotation
<1> QED BY <1>1, <1>2, <1>3, <1>4
\* What an account's steps leave true: what it is given is as young as the
\* process that gives it.
LEMMA KeysAccountStep ==
  ASSUME KeysIInv, NEW a \in Accounts,
         Keys!Wrap(a) \/ Keys!StoreRecord(a) \/ Keys!Register(a) \/ Keys!Delete(a)
         \/ Keys!Unwrap(a)
  PROVE  KeysIInv'
<1> USE KeyVersionsAssumed
<1>1. CASE Keys!Wrap(a)
  <2>1. Keys!TypeOK'
    BY <1>1, KeysKnownIsCurrent DEF KeysIInv, Keys!TypeOK, Keys!Wrap, Keys!Versions,
       Keys!FIRST_VERSION, Keys!rotation
  <2>2. KeysFilesInv' /\ KeysCachedInv'
    BY <1>1, KeysKnownIsCurrent DEF KeysIInv, Keys!TypeOK, KeysFilesInv, KeysCachedInv,
       Keys!Wrap, Keys!Versions,
       Keys!FIRST_VERSION, Keys!rotation
  <2>3. KeysSignUpInv' /\ KeysYoungInv'
    BY <1>1 DEF KeysIInv, Keys!TypeOK, KeysSignUpInv, KeysYoungInv, Keys!Wrap,
       Keys!Versions, Keys!FIRST_VERSION, Keys!rotation
  <2>4. KeysSweepInv' /\ KeysFetchedInv'
    BY <1>1 DEF KeysIInv, Keys!TypeOK, KeysSignUpInv, KeysYoungInv, KeysSweepInv,
       KeysFetchedInv, Keys!Wrap, Keys!Versions,
       Keys!FIRST_VERSION, Keys!rotation
  <2> QED BY <2>1, <2>2, <2>3, <2>4 DEF KeysIInv
<1>2. CASE Keys!StoreRecord(a)
  <2>1. Keys!TypeOK'
    BY <1>2, KeysKnownIsCurrent DEF KeysIInv, Keys!TypeOK, Keys!StoreRecord,
       Keys!Versions,
       Keys!FIRST_VERSION,
       Keys!cosigner, Keys!rotation
  <2>2. KeysFilesInv' /\ KeysCachedInv'
    BY <1>2, KeysKnownIsCurrent DEF KeysIInv, Keys!TypeOK, KeysFilesInv, KeysCachedInv,
       Keys!StoreRecord, Keys!Versions,
       Keys!FIRST_VERSION, Keys!cosigner, Keys!rotation
  <2>3. KeysSignUpInv' /\ KeysYoungInv'
    BY <1>2 DEF KeysIInv, Keys!TypeOK, KeysSignUpInv, KeysYoungInv, Keys!StoreRecord,
       Keys!Versions, Keys!FIRST_VERSION,
       Keys!cosigner, Keys!rotation
  <2>4. KeysSweepInv' /\ KeysFetchedInv'
    BY <1>2 DEF KeysIInv, Keys!TypeOK, KeysSignUpInv, KeysYoungInv, KeysSweepInv,
       KeysFetchedInv, Keys!StoreRecord,
       Keys!Versions, Keys!FIRST_VERSION, Keys!cosigner, Keys!rotation
  <2> QED BY <2>1, <2>2, <2>3, <2>4 DEF KeysIInv
<1>3. CASE Keys!Register(a)
  <2>1. Keys!TypeOK'
    BY <1>3, KeysKnownIsCurrent DEF KeysIInv, Keys!TypeOK, Keys!Register, Keys!Versions,
       Keys!FIRST_VERSION, Keys!cosigner,
       Keys!rotation
  <2>2. KeysFilesInv' /\ KeysCachedInv'
    BY <1>3, KeysKnownIsCurrent DEF KeysIInv, Keys!TypeOK, KeysFilesInv, KeysCachedInv,
       Keys!Register, Keys!Versions,
       Keys!FIRST_VERSION, Keys!cosigner, Keys!rotation
  <2>3. KeysSignUpInv' /\ KeysYoungInv'
    BY <1>3 DEF KeysIInv, Keys!TypeOK, KeysSignUpInv, KeysYoungInv, Keys!Register,
       Keys!Versions, Keys!FIRST_VERSION,
       Keys!cosigner, Keys!rotation
  <2>4. KeysSweepInv' /\ KeysFetchedInv'
    BY <1>3 DEF KeysIInv, Keys!TypeOK, KeysSignUpInv, KeysYoungInv, KeysSweepInv,
       KeysFetchedInv, Keys!Register,
       Keys!Versions, Keys!FIRST_VERSION, Keys!cosigner, Keys!rotation
  <2> QED BY <2>1, <2>2, <2>3, <2>4 DEF KeysIInv
<1>4. CASE Keys!Delete(a)
  <2>1. Keys!TypeOK'
    BY <1>4, KeysKnownIsCurrent DEF KeysIInv, Keys!TypeOK, Keys!Delete, Keys!Versions,
       Keys!FIRST_VERSION, Keys!cosigner
  <2>2. KeysFilesInv' /\ KeysCachedInv'
    BY <1>4, KeysKnownIsCurrent DEF KeysIInv, Keys!TypeOK, KeysFilesInv, KeysCachedInv,
       Keys!Delete, Keys!Versions,
       Keys!FIRST_VERSION, Keys!cosigner
  <2>3. KeysSignUpInv' /\ KeysYoungInv'
    BY <1>4 DEF KeysIInv, Keys!TypeOK, KeysSignUpInv, KeysYoungInv, Keys!Delete,
       Keys!Versions, Keys!FIRST_VERSION, Keys!cosigner
  <2>4. KeysSweepInv' /\ KeysFetchedInv'
    BY <1>4 DEF KeysIInv, Keys!TypeOK, KeysSignUpInv, KeysYoungInv, KeysSweepInv,
       KeysFetchedInv, Keys!Delete, Keys!Versions,
       Keys!FIRST_VERSION, Keys!cosigner
  <2> QED BY <2>1, <2>2, <2>3, <2>4 DEF KeysIInv
<1>5. CASE Keys!Unwrap(a)
  <2>1. Keys!TypeOK'
    BY <1>5, KeysKnownIsCurrent DEF KeysIInv, Keys!TypeOK, Keys!Unwrap, Keys!Look,
       Keys!Versions, Keys!FIRST_VERSION,
       Keys!signups, Keys!rotation
  <2>2. KeysFilesInv' /\ KeysCachedInv'
    BY <1>5, KeysKnownIsCurrent DEF KeysIInv, Keys!TypeOK, KeysFilesInv, KeysCachedInv,
       Keys!Unwrap, Keys!Look, Keys!Versions,
       Keys!FIRST_VERSION, Keys!signups, Keys!rotation
  <2>3. KeysSignUpInv' /\ KeysYoungInv'
    BY <1>5 DEF KeysIInv, Keys!TypeOK, KeysSignUpInv, KeysYoungInv, Keys!Unwrap,
       Keys!Look, Keys!Versions, Keys!FIRST_VERSION,
       Keys!signups, Keys!rotation
  <2>4. KeysSweepInv' /\ KeysFetchedInv'
    BY <1>5 DEF KeysIInv, Keys!TypeOK, KeysSignUpInv, KeysYoungInv, KeysSweepInv,
       KeysFetchedInv, Keys!Unwrap, Keys!Look,
       Keys!Versions, Keys!FIRST_VERSION, Keys!signups, Keys!rotation
  <2> QED BY <2>1, <2>2, <2>3, <2>4 DEF KeysIInv
<1> QED BY <1>1, <1>2, <1>3, <1>4, <1>5

\* What the rotation's steps leave true: an account leaves the list with a record
\* as young as the sweep, and was on it unless it was counted as missed.
LEMMA KeysSweepStep ==
  ASSUME KeysIInv,
         Keys!StartSweep \/ (\E a \in Accounts : Keys!Fetch(a)) \/ Keys!Store
         \/ Keys!StopOnFailure \/ Keys!FinishSweep
  PROVE  KeysIInv'
<1> USE KeyVersionsAssumed
<1>1. CASE Keys!StartSweep
  <2>1. Keys!TypeOK'
    BY <1>1, KeysKnownIsCurrent DEF KeysIInv, Keys!TypeOK, Keys!StartSweep,
       Keys!Signing,
       Keys!Versions, Keys!FIRST_VERSION,
       Keys!cosigner, Keys!signups
  <2>2. KeysFilesInv' /\ KeysCachedInv'
    BY <1>1, KeysKnownIsCurrent DEF KeysIInv, Keys!TypeOK, KeysFilesInv, KeysCachedInv,
       Keys!StartSweep, Keys!Signing,
       Keys!Versions, Keys!FIRST_VERSION, Keys!cosigner, Keys!signups
  <2>3. KeysSignUpInv' /\ KeysYoungInv'
    BY <1>1 DEF KeysIInv, Keys!TypeOK, KeysSignUpInv, KeysYoungInv, Keys!StartSweep,
       Keys!Signing, Keys!Versions,
       Keys!FIRST_VERSION, Keys!cosigner, Keys!signups
  <2>4. KeysSweepInv' /\ KeysFetchedInv'
    BY <1>1 DEF KeysIInv, Keys!TypeOK, KeysSignUpInv, KeysYoungInv, KeysSweepInv,
       KeysFetchedInv, Keys!StartSweep,
       Keys!Signing, Keys!Versions, Keys!FIRST_VERSION, Keys!cosigner, Keys!signups
  <2> QED BY <2>1, <2>2, <2>3, <2>4 DEF KeysIInv
<1>2. CASE Keys!Store
  <2>0. /\ fetched.account \in sweep /\ sweep \subseteq Accounts
        /\ since \in rotated..KEY_VERSION /\ fetched.version \in since..KEY_VERSION
    BY <1>2 DEF KeysIInv, Keys!TypeOK, KeysSweepInv, KeysFetchedInv, Keys!Store
  <2>1. Keys!TypeOK'
    BY <1>2, <2>0 DEF KeysIInv, Keys!TypeOK, Keys!Store, Keys!Versions,
       Keys!FIRST_VERSION, Keys!cosigner
  <2>2. KeysFilesInv' /\ KeysCachedInv'
    BY <1>2 DEF KeysIInv, KeysFilesInv, KeysCachedInv, Keys!Store, Keys!cosigner
  <2>3. KeysSignUpInv' /\ KeysYoungInv'
    <3>1. ASSUME NEW b \in Accounts, record'[b] # None
          PROVE  /\ answers[b] = None
                 /\ b \notin missed => record'[b] \in rotated..KEY_VERSION
      BY <1>2, <2>0, <3>1 DEF KeysIInv, Keys!TypeOK, KeysSignUpInv, KeysYoungInv,
         Keys!Store, Keys!Versions, Keys!FIRST_VERSION
    <3> QED BY <1>2, <3>1 DEF KeysIInv, KeysSignUpInv, KeysYoungInv, Keys!Store,
    Keys!cosigner
  <2>4. KeysSweepInv' /\ KeysFetchedInv'
    BY <1>2, <2>0 DEF KeysIInv, Keys!TypeOK, KeysSweepInv, KeysFetchedInv, Keys!Store,
       Keys!Versions, Keys!FIRST_VERSION,
       Keys!cosigner
  <2> QED BY <2>1, <2>2, <2>3, <2>4 DEF KeysIInv
<1>3. CASE Keys!StopOnFailure
  <2>1. Keys!TypeOK'
    BY <1>3, KeysKnownIsCurrent DEF KeysIInv, Keys!TypeOK, Keys!StopOnFailure,
       Keys!Versions, Keys!FIRST_VERSION,
       Keys!cosigner, Keys!signups
  <2>2. KeysFilesInv' /\ KeysCachedInv'
    BY <1>3, KeysKnownIsCurrent DEF KeysIInv, Keys!TypeOK, KeysFilesInv, KeysCachedInv,
       Keys!StopOnFailure, Keys!Versions,
       Keys!FIRST_VERSION, Keys!cosigner, Keys!signups
  <2>3. KeysSignUpInv' /\ KeysYoungInv'
    BY <1>3 DEF KeysIInv, Keys!TypeOK, KeysSignUpInv, KeysYoungInv, Keys!StopOnFailure,
       Keys!Versions, Keys!FIRST_VERSION,
       Keys!cosigner, Keys!signups
  <2>4. KeysSweepInv' /\ KeysFetchedInv'
    BY <1>3 DEF KeysIInv, Keys!TypeOK, KeysSignUpInv, KeysYoungInv, KeysSweepInv,
       KeysFetchedInv, Keys!StopOnFailure,
       Keys!Versions, Keys!FIRST_VERSION, Keys!cosigner, Keys!signups
  <2> QED BY <2>1, <2>2, <2>3, <2>4 DEF KeysIInv
<1>4. CASE Keys!FinishSweep
  <2>0. sweep # None /\ since \in rotated..KEY_VERSION /\ fetched = None
    BY <1>4 DEF KeysIInv, KeysSweepInv, KeysFetchedInv, Keys!FinishSweep
  <2>1. Keys!TypeOK'
    BY <1>4, <2>0 DEF KeysIInv, Keys!TypeOK, Keys!FinishSweep, Keys!Versions,
       Keys!FIRST_VERSION, Keys!cosigner, Keys!signups
  <2>2. KeysFilesInv' /\ KeysCachedInv'
    BY <1>4, <2>0 DEF KeysIInv, Keys!TypeOK, KeysFilesInv, KeysCachedInv,
       Keys!FinishSweep, Keys!Versions, Keys!FIRST_VERSION,
       Keys!cosigner
  <2>3. KeysSignUpInv' /\ KeysYoungInv'
    BY <1>4, <2>0 DEF KeysIInv, KeysSignUpInv, KeysYoungInv, KeysSweepInv,
       Keys!FinishSweep, Keys!cosigner, Keys!signups
  <2>4. KeysSweepInv' /\ KeysFetchedInv'
    BY <1>4, <2>0 DEF KeysIInv, KeysSweepInv, KeysFetchedInv, Keys!FinishSweep
  <2> QED BY <2>1, <2>2, <2>3, <2>4 DEF KeysIInv
<1>5. ASSUME NEW a \in Accounts, Keys!Fetch(a)
      PROVE  KeysIInv'
  <2>1. Keys!TypeOK'
    BY <1>5, KeysKnownIsCurrent DEF KeysIInv, Keys!TypeOK, Keys!Fetch, Keys!Look,
       Keys!Versions, Keys!FIRST_VERSION, Keys!signups
  <2>2. KeysFilesInv' /\ KeysCachedInv'
    BY <1>5, KeysKnownIsCurrent DEF KeysIInv, KeysFilesInv, KeysCachedInv, Keys!Fetch,
       Keys!Look
  <2>3. KeysSignUpInv' /\ KeysYoungInv'
    BY <1>5 DEF KeysIInv, KeysSignUpInv, KeysYoungInv, Keys!Fetch, Keys!signups
  <2>4. KeysSweepInv' /\ KeysFetchedInv'
    BY <1>5 DEF KeysIInv, Keys!TypeOK, KeysSweepInv, KeysFetchedInv, Keys!Fetch,
       Keys!Versions, Keys!FIRST_VERSION, Keys!signups
  <2> QED BY <2>1, <2>2, <2>3, <2>4 DEF KeysIInv
<1> QED BY <1>1, <1>2, <1>3, <1>4, <1>5

\* A record an unmissed account has is no older than the last finished sweep,
\* and every key from there on is still there.
LEMMA YoungRecordsOpen == KeysIInv => Keys!RecordsOpen
BY KeyVersionsAssumed
   DEF KeysIInv, Keys!TypeOK, KeysFilesInv, KeysYoungInv, Keys!RecordsOpen, Keys!Opens,
   Keys!Known, Keys!Versions, Keys!FIRST_VERSION

LEMMA KeysStepIInv == KeysIInv /\ [Keys!Next]_(Keys!vars) => KeysIInv'
<1> SUFFICES ASSUME KeysIInv, [Keys!Next]_(Keys!vars) PROVE KeysIInv'
  OBVIOUS
<1>1. CASE UNCHANGED Keys!vars
  BY <1>1 DEF Keys!vars, Keys!cosigner, Keys!signups, Keys!rotation, KeysIInv,
     Keys!TypeOK, KeysFilesInv, KeysCachedInv, KeysSignUpInv,
     KeysYoungInv, KeysSweepInv, KeysFetchedInv
<1>2. CASE Keys!Next
  BY <1>2, KeysCosignerStep, KeysAccountStep, KeysSweepStep DEF Keys!Next,
     Keys!Account, Keys!Operator
<1> QED BY <1>1, <1>2

-----------------------------------------------------------------------------
\* The reachable states of the key rotation (cosigner/keys.py, custody/rotate.py).
THEOREM KeysInvariant == Keys!Spec => []KeysIInv
BY KeysInitIInv, KeysStepIInv, PTL DEF Keys!Spec

\* Every variable keeps its shape (cosigner/keys.py, custody/rotate.py).
THEOREM KeyVersionsTyped == Keys!Spec => []Keys!TypeOK
<1>1. KeysIInv => Keys!TypeOK
  BY DEF KeysIInv
<1> QED BY KeysInvariant, <1>1, PTL

\* "Every existing record still opens", however many accounts there are and
\* however often the key is rotated, with sweeps that fail, restarts and retired
\* keys in between (cosigner/keys.py:29-54, custody/rotate.py).
THEOREM RecordsOpenAlways == Keys!Spec => []Keys!RecordsOpen
BY KeysInvariant, YoungRecordsOpen, PTL

THEOREM RecordsStayOpen == Spec => []RecordsOpen
<1>1. Keys!RecordsOpen => RecordsOpen
  BY DEF RecordsOpen
<1> QED BY <1>1, KeysIsAPart, RecordsOpenAlways, PTL

-----------------------------------------------------------------------------
(* CoSignerClient (custody/client.py, tee/tee_boot.py).                      *)
(* A call for custody stays in flight only while the process runs behind     *)
(* the gate it passed (ClientGateInv), a certificate is written before its   *)
(* key by the one thread that fetches (ClientPairInv), and the mark of the   *)
(* last alert is no later than what was told (ClientMarkInv).                *)

ClientSteps == {"idle", "identify", "cert", "key", "send", "alert", "mark", "tell"}
ClientAsks == {"none", "health", "custody"}
ClientCallsMade == [step : ClientSteps, asks : ClientAsks, pair : Nat, since : Nat]

ClientShapes ==
  /\ clientNow \in Nat /\ lastAlert \in Nat /\ alerted \in Nat /\ minted \in Nat
  /\ thread \in [Workers -> ClientCallsMade]

\* A process that runs has passed its gate, and what it has asked it was told.
ClientGateInv ==
  /\ running => wrong = {}
  /\ checked => heardMode = Client!REQUIRED
  /\ \A t \in Workers :
       /\ ~running => thread[t] = Client!NoCall
       /\ thread[t].asks = "custody" => heardMode = Client!REQUIRED

\* One thread at the pair leaves one pair behind.
ClientPairInv ==
  ~crowded =>
    /\ \A t, u \in Workers : Client!AtThePair(t) /\ Client!AtThePair(u) => t = u
    /\ \A t \in Workers : thread[t].step = "key" => cert = thread[t].pair
    /\ identity /\ (\A t \in Workers : ~Client!AtThePair(t)) => cert = key

\* The mark is no later than the last alert, but while one is being told.
ClientMarkInv ==
  /\ lastAlert <= clientNow /\ alerted <= clientNow
  /\ \A t \in Workers : thread[t].step = "mark" => thread[t].since <= clientNow
  /\ (\E t \in Workers : thread[t].step = "tell") \/ alerted >= lastAlert

ClientIInv == ClientShapes /\ ClientGateInv /\ ClientPairInv /\ ClientMarkInv /\ ~silent

LEMMA ClientInitIInv ==
  ASSUME Client!CoSignerClientAssumption
  PROVE  Client!Init => ClientIInv
BY DEF Client!CoSignerClientAssumption, Client!Init, ClientIInv, ClientShapes,
   ClientGateInv, ClientPairInv, ClientMarkInv, Client!NoCall, ClientCallsMade,
   ClientSteps, ClientAsks, Client!AtThePair

\* A process begins or ends, its co-signer changes, time passes.
LEMMA ClientProcessKeeps ==
  ASSUME Client!CoSignerClientAssumption, ClientIInv,
         Client!Boot \/ Client!Die \/ Client!Redeploy \/ Client!CoSignerRestarts \/ Client!Tick
  PROVE  ClientIInv'
<1>1. CASE Client!Boot
  BY <1>1 DEF Client!Boot, ClientIInv, ClientShapes, ClientGateInv, ClientPairInv,
     ClientMarkInv, Client!AtThePair
<1>2. CASE Client!Die
  BY <1>2 DEF Client!Die, ClientIInv, ClientShapes, ClientGateInv, ClientPairInv,
     ClientMarkInv, Client!AtThePair, Client!NoCall, ClientCallsMade,
     ClientSteps, ClientAsks
<1>3. CASE Client!Redeploy
  BY <1>3 DEF Client!Redeploy, ClientIInv, ClientShapes, ClientGateInv, ClientPairInv,
     ClientMarkInv, Client!AtThePair
<1>4. CASE Client!CoSignerRestarts
  BY <1>4 DEF Client!CoSignerRestarts, ClientIInv, ClientShapes, ClientGateInv,
     ClientPairInv, ClientMarkInv, Client!AtThePair
<1>5. CASE Client!Tick
  <2>1. clientNow' = clientNow + 1 /\ clientNow \in Nat /\ lastAlert \in Nat /\ alerted \in Nat
        /\ \A t \in Workers : thread[t].since \in Nat
    BY <1>5 DEF Client!Tick, ClientIInv, ClientShapes, ClientCallsMade
  <2> QED BY <1>5, <2>1 DEF Client!Tick, ClientIInv, ClientShapes, ClientGateInv,
             ClientPairInv, ClientMarkInv, Client!AtThePair
<1> QED BY <1>1, <1>2, <1>3, <1>4, <1>5

\* A call that ends, or goes on to be sent or told of, away from the pair.
LEMMA ClientElsewhereKeeps ==
  ASSUME Client!CoSignerClientAssumption, ClientIInv, NEW t \in Workers,
         NEW call \in ClientCallsMade,
         UNCHANGED <<Client!processVars, identity, cert, key, lastAlert, alerted, minted, crowded, silent>>,
         running, thread[t].step \notin {"cert", "key", "tell"},
         call.step \notin {"cert", "key"},
         call.step = "mark" => call.since <= clientNow,
         thread' = [thread EXCEPT ![t] = call],
         heardMode = Client!REQUIRED => heardMode' = Client!REQUIRED,
         checked' => heardMode' = Client!REQUIRED,
         call.asks = "custody" => heardMode' = Client!REQUIRED
  PROVE  ClientIInv'
<1>1. thread'[t] = call /\ \A u \in Workers : u # t => thread'[u] = thread[u]
  BY DEF ClientIInv, ClientShapes
<1>2. ClientShapes'
  BY DEF ClientIInv, ClientShapes, Client!processVars
<1>3. ClientGateInv'
  BY <1>1 DEF ClientIInv, ClientGateInv, Client!processVars
<1>4. ClientPairInv'
  BY <1>1 DEF ClientIInv, ClientPairInv, Client!AtThePair
<1>5. ClientMarkInv'
  BY <1>1 DEF ClientIInv, ClientMarkInv, Client!processVars
<1> QED BY <1>2, <1>3, <1>4, <1>5 DEF ClientIInv

LEMMA ClientCallsTyped ==
  ASSUME NEW c \in ClientCallsMade
  PROVE  /\ \A s \in ClientSteps : /\ [c EXCEPT !.step = s] \in ClientCallsMade
                                   /\ [c EXCEPT !.step = s].step = s
                                   /\ [c EXCEPT !.step = s].asks = c.asks
         /\ Client!NoCall \in ClientCallsMade /\ Client!NoCall.step = "idle" /\ Client!NoCall.asks = "none"
<1>1. \A s \in ClientSteps : [c EXCEPT !.step = s] \in ClientCallsMade
  BY DEF ClientCallsMade
<1> QED BY <1>1 DEF ClientCallsMade, Client!NoCall, ClientSteps, ClientAsks

LEMMA ClientCallKeeps ==
  ASSUME Client!CoSignerClientAssumption, ClientIInv, NEW t \in Workers,
         Client!Call(t) \/ Client!Unreachable(t) \/ Client!Malformed(t) \/ Client!Health(t)
             \/ Client!Served(t)
  PROVE  ClientIInv'
<1>0. thread[t] \in ClientCallsMade
  BY DEF ClientIInv, ClientShapes
<1>1. CASE Client!Call(t)
  <2> DEFINE call == [Client!NoCall EXCEPT !.step = "identify",
                                           !.asks = IF checked THEN "custody" ELSE "health"]
  <2>1. /\ call \in ClientCallsMade /\ call.step = "identify"
        /\ call.asks = "custody" => checked
    BY DEF Client!NoCall, ClientCallsMade, ClientSteps, ClientAsks
  <2>2. thread' = [thread EXCEPT ![t] = call]
    BY <1>1 DEF Client!Call, Client!Becomes
  <2> HIDE DEF call
  <2>3. UNCHANGED <<Client!processVars, checked, identity, cert, key, lastAlert, minted, heardMode, alerted,
                    crowded, silent>> /\ running /\ thread[t].step = "idle"
    BY <1>1 DEF Client!Call, Client!At
  <2>4. checked => heardMode = Client!REQUIRED
    BY DEF ClientIInv, ClientGateInv
  <2> QED BY <2>1, <2>2, <2>3, <2>4, ClientElsewhereKeeps
<1>2. CASE Client!Unreachable(t)
  <2> DEFINE call == [thread[t] EXCEPT !.step = "alert"]
  <2>1. /\ call \in ClientCallsMade /\ call.step = "alert" /\ call.asks = thread[t].asks
    BY <1>0 DEF ClientCallsMade, ClientSteps
  <2>2. thread' = [thread EXCEPT ![t] = call]
    BY <1>2 DEF Client!Unreachable, Client!GoesTo
  <2> HIDE DEF call
  <2>3. UNCHANGED <<Client!processVars, checked, identity, cert, key, lastAlert, minted, heardMode, alerted,
                    crowded, silent>> /\ running /\ thread[t].step = "send"
    BY <1>2 DEF Client!Unreachable, Client!At
  <2>4. (checked => heardMode = Client!REQUIRED) /\ (thread[t].asks = "custody"
            => heardMode = Client!REQUIRED)
    BY DEF ClientIInv, ClientGateInv
  <2> QED BY <2>1, <2>2, <2>3, <2>4, ClientElsewhereKeeps
<1>3. CASE Client!Malformed(t) \/ Client!Served(t)
  <2>1. thread' = [thread EXCEPT ![t] = Client!NoCall]
    BY <1>3 DEF Client!Malformed, Client!Served, Client!Becomes
  <2>2. UNCHANGED <<Client!processVars, checked, identity, cert, key, lastAlert, minted, heardMode, alerted,
                    crowded, silent>> /\ running /\ thread[t].step = "send"
    BY <1>3 DEF Client!Malformed, Client!Served, Client!At
  <2>3. checked => heardMode = Client!REQUIRED
    BY DEF ClientIInv, ClientGateInv
  <2> QED BY <1>0, <2>1, <2>2, <2>3, ClientCallsTyped, ClientElsewhereKeeps
<1>4. CASE Client!Health(t)
  <2> DEFINE call == IF Client!Accept(mode)
                     THEN [thread[t] EXCEPT !.step = "identify", !.asks = "custody"]
                     ELSE [thread[t] EXCEPT !.step = "alert"]
  <2>1. /\ call \in ClientCallsMade /\ call.step \in {"identify", "alert"}
        /\ call.asks = "custody" => Client!Accept(mode)
    BY <1>0, <1>4 DEF Client!Health, ClientCallsMade, ClientSteps, ClientAsks
  <2>2. thread' = [thread EXCEPT ![t] = call]
    BY <1>4 DEF Client!Health, Client!GoesTo, Client!Becomes
  <2> HIDE DEF call
  <2>3. UNCHANGED <<Client!processVars, identity, cert, key, lastAlert, minted, alerted,
                    crowded, silent>> /\ running /\ thread[t].step = "send"
    BY <1>4 DEF Client!Health, Client!At
  <2>4. heardMode' = (IF heardMode = Client!REQUIRED THEN heardMode ELSE mode)
            /\ checked' = (checked \/ Client!Accept(mode))
    BY <1>4 DEF Client!Health
  <2>5. checked => heardMode = Client!REQUIRED
    BY DEF ClientIInv, ClientGateInv
  <2>6. /\ heardMode = Client!REQUIRED => heardMode' = Client!REQUIRED
        /\ Client!Accept(mode) => heardMode' = Client!REQUIRED
    BY <2>4 DEF Client!Accept
  <2>7. checked' => heardMode' = Client!REQUIRED
    BY <2>4, <2>5, <2>6, Zenon
  <2> QED BY <2>1, <2>2, <2>3, <2>6, <2>7, ClientElsewhereKeeps
<1> QED BY <1>1, <1>2, <1>3, <1>4

\* A thread takes the cached pair, is refused, or begins a new pair.
LEMMA ClientIdentifyKeeps ==
  ASSUME Client!CoSignerClientAssumption, ClientIInv, NEW t \in Workers, Client!Identify(t)
  PROVE  ClientIInv'
<1>0. /\ thread[t] \in ClientCallsMade /\ running /\ thread[t].step = "identify"
      /\ UNCHANGED <<Client!processVars, checked, identity, cert, key, lastAlert, heardMode, alerted, silent>>
  BY DEF ClientIInv, ClientShapes, Client!Identify, Client!At
<1>1. (checked => heardMode = Client!REQUIRED) /\ (thread[t].asks = "custody" => heardMode = Client!REQUIRED)
  BY DEF ClientIInv, ClientGateInv
<1>2. CASE Client!GoesTo(t, "send") /\ UNCHANGED <<minted, crowded>>
  <2> DEFINE call == [thread[t] EXCEPT !.step = "send"]
  <2>1. /\ call \in ClientCallsMade /\ call.step = "send" /\ call.asks = thread[t].asks
    BY <1>0 DEF ClientCallsMade, ClientSteps
  <2>2. thread' = [thread EXCEPT ![t] = call]
    BY <1>2 DEF Client!GoesTo
  <2> HIDE DEF call
  <2> QED BY <1>0, <1>1, <1>2, <2>1, <2>2, ClientElsewhereKeeps
<1>3. CASE Client!Becomes(t, Client!NoCall) /\ UNCHANGED <<minted, crowded>>
  <2>1. thread' = [thread EXCEPT ![t] = Client!NoCall]
    BY <1>3 DEF Client!Becomes
  <2> QED BY <1>0, <1>1, <1>3, <2>1, ClientCallsTyped, ClientElsewhereKeeps
<1>4. ASSUME ~identity, minted' = minted + 1,
             Client!Becomes(t, [thread[t] EXCEPT !.step = "cert", !.pair = minted + 1]),
             crowded' = (crowded \/ \E other \in Workers : Client!AtThePair(other))
      PROVE  ClientIInv'
  <2> DEFINE call == [thread[t] EXCEPT !.step = "cert", !.pair = minted + 1]
  <2>0. minted + 1 \in Nat
    BY DEF ClientIInv, ClientShapes
  <2>1. /\ call \in ClientCallsMade /\ call.step = "cert" /\ call.asks = thread[t].asks
    BY <1>0, <2>0 DEF ClientCallsMade, ClientSteps
  <2>2. thread' = [thread EXCEPT ![t] = call]
    BY <1>4 DEF Client!Becomes
  <2> HIDE DEF call
  <2>3. thread'[t] = call /\ \A u \in Workers : u # t => thread'[u] = thread[u]
    BY <2>2 DEF ClientIInv, ClientShapes
  <2>4. ClientShapes'
    BY <1>0, <1>4, <2>1, <2>2 DEF ClientIInv, ClientShapes, Client!processVars
  <2>5. ClientGateInv'
    BY <1>0, <1>1, <2>1, <2>3 DEF ClientIInv, ClientGateInv, Client!processVars
  <2>6. ~crowded' => ~crowded /\ \A other \in Workers : ~Client!AtThePair(other)
    BY <1>4, Zenon
  <2>7. ClientPairInv'
    BY <1>0, <1>4, <2>1, <2>3, <2>6 DEF ClientIInv, ClientPairInv, Client!AtThePair
  <2>8. ClientMarkInv'
    BY <1>0, <2>1, <2>3 DEF ClientIInv, ClientMarkInv, Client!processVars
  <2> QED BY <1>0, <2>4, <2>5, <2>7, <2>8 DEF ClientIInv
<1> QED BY <1>2, <1>3, <1>4 DEF Client!Identify

\* A thread writes one half of its pair.
LEMMA ClientWriteKeeps ==
  ASSUME Client!CoSignerClientAssumption, ClientIInv, NEW t \in Workers,
         Client!WriteCert(t) \/ Client!WriteKey(t)
  PROVE  ClientIInv'
<1> DEFINE onward == IF thread[t].step = "cert" THEN "key" ELSE "send"
           call == [thread[t] EXCEPT !.step = onward]
<1>1. /\ thread[t] \in ClientCallsMade /\ running /\ Client!AtThePair(t)
      /\ UNCHANGED <<Client!processVars, checked, lastAlert, heardMode, alerted, minted, crowded, silent>>
  BY DEF ClientIInv, ClientShapes, Client!WriteCert, Client!WriteKey, Client!At,
     Client!AtThePair
<1>2. /\ call \in ClientCallsMade /\ call.step = onward /\ call.asks = thread[t].asks
      /\ call.pair = thread[t].pair
  BY <1>1 DEF ClientCallsMade, ClientSteps
<1>3. thread' = [thread EXCEPT ![t] = call]
  BY DEF Client!WriteCert, Client!WriteKey, Client!GoesTo, Client!At
<1>3a. onward \in {"key", "send"}
  OBVIOUS
<1> HIDE DEF call
<1>4. thread'[t] = call /\ \A u \in Workers : u # t => thread'[u] = thread[u]
  BY <1>3 DEF ClientIInv, ClientShapes
<1>5. ClientShapes'
  BY <1>1, <1>2, <1>3 DEF ClientIInv, ClientShapes, Client!processVars
<1>6. ClientGateInv'
  BY <1>1, <1>2, <1>4 DEF ClientIInv, ClientGateInv, Client!processVars
<1>7. ClientMarkInv'
  BY <1>1, <1>2, <1>3a, <1>4 DEF ClientIInv, ClientMarkInv, Client!processVars,
     Client!AtThePair
<1>8. ClientPairInv'
  <2>1. CASE Client!WriteCert(t)
    <3>1. thread[t].step = "cert" /\ cert' = thread[t].pair /\ UNCHANGED key /\ UNCHANGED identity
      BY <2>1 DEF Client!WriteCert, Client!At
    <3> QED BY <1>1, <1>2, <1>4, <3>1 DEF ClientIInv, ClientPairInv, Client!AtThePair
  <2>2. CASE Client!WriteKey(t)
    <3>1. thread[t].step = "key" /\ key' = thread[t].pair /\ UNCHANGED cert
      BY <2>2 DEF Client!WriteKey, Client!At
    <3> QED BY <1>1, <1>2, <1>4, <3>1 DEF ClientIInv, ClientPairInv, Client!AtThePair
  <2> QED BY <2>1, <2>2
<1> QED BY <1>1, <1>5, <1>6, <1>7, <1>8 DEF ClientIInv

\* The alert: the mark is read, written, and the alert given.
LEMMA ClientAlertKeeps ==
  ASSUME Client!CoSignerClientAssumption, ClientIInv, NEW t \in Workers,
         Client!ReadMark(t) \/ Client!WriteMark(t) \/ Client!Tell(t)
  PROVE  ClientIInv'
<1>0. /\ thread[t] \in ClientCallsMade /\ running
      /\ UNCHANGED <<Client!processVars, checked, identity, cert, key, minted, heardMode, crowded>>
  BY DEF ClientIInv, ClientShapes, Client!ReadMark, Client!WriteMark, Client!Tell,
     Client!At
<1>1. (checked => heardMode = Client!REQUIRED) /\ (thread[t].asks = "custody" => heardMode = Client!REQUIRED)
  BY DEF ClientIInv, ClientGateInv
<1>2. CASE Client!ReadMark(t)
  <2>0. thread[t].step = "alert" /\ UNCHANGED <<lastAlert, alerted>>
    BY <1>2 DEF Client!ReadMark, Client!At
  <2>1. CASE clientNow - lastAlert < ALERT_INTERVAL
    <3>1. thread' = [thread EXCEPT ![t] = Client!NoCall]
      BY <1>2, <2>1 DEF Client!ReadMark, Client!Becomes
    <3>2. ~(clientNow - alerted >= ALERT_INTERVAL /\ \A o \in Workers : thread[o].step # "tell")
      BY <2>1 DEF ClientIInv, ClientShapes, ClientMarkInv,
         Client!CoSignerClientAssumption
    <3>3. silent' = (silent \/ (clientNow - alerted >= ALERT_INTERVAL
                                /\ \A o \in Workers : thread[o].step # "tell"))
      BY <1>2, <2>1 DEF Client!ReadMark
    <3>4. ~silent
      BY DEF ClientIInv
    <3>5. silent' = FALSE
      BY <3>2, <3>3, <3>4, Zenon
    <3>6. thread'[t] = Client!NoCall /\ \A u \in Workers : u # t => thread'[u] = thread[u]
      BY <3>1 DEF ClientIInv, ClientShapes
    <3>7. Client!NoCall \in ClientCallsMade /\ Client!NoCall.step = "idle" /\ Client!NoCall.asks = "none"
      BY DEF Client!NoCall, ClientCallsMade, ClientSteps, ClientAsks
    <3>8. ClientShapes'
      BY <1>0, <2>0, <3>1, <3>7 DEF ClientIInv, ClientShapes, Client!processVars
    <3>9. ClientGateInv'
      BY <1>0, <3>6, <3>7 DEF ClientIInv, ClientGateInv, Client!processVars
    <3>10. ClientPairInv'
      BY <1>0, <2>0, <3>6, <3>7 DEF ClientIInv, ClientPairInv, Client!AtThePair
    <3>11. ClientMarkInv'
      BY <1>0, <2>0, <3>6, <3>7 DEF ClientIInv, ClientMarkInv, Client!processVars
    <3> QED BY <3>5, <3>8, <3>9, <3>10, <3>11 DEF ClientIInv
  <2>2. CASE ~(clientNow - lastAlert < ALERT_INTERVAL)
    <3> DEFINE call == [thread[t] EXCEPT !.step = "mark", !.since = clientNow]
    <3>0. clientNow \in Nat
      BY DEF ClientIInv, ClientShapes
    <3>1. /\ call \in ClientCallsMade /\ call.step = "mark" /\ call.asks = thread[t].asks
          /\ call.since = clientNow
      BY <1>0, <3>0 DEF ClientCallsMade, ClientSteps
    <3>2. thread' = [thread EXCEPT ![t] = call] /\ UNCHANGED silent
      BY <1>2, <2>2 DEF Client!ReadMark, Client!Becomes
    <3> HIDE DEF call
    <3>3. call.since <= clientNow
      BY <3>1 DEF ClientIInv, ClientShapes
    <3> QED BY <1>0, <1>1, <2>0, <3>1, <3>2, <3>3, ClientElsewhereKeeps
  <2> QED BY <2>1, <2>2
<1>3. CASE Client!WriteMark(t)
  <2> DEFINE call == [thread[t] EXCEPT !.step = "tell"]
  <2>1. /\ call \in ClientCallsMade /\ call.step = "tell" /\ call.asks = thread[t].asks
    BY <1>0 DEF ClientCallsMade, ClientSteps
  <2>2. thread' = [thread EXCEPT ![t] = call]
    BY <1>3 DEF Client!WriteMark, Client!GoesTo
  <2> HIDE DEF call
  <2>3. thread'[t] = call /\ \A u \in Workers : u # t => thread'[u] = thread[u]
    BY <2>2 DEF ClientIInv, ClientShapes
  <2>4. /\ thread[t].step = "mark" /\ lastAlert' = thread[t].since /\ UNCHANGED <<alerted, silent>>
        /\ thread[t].since \in Nat
    BY <1>0, <1>3 DEF Client!WriteMark, Client!At, ClientCallsMade
  <2>5. ClientShapes'
    BY <1>0, <2>1, <2>2, <2>4 DEF ClientIInv, ClientShapes, Client!processVars
  <2>6. ClientGateInv'
    BY <1>0, <1>1, <2>1, <2>3 DEF ClientIInv, ClientGateInv, Client!processVars
  <2>7. ClientPairInv'
    BY <1>0, <2>1, <2>3, <2>4 DEF ClientIInv, ClientPairInv, Client!AtThePair
  <2>8. ClientMarkInv'
    BY <1>0, <2>1, <2>3, <2>4 DEF ClientIInv, ClientMarkInv, Client!processVars
  <2> QED BY <2>4, <2>5, <2>6, <2>7, <2>8 DEF ClientIInv
<1>4. CASE Client!Tell(t)
  <2>1. thread' = [thread EXCEPT ![t] = Client!NoCall]
    BY <1>4 DEF Client!Tell, Client!Becomes
  <2>2. thread'[t] = Client!NoCall /\ \A u \in Workers : u # t => thread'[u] = thread[u]
    BY <2>1 DEF ClientIInv, ClientShapes
  <2>3. Client!NoCall \in ClientCallsMade /\ Client!NoCall.step = "idle" /\ Client!NoCall.asks = "none"
    BY DEF Client!NoCall, ClientCallsMade, ClientSteps, ClientAsks
  <2>4. thread[t].step = "tell" /\ alerted' = clientNow /\ UNCHANGED <<lastAlert, silent>>
    BY <1>4 DEF Client!Tell, Client!At
  <2>5. ClientShapes'
    BY <1>0, <2>1, <2>3, <2>4 DEF ClientIInv, ClientShapes, Client!processVars
  <2>6. ClientGateInv'
    BY <1>0, <2>2, <2>3 DEF ClientIInv, ClientGateInv, Client!processVars
  <2>7. ClientPairInv'
    BY <1>0, <2>2, <2>3, <2>4 DEF ClientIInv, ClientPairInv, Client!AtThePair
  <2>8. ClientMarkInv'
    BY <1>0, <2>2, <2>3, <2>4 DEF ClientIInv, ClientShapes, ClientMarkInv,
       Client!processVars
  <2> QED BY <2>4, <2>5, <2>6, <2>7, <2>8 DEF ClientIInv
<1> QED BY <1>2, <1>3, <1>4

LEMMA ClientStepIInv ==
  ASSUME Client!CoSignerClientAssumption, ClientIInv, [Client!Next]_(Client!vars)
  PROVE  ClientIInv'
<1>1. CASE Client!Boot \/ Client!Die \/ Client!Redeploy \/ Client!CoSignerRestarts \/ Client!Tick
  BY <1>1, ClientProcessKeeps
<1>2. ASSUME NEW t \in Workers, Client!Step(t) PROVE ClientIInv'
  BY <1>2, ClientCallKeeps, ClientIdentifyKeeps, ClientWriteKeeps,
     ClientAlertKeeps DEF Client!Step
<1>3. CASE UNCHANGED Client!vars
  BY <1>3 DEF Client!vars, ClientIInv, ClientShapes, ClientGateInv, ClientPairInv,
     ClientMarkInv, Client!AtThePair
<1> QED BY <1>1, <1>2, <1>3 DEF Client!Next

LEMMA InvGivesClientHolds ==
  ClientIInv => Client!ClientHolds
<1>1. Client!NoCall.asks = "none"
  BY DEF Client!NoCall
<1>2. ClientIInv => Client!AskedFirst
  BY <1>1 DEF ClientIInv, ClientGateInv, Client!AskedFirst
<1> QED BY <1>2 DEF ClientIInv, ClientPairInv, Client!ClientHolds, Client!PairFits,
           Client!OutageTold

THEOREM ClientSafe == ASSUME Client!CoSignerClientAssumption PROVE Client!Spec => []ClientIInv
<1>1. Client!Init => ClientIInv
  BY ClientInitIInv
<1>2. ClientIInv /\ [Client!Next]_(Client!vars) => ClientIInv'
  BY ClientStepIInv
<1> QED BY <1>1, <1>2, PTL DEF Client!Spec

-----------------------------------------------------------------------------
\* Where `part` is this component's, its steps are the only ones; elsewhere its
\* variables stand still.
LEMMA ClientIsAPart == Spec => Client!Spec
<1>1. Init => Client!Init
  BY DEF Init
<1>2. [Next]_vars => [Client!Next]_(Client!vars)
  BY DEF Next, vars, clientVars, Client!vars
<1> QED BY <1>1, <1>2, PTL DEF Spec, Client!Spec

\* Whichever threads call: no record goes to a co-signer that has not told this
\* process that it attests its callers, certificate and key on disk are of one
\* pair unless two threads fetched one at once, and no outage passes in silence
\* (custody/client.py).
THEOREM ClientAlwaysHolds == Spec => []ClientHolds
<1>0. Client!CoSignerClientAssumption
  BY PartsAssumption
<1>1. Client!Init => ClientIInv
  BY <1>0, ClientInitIInv
<1>2. ClientIInv /\ [Client!Next]_(Client!vars) => ClientIInv'
  BY <1>0, ClientStepIInv
<1>3. ClientIInv => ClientHolds
  BY <1>0, InvGivesClientHolds DEF ClientHolds
<1> QED BY <1>1, <1>2, <1>3, ClientIsAPart, PTL DEF Client!Spec

-----------------------------------------------------------------------------
(* Attestation (tee/quote_policy.py, integrations/inference_attestation.py). *)
(* A verdict is right for the report it is kept under, since the key it is   *)
(* kept under is all it depends on (VerdictRight, VerdictCacheInv); what is  *)
(* between the look and the answer is still that report (VerdictCallInv).    *)

VerdictLogs == Seq({"compose_up", "compose_down"} \X Files)
VerdictReports == [machine : Machines, log : VerdictLogs]
VerdictAnswers == [ok : BOOLEAN, checked : Nat, machine : Machines, log : VerdictLogs, given : Nat]
VerdictEntries == [verdict : [ok : BOOLEAN, checked : Nat], put : Nat]

\* What makes a pass right, for the machine that answered and its log.
VerdictJustified(m, l) ==
  m \in Pinned /\ (verifier = "inference" => Quotes!Started(l) \subseteq Authorized)

VerdictShapes ==
  /\ quoteNow \in Nat
  /\ allowlist \in [mode : {"required", "dev-insecure"}, entries : BOOLEAN, expires : {None, 0}]
  /\ log \in [Machines -> VerdictLogs]
  /\ \A s \in DOMAIN verdictsKept : verdictsKept[s] \in VerdictEntries
  /\ quoteAt \in [Loops -> {"idle", "looking", "checking", "caching"}]
  /\ report \in [Loops -> VerdictReports \cup {None}] /\ answer \in [Loops -> VerdictAnswers \cup {None}]
  /\ \A t \in Loops : quoteAt[t] # "idle" => report[t] \in VerdictReports
  /\ \A t \in Loops : quoteAt[t] = "caching" => answer[t] \in VerdictAnswers

\* What is cached was kept soon after its check, is not stale, and is right for
\* every answer of a machine that would find it.
VerdictCacheInv ==
  \A s \in DOMAIN verdictsKept :
    LET v == verdictsKept[s].verdict
    IN /\ verdictsKept[s].put <= v.checked + Delay
       /\ quoteNow < verdictsKept[s].put + Quotes!TTL(v)
       /\ v.ok => \A r \in VerdictReports : Quotes!Subject(r) = s => VerdictJustified(r.machine, r.log)

\* What a thread was given holds for ever, since it says when it was given.
VerdictRight(a) ==
  /\ a.ok => IF Quotes!Required
             THEN VerdictJustified(a.machine, a.log) /\ a.given < a.checked + RECHECK_SECONDS + Delay
             ELSE ~allowlist.entries /\ a.given <= allowlist.expires
  /\ ~a.ok => a.given < a.checked + FAILURE_RECHECK_SECONDS + Delay

\* Only where an attestation is required is anything fetched, and a verdict on
\* its way to the cache is about the report of the thread that holds it.
VerdictCallInv ==
  \A t \in Loops :
    /\ quoteAt[t] # "idle" => Quotes!Required
    /\ quoteAt[t] = "caching" =>
         /\ answer[t].machine = report[t].machine /\ answer[t].log = report[t].log
         /\ answer[t].checked <= quoteNow /\ quoteNow <= answer[t].checked + Delay
         /\ VerdictRight(answer[t])

VerdictAnswersInv == \A t \in Quotes!Answered : VerdictRight(answer[t])

VerdictIInv == VerdictShapes /\ VerdictCacheInv /\ VerdictCallInv /\ VerdictAnswersInv

LEMMA VerdictInitIInv ==
  ASSUME Quotes!AttestationAssumption
  PROVE  Quotes!Init => VerdictIInv
BY DEF Quotes!AttestationAssumption, Quotes!Init, VerdictIInv, VerdictShapes,
   VerdictCacheInv, VerdictCallInv, VerdictAnswersInv, Quotes!Answered, VerdictLogs

LEMMA VerdictRightStays ==
  ASSUME UNCHANGED <<verifier, allowlist>>
  PROVE  \A u \in Loops : VerdictRight(answer[u]) /\ answer'[u] = answer[u] => VerdictRight(answer[u])'
BY DEF VerdictRight, VerdictJustified, Quotes!Required

\* What an answer says depends on what does not change, so one that is given
\* anew is the only one to look at.
LEMMA VerdictAnswerKeeps ==
  ASSUME VerdictIInv, NEW t \in Loops, NEW a \in VerdictAnswers, VerdictRight(a),
         answer' = [answer EXCEPT ![t] = a], UNCHANGED <<verifier, allowlist>>
  PROVE  /\ VerdictAnswersInv' /\ answer' \in [Loops -> VerdictAnswers \cup {None}]
         /\ answer'[t] = a /\ \A u \in Loops : u # t => answer'[u] = answer[u]
<1>1. /\ answer'[t] = a /\ \A u \in Loops : u # t => answer'[u] = answer[u]
      /\ answer' \in [Loops -> VerdictAnswers \cup {None}]
  BY DEF VerdictIInv, VerdictShapes
<1>2. \A b : VerdictRight(b) => VerdictRight(b)'
  BY DEF VerdictRight, VerdictJustified, Quotes!Required
<1>2a. \A u \in Loops : VerdictRight(answer'[u]) => VerdictRight(answer[u])'
  BY DEF VerdictRight, VerdictJustified, Quotes!Required
<1>3. VerdictAnswersInv'
  <2> SUFFICES ASSUME NEW u \in Loops, answer'[u] # None
               PROVE  VerdictRight(answer[u])'
    BY DEF VerdictAnswersInv, Quotes!Answered
  <2>1. VerdictRight(answer'[u])
    BY <1>1 DEF VerdictIInv, VerdictAnswersInv, Quotes!Answered
  <2> QED BY <2>1, <1>2a
<1> QED BY <1>1, <1>3

LEMMA VerdictGivenTyped ==
  ASSUME NEW r \in VerdictReports, NEW v, v.ok \in BOOLEAN, v.checked \in Nat, quoteNow \in Nat
  PROVE  /\ Quotes!Given(r, v) \in VerdictAnswers
         /\ Quotes!Given(r, v).ok = v.ok /\ Quotes!Given(r, v).checked = v.checked
         /\ Quotes!Given(r, v).machine = r.machine /\ Quotes!Given(r, v).log = r.log
         /\ Quotes!Given(r, v).given = quoteNow
BY DEF Quotes!Given, VerdictReports, VerdictAnswers

LEMMA VerdictUnverifiedKeeps ==
  ASSUME Quotes!AttestationAssumption, VerdictIInv, NEW t \in Loops, NEW m \in Machines,
         Quotes!Unverified(t, m)
  PROVE  VerdictIInv'
<1> DEFINE r == [machine |-> m, log |-> log[m]]
           v == Quotes!Verdict(~Quotes!Refuses)
           a == Quotes!Given(r, v)
<1>1. /\ quoteAt[t] = "idle" /\ ~Quotes!Required /\ answer' = [answer EXCEPT ![t] = a]
      /\ UNCHANGED <<quoteNow, verifier, allowlist, Quotes!world, verdictsKept, quoteAt, report>>
  BY DEF Quotes!Unverified
<1>2. r \in VerdictReports /\ quoteNow \in Nat
  BY DEF VerdictIInv, VerdictShapes, VerdictReports
<1>3. v.ok = ~Quotes!Refuses /\ v.checked = quoteNow /\ v.ok \in BOOLEAN
  BY DEF Quotes!Verdict, Quotes!Refuses
<1>3a. v.ok => ~Quotes!Refuses
  BY <1>3, Zenon
<1>3b. v.checked = quoteNow /\ v.ok \in BOOLEAN
  BY <1>3
<1> HIDE DEF v, r
<1>4. a \in VerdictAnswers /\ a.ok = v.ok /\ a.checked = quoteNow /\ a.given = quoteNow
  BY <1>2, <1>3b, VerdictGivenTyped
<1> HIDE DEF a
<1>5. VerdictRight(a)
  BY <1>1, <1>2, <1>3a, <1>4 DEF VerdictRight, Quotes!Refuses, Quotes!Required,
     VerdictIInv, VerdictShapes, Quotes!AttestationAssumption
<1>6. VerdictAnswersInv' /\ answer' \in [Loops -> VerdictAnswers \cup {None}]
      /\ \A u \in Loops : u # t => answer'[u] = answer[u]
  BY <1>1, <1>4, <1>5, VerdictAnswerKeeps
<1>7. VerdictShapes'
  BY <1>1, <1>6 DEF VerdictIInv, VerdictShapes, Quotes!world
<1>8. VerdictCacheInv'
  BY <1>1 DEF VerdictIInv, VerdictCacheInv, Quotes!TTL, Quotes!Subject, VerdictJustified
<1>9. VerdictCallInv'
  BY <1>1, <1>6 DEF VerdictIInv, VerdictCallInv, Quotes!Required
<1> QED BY <1>6, <1>7, <1>8, <1>9 DEF VerdictIInv

LEMMA VerdictFetchKeeps ==
  ASSUME Quotes!AttestationAssumption, VerdictIInv, NEW t \in Loops, NEW m \in Machines,
         Quotes!Fetch(t, m)
  PROVE  VerdictIInv'
<1>1. /\ Quotes!Required /\ UNCHANGED <<quoteNow, verifier, allowlist, Quotes!world, verdictsKept>>
      /\ report' = [report EXCEPT ![t] = [machine |-> m, log |-> log[m]]]
      /\ quoteAt' = [quoteAt EXCEPT ![t] = "looking"] /\ answer' = [answer EXCEPT ![t] = None]
  BY DEF Quotes!Fetch
<1>2. [machine |-> m, log |-> log[m]] \in VerdictReports
  BY DEF VerdictIInv, VerdictShapes, VerdictReports
<1>3. /\ quoteAt'[t] = "looking" /\ answer'[t] = None /\ report'[t] \in VerdictReports
      /\ \A u \in Loops : u # t =>
           quoteAt'[u] = quoteAt[u] /\ report'[u] = report[u] /\ answer'[u] = answer[u]
  BY <1>1, <1>2 DEF VerdictIInv, VerdictShapes
<1>4. VerdictShapes'
  BY <1>1, <1>2, <1>3 DEF VerdictIInv, VerdictShapes, Quotes!world
<1>5. VerdictCacheInv'
  BY <1>1 DEF VerdictIInv, VerdictCacheInv, Quotes!TTL, Quotes!Subject, VerdictJustified
<1>6. VerdictCallInv'
  BY <1>1, <1>3, VerdictRightStays DEF VerdictIInv, VerdictCallInv, Quotes!Required
<1>7. \A u \in Loops : VerdictRight(answer[u]) /\ answer'[u] = answer[u] => VerdictRight(answer[u])'
  BY <1>1 DEF VerdictRight, VerdictJustified, Quotes!Required
<1>8. VerdictAnswersInv'
  BY <1>3, <1>7 DEF VerdictIInv, VerdictAnswersInv, Quotes!Answered
<1> QED BY <1>4, <1>5, <1>6, <1>8 DEF VerdictIInv

LEMMA VerdictLookKeeps ==
  ASSUME Quotes!AttestationAssumption, VerdictIInv, NEW t \in Loops, Quotes!Look(t)
  PROVE  VerdictIInv'
<1> DEFINE r == report[t]
           kept == Quotes!Cached(report[t])
<1>1. quoteAt[t] = "looking" /\ UNCHANGED <<quoteNow, verifier, allowlist, Quotes!world, verdictsKept>>
  BY DEF Quotes!Look
<1>2. r \in VerdictReports /\ quoteNow \in Nat /\ Quotes!Required
  BY <1>1 DEF VerdictIInv, VerdictShapes, VerdictCallInv
<1>3. VerdictCacheInv'
  BY <1>1 DEF VerdictIInv, VerdictCacheInv, Quotes!TTL, Quotes!Subject, VerdictJustified
<1>4. CASE kept = None
  <2>1. quoteAt' = [quoteAt EXCEPT ![t] = "checking"] /\ UNCHANGED <<answer, report>>
    BY <1>4 DEF Quotes!Look
  <2>2. quoteAt'[t] = "checking" /\ \A u \in Loops : u # t => quoteAt'[u] = quoteAt[u]
    BY <2>1 DEF VerdictIInv, VerdictShapes
  <2>3. VerdictShapes'
    BY <1>1, <1>2, <2>1, <2>2 DEF VerdictIInv, VerdictShapes, Quotes!world
  <2>4. VerdictCallInv'
    BY <1>1, <1>2, <2>1, <2>2, VerdictRightStays DEF VerdictIInv, VerdictCallInv,
       Quotes!Required
  <2>5. VerdictAnswersInv'
    BY <1>1, <2>1 DEF VerdictIInv, VerdictAnswersInv, Quotes!Answered, VerdictRight,
       VerdictJustified, Quotes!Required
  <2> QED BY <1>3, <2>3, <2>4, <2>5 DEF VerdictIInv
<1>5. CASE kept # None
  <2> DEFINE a == Quotes!Given(r, kept)
             s == Quotes!Subject(r)
  <2>1. /\ quoteAt' = [quoteAt EXCEPT ![t] = "idle"] /\ report' = [report EXCEPT ![t] = None]
        /\ answer' = [answer EXCEPT ![t] = a]
    BY <1>5 DEF Quotes!Look
  <2>2. s \in DOMAIN verdictsKept /\ kept = verdictsKept[s].verdict
    BY <1>5 DEF Quotes!Cached
  <2>3. verdictsKept[s] \in VerdictEntries
    BY <2>2 DEF VerdictIInv, VerdictShapes
  <2>4. kept.ok \in BOOLEAN /\ kept.checked \in Nat /\ verdictsKept[s].put \in Nat
    BY <2>2, <2>3 DEF VerdictEntries
  <2>5. /\ verdictsKept[s].put <= kept.checked + Delay /\ quoteNow < verdictsKept[s].put + Quotes!TTL(kept)
        /\ kept.ok => VerdictJustified(r.machine, r.log)
    BY <1>2, <2>2 DEF VerdictIInv, VerdictCacheInv
  <2> HIDE DEF s, kept, r
  <2>6. /\ a \in VerdictAnswers /\ a.ok = kept.ok /\ a.checked = kept.checked
        /\ a.machine = r.machine /\ a.log = r.log /\ a.given = quoteNow
    BY <1>2, <2>4, VerdictGivenTyped
  <2> HIDE DEF a
  <2>7. /\ kept.ok => quoteNow < kept.checked + RECHECK_SECONDS + Delay
        /\ ~kept.ok => quoteNow < kept.checked + FAILURE_RECHECK_SECONDS + Delay
    BY <1>2, <2>4, <2>5 DEF Quotes!TTL, Quotes!AttestationAssumption
  <2>8. VerdictRight(a)
    BY <1>2, <2>5, <2>6, <2>7 DEF VerdictRight
  <2>9. VerdictAnswersInv' /\ answer' \in [Loops -> VerdictAnswers \cup {None}]
        /\ \A u \in Loops : u # t => answer'[u] = answer[u]
    BY <1>1, <2>1, <2>6, <2>8, VerdictAnswerKeeps
  <2>10. quoteAt'[t] = "idle" /\ \A u \in Loops : u # t => quoteAt'[u] = quoteAt[u] /\ report'[u] = report[u]
    BY <2>1 DEF VerdictIInv, VerdictShapes
  <2>11. VerdictShapes'
    BY <1>1, <2>1, <2>9, <2>10 DEF VerdictIInv, VerdictShapes, Quotes!world
  <2>12. VerdictCallInv'
    BY <1>1, <2>9, <2>10, VerdictRightStays DEF VerdictIInv, VerdictCallInv,
       Quotes!Required
  <2> QED BY <1>3, <2>9, <2>11, <2>12 DEF VerdictIInv
<1> QED BY <1>4, <1>5

LEMMA VerdictCheckKeeps ==
  ASSUME Quotes!AttestationAssumption, VerdictIInv, NEW t \in Loops, Quotes!Check(t)
  PROVE  VerdictIInv'
<1> DEFINE r == report[t]
           v == Quotes!Verdict(Quotes!Decide(report[t]))
           a == Quotes!Given(r, v)
<1>1. /\ quoteAt[t] = "checking"
             /\ UNCHANGED <<quoteNow, verifier, allowlist, Quotes!world, verdictsKept, report>>
      /\ answer' = [answer EXCEPT ![t] = a] /\ quoteAt' = [quoteAt EXCEPT ![t] = "caching"]
  BY DEF Quotes!Check
<1>2. r \in VerdictReports /\ quoteNow \in Nat /\ Quotes!Required
  BY <1>1 DEF VerdictIInv, VerdictShapes, VerdictCallInv
<1>3. v.ok = Quotes!Decide(r) /\ v.checked = quoteNow /\ v.ok \in BOOLEAN
  BY DEF Quotes!Verdict, Quotes!Decide
<1>4. Quotes!Decide(r) => VerdictJustified(r.machine, r.log)
  BY DEF Quotes!Decide, VerdictJustified
<1> HIDE DEF v
<1>5. /\ a \in VerdictAnswers /\ a.ok = v.ok /\ a.checked = quoteNow
      /\ a.machine = r.machine /\ a.log = r.log /\ a.given = quoteNow
  BY <1>2, <1>3, VerdictGivenTyped
<1> HIDE DEF a
<1>6. VerdictRight(a)
  BY <1>2, <1>3, <1>4, <1>5 DEF VerdictRight, Quotes!AttestationAssumption
<1>7. VerdictAnswersInv' /\ answer' \in [Loops -> VerdictAnswers \cup {None}] /\ answer'[t] = a
      /\ \A u \in Loops : u # t => answer'[u] = answer[u]
  BY <1>1, <1>5, <1>6, VerdictAnswerKeeps
<1>8. quoteAt'[t] = "caching" /\ \A u \in Loops : u # t => quoteAt'[u] = quoteAt[u]
  BY <1>1 DEF VerdictIInv, VerdictShapes
<1>9. VerdictShapes'
  BY <1>1, <1>2, <1>5, <1>7, <1>8 DEF VerdictIInv, VerdictShapes, Quotes!world
<1>10. VerdictCacheInv'
  BY <1>1 DEF VerdictIInv, VerdictCacheInv, Quotes!TTL, Quotes!Subject, VerdictJustified
<1>11. VerdictCallInv'
  <2>1. \A u \in Loops : VerdictRight(answer'[u]) => VerdictRight(answer[u])'
    BY <1>1 DEF VerdictRight, VerdictJustified, Quotes!Required
  <2>2. VerdictRight(answer[t])' /\ \A u \in Loops : VerdictRight(answer[u])
            => VerdictRight(answer'[u]) \/ u = t
    BY <1>6, <1>7, <2>1
  <2> QED BY <1>1, <1>2, <1>5, <1>7, <1>8, <2>1, <2>2 DEF VerdictIInv, VerdictCallInv,
             Quotes!Required, Quotes!AttestationAssumption
<1> QED BY <1>7, <1>9, <1>10, <1>11 DEF VerdictIInv

LEMMA VerdictPutKeeps ==
  ASSUME Quotes!AttestationAssumption, VerdictIInv, NEW t \in Loops, Quotes!Put(t)
  PROVE  VerdictIInv'
<1> DEFINE r == report[t]
           v == [ok |-> answer[t].ok, checked |-> answer[t].checked]
           entry == [verdict |-> v, put |-> quoteNow]
           a == [answer[t] EXCEPT !.given = quoteNow]
<1>1. /\ quoteAt[t] = "caching" /\ UNCHANGED <<quoteNow, verifier, allowlist, Quotes!world>>
      /\ answer' = [answer EXCEPT ![t] = a]
      /\ quoteAt' = [quoteAt EXCEPT ![t] = "idle"] /\ report' = [report EXCEPT ![t] = None]
      /\ verdictsKept' = [s \in DOMAIN verdictsKept \cup {Quotes!Subject(r)} |-> IF s = Quotes!Subject(r)
                 THEN entry ELSE verdictsKept[s]]
  BY DEF Quotes!Put
<1>2. r \in VerdictReports /\ quoteNow \in Nat /\ Quotes!Required /\ answer[t] \in VerdictAnswers
      /\ answer[t].machine = r.machine /\ answer[t].log = r.log
      /\ answer[t].checked <= quoteNow /\ quoteNow <= answer[t].checked + Delay
  BY <1>1 DEF VerdictIInv, VerdictShapes, VerdictCallInv
<1>3. /\ a \in VerdictAnswers /\ a.ok = answer[t].ok /\ a.checked = answer[t].checked
      /\ a.machine = r.machine /\ a.log = r.log /\ a.given = quoteNow /\ answer[t].ok \in BOOLEAN
      /\ a.checked \in Nat
  BY <1>2 DEF VerdictAnswers
<1>4. entry \in VerdictEntries /\ entry.verdict.ok = a.ok /\ entry.verdict.checked = a.checked
      /\ entry.put = quoteNow
  BY <1>2, <1>3 DEF VerdictEntries
<1>5. a.ok => VerdictJustified(r.machine, r.log)
  BY <1>1, <1>2, <1>3 DEF VerdictIInv, VerdictCallInv, VerdictRight
<1> HIDE DEF a, entry, r
<1>6. VerdictRight(a)
  BY <1>2, <1>3, <1>5 DEF VerdictRight, Quotes!AttestationAssumption
<1>7. VerdictAnswersInv' /\ answer' \in [Loops -> VerdictAnswers \cup {None}]
      /\ \A u \in Loops : u # t => answer'[u] = answer[u]
  BY <1>1, <1>3, <1>6, VerdictAnswerKeeps
<1>8. quoteAt'[t] = "idle" /\ \A u \in Loops : u # t => quoteAt'[u] = quoteAt[u] /\ report'[u] = report[u]
  BY <1>1 DEF VerdictIInv, VerdictShapes
<1>9. VerdictShapes'
  BY <1>1, <1>4, <1>7, <1>8 DEF VerdictIInv, VerdictShapes, Quotes!world
<1>10. VerdictCallInv'
  BY <1>1, <1>7, <1>8, VerdictRightStays DEF VerdictIInv, VerdictCallInv,
     Quotes!Required
<1>11. VerdictCacheInv'
  <2>1. /\ entry.put <= entry.verdict.checked + Delay
        /\ quoteNow < entry.put + Quotes!TTL(entry.verdict)
    BY <1>2, <1>3, <1>4 DEF Quotes!TTL, Quotes!AttestationAssumption
  <2>2. \A q \in VerdictReports : Quotes!Subject(q) = Quotes!Subject(r) => q.machine = r.machine
                                  /\ (verifier = "inference" => q.log = r.log)
    BY DEF Quotes!Subject
  <2>3. entry.verdict.ok => \A q \in VerdictReports : Quotes!Subject(q) = Quotes!Subject(r)
            => VerdictJustified(q.machine, q.log)
    BY <1>4, <1>5, <2>2 DEF VerdictJustified
  <2> QED BY <1>1, <2>1, <2>3 DEF VerdictIInv, VerdictCacheInv, Quotes!TTL,
             Quotes!Subject, VerdictJustified
<1> QED BY <1>7, <1>9, <1>10, <1>11 DEF VerdictIInv

\* The other side, the platform and the network change; time passes.
LEMMA VerdictWorldKeeps ==
  ASSUME Quotes!AttestationAssumption, VerdictIInv,
         \/ \E m \in Machines, verb \in {"compose_up", "compose_down"}, f \in Files :
              Quotes!Compose(m, verb, f)
         \/ Quotes!TcbMoves \/ Quotes!Outage
  PROVE  VerdictIInv'
<1>1. UNCHANGED <<quoteNow, verifier, allowlist, verdictsKept, quoteAt, report, answer>>
  BY DEF Quotes!Compose, Quotes!TcbMoves, Quotes!Outage
<1>2. log' \in [Machines -> VerdictLogs]
  <2>1. ASSUME NEW m \in Machines, NEW verb \in {"compose_up", "compose_down"}, NEW f \in Files,
               log' = [log EXCEPT ![m] = Append(@, <<verb, f>>)]
        PROVE  log' \in [Machines -> VerdictLogs]
    <3>1. Append(log[m], <<verb, f>>) \in VerdictLogs
      BY DEF VerdictIInv, VerdictShapes, VerdictLogs
    <3> QED BY <2>1, <3>1 DEF VerdictIInv, VerdictShapes
  <2> QED BY <2>1 DEF VerdictIInv, VerdictShapes, Quotes!Compose, Quotes!TcbMoves,
             Quotes!Outage
<1>3. VerdictShapes'
  BY <1>1, <1>2 DEF VerdictIInv, VerdictShapes
<1> QED BY <1>1, <1>3 DEF VerdictIInv, VerdictCacheInv, VerdictCallInv,
           VerdictAnswersInv, Quotes!Answered, VerdictRight, Quotes!TTL, Quotes!Subject,
       VerdictJustified, Quotes!Required

LEMMA VerdictTickKeeps ==
  ASSUME Quotes!AttestationAssumption, VerdictIInv, Quotes!Tick
  PROVE  VerdictIInv'
<1>1. /\ quoteNow' = quoteNow + 1 /\ quoteNow \in Nat /\ quoteNow' \in Nat
      /\ \A t \in Loops : quoteAt[t] = "caching" => quoteNow < answer[t].checked + Delay
      /\ verdictsKept' = [s \in {s \in DOMAIN verdictsKept : ~Quotes!Stale(verdictsKept[s])} |-> verdictsKept[s]]
      /\ UNCHANGED <<verifier, allowlist, Quotes!world, quoteAt, report, answer>>
  BY DEF Quotes!Tick, VerdictIInv, VerdictShapes
<1>2. \A s \in DOMAIN verdictsKept' : /\ s \in DOMAIN verdictsKept /\ verdictsKept'[s] = verdictsKept[s]
                                      /\ ~(quoteNow' - verdictsKept[s].put >= Quotes!TTL(verdictsKept[s].verdict))
  BY <1>1 DEF Quotes!Stale
<1>3. VerdictShapes'
  BY <1>1, <1>2 DEF VerdictIInv, VerdictShapes, Quotes!world
<1>4. \A t \in Loops : quoteAt[t] = "caching" => answer[t].checked \in Nat
  BY DEF VerdictIInv, VerdictShapes, VerdictAnswers
<1>5. VerdictCallInv'
  BY <1>1, <1>4, VerdictRightStays DEF VerdictIInv, VerdictCallInv, Quotes!Required,
     Quotes!AttestationAssumption
<1>6. VerdictAnswersInv'
  BY <1>1 DEF VerdictIInv, VerdictAnswersInv, Quotes!Answered, VerdictRight,
     VerdictJustified, Quotes!Required
<1>7. \A s \in DOMAIN verdictsKept : verdictsKept[s].put \in Nat
          /\ Quotes!TTL(verdictsKept[s].verdict) \in Nat
  BY DEF VerdictIInv, VerdictShapes, VerdictEntries, Quotes!TTL,
     Quotes!AttestationAssumption
<1>8. \A s \in DOMAIN verdictsKept' : quoteNow' < verdictsKept[s].put + Quotes!TTL(verdictsKept[s].verdict)
  BY <1>1, <1>2, <1>7
<1>9. VerdictCacheInv'
  BY <1>1, <1>2, <1>8 DEF VerdictIInv, VerdictCacheInv, Quotes!TTL, Quotes!Subject,
     VerdictJustified
<1> QED BY <1>3, <1>5, <1>6, <1>9 DEF VerdictIInv

LEMMA VerdictStepIInv ==
  ASSUME Quotes!AttestationAssumption, VerdictIInv, [Quotes!Next]_(Quotes!vars)
  PROVE  VerdictIInv'
<1>1. ASSUME NEW t \in Loops, Quotes!Verify(t) PROVE VerdictIInv'
  BY <1>1, VerdictUnverifiedKeeps, VerdictFetchKeeps, VerdictLookKeeps,
     VerdictCheckKeeps, VerdictPutKeeps DEF Quotes!Verify
<1>2. CASE UNCHANGED Quotes!vars
  BY <1>2 DEF Quotes!vars, Quotes!world, VerdictIInv, VerdictShapes, VerdictCacheInv,
     VerdictCallInv, VerdictAnswersInv, Quotes!Answered, VerdictRight, Quotes!TTL,
     Quotes!Subject, VerdictJustified, Quotes!Required
<1> QED BY <1>1, <1>2, VerdictWorldKeeps, VerdictTickKeeps DEF Quotes!Next

LEMMA InvGivesVerdictsHold ==
  VerdictIInv => Quotes!VerdictsHold
BY DEF VerdictIInv, VerdictAnswersInv, VerdictRight, Quotes!VerdictsHold,
   Quotes!PassJustified, Quotes!RefusalBrief, VerdictJustified

-----------------------------------------------------------------------------
\* Where `part` is this component's, its steps are the only ones; elsewhere its
\* variables stand still.
LEMMA VerdictIsAPart == Spec => Quotes!Spec
<1>1. Init => Quotes!Init
  BY DEF Init
<1>2. [Next]_vars => [Quotes!Next]_(Quotes!vars)
  BY DEF Next, vars, verdictsVars, Quotes!vars, Quotes!world
<1> QED BY <1>1, <1>2, PTL DEF Spec, Quotes!Spec

\* For any machines, files and clocks: a pass is given only to a machine that is
\* pinned and runs nothing unlisted, from a check a day old at most and the time
\* that call took, and a refusal for no longer than a minute after its check
\* (tee/quote_policy.py, integrations/inference_attestation.py).
THEOREM VerdictsAlwaysHold == Spec => []VerdictsHold
<1>0. Quotes!AttestationAssumption
  BY PartsAssumption
<1>1. Quotes!Init => VerdictIInv
  BY <1>0, VerdictInitIInv
<1>2. VerdictIInv /\ [Quotes!Next]_(Quotes!vars) => VerdictIInv'
  BY <1>0, VerdictStepIInv
<1>3. VerdictIInv => VerdictsHold
  BY <1>0, InvGivesVerdictsHold DEF VerdictsHold
<1> QED BY <1>1, <1>2, <1>3, VerdictIsAPart, PTL DEF Quotes!Spec

-----------------------------------------------------------------------------
(* SigningCerts (daemons/gmail_hook_server.py).                              *)
(* What is cached was published when it was fetched (CertsKeysInv,           *)
(* CertsCachedInv), the lock's holder is the one who fetches                 *)
(* (CertsLockInv), and a push that was answered met what its code says       *)
(* (CertsVerdictInv).                                                        *)

CertsSteps == {"idle", "waits", "must", "may", "answered"}

CertsCodes == {0, 204, 401, 503}
CertsMets == {"none", "fetch", "failure"}
CertsPushes == [step : CertsSteps, kid : 0..signing, code : CertsCodes, at : Nat,
                had : Nat, met : CertsMets]

CertsShapes ==
  /\ certsNow \in Nat /\ signing \in 1..MaxKeys /\ published \in SUBSET (1..signing)
  /\ gone \in [1..MaxKeys -> Nat \cup {None}]
  /\ certsCached \in [keys : SUBSET (1..signing), fetched : Nat, expires : Nat]
  /\ push \in [Workers -> CertsPushes]
  /\ last \in [at : Nat, ok : BOOLEAN]

\* A thread that fetches holds the lock, and nobody else fetches.
CertsLockInv ==
  /\ certsLock \in Workers \cup {None}
  /\ \A t \in Workers : push[t].step \in {"must", "may"} <=> certsLock = t

\* Google's keys are published, withdrawn by now, or not yet made.
CertsKeysInv ==
  /\ signing \in published
  /\ \A k \in 1..MaxKeys :
       /\ k \in published => gone[k] = None
       /\ k \notin published /\ k <= signing => gone[k] # None
       /\ k > signing => gone[k] = None
       /\ gone[k] # None => gone[k] <= certsNow

\* The set in the cache was published when its fetch ended, and expires in the
\* bounds of a lifetime.
CertsCachedInv ==
  /\ certsCached.fetched <= certsNow
  /\ \A k \in certsCached.keys : gone[k] # None => gone[k] >= certsCached.fetched
  /\ certsCached.keys # {} => certsCached.expires - certsCached.fetched \in CERTS_TTL_MIN..CERTS_TTL_MAX
  /\ last.ok => /\ last.at = certsCached.fetched
                /\ certsCached.expires - certsCached.fetched \in CERTS_TTL_MIN..CERTS_TTL_MAX

\* A fetch has begun by the code's own rule.
CertsFetchInv ==
  \A t \in Workers :
    /\ push[t].step = "waits" => push[t].met = "none"
    /\ push[t].step = "may" => push[t].kid \notin certsCached.keys
    /\ push[t].step \in {"must", "may", "answered"} => push[t].at <= certsNow
    /\ push[t].step \in {"must", "may"} /\ last.ok => push[t].at - last.at >= CERTS_REFETCH_FLOOR

\* What has been answered.
CertsVerdictInv ==
  \A t \in Workers :
    /\ Certs!Answered(t, 204) =>
         /\ push[t].kid # 0
         /\ gone[push[t].kid] # None => push[t].at - gone[push[t].kid] < CERTS_TTL_MAX
    /\ Certs!Answered(t, 401) /\ push[t].kid # 0 /\ gone[push[t].kid] = None =>
         \/ push[t].met = "failure"
         \/ push[t].met = "none" /\ push[t].at - push[t].had < CERTS_REFETCH_FLOOR

CertsIInv ==
  CertsShapes /\ CertsLockInv /\ CertsKeysInv /\ CertsCachedInv /\ CertsFetchInv /\ CertsVerdictInv
      /\ ~hurried

\* cache_lifetime keeps within its bounds whatever was stated.
LEMMA CertsLifetimeBounded ==
  ASSUME Certs!SigningCertsAssumption, NEW stated \in Nat
  PROVE  Certs!Lifetime(stated) \in CERTS_TTL_MIN..CERTS_TTL_MAX
<1> DEFINE m == Certs!Max({stated, CERTS_TTL_MIN})
<1>1. CERTS_TTL_MIN \in Nat /\ CERTS_TTL_MAX \in Nat /\ CERTS_TTL_MIN <= CERTS_TTL_MAX
  BY DEF Certs!SigningCertsAssumption
<1>2. m \in {stated, CERTS_TTL_MIN} /\ m >= CERTS_TTL_MIN
  <2>1. \E x \in {stated, CERTS_TTL_MIN} : \A y \in {stated, CERTS_TTL_MIN} : x >= y
    BY <1>1
  <2>2. /\ m \in {stated, CERTS_TTL_MIN}
        /\ \A y \in {stated, CERTS_TTL_MIN} : m >= y
    BY <2>1, Zenon DEF Certs!Max
  <2> QED BY <2>2
<1>3. /\ Certs!Lifetime(stated) \in {m, CERTS_TTL_MAX}
      /\ Certs!Lifetime(stated) <= m /\ Certs!Lifetime(stated) <= CERTS_TTL_MAX
  <2>1. \E x \in {m, CERTS_TTL_MAX} : \A y \in {m, CERTS_TTL_MAX} : x <= y
    BY <1>1, <1>2
  <2>2. /\ Certs!Lifetime(stated) \in {m, CERTS_TTL_MAX}
        /\ \A y \in {m, CERTS_TTL_MAX} : Certs!Lifetime(stated) <= y
    BY <2>1, Zenon DEF Certs!Min, Certs!Lifetime
  <2> QED BY <2>2
<1> HIDE DEF m
<1> QED BY <1>1, <1>2, <1>3

\* An answer is written over the push it is for.
CertsAnswer(p, a, c, h) == [p EXCEPT !.step = "answered", !.at = a, !.code = c, !.had = h]
CertsAnswerMet(p, a, c, h, m) ==
  [p EXCEPT !.step = "answered", !.at = a, !.code = c, !.had = h, !.met = m]

LEMMA CertsAnswerTyped ==
  ASSUME NEW p \in CertsPushes, NEW a \in Nat, NEW c \in CertsCodes, NEW h \in Nat
  PROVE  /\ CertsAnswer(p, a, c, h) \in CertsPushes
         /\ CertsAnswer(p, a, c, h).step = "answered" /\ CertsAnswer(p, a, c, h).at = a
         /\ CertsAnswer(p, a, c, h).kid = p.kid /\ CertsAnswer(p, a, c, h).had = h
         /\ CertsAnswer(p, a, c, h).met = p.met /\ CertsAnswer(p, a, c, h).code = c
<1> DEFINE K == 0..signing
<1>1. /\ CertsPushes = [step : CertsSteps, kid : K, code : CertsCodes, at : Nat, had : Nat, met : CertsMets]
      /\ "answered" \in CertsSteps
  BY DEF CertsPushes, CertsSteps
<1> HIDE DEF K
<1>2. CertsAnswer(p, a, c, h) \in CertsPushes
  BY <1>1 DEF CertsAnswer
<1>3. p \in [step : CertsSteps, kid : K, code : CertsCodes, at : Nat, had : Nat, met : CertsMets]
  BY <1>1
<1> QED BY <1>2, <1>3 DEF CertsAnswer

LEMMA CertsAnswerMetTyped ==
  ASSUME NEW p \in CertsPushes, NEW a \in Nat, NEW c \in CertsCodes, NEW h \in Nat,
         NEW m \in CertsMets
  PROVE  /\ CertsAnswerMet(p, a, c, h, m) \in CertsPushes
         /\ CertsAnswerMet(p, a, c, h, m).step = "answered" /\ CertsAnswerMet(p, a, c, h, m).at = a
         /\ CertsAnswerMet(p, a, c, h, m).kid = p.kid /\ CertsAnswerMet(p, a, c, h, m).had = h
         /\ CertsAnswerMet(p, a, c, h, m).met = m /\ CertsAnswerMet(p, a, c, h, m).code = c
<1> DEFINE K == 0..signing
<1>1. /\ CertsPushes = [step : CertsSteps, kid : K, code : CertsCodes, at : Nat, had : Nat, met : CertsMets]
      /\ "answered" \in CertsSteps
  BY DEF CertsPushes, CertsSteps
<1> HIDE DEF K
<1>2. CertsAnswerMet(p, a, c, h, m) \in CertsPushes
  BY <1>1 DEF CertsAnswerMet
<1>3. p \in [step : CertsSteps, kid : K, code : CertsCodes, at : Nat, had : Nat, met : CertsMets]
  BY <1>1
<1> QED BY <1>2, <1>3 DEF CertsAnswerMet

\* Of a key that is published, one that was, and one that may come.
LEMMA CertsKeysOfGoogle ==
  ASSUME Certs!SigningCertsAssumption, CertsIInv
  PROVE  /\ \A k \in published : k \in 1..MaxKeys /\ gone[k] = None
         /\ \A k \in 1..signing : k \in 1..MaxKeys /\ (k \notin published => gone[k] # None)
         /\ certsCached.keys \subseteq 1..MaxKeys
<1>1. 1..signing \subseteq 1..MaxKeys
  BY DEF Certs!SigningCertsAssumption, CertsIInv, CertsShapes
<1> QED BY <1>1 DEF CertsIInv, CertsShapes, CertsKeysInv

LEMMA CertsInitIInv ==
  ASSUME Certs!SigningCertsAssumption
  PROVE  Certs!Init => CertsIInv
BY DEF Certs!SigningCertsAssumption, Certs!Init, CertsIInv, CertsShapes, CertsLockInv,
   CertsKeysInv, CertsCachedInv, CertsFetchInv, CertsVerdictInv,
   Certs!NoPush, CertsPushes, CertsSteps, CertsCodes, CertsMets, Certs!Answered

LEMMA CertsArriveKeeps ==
  ASSUME Certs!SigningCertsAssumption, CertsIInv, NEW t \in Workers, Certs!Arrive(t)
  PROVE  CertsIInv'
<1>1. PICK kid \in 0..signing :
        push' = [push EXCEPT ![t] = [Certs!NoPush EXCEPT !.step = "waits", !.kid = kid]]
  BY DEF Certs!Arrive
<1>2. /\ UNCHANGED <<certsNow, signing, published, gone, certsCached, certsLock, last, hurried>>
      /\ push[t].step = "idle" /\ push'[t].step = "waits"
      /\ \A u \in Workers : u # t => push'[u] = push[u]
  BY <1>1 DEF Certs!Arrive, Certs!NoPush, CertsIInv, CertsShapes
<1>3. CertsShapes'
  BY <1>1, <1>2 DEF CertsIInv, CertsShapes, Certs!NoPush, CertsPushes, CertsSteps,
     CertsCodes, CertsMets
<1>4. push'[t].met = "none"
  BY <1>1 DEF Certs!NoPush, CertsIInv, CertsShapes
<1>5. CertsLockInv' /\ CertsKeysInv' /\ CertsCachedInv' /\ CertsFetchInv' /\ CertsVerdictInv'
  BY <1>2, <1>4 DEF CertsIInv, CertsLockInv, CertsKeysInv, CertsCachedInv,
     CertsFetchInv, CertsVerdictInv, Certs!Answered
<1> QED BY <1>2, <1>3, <1>5 DEF CertsIInv

\* for_kid: the set will do, or the thread fetches another under the lock.
LEMMA CertsEnterKeeps ==
  ASSUME Certs!SigningCertsAssumption, CertsIInv, NEW t \in Workers, Certs!Enter(t)
  PROVE  CertsIInv'
<1>1. /\ UNCHANGED <<certsNow, signing, published, gone, certsCached, arrivals, last, hurried>>
      /\ push[t].step = "waits" /\ certsLock = None
      /\ certsNow \in Nat /\ certsCached.fetched \in Nat /\ certsCached.expires \in Nat /\ last.at \in Nat
      /\ CERTS_REFETCH_FLOOR \in Nat /\ CERTS_REFETCH_FLOOR <= CERTS_TTL_MIN
      /\ CERTS_TTL_MIN \in Nat /\ CERTS_TTL_MAX \in Nat
  BY DEF Certs!Enter, CertsIInv, CertsShapes, Certs!SigningCertsAssumption
<1>2. CASE Certs!Expired \/ Certs!MayRefetch(push[t].kid)
  <2>1. /\ push' = [push EXCEPT ![t].step = IF Certs!Expired THEN "must" ELSE "may", ![t].at = certsNow]
        /\ certsLock' = t
    BY <1>2 DEF Certs!Enter
  <2>2. /\ push'[t].step = IF Certs!Expired THEN "must" ELSE "may"
        /\ push'[t].at = certsNow /\ push'[t].kid = push[t].kid
        /\ \A u \in Workers : u # t => push'[u] = push[u]
    BY <2>1 DEF CertsIInv, CertsShapes
  <2>3. CertsShapes'
    <3>1. push[t] \in CertsPushes
      BY DEF CertsIInv, CertsShapes
    <3> DEFINE next == IF Certs!Expired THEN "must" ELSE "may"
    <3>5. next \in CertsSteps
      BY DEF CertsSteps
    <3> HIDE DEF next
    <3>2. [push[t] EXCEPT !.step = next, !.at = certsNow] \in CertsPushes
      BY <1>1, <3>1, <3>5 DEF CertsPushes
    <3>3. push' = [push EXCEPT ![t] =
                     [push[t] EXCEPT !.step = next, !.at = certsNow]]
      BY <2>1 DEF next, CertsIInv, CertsShapes
    <3>4. CertsPushes' = CertsPushes
      BY <1>1 DEF CertsPushes
    <3> QED BY <1>1, <3>2, <3>3, <3>4 DEF CertsIInv, CertsShapes
  <2>4. CertsLockInv'
    BY <1>1, <2>1, <2>2 DEF CertsIInv, CertsLockInv, Certs!SigningCertsAssumption
  <2>5. CertsFetchInv'
    <3>1. last.ok => certsNow - last.at >= CERTS_REFETCH_FLOOR
      BY <1>1, <1>2 DEF CertsIInv, CertsCachedInv, Certs!Expired, Certs!MayRefetch
    <3>2. push'[t].step = "may" => push'[t].kid \notin certsCached.keys
      BY <1>2, <2>2 DEF Certs!MayRefetch
    <3> QED BY <1>1, <2>2, <3>1, <3>2 DEF CertsIInv, CertsFetchInv
  <2>6. CertsKeysInv' /\ CertsCachedInv' /\ CertsVerdictInv'
    BY <1>1, <2>2 DEF CertsIInv, CertsKeysInv, CertsCachedInv, CertsVerdictInv,
       Certs!Answered
  <2> QED BY <1>1, <2>3, <2>4, <2>5, <2>6 DEF CertsIInv
<1>3. CASE ~(Certs!Expired \/ Certs!MayRefetch(push[t].kid))
  <2> DEFINE r == CertsAnswer(push[t], certsNow, Certs!Verdict(push[t].kid, certsCached.keys),
                     certsCached.fetched)
  <2>1. push' = [push EXCEPT ![t] = r] /\ certsLock' = certsLock
    BY <1>3 DEF Certs!Enter, CertsAnswer
  <2>2. /\ r \in CertsPushes /\ r.step = "answered" /\ r.at = certsNow /\ r.kid = push[t].kid
        /\ r.had = certsCached.fetched /\ r.met = "none"
        /\ r.code = Certs!Verdict(push[t].kid, certsCached.keys)
    <3>1. push[t] \in CertsPushes /\ push[t].met = "none"
      BY <1>1 DEF CertsIInv, CertsShapes, CertsFetchInv
    <3>2. Certs!Verdict(push[t].kid, certsCached.keys) \in CertsCodes
      BY DEF Certs!Verdict, CertsCodes
    <3> DEFINE v == Certs!Verdict(push[t].kid, certsCached.keys)
               h == certsCached.fetched
    <3>3. v \in CertsCodes /\ h \in Nat /\ certsNow \in Nat
      BY <1>1, <3>2
    <3> HIDE DEF v, h
    <3>4. /\ CertsAnswer(push[t], certsNow, v, h) \in CertsPushes
          /\ CertsAnswer(push[t], certsNow, v, h).step = "answered"
                 /\ CertsAnswer(push[t], certsNow, v, h).at = certsNow
          /\ CertsAnswer(push[t], certsNow, v, h).kid = push[t].kid
                 /\ CertsAnswer(push[t], certsNow, v, h).had = h
          /\ CertsAnswer(push[t], certsNow, v, h).met = "none"
                 /\ CertsAnswer(push[t], certsNow, v, h).code = v
      BY <3>1, <3>3, CertsAnswerTyped
    <3> QED BY <3>4 DEF v, h
  <2> HIDE DEF r
  <2>3. push'[t] = r /\ \A u \in Workers : u # t => push'[u] = push[u]
    BY <2>1 DEF CertsIInv, CertsShapes
  <2>4. CertsShapes' /\ CertsLockInv' /\ CertsKeysInv' /\ CertsCachedInv' /\ CertsFetchInv'
    <3>1. CertsPushes' = CertsPushes
      BY <1>1 DEF CertsPushes
    <3>2. CertsShapes'
      BY <1>1, <2>1, <2>2, <3>1 DEF CertsIInv, CertsShapes
    <3>3. CertsLockInv'
      BY <1>1, <2>1, <2>2, <2>3 DEF CertsIInv, CertsLockInv
    <3>4. CertsKeysInv' /\ CertsCachedInv'
      BY <1>1 DEF CertsIInv, CertsKeysInv, CertsCachedInv
    <3>5. CertsFetchInv'
      BY <1>1, <2>2, <2>3 DEF CertsIInv, CertsFetchInv
    <3> QED BY <3>2, <3>3, <3>4, <3>5
  <2>5. CASE r.kid \in certsCached.keys
    <3>1. certsCached.expires - certsCached.fetched <= CERTS_TTL_MAX /\ certsNow < certsCached.expires
      BY <1>1, <1>3, <2>5 DEF CertsIInv, CertsCachedInv, Certs!Expired
    <3>2. gone[r.kid] # None => gone[r.kid] \in Nat /\ gone[r.kid] >= certsCached.fetched
      BY <2>5 DEF CertsIInv, CertsShapes, CertsCachedInv, Certs!SigningCertsAssumption
    <3>3. r.kid # 0 /\ r.code = 204
      BY <2>2, <2>5 DEF CertsIInv, CertsShapes, Certs!Verdict
    <3> QED BY <1>1, <2>2, <2>3, <2>4, <3>1, <3>2, <3>3 DEF CertsIInv, CertsVerdictInv,
               Certs!Answered
  <2>6. CASE r.kid \notin certsCached.keys
    <3>1. certsNow - certsCached.fetched < CERTS_REFETCH_FLOOR
      BY <1>1, <1>3, <2>2, <2>6 DEF Certs!MayRefetch
    <3>2. r.code = 401
      BY <2>2, <2>6 DEF Certs!Verdict
    <3> QED BY <1>1, <2>2, <2>3, <2>4, <3>1, <3>2 DEF CertsIInv, CertsVerdictInv,
               Certs!Answered
  <2> QED BY <2>5, <2>6
<1> QED BY <1>2, <1>3

\* _refresh: the set published when the fetch ends, dated from before it; or a
\* failure, dated nowhere.
LEMMA CertsFetchedKeeps ==
  ASSUME Certs!SigningCertsAssumption, CertsIInv, NEW t \in Workers, Certs!Fetched(t)
  PROVE  CertsIInv'
<1>1. /\ UNCHANGED <<certsNow, signing, published, gone, arrivals>>
      /\ push[t].step \in {"must", "may"} /\ certsLock = t /\ certsLock' = None
      /\ certsNow \in Nat /\ push[t].at \in Nat /\ push[t].at <= certsNow
      /\ certsCached.fetched \in Nat /\ last.at \in Nat
      /\ CERTS_REFETCH_FLOOR \in Nat /\ CERTS_REFETCH_FLOOR <= CERTS_TTL_MIN
      /\ CERTS_TTL_MIN \in Nat /\ CERTS_TTL_MAX \in Nat \ {0}
  BY DEF Certs!Fetched, CertsIInv, CertsShapes, CertsPushes, CertsLockInv,
     CertsFetchInv, Certs!SigningCertsAssumption
<1>2. ~hurried'
  <2>1. last.ok => push[t].at - last.at >= CERTS_REFETCH_FLOOR
    BY <1>1 DEF CertsIInv, CertsFetchInv
  <2>2. ~(push[t].at - last.at < CERTS_REFETCH_FLOOR) \/ ~last.ok
    BY <1>1, <2>1
  <2>3. hurried' = (hurried \/ (last.ok /\ push[t].at - last.at < CERTS_REFETCH_FLOOR))
    BY DEF Certs!Fetched
  <2> QED BY <2>2, <2>3, Zenon DEF CertsIInv
<1>3. PICK ok \in BOOLEAN :
        /\ last' = [at |-> push[t].at, ok |-> ok]
        /\ IF ok THEN \E s \in Stated : certsCached' = [keys |-> published, fetched |-> push[t].at,
                                                        expires |-> push[t].at + Certs!Lifetime(s)]
           ELSE UNCHANGED certsCached
        /\ push' = [push EXCEPT ![t] = [@ EXCEPT !.step = "answered", !.at = certsNow,
             !.code = IF ~ok /\ push[t].step = "must" THEN 503
                      ELSE Certs!Verdict(push[t].kid, certsCached'.keys),
             !.had = certsCached'.fetched, !.met = IF ok THEN "fetch" ELSE "failure"]]
  BY DEF Certs!Fetched
<1>4. /\ certsCached' \in [keys : SUBSET (1..signing), fetched : Nat, expires : Nat]
      /\ ok => /\ certsCached'.keys = published /\ certsCached'.fetched = push[t].at
               /\ certsCached'.expires - certsCached'.fetched \in CERTS_TTL_MIN..CERTS_TTL_MAX
      /\ ~ok => certsCached' = certsCached
  <2>1. CASE ok
    <3>1. PICK s \in Stated : certsCached' = [keys |-> published, fetched |-> push[t].at,
                                        expires |-> push[t].at + Certs!Lifetime(s)]
      BY <1>3, <2>1
    <3>2. Certs!Lifetime(s) \in CERTS_TTL_MIN..CERTS_TTL_MAX
      BY CertsLifetimeBounded DEF Certs!SigningCertsAssumption
    <3> QED BY <1>1, <2>1, <3>1, <3>2 DEF CertsIInv, CertsShapes
  <2>2. CASE ~ok
    BY <1>3, <2>2 DEF CertsIInv, CertsShapes
  <2> QED BY <2>1, <2>2
<1> DEFINE code == IF ~ok /\ push[t].step = "must" THEN 503 ELSE Certs!Verdict(push[t].kid, certsCached'.keys)
           met == IF ok THEN "fetch" ELSE "failure"
           had == certsCached'.fetched
           r == CertsAnswerMet(push[t], certsNow, code, had, met)
<1>5. /\ r \in CertsPushes /\ r.step = "answered" /\ r.at = certsNow /\ r.kid = push[t].kid
      /\ r.code = code /\ r.met = met
  <2>1. push[t] \in CertsPushes /\ had \in Nat /\ certsNow \in Nat
    BY <1>1, <1>4 DEF CertsIInv, CertsShapes
  <2>2. code \in CertsCodes
    BY DEF Certs!Verdict, CertsCodes
  <2>3. met \in CertsMets
    BY DEF CertsMets
  <2> HIDE DEF code, met, had
  <2>4. r \in CertsPushes
    BY <2>1, <2>2, <2>3, CertsAnswerMetTyped
  <2>5. r.step = "answered" /\ r.at = certsNow
    BY <2>1, <2>2, <2>3, CertsAnswerMetTyped
  <2>6. r.kid = push[t].kid
    BY <2>1, <2>2, <2>3, CertsAnswerMetTyped
  <2>7. r.code = code /\ r.met = met
    BY <2>1, <2>2, <2>3, CertsAnswerMetTyped
  <2> QED BY <2>4, <2>5, <2>6, <2>7
<1>6. push' = [push EXCEPT ![t] = r]
  BY <1>3 DEF CertsAnswerMet
<1> HIDE DEF r
<1>7. push'[t] = r /\ \A u \in Workers : u # t => push'[u] = push[u]
  BY <1>6 DEF CertsIInv, CertsShapes
<1>8. CertsShapes'
  BY <1>1, <1>3, <1>4, <1>5, <1>6 DEF CertsIInv, CertsShapes, CertsPushes
<1>9. CertsLockInv'
  BY <1>1, <1>5, <1>7 DEF CertsIInv, CertsLockInv, Certs!SigningCertsAssumption
<1>10. CertsKeysInv'
  BY <1>1 DEF CertsIInv, CertsKeysInv
<1>11. CertsCachedInv'
  <2>1. last'.ok = ok /\ last'.at = push[t].at
    BY <1>3
  <2>2. CASE ok
    <3>1. \A k \in published : gone[k] = None
      BY CertsKeysOfGoogle
    <3> QED BY <1>1, <1>4, <2>1, <2>2, <3>1 DEF CertsCachedInv
  <2>3. CASE ~ok
    BY <1>1, <1>4, <2>1, <2>3 DEF CertsIInv, CertsCachedInv
  <2> QED BY <2>2, <2>3
<1>12. CertsFetchInv'
  BY <1>1, <1>5, <1>7 DEF CertsIInv, CertsLockInv, CertsFetchInv
<1>13. CertsVerdictInv'
  <2>1. r.code = 204 => ok /\ r.kid \in published
    BY <1>1, <1>4, <1>5 DEF Certs!Verdict, CertsIInv, CertsFetchInv
  <2>2. r.code = 204 => r.kid # 0 /\ gone[r.kid] = None
    BY <2>1, CertsKeysOfGoogle
  <2>3. r.code = 401 /\ r.kid # 0 /\ ok => gone[r.kid] # None
    <3>1. r.kid \in 0..signing
      BY <1>5 DEF CertsPushes
    <3>2. r.code = 401 /\ ok => r.kid \notin published
      BY <1>4, <1>5 DEF Certs!Verdict
    <3>3. 0..signing = {0} \cup 1..signing
      BY DEF CertsIInv, CertsShapes
    <3> QED BY <3>1, <3>2, <3>3, CertsKeysOfGoogle
  <2> QED BY <1>1, <1>5, <1>7, <2>2, <2>3 DEF CertsIInv, CertsVerdictInv, Certs!Answered
<1> QED BY <1>2, <1>8, <1>9, <1>10, <1>11, <1>12, <1>13 DEF CertsIInv

\* Google's own steps: a key that is no longer published is withdrawn today.
LEMMA CertsGoogleKeeps ==
  ASSUME Certs!SigningCertsAssumption, CertsIInv, Certs!Rotate \/ Certs!Withdraw
  PROVE  CertsIInv'
<1>1. /\ UNCHANGED <<certsNow, certsCached, certsLock, push, arrivals, last, hurried>>
      /\ gone' = [k \in 1..MaxKeys |-> IF k \in published \ published' THEN certsNow ELSE gone[k]]
      /\ signing' \in 1..MaxKeys /\ signing \in Nat /\ signing <= signing' /\ certsNow \in Nat
      /\ published' = {signing, signing'} /\ signing' <= signing + 1
      /\ MaxKeys \in Nat /\ None \notin Nat
  BY DEF Certs!Rotate, Certs!Withdraw, CertsIInv, CertsShapes,
     Certs!SigningCertsAssumption
<1>2. /\ signing \in published
      /\ \A k \in 1..MaxKeys : k \in published' => gone[k] = None
  BY <1>1 DEF CertsIInv, CertsKeysInv
<1>3. \A k \in 1..MaxKeys :
        \/ gone'[k] = gone[k]
        \/ gone[k] = None /\ gone'[k] = certsNow /\ k \in published \ published'
  BY <1>1 DEF CertsIInv, CertsKeysInv
<1>4. CertsShapes'
  <2>1. published' \in SUBSET (1..signing') /\ 1..signing \subseteq 1..signing'
    BY <1>1 DEF CertsIInv, CertsShapes
  <2>2. gone' \in [1..MaxKeys -> Nat \cup {None}]
    BY <1>1 DEF CertsIInv, CertsShapes
  <2>3. CertsPushes \subseteq CertsPushes'
    BY <1>1 DEF CertsPushes
  <2>4. push' \in [Workers -> CertsPushes']
    BY <1>1, <2>3 DEF CertsIInv, CertsShapes
  <2> QED BY <1>1, <2>1, <2>2, <2>4 DEF CertsIInv, CertsShapes
<1>5. CertsLockInv' /\ CertsFetchInv'
  BY <1>1 DEF CertsIInv, CertsLockInv, CertsFetchInv
<1>6. CertsKeysInv'
  <2>1. \A k \in 1..MaxKeys : k > signing' => gone'[k] = None
    BY <1>1, <1>3 DEF CertsIInv, CertsShapes, CertsKeysInv
  <2>2. \A k \in 1..MaxKeys : k \notin published' /\ k <= signing' => gone'[k] # None
    BY <1>1 DEF CertsIInv, CertsShapes, CertsKeysInv
  <2>3. \A k \in 1..MaxKeys : gone'[k] # None => gone'[k] <= certsNow
    BY <1>1, <1>3 DEF CertsIInv, CertsKeysInv
  <2> QED BY <1>1, <1>2, <2>1, <2>2, <2>3 DEF CertsIInv, CertsKeysInv
<1>7. CertsCachedInv'
  BY <1>1, <1>3, CertsKeysOfGoogle DEF CertsIInv, CertsShapes, CertsCachedInv
<1>8. CertsVerdictInv'
  <2>1. ASSUME NEW t \in Workers
        PROVE  push[t].kid # 0 => push[t].kid \in 1..MaxKeys
    BY <1>1 DEF CertsIInv, CertsShapes, CertsPushes
  <2>2. \A t \in Workers : push[t].step = "answered" => push[t].at \in Nat /\ push[t].at <= certsNow
    BY DEF CertsIInv, CertsShapes, CertsPushes, CertsFetchInv
  <2> QED BY <1>1, <1>3, <2>1, <2>2 DEF CertsIInv, CertsVerdictInv, Certs!Answered,
             Certs!SigningCertsAssumption
<1> QED BY <1>1, <1>4, <1>5, <1>6, <1>7, <1>8 DEF CertsIInv

\* The process starts again with no set, and time passes.
LEMMA CertsRestartKeeps ==
  ASSUME Certs!SigningCertsAssumption, CertsIInv, Certs!Restart
  PROVE  CertsIInv'
<1>1. /\ UNCHANGED <<certsNow, signing, published, gone, arrivals, hurried>>
      /\ certsCached' = [keys |-> {}, fetched |-> 0, expires |-> 0]
      /\ certsLock' = None /\ push' = [t \in Workers |-> Certs!NoPush] /\ last' = [at |-> 0, ok |-> FALSE]
      /\ certsNow \in Nat /\ signing \in Nat
  BY DEF Certs!Restart, CertsIInv, CertsShapes
<1>2. Certs!NoPush \in CertsPushes' /\ Certs!NoPush.step = "idle"
  BY <1>1 DEF Certs!NoPush, CertsPushes, CertsSteps, CertsCodes, CertsMets
<1>3. CertsShapes'
  BY <1>1, <1>2 DEF CertsIInv, CertsShapes
<1>4. CertsLockInv' /\ CertsKeysInv' /\ CertsCachedInv' /\ CertsFetchInv' /\ CertsVerdictInv'
  BY <1>1, <1>2 DEF CertsIInv, CertsLockInv, CertsKeysInv, CertsCachedInv,
     CertsFetchInv, CertsVerdictInv, Certs!Answered,
     Certs!SigningCertsAssumption
<1> QED BY <1>1, <1>3, <1>4 DEF CertsIInv

LEMMA CertsTickKeeps ==
  ASSUME Certs!SigningCertsAssumption, CertsIInv, Certs!Tick
  PROVE  CertsIInv'
<1>1. /\ UNCHANGED <<signing, published, gone, certsCached, certsLock, arrivals, last, hurried>>
      /\ certsNow' = certsNow + 1 /\ certsNow \in Nat /\ signing \in Nat /\ None \notin Nat
      /\ push' = [t \in Workers |-> IF push[t].step = "answered" THEN Certs!NoPush ELSE push[t]]
  BY DEF Certs!Tick, CertsIInv, CertsShapes, Certs!SigningCertsAssumption
<1>2. Certs!NoPush \in CertsPushes /\ CertsPushes' = CertsPushes /\ Certs!NoPush.step = "idle"
  BY <1>1 DEF Certs!NoPush, CertsPushes, CertsSteps, CertsCodes, CertsMets
<1>3. \A t \in Workers : \/ push'[t] = push[t] /\ push[t].step # "answered"
                         \/ push[t].step = "answered" /\ push'[t].step = "idle"
  BY <1>1, <1>2
<1>4. CertsShapes'
  BY <1>1, <1>2 DEF CertsIInv, CertsShapes
<1>5. CertsLockInv' /\ CertsKeysInv' /\ CertsCachedInv'
  BY <1>1, <1>3 DEF CertsIInv, CertsShapes, CertsLockInv, CertsKeysInv, CertsCachedInv
<1>6. CertsFetchInv' /\ CertsVerdictInv'
  <2>1. \A t \in Workers : push[t].at \in Nat
    BY DEF CertsIInv, CertsShapes, CertsPushes
  <2> QED BY <1>1, <1>3, <2>1 DEF CertsIInv, CertsFetchInv, CertsVerdictInv,
             Certs!Answered
<1> QED BY <1>1, <1>4, <1>5, <1>6 DEF CertsIInv

LEMMA CertsStepIInv ==
  ASSUME Certs!SigningCertsAssumption
  PROVE  CertsIInv /\ [Certs!Next]_(Certs!vars) => CertsIInv'
<1> SUFFICES ASSUME CertsIInv, [Certs!Next]_(Certs!vars) PROVE CertsIInv'
  OBVIOUS
<1>1. CASE UNCHANGED Certs!vars
  BY <1>1 DEF Certs!vars, CertsIInv, CertsShapes, CertsPushes, CertsLockInv,
     CertsKeysInv, CertsCachedInv, CertsFetchInv, CertsVerdictInv, Certs!Answered
<1>2. CASE Certs!Next
  BY <1>2, CertsArriveKeeps, CertsEnterKeeps, CertsFetchedKeeps, CertsGoogleKeeps,
     CertsRestartKeeps, CertsTickKeeps DEF Certs!Next
<1> QED BY <1>1, <1>2

LEMMA InvGivesCertsHold ==
  ASSUME Certs!SigningCertsAssumption
  PROVE  CertsIInv => Certs!CertsHold
BY DEF CertsIInv, CertsVerdictInv, Certs!CertsHold, Certs!WithdrawnKeysGo,
   Certs!GenuineRefused, Certs!FetchesSpaced

-----------------------------------------------------------------------------
\* Where `part` is this component's, its steps are the only ones; elsewhere its
\* variables stand still.
LEMMA CertsIsAPart == Spec => Certs!Spec
<1>1. Init => Certs!Init
  BY DEF Init
<1>2. [Next]_vars => [Certs!Next]_(Certs!vars)
  BY DEF Next, vars, certsVars, Certs!vars
<1> QED BY <1>1, <1>2, PTL DEF Spec, Certs!Spec

\* For any keys of Google's and any pushes at once: a withdrawn key is trusted for
\* less than CERTS_TTL_MAX longer, a genuine push is refused for good only inside
\* the floor or after a failed fetch of its own, and fetches keep to the floor
\* (daemons/gmail_hook_server.py).
THEOREM CertsAlwaysHold == Spec => []CertsHold
<1>0. Certs!SigningCertsAssumption
  BY PartsAssumption
<1>1. Certs!Init => CertsIInv
  BY <1>0, CertsInitIInv
<1>2. CertsIInv /\ [Certs!Next]_(Certs!vars) => CertsIInv'
  BY <1>0, CertsStepIInv
<1>3. CertsIInv => CertsHold
  BY <1>0, InvGivesCertsHold DEF CertsHold
<1> QED BY <1>1, <1>2, <1>3, CertsIsAPart, PTL DEF Certs!Spec

-----------------------------------------------------------------------------
(* Relay (daemons/relay.py, ingress_proxy.py, egress_proxy.py).              *)
(* An end of stream is passed on only when the bytes before it were          *)
(* (RelayEofInv), what select() found readable stays so until it is dealt    *)
(* with (RelayReadyInv), and the pump ends by itself only after both ends    *)
(* of stream were passed on (RelayEndedInv).                                 *)

RelayShapes ==
  /\ phase \in {"accepted", "resolved", "select", "send", "closed"}
  /\ written \in [Relays!Ends -> Nat] /\ read \in [Relays!Ends -> Nat]
  /\ inbox \in [Relays!Ends -> Nat] /\ outbox \in [Relays!Ends -> Nat]
  /\ shut \in [Relays!Ends -> BOOLEAN] /\ vanished \in [Relays!Ends -> BOOLEAN]
         /\ eof \in [Relays!Ends -> BOOLEAN]
  /\ ready \subseteq watched /\ watched \subseteq Relays!Ends
  /\ inHand \in [from : Relays!Ends, left : Nat] \cup {None}

\* Something is in the pump's hands while it sends, and comes from an end it has
\* not dealt with.
RelayHandInv ==
  /\ phase = "send" => inHand # None
  /\ phase \in {"accepted", "resolved", "select"} => inHand = None
  /\ inHand # None => inHand.from \in ready

\* A connection that is not joined has carried nothing.
RelaySetUpInv ==
  /\ phase \in {"accepted", "resolved"} =>
       /\ dialled = None /\ watched = {}
       /\ \A e \in Relays!Ends : written[e] = 0 /\ ~eof[e]
  /\ phase = "resolved" => asked \in Listed

RelayReadyInv ==
  \A e \in ready :
    (inHand = None \/ inHand.from # e) => inbox[e] > 0 \/ shut[e] \/ vanished[e]

RelayEofInv ==
  \A e \in Relays!Ends :
    eof[e] => shut[Relays!Other(e)] /\ inbox[Relays!Other(e)] = 0 /\ Relays!Other(e) \notin watched

RelayEndedInv ==
  /\ phase \in {"select", "send"} => \A e \in Relays!Ends : e \notin watched => eof[Relays!Other(e)]
  /\ phase = "closed" /\ why \notin {"idle", "error"} =>
       (\A e \in Relays!Ends : eof[e]) \/ (\A e \in Relays!Ends : written[e] = 0)

RelayIInv ==
  /\ RelayShapes /\ RelayHandInv /\ RelaySetUpInv /\ RelayReadyInv /\ RelayEofInv /\ RelayEndedInv
  /\ Relays!NeverMore /\ Relays!OnlyListed

-----------------------------------------------------------------------------
LEMMA RelayOtherEnd ==
  \A e \in Relays!Ends : Relays!Other(e) \in Relays!Ends /\ Relays!Other(e) # e
      /\ Relays!Other(Relays!Other(e)) = e
BY DEF Relays!Ends, Relays!Other

LEMMA RelayTwoEnds ==
  ASSUME NEW e \in Relays!Ends, NEW d \in Relays!Ends, d # e
  PROVE  d = Relays!Other(e)
BY DEF Relays!Ends, Relays!Other

LEMMA RelayNothingOfNothing ==
  ASSUME NEW a \in Nat, NEW b \in Nat, NEW c \in Nat, NEW d \in Nat, a + b + c + d = 0
  PROVE  a = 0
OBVIOUS

LEMMA InvGivesRelayHolds ==
  ASSUME Relays!RelayAssumption
  PROVE  RelayIInv => Relays!RelayHolds
<1> SUFFICES ASSUME RelayIInv PROVE Relays!WholeUnlessCut
  BY DEF RelayIInv, Relays!RelayHolds
<1>1. SUFFICES ASSUME NEW e \in Relays!Ends, Relays!SeesTheEnd(e), why \notin {"idle", "error"}
      PROVE  read[e] = written[Relays!Other(e)]
  BY DEF Relays!WholeUnlessCut
<1>2. Relays!Other(e) \in Relays!Ends
  BY RelayOtherEnd
<1>3. CASE eof[e]
  <2>1. inbox[Relays!Other(e)] = 0 /\ (inHand # None => inHand.from # Relays!Other(e)) /\ outbox[e] = 0
    BY <1>1, <1>3 DEF RelayIInv, RelayEofInv, RelayHandInv, RelayShapes,
       Relays!SeesTheEnd
  <2> QED BY <1>2, <2>1 DEF RelayIInv, Relays!NeverMore, RelayShapes
<1>4. CASE \A d \in Relays!Ends : written[d] = 0
  <2> DEFINE inbound == IF inHand # None /\ inHand.from = Relays!Other(e) THEN inHand.left ELSE 0
  <2>1. inbound \in Nat
    BY DEF RelayIInv, RelayShapes
  <2>2. read[e] + outbox[e] + inbox[Relays!Other(e)] + inbound = 0 /\ written[Relays!Other(e)] = 0
    BY <1>2, <1>4 DEF RelayIInv, Relays!NeverMore
  <2>3. read[e] \in Nat /\ outbox[e] \in Nat /\ inbox[Relays!Other(e)] \in Nat
    BY <1>2 DEF RelayIInv, RelayShapes
  <2> HIDE DEF inbound
  <2>4. read[e] = 0
    BY <2>1, <2>2, <2>3, RelayNothingOfNothing
  <2> QED BY <2>2, <2>4
<1> QED BY <1>1, <1>3, <1>4 DEF Relays!SeesTheEnd, RelayIInv, RelayEndedInv

LEMMA RelayInitIInv ==
  ASSUME Relays!RelayAssumption
  PROVE  Relays!Init => RelayIInv
BY RelayOtherEnd DEF Relays!RelayAssumption, Relays!Init, Relays!All, RelayIInv,
   RelayShapes, RelayHandInv,
   RelaySetUpInv, RelayReadyInv,
   RelayEofInv, RelayEndedInv,
   Relays!NeverMore, Relays!OnlyListed, Relays!Ends

\* Setting a connection up.
LEMMA RelaySetUpKeeps ==
  ASSUME Relays!RelayAssumption, RelayIInv, Relays!Ingress \/ Relays!Request \/ Relays!Dial
  PROVE  RelayIInv'
<1> USE DEF Relays!RelayAssumption
<1>1. CASE Relays!Ingress
  <2>1. RelayShapes' /\ RelayHandInv' /\ RelaySetUpInv'
    BY <1>1 DEF RelayIInv, RelayShapes, RelayHandInv, RelaySetUpInv, Relays!Ingress,
       Relays!Joined,
       Relays!Close, Relays!request, Relays!ends,
       Relays!sockets
  <2>2. RelayReadyInv'
    BY <1>1 DEF RelayIInv, RelayShapes, RelayHandInv, RelayReadyInv, Relays!Ingress,
       Relays!Joined,
       Relays!Close, Relays!request, Relays!ends,
       Relays!sockets
  <2>3. RelayEofInv'
    BY <1>1, RelayOtherEnd DEF RelayIInv, RelayShapes, RelaySetUpInv, RelayEofInv,
       Relays!Ingress,
       Relays!Joined, Relays!Close,
       Relays!request, Relays!ends, Relays!sockets
  <2>4. RelayEndedInv'
    BY <1>1, RelayOtherEnd DEF RelayIInv, RelayShapes, RelaySetUpInv, RelayEndedInv,
       Relays!Ingress,
       Relays!Joined, Relays!Close,
       Relays!request, Relays!ends, Relays!sockets
  <2>5. Relays!NeverMore'
    BY <1>1, RelayOtherEnd DEF RelayIInv, RelayShapes, RelayHandInv, Relays!NeverMore,
       Relays!Ingress,
       Relays!Joined, Relays!Close,
       Relays!request, Relays!ends, Relays!sockets
  <2>6. Relays!OnlyListed'
    BY <1>1 DEF RelayIInv, RelaySetUpInv, Relays!OnlyListed, Relays!Ingress,
       Relays!Joined,
       Relays!Close, Relays!request, Relays!ends, Relays!sockets
  <2> QED BY <2>1, <2>2, <2>3, <2>4, <2>5, <2>6 DEF RelayIInv
<1>2. CASE Relays!Request
  <2>1. RelayShapes' /\ RelayHandInv' /\ RelaySetUpInv'
    BY <1>2 DEF RelayIInv, RelayShapes, RelayHandInv, RelaySetUpInv, Relays!Request,
       Relays!Close,
       Relays!ends, Relays!sockets, Relays!loop
  <2>2. RelayReadyInv'
    BY <1>2 DEF RelayIInv, RelayShapes, RelayHandInv, RelayReadyInv, Relays!Request,
       Relays!Close,
       Relays!ends, Relays!sockets, Relays!loop
  <2>3. RelayEofInv'
    BY <1>2, RelayOtherEnd DEF RelayIInv, RelayShapes, RelayEofInv, Relays!Request,
       Relays!Close,
       Relays!ends, Relays!sockets, Relays!loop
  <2>4. RelayEndedInv'
    BY <1>2, RelayOtherEnd DEF RelayIInv, RelayShapes, RelaySetUpInv, RelayEndedInv,
       Relays!Request,
       Relays!Close, Relays!ends,
       Relays!sockets, Relays!loop
  <2>5. Relays!NeverMore'
    BY <1>2, RelayOtherEnd DEF RelayIInv, RelayShapes, RelayHandInv, Relays!NeverMore,
       Relays!Request,
       Relays!Close, Relays!ends,
       Relays!sockets, Relays!loop
  <2>6. Relays!OnlyListed'
    BY <1>2 DEF RelayIInv, RelaySetUpInv, Relays!OnlyListed, Relays!Request,
       Relays!Close,
       Relays!ends, Relays!sockets, Relays!loop
  <2> QED BY <2>1, <2>2, <2>3, <2>4, <2>5, <2>6 DEF RelayIInv
<1>3. CASE Relays!Dial
  <2>1. RelayShapes' /\ RelayHandInv' /\ RelaySetUpInv'
    BY <1>3 DEF RelayIInv, RelayShapes, RelayHandInv, RelaySetUpInv, Relays!Dial,
       Relays!MayDial,
       Relays!Joined, Relays!Close, Relays!ends, Relays!sockets
  <2>2. RelayReadyInv'
    BY <1>3 DEF RelayIInv, RelayShapes, RelayHandInv, RelayReadyInv, Relays!Dial,
       Relays!MayDial,
       Relays!Joined, Relays!Close, Relays!ends, Relays!sockets
  <2>3. RelayEofInv'
    BY <1>3, RelayOtherEnd DEF RelayIInv, RelayShapes, RelaySetUpInv, RelayEofInv,
       Relays!Dial, Relays!MayDial,
       Relays!Joined, Relays!Close,
       Relays!ends, Relays!sockets
  <2>4. RelayEndedInv'
    BY <1>3, RelayOtherEnd DEF RelayIInv, RelayShapes, RelaySetUpInv, RelayEndedInv,
       Relays!Dial,
       Relays!MayDial, Relays!Joined, Relays!Close,
       Relays!ends, Relays!sockets
  <2>5. Relays!NeverMore'
    BY <1>3, RelayOtherEnd DEF RelayIInv, RelayShapes, RelayHandInv, Relays!NeverMore,
       Relays!Dial,
       Relays!MayDial, Relays!Joined, Relays!Close,
       Relays!ends, Relays!sockets
  <2>6. Relays!OnlyListed'
    BY <1>3 DEF RelayIInv, RelaySetUpInv, Relays!OnlyListed, Relays!Dial,
       Relays!MayDial,
       Relays!Joined, Relays!Close, Relays!ends, Relays!sockets
  <2> QED BY <2>1, <2>2, <2>3, <2>4, <2>5, <2>6 DEF RelayIInv
<1> QED BY <1>1, <1>2, <1>3

\* What the two ends do.
LEMMA RelayEndsKeep ==
  ASSUME Relays!RelayAssumption, RelayIInv, NEW e \in Relays!Ends,
         Relays!Write(e) \/ Relays!ShutDown(e) \/ Relays!Read(e) \/ Relays!Vanish(e)
  PROVE  RelayIInv'
<1> USE DEF Relays!RelayAssumption
<1>1. CASE Relays!Write(e)
  <2>1. RelayShapes' /\ RelayHandInv' /\ RelaySetUpInv'
    BY <1>1 DEF RelayIInv, RelayShapes, RelayHandInv, RelaySetUpInv, Relays!Write,
       Relays!Open,
       Relays!request, Relays!loop
  <2>2. RelayReadyInv'
    BY <1>1 DEF RelayIInv, RelayShapes, RelayHandInv, RelayReadyInv, Relays!Write,
       Relays!Open,
       Relays!request, Relays!loop
  <2>3. RelayEofInv'
    BY <1>1, RelayOtherEnd DEF RelayIInv, RelayShapes, RelayEofInv, Relays!Write,
       Relays!Open,
       Relays!request, Relays!loop
  <2>4. RelayEndedInv'
    BY <1>1, RelayOtherEnd DEF RelayIInv, RelayShapes, RelaySetUpInv, RelayEndedInv,
       Relays!Write, Relays!Open,
       Relays!request, Relays!loop
  <2>5. Relays!NeverMore'
    BY SMTT(30), <1>1, RelayOtherEnd DEF RelayIInv, RelayShapes, RelayHandInv,
       Relays!NeverMore,
       Relays!Ends, Relays!Other, Relays!Write,
       Relays!Open, Relays!request, Relays!loop
  <2>6. Relays!OnlyListed'
    BY <1>1 DEF RelayIInv, RelaySetUpInv, Relays!OnlyListed, Relays!Write, Relays!Open,
       Relays!request, Relays!loop
  <2> QED BY <2>1, <2>2, <2>3, <2>4, <2>5, <2>6 DEF RelayIInv
<1>2. CASE Relays!ShutDown(e)
  <2>1. RelayShapes' /\ RelayHandInv' /\ RelaySetUpInv'
    BY <1>2 DEF RelayIInv, RelayShapes, RelayHandInv, RelaySetUpInv, Relays!ShutDown,
       Relays!Open,
       Relays!request, Relays!sockets, Relays!loop
  <2>2. RelayReadyInv'
    BY <1>2 DEF RelayIInv, RelayShapes, RelayHandInv, RelayReadyInv, Relays!ShutDown,
       Relays!Open,
       Relays!request, Relays!sockets, Relays!loop
  <2>3. RelayEofInv'
    BY <1>2, RelayOtherEnd DEF RelayIInv, RelayShapes, RelayEofInv, Relays!ShutDown,
       Relays!Open,
       Relays!request, Relays!sockets, Relays!loop
  <2>4. RelayEndedInv'
    BY <1>2, RelayOtherEnd DEF RelayIInv, RelayShapes, RelaySetUpInv, RelayEndedInv,
       Relays!ShutDown,
       Relays!Open, Relays!request,
       Relays!sockets, Relays!loop
  <2>5. Relays!NeverMore'
    BY <1>2, RelayOtherEnd DEF RelayIInv, RelayShapes, RelayHandInv, Relays!NeverMore,
       Relays!ShutDown,
       Relays!Open, Relays!request,
       Relays!sockets, Relays!loop
  <2>6. Relays!OnlyListed'
    BY <1>2 DEF RelayIInv, RelaySetUpInv, Relays!OnlyListed, Relays!ShutDown,
       Relays!Open,
       Relays!request, Relays!sockets, Relays!loop
  <2> QED BY <2>1, <2>2, <2>3, <2>4, <2>5, <2>6 DEF RelayIInv
<1>3. CASE Relays!Read(e)
  <2>1. RelayShapes' /\ RelayHandInv' /\ RelaySetUpInv'
    BY <1>3 DEF RelayIInv, RelayShapes, RelayHandInv, RelaySetUpInv, Relays!Read,
       Relays!request,
       Relays!loop
  <2>2. RelayReadyInv'
    BY <1>3 DEF RelayIInv, RelayShapes, RelayHandInv, RelayReadyInv, Relays!Read,
       Relays!request,
       Relays!loop
  <2>3. RelayEofInv'
    BY <1>3, RelayOtherEnd DEF RelayIInv, RelayShapes, RelayEofInv, Relays!Read,
       Relays!request, Relays!loop
  <2>4. RelayEndedInv'
    BY <1>3, RelayOtherEnd DEF RelayIInv, RelayShapes, RelaySetUpInv, RelayEndedInv,
       Relays!Read,
       Relays!request, Relays!loop
  <2>5. Relays!NeverMore'
    BY SMTT(30), <1>3, RelayOtherEnd DEF RelayIInv, RelayShapes, RelayHandInv,
       Relays!NeverMore,
       Relays!Ends, Relays!Other, Relays!Read,
       Relays!request, Relays!loop
  <2>6. Relays!OnlyListed'
    BY <1>3 DEF RelayIInv, RelaySetUpInv, Relays!OnlyListed, Relays!Read,
       Relays!request,
       Relays!loop
  <2> QED BY <2>1, <2>2, <2>3, <2>4, <2>5, <2>6 DEF RelayIInv
<1>4. CASE Relays!Vanish(e)
  <2>1. RelayShapes' /\ RelayHandInv' /\ RelaySetUpInv'
    BY <1>4 DEF RelayIInv, RelayShapes, RelayHandInv, RelaySetUpInv, Relays!Vanish,
       Relays!Open,
       Relays!request, Relays!sockets, Relays!loop
  <2>2. RelayReadyInv'
    BY <1>4 DEF RelayIInv, RelayShapes, RelayHandInv, RelayReadyInv, Relays!Vanish,
       Relays!Open,
       Relays!request, Relays!sockets, Relays!loop
  <2>3. RelayEofInv'
    BY <1>4, RelayOtherEnd DEF RelayIInv, RelayShapes, RelayEofInv, Relays!Vanish,
       Relays!Open,
       Relays!request, Relays!sockets, Relays!loop
  <2>4. RelayEndedInv'
    BY <1>4, RelayOtherEnd DEF RelayIInv, RelayShapes, RelaySetUpInv, RelayEndedInv,
       Relays!Vanish, Relays!Open,
       Relays!request,
       Relays!sockets, Relays!loop
  <2>5. Relays!NeverMore'
    BY <1>4, RelayOtherEnd DEF RelayIInv, RelayShapes, RelayHandInv, Relays!NeverMore,
       Relays!Vanish,
       Relays!Open, Relays!request,
       Relays!sockets, Relays!loop
  <2>6. Relays!OnlyListed'
    BY <1>4 DEF RelayIInv, RelaySetUpInv, Relays!OnlyListed, Relays!Vanish, Relays!Open,
       Relays!request, Relays!sockets, Relays!loop
  <2> QED BY <2>1, <2>2, <2>3, <2>4, <2>5, <2>6 DEF RelayIInv
<1> QED BY <1>1, <1>2, <1>3, <1>4

\* The pump's steps.
LEMMA RelayPumpKeeps ==
  ASSUME Relays!RelayAssumption, RelayIInv,
         Relays!Select \/ Relays!Ended \/ Relays!Send \/ Relays!Broken
  PROVE  RelayIInv'
<1> USE DEF Relays!RelayAssumption
<1>1. CASE Relays!Select
  <2>1. RelayShapes' /\ RelayHandInv' /\ RelaySetUpInv'
    BY <1>1 DEF RelayIInv, RelayShapes, RelayHandInv, RelaySetUpInv, Relays!Select,
       Relays!Close,
       Relays!Readable, Relays!request, Relays!ends,
       Relays!sockets
  <2>2. RelayReadyInv'
    BY <1>1 DEF RelayIInv, RelayShapes, RelayHandInv, RelayReadyInv, Relays!Select,
       Relays!Close,
       Relays!Readable, Relays!request, Relays!ends,
       Relays!sockets
  <2>3. RelayEofInv'
    BY <1>1, RelayOtherEnd DEF RelayIInv, RelayShapes, RelayEofInv, Relays!Select,
       Relays!Close,
       Relays!Readable, Relays!request, Relays!ends,
       Relays!sockets
  <2>4. RelayEndedInv'
    BY <1>1, RelayOtherEnd DEF RelayIInv, RelayShapes, RelaySetUpInv, RelayEndedInv,
       Relays!Select,
       Relays!Close, Relays!Readable,
       Relays!request, Relays!ends, Relays!sockets
  <2>5. Relays!NeverMore'
    BY <1>1, RelayOtherEnd DEF RelayIInv, RelayShapes, RelayHandInv, Relays!NeverMore,
       Relays!Select,
       Relays!Close, Relays!Readable,
       Relays!request, Relays!ends, Relays!sockets
  <2>6. Relays!OnlyListed'
    BY <1>1 DEF RelayIInv, RelaySetUpInv, Relays!OnlyListed, Relays!Select,
       Relays!Close,
       Relays!Readable, Relays!request, Relays!ends, Relays!sockets
  <2> QED BY <2>1, <2>2, <2>3, <2>4, <2>5, <2>6 DEF RelayIInv
<1>2. CASE Relays!Ended
  <2>1. RelayShapes' /\ RelayHandInv' /\ RelaySetUpInv'
    BY <1>2 DEF RelayIInv, RelayShapes, RelayHandInv, RelaySetUpInv, Relays!Ended,
       Relays!Close,
       Relays!request, Relays!ends, Relays!sockets, Relays!loop
  <2>2. RelayReadyInv'
    BY <1>2 DEF RelayIInv, RelayShapes, RelayHandInv, RelayReadyInv, Relays!Ended,
       Relays!Close,
       Relays!request, Relays!ends, Relays!sockets, Relays!loop
  <2>3. RelayEofInv'
    BY <1>2, RelayOtherEnd DEF RelayIInv, RelayShapes, RelayEofInv, Relays!Ended,
       Relays!Close,
       Relays!request, Relays!ends, Relays!sockets, Relays!loop
  <2>4. RelayEndedInv'
    BY <1>2, RelayOtherEnd DEF RelayIInv, RelayShapes, RelaySetUpInv, RelayEndedInv,
       Relays!Ended, Relays!Close,
       Relays!request, Relays!ends,
       Relays!sockets, Relays!loop
  <2>5. Relays!NeverMore'
    BY <1>2, RelayOtherEnd DEF RelayIInv, RelayShapes, RelayHandInv, Relays!NeverMore,
       Relays!Ended,
       Relays!Close, Relays!request, Relays!ends,
       Relays!sockets, Relays!loop
  <2>6. Relays!OnlyListed'
    BY <1>2 DEF RelayIInv, RelaySetUpInv, Relays!OnlyListed, Relays!Ended, Relays!Close,
       Relays!request, Relays!ends, Relays!sockets, Relays!loop
  <2> QED BY <2>1, <2>2, <2>3, <2>4, <2>5, <2>6 DEF RelayIInv
<1>3. CASE Relays!Send
  <2>1. RelayShapes' /\ RelayHandInv' /\ RelaySetUpInv'
    BY <1>3 DEF RelayIInv, RelayShapes, RelayHandInv, RelaySetUpInv, Relays!Send,
       Relays!request,
       Relays!ends
  <2>2. RelayReadyInv'
    BY <1>3 DEF RelayIInv, RelayShapes, RelayHandInv, RelayReadyInv, Relays!Send,
       Relays!request,
       Relays!ends
  <2>3. RelayEofInv'
    BY <1>3, RelayOtherEnd DEF RelayIInv, RelayShapes, RelayEofInv, Relays!Send,
       Relays!request, Relays!ends
  <2>4. RelayEndedInv'
    BY <1>3, RelayOtherEnd DEF RelayIInv, RelayShapes, RelaySetUpInv, RelayEndedInv,
       Relays!Send,
       Relays!request, Relays!ends
  <2>5. Relays!NeverMore'
    BY SMTT(30), <1>3, RelayOtherEnd DEF RelayIInv, RelayShapes, RelayHandInv,
       Relays!NeverMore,
       Relays!Ends, Relays!Other, Relays!Send,
       Relays!request, Relays!ends
  <2>6. Relays!OnlyListed'
    BY <1>3 DEF RelayIInv, RelaySetUpInv, Relays!OnlyListed, Relays!Send,
       Relays!request,
       Relays!ends
  <2> QED BY <2>1, <2>2, <2>3, <2>4, <2>5, <2>6 DEF RelayIInv
<1>4. CASE Relays!Broken
  <2>1. RelayShapes' /\ RelayHandInv' /\ RelaySetUpInv'
    BY <1>4 DEF RelayIInv, RelayShapes, RelayHandInv, RelaySetUpInv, Relays!Broken,
       Relays!Close,
       Relays!request, Relays!ends, Relays!sockets, Relays!loop
  <2>2. RelayReadyInv'
    BY <1>4 DEF RelayIInv, RelayShapes, RelayHandInv, RelayReadyInv, Relays!Broken,
       Relays!Close,
       Relays!request, Relays!ends, Relays!sockets, Relays!loop
  <2>3. RelayEofInv'
    BY <1>4, RelayOtherEnd DEF RelayIInv, RelayShapes, RelayEofInv, Relays!Broken,
       Relays!Close,
       Relays!request, Relays!ends, Relays!sockets, Relays!loop
  <2>4. RelayEndedInv'
    BY <1>4, RelayOtherEnd DEF RelayIInv, RelayShapes, RelaySetUpInv, RelayEndedInv,
       Relays!Broken,
       Relays!Close, Relays!request, Relays!ends,
       Relays!sockets, Relays!loop
  <2>5. Relays!NeverMore'
    BY <1>4, RelayOtherEnd DEF RelayIInv, RelayShapes, RelayHandInv, Relays!NeverMore,
       Relays!Broken,
       Relays!Close, Relays!request, Relays!ends,
       Relays!sockets, Relays!loop
  <2>6. Relays!OnlyListed'
    BY <1>4 DEF RelayIInv, RelaySetUpInv, Relays!OnlyListed, Relays!Broken,
       Relays!Close,
       Relays!request, Relays!ends, Relays!sockets, Relays!loop
  <2> QED BY <2>1, <2>2, <2>3, <2>4, <2>5, <2>6 DEF RelayIInv
<1> QED BY <1>1, <1>2, <1>3, <1>4

\* Bytes and an end of stream read from one end.
LEMMA RelayTransferKeeps ==
  ASSUME Relays!RelayAssumption, RelayIInv, NEW e \in Relays!Ends,
         Relays!Receive(e) \/ Relays!EndOfStream(e)
  PROVE  RelayIInv'
<1> USE DEF Relays!RelayAssumption
<1>1. CASE Relays!Receive(e)
  <2>1. RelayShapes' /\ RelayHandInv' /\ RelaySetUpInv'
    BY <1>1 DEF RelayIInv, RelayShapes, RelayHandInv, RelaySetUpInv, Relays!Receive,
       Relays!request,
       Relays!ends
  <2>2. RelayReadyInv'
    BY <1>1 DEF RelayIInv, RelayShapes, RelayHandInv, RelayReadyInv, Relays!Receive,
       Relays!request,
       Relays!ends
  <2>3. RelayEofInv'
    BY <1>1, RelayOtherEnd DEF RelayIInv, RelayShapes, RelayEofInv, Relays!Receive,
       Relays!request,
       Relays!ends
  <2>4. RelayEndedInv'
    BY <1>1, RelayOtherEnd DEF RelayIInv, RelayShapes, RelaySetUpInv, RelayEndedInv,
       Relays!Receive,
       Relays!request, Relays!ends
  <2>5. Relays!NeverMore'
    BY <1>1, RelayOtherEnd DEF RelayIInv, RelayShapes, RelayHandInv, Relays!NeverMore,
       Relays!Receive,
       Relays!request, Relays!ends
  <2>6. Relays!OnlyListed'
    BY <1>1 DEF RelayIInv, RelaySetUpInv, Relays!OnlyListed, Relays!Receive,
       Relays!request,
       Relays!ends
  <2> QED BY <2>1, <2>2, <2>3, <2>4, <2>5, <2>6 DEF RelayIInv
<1>2. CASE Relays!EndOfStream(e)
  <2>1. RelayShapes' /\ RelayHandInv' /\ RelaySetUpInv'
    BY <1>2 DEF RelayIInv, RelayShapes, RelayHandInv, RelaySetUpInv,
       Relays!EndOfStream, Relays!HalfClosed,
       Relays!Close, Relays!request,
       Relays!ends
  <2>2. RelayReadyInv'
    BY <1>2 DEF RelayIInv, RelayShapes, RelayHandInv, RelayReadyInv,
       Relays!EndOfStream, Relays!HalfClosed,
       Relays!Close, Relays!request,
       Relays!ends
  <2>3. RelayEofInv'
    <3>1. shut[e] /\ inbox[e] = 0
      BY <1>2 DEF RelayIInv, RelayShapes, RelayHandInv, RelayReadyInv,
         Relays!EndOfStream
    <3> QED
      BY <1>2, <3>1, RelayOtherEnd DEF RelayIInv, RelayShapes, RelayEofInv,
         Relays!EndOfStream,
         Relays!HalfClosed, Relays!Close, Relays!ends
  <2>4. RelayEndedInv'
    BY <1>2, RelayOtherEnd DEF RelayIInv, RelayShapes, RelayEndedInv,
       Relays!EndOfStream,
       Relays!HalfClosed, Relays!Close
  <2>5. Relays!NeverMore'
    BY <1>2, RelayOtherEnd DEF RelayIInv, RelayShapes, RelayHandInv, Relays!NeverMore,
       Relays!EndOfStream,
       Relays!HalfClosed,
       Relays!Close, Relays!request, Relays!ends
  <2>6. Relays!OnlyListed'
    BY <1>2 DEF RelayIInv, RelaySetUpInv, Relays!OnlyListed, Relays!EndOfStream,
       Relays!HalfClosed, Relays!Close, Relays!request, Relays!ends
  <2> QED BY <2>1, <2>2, <2>3, <2>4, <2>5, <2>6 DEF RelayIInv
<1> QED BY <1>1, <1>2

LEMMA RelayStepIInv ==
  ASSUME Relays!RelayAssumption
  PROVE  RelayIInv /\ [Relays!Next]_(Relays!vars) => RelayIInv'
<1> SUFFICES ASSUME RelayIInv, [Relays!Next]_(Relays!vars) PROVE RelayIInv'
  OBVIOUS
<1>1. CASE UNCHANGED Relays!vars
  BY <1>1 DEF Relays!vars, Relays!request, Relays!ends, Relays!sockets, Relays!loop,
     RelayIInv, RelayShapes, RelayHandInv, RelaySetUpInv,
     RelayReadyInv, RelayEofInv,
     RelayEndedInv, Relays!NeverMore, Relays!OnlyListed
<1>2. CASE Relays!Next
  BY <1>2, RelaySetUpKeeps, RelayEndsKeep, RelayPumpKeeps,
     RelayTransferKeeps DEF Relays!Next, Relays!Pump
<1> QED BY <1>1, <1>2

-----------------------------------------------------------------------------
\* The reachable states of a relayed connection (daemons/relay.py,
\* ingress_proxy.py, egress_proxy.py).
THEOREM RelayInvariant ==
  ASSUME Relays!RelayAssumption
  PROVE  Relays!Spec => []RelayIInv
BY RelayInitIInv, RelayStepIInv, PTL DEF Relays!Spec

\* An end that sees an end of stream has seen every byte before it, unless the
\* relay was cut; no byte is made up; and only listed names at addresses that
\* may be dialled are connected to (daemons/relay.py:22-63,
\* daemons/egress_proxy.py:156-201).
THEOREM RelayKeepsItsPromises ==
  ASSUME Relays!RelayAssumption
  PROVE  Relays!Spec => []Relays!RelayHolds
BY RelayInvariant, InvGivesRelayHolds, PTL

-----------------------------------------------------------------------------
\* Where `part` is this component's, its steps are the only ones; elsewhere its
\* variables stand still.
LEMMA RelayIsAPart == Spec => Relays!Spec
<1>1. Init => Relays!Init
  BY DEF Init
<1>2. [Next]_vars => [Relays!Next]_(Relays!vars)
  BY DEF Next, vars, relayVars, Relays!vars, Relays!request, Relays!ends,
     Relays!sockets, Relays!loop
<1> QED BY <1>1, <1>2, PTL DEF Spec, Relays!Spec

\* The relay's promises, as SideBySide states them (daemons/relay.py).
THEOREM RelaysAlwaysHold == Spec => []RelayHolds
<1>0. Relays!RelayAssumption
  BY PartsAssumption
<1>1. Relays!Spec => []Relays!RelayHolds
  BY <1>0, RelayKeepsItsPromises
<1>2. Relays!RelayHolds => RelayHolds
  BY DEF RelayHolds
<1> QED BY <1>1, <1>2, RelayIsAPart, PTL
-----------------------------------------------------------------------------
(* The shapes of these parts' variables.                                     *)
(* Each part's invariant has most of its TypeOK; what it lacks is inductive  *)
(* beside it.                                                                *)

\* A pair on disk or in a hand was minted.
ClientMinted ==
  /\ wrong \subseteq Client!Faults /\ cert \in 0..minted /\ key \in 0..minted
  /\ \A t \in Workers : thread[t].pair <= minted

LEMMA ClientMintedKept ==
  ASSUME ClientIInv, ClientMinted, [Client!Next]_(Client!vars)
  PROVE  ClientMinted'
<1>0. minted \in Nat /\ thread \in [Workers -> ClientCallsMade]
      /\ (\A t \in Workers : thread[t].pair \in Nat)
  BY DEF ClientIInv, ClientShapes, ClientCallsMade
<1>1. CASE Client!Boot \/ Client!Redeploy \/ Client!CoSignerRestarts \/ Client!Tick
  BY <1>1 DEF Client!Boot, Client!Redeploy, Client!CoSignerRestarts, Client!Tick, ClientMinted
<1>2. CASE Client!Die
  BY <1>0, <1>2 DEF Client!Die, ClientMinted, Client!NoCall
<1>3. ASSUME NEW t \in Workers, Client!Identify(t)
      PROVE  ClientMinted'
  <2>1. UNCHANGED <<wrong, cert, key>>
    BY <1>3 DEF Client!Identify, Client!processVars
  <2>2. /\ minted' \in {minted, minted + 1}
        /\ \A u \in Workers : thread'[u].pair \in {thread[u].pair, 0, minted'}
    <3>1. CASE Client!GoesTo(t, "send") /\ UNCHANGED minted
      BY <1>0, <3>1 DEF Client!GoesTo, ClientCallsMade
    <3>2. CASE Client!Becomes(t, Client!NoCall) /\ UNCHANGED minted
      BY <1>0, <3>2 DEF Client!Becomes, Client!NoCall
    <3>3. CASE minted' = minted + 1 /\ Client!Becomes(t, [thread[t] EXCEPT !.step = "cert", !.pair = minted + 1])
      <4> DEFINE call == [thread[t] EXCEPT !.step = "cert", !.pair = minted + 1]
      <4>1. call.pair = minted + 1
        BY <1>0 DEF ClientCallsMade
      <4> HIDE DEF call
      <4>2. thread' = [thread EXCEPT ![t] = call]
        BY <3>3 DEF Client!Becomes, call
      <4> QED BY <1>0, <3>3, <4>1, <4>2
    <3> QED BY <1>3, <3>1, <3>2, <3>3 DEF Client!Identify
  <2> QED BY <1>0, <2>1, <2>2 DEF ClientMinted
<1>4. ASSUME NEW t \in Workers, Client!WriteCert(t) \/ Client!WriteKey(t)
      PROVE  ClientMinted'
  <2>1. UNCHANGED <<wrong, minted>> /\ \A u \in Workers : thread'[u].pair = thread[u].pair
    BY <1>0, <1>4 DEF Client!WriteCert, Client!WriteKey, Client!processVars, Client!GoesTo, ClientCallsMade
  <2>2. cert' \in {cert, thread[t].pair} /\ key' \in {key, thread[t].pair}
    BY <1>4 DEF Client!WriteCert, Client!WriteKey
  <2> QED BY <1>0, <2>1, <2>2 DEF ClientMinted
<1>5. ASSUME NEW t \in Workers, UNCHANGED <<wrong, cert, key, minted>>,
             \A u \in Workers : thread'[u].pair \in {thread[u].pair, 0}
      PROVE  ClientMinted'
  BY <1>0, <1>5 DEF ClientMinted
<1>6. ASSUME NEW t \in Workers, Client!Step(t), ~Client!Identify(t), ~Client!WriteCert(t), ~Client!WriteKey(t)
      PROVE  /\ UNCHANGED <<wrong, cert, key, minted>>
             /\ \A u \in Workers : thread'[u].pair \in {thread[u].pair, 0}
  <2>1. UNCHANGED <<wrong, cert, key, minted>>
    BY <1>6 DEF Client!Step, Client!Call, Client!Unreachable, Client!Malformed, Client!Health,
       Client!Served, Client!ReadMark, Client!WriteMark, Client!Tell, Client!processVars
  <2>2. \/ \E c \in ClientCallsMade : Client!Becomes(t, c) /\ c.pair \in {thread[t].pair, 0}
        \/ \E s : Client!GoesTo(t, s)
    <3>1. CASE Client!Call(t)
      <4> DEFINE call == [Client!NoCall EXCEPT !.step = "identify",
                                               !.asks = IF checked THEN "custody" ELSE "health"]
      <4>1. call \in ClientCallsMade /\ call.pair = 0
        BY DEF Client!NoCall, ClientCallsMade, ClientSteps, ClientAsks
      <4>2. Client!Becomes(t, call)
        BY <3>1 DEF Client!Call
      <4> QED BY <4>1, <4>2
    <3>2. CASE Client!Malformed(t) \/ Client!Served(t) \/ Client!Tell(t)
      BY <3>2 DEF Client!Malformed, Client!Served, Client!Tell, Client!NoCall, ClientCallsMade,
         ClientSteps, ClientAsks
    <3>3. CASE Client!Health(t)
      <4> DEFINE call == [thread[t] EXCEPT !.step = "identify", !.asks = "custody"]
      <4>1. call \in ClientCallsMade /\ call.pair = thread[t].pair
        BY <1>0 DEF ClientCallsMade, ClientSteps, ClientAsks
      <4>2. Client!Becomes(t, call) \/ Client!GoesTo(t, "alert")
        BY <3>3 DEF Client!Health
      <4> QED BY <4>1, <4>2
    <3>4. CASE Client!ReadMark(t)
      <4> DEFINE call == [thread[t] EXCEPT !.step = "mark", !.since = clientNow]
      <4>1. call \in ClientCallsMade /\ call.pair = thread[t].pair
        BY <1>0 DEF ClientCallsMade, ClientSteps, ClientIInv, ClientShapes
      <4>2. Client!NoCall \in ClientCallsMade /\ Client!NoCall.pair = 0
        BY DEF Client!NoCall, ClientCallsMade, ClientSteps, ClientAsks
      <4>3. Client!Becomes(t, call) \/ Client!Becomes(t, Client!NoCall)
        BY <3>4 DEF Client!ReadMark
      <4> QED BY <4>1, <4>2, <4>3
    <3>5. CASE Client!Unreachable(t) \/ Client!WriteMark(t)
      BY <3>5 DEF Client!Unreachable, Client!WriteMark
    <3> QED BY <1>6, <3>1, <3>2, <3>3, <3>4, <3>5 DEF Client!Step
  <2>3. \A u \in Workers : thread'[u].pair \in {thread[u].pair, 0}
    BY <1>0, <2>2 DEF Client!Becomes, Client!GoesTo, ClientCallsMade
  <2> QED BY <2>1, <2>3
<1>7. CASE UNCHANGED Client!vars
  BY <1>7 DEF Client!vars, ClientMinted
<1> QED BY <1>1, <1>2, <1>3, <1>4, <1>5, <1>6, <1>7 DEF Client!Next

LEMMA ClientTyped == ClientIInv /\ ClientMinted => Client!TypeOK
BY DEF ClientIInv, ClientShapes, ClientMarkInv, ClientMinted, ClientCallsMade, ClientAsks, Client!TypeOK

\* Verdicts are kept no earlier than they were made, and given no later than now.
VerdictTimes ==
  /\ quoteNow <= LastTimes.verdicts /\ healthy \in BOOLEAN /\ reachable \in BOOLEAN
  /\ \A s \in DOMAIN verdictsKept :
       verdictsKept[s].verdict.checked <= verdictsKept[s].put /\ verdictsKept[s].put <= quoteNow
  /\ \A t \in Quotes!Answered : answer[t].checked <= answer[t].given /\ answer[t].given <= quoteNow

LEMMA VerdictTimesKept ==
  ASSUME VerdictIInv, VerdictTimes, LastTimes.verdicts \in Nat, [Quotes!Next]_(Quotes!vars)
  PROVE  VerdictTimes'
<1>0. /\ quoteNow \in Nat
      /\ answer \in [Loops -> VerdictAnswers \cup {None}]
      /\ \A s \in DOMAIN verdictsKept : verdictsKept[s] \in VerdictEntries
  BY DEF VerdictIInv, VerdictShapes
<1>1. ASSUME NEW t \in Loops, NEW m \in Machines, Quotes!Unverified(t, m)
      PROVE  VerdictTimes'
  <2>1. UNCHANGED <<quoteNow, healthy, reachable, verdictsKept>>
    BY <1>1 DEF Quotes!Unverified, Quotes!world
  <2>2. /\ answer'[t].checked = quoteNow /\ answer'[t].given = quoteNow
        /\ \A u \in Loops \ {t} : answer'[u] = answer[u]
    BY <1>0, <1>1 DEF Quotes!Unverified, Quotes!Given, Quotes!Verdict
  <2> QED BY <1>0, <2>1, <2>2 DEF VerdictTimes, Quotes!Answered
<1>2. ASSUME NEW t \in Loops, NEW m \in Machines, Quotes!Fetch(t, m)
      PROVE  VerdictTimes'
  <2>1. UNCHANGED <<quoteNow, healthy, reachable, verdictsKept>>
    BY <1>2 DEF Quotes!Fetch, Quotes!world
  <2>2. answer' = [answer EXCEPT ![t] = None]
    BY <1>2 DEF Quotes!Fetch
  <2> QED BY <1>0, <2>1, <2>2 DEF VerdictTimes, Quotes!Answered
<1>3. ASSUME NEW t \in Loops, Quotes!Look(t)
      PROVE  VerdictTimes'
  <2>1. UNCHANGED <<quoteNow, healthy, reachable, verdictsKept>>
    BY <1>3 DEF Quotes!Look, Quotes!world
  <2> DEFINE kept == Quotes!Cached(report[t])
  <2>2. CASE kept = None
    BY <1>0, <1>3, <2>1, <2>2 DEF Quotes!Look, VerdictTimes, Quotes!Answered
  <2>3. CASE kept # None
    <3>1. kept.checked <= quoteNow
      BY <1>0, <2>3 DEF Quotes!Cached, VerdictTimes, VerdictEntries
    <3>2. answer' = [answer EXCEPT ![t] = Quotes!Given(report[t], kept)]
      BY <1>3, <2>3 DEF Quotes!Look
    <3>3. /\ answer'[t].checked = kept.checked /\ answer'[t].given = quoteNow
          /\ \A u \in Loops \ {t} : answer'[u] = answer[u]
      BY <1>0, <3>2 DEF Quotes!Given
    <3> QED BY <1>0, <2>1, <3>1, <3>3 DEF VerdictTimes, Quotes!Answered
  <2> QED BY <2>2, <2>3
<1>4. ASSUME NEW t \in Loops, Quotes!Check(t)
      PROVE  VerdictTimes'
  <2>1. UNCHANGED <<quoteNow, healthy, reachable, verdictsKept>>
    BY <1>4 DEF Quotes!Check, Quotes!world
  <2>2. /\ answer'[t].checked = quoteNow /\ answer'[t].given = quoteNow
        /\ \A u \in Loops \ {t} : answer'[u] = answer[u]
    BY <1>0, <1>4 DEF Quotes!Check, Quotes!Given, Quotes!Verdict
  <2> QED BY <1>0, <2>1, <2>2 DEF VerdictTimes, Quotes!Answered
<1>5. ASSUME NEW t \in Loops, Quotes!Put(t)
      PROVE  VerdictTimes'
  <2>1. UNCHANGED <<quoteNow, healthy, reachable>> /\ quoteAt[t] = "caching"
    BY <1>5 DEF Quotes!Put, Quotes!world
  <2>2. answer[t] \in VerdictAnswers /\ answer[t].checked <= quoteNow
    BY <2>1 DEF VerdictIInv, VerdictShapes, VerdictCallInv
  <2>3. /\ answer'[t].checked = answer[t].checked /\ answer'[t].given = quoteNow
        /\ \A u \in Loops \ {t} : answer'[u] = answer[u]
    BY <1>0, <1>5, <2>2 DEF Quotes!Put, VerdictAnswers
  <2>4. \A s \in DOMAIN verdictsKept' :
          \/ s \in DOMAIN verdictsKept /\ verdictsKept'[s] = verdictsKept[s]
          \/ verdictsKept'[s].verdict.checked = answer[t].checked /\ verdictsKept'[s].put = quoteNow
    BY <1>5 DEF Quotes!Put
  <2> QED BY <1>0, <2>1, <2>2, <2>3, <2>4 DEF VerdictTimes, Quotes!Answered
<1>6. ASSUME UNCHANGED <<quoteNow, verdictsKept, answer>>, healthy' \in BOOLEAN, reachable' \in BOOLEAN
      PROVE  VerdictTimes'
  BY <1>6 DEF VerdictTimes, Quotes!Answered
<1>7. ASSUME NEW m \in Machines, NEW verb \in {"compose_up", "compose_down"}, NEW f \in Files,
             Quotes!Compose(m, verb, f)
      PROVE  VerdictTimes'
  BY <1>6, <1>7 DEF Quotes!Compose, VerdictTimes
<1>8. CASE Quotes!TcbMoves \/ Quotes!Outage \/ UNCHANGED Quotes!vars
  BY <1>6, <1>8 DEF Quotes!TcbMoves, Quotes!Outage, Quotes!vars, Quotes!world, VerdictTimes
<1>9. CASE Quotes!Tick
  <2>1. quoteNow < LastTimes.verdicts /\ quoteNow' = quoteNow + 1 /\ UNCHANGED <<healthy, reachable, answer>>
    BY <1>9 DEF Quotes!Tick, Quotes!world
  <2>2. \A s \in DOMAIN verdictsKept' : s \in DOMAIN verdictsKept /\ verdictsKept'[s] = verdictsKept[s]
    BY <1>9 DEF Quotes!Tick
  <2>3. \A t \in Quotes!Answered : answer[t].given \in Nat
    BY <1>0 DEF Quotes!Answered, VerdictAnswers
  <2> QED BY <1>0, <2>1, <2>2, <2>3 DEF VerdictTimes, Quotes!Answered, VerdictEntries
<1> QED BY <1>1, <1>2, <1>3, <1>4, <1>5, <1>7, <1>8, <1>9 DEF Quotes!Next, Quotes!Verify

LEMMA VerdictTyped == LastTimes.verdicts \in Nat /\ VerdictIInv /\ VerdictTimes => Quotes!TypeOK
<1> SUFFICES ASSUME LastTimes.verdicts \in Nat, VerdictIInv, VerdictTimes PROVE Quotes!TypeOK
  OBVIOUS
<1>1. quoteNow \in 0..LastTimes.verdicts /\ healthy \in BOOLEAN /\ reachable \in BOOLEAN
  BY DEF VerdictIInv, VerdictShapes, VerdictTimes
<1>2. \A m \in Machines : log[m] \in Seq({"compose_up", "compose_down"} \X Files)
  BY DEF VerdictIInv, VerdictShapes, VerdictLogs
<1>3. \A s \in DOMAIN verdictsKept :
        verdictsKept[s].put \in 0..quoteNow /\ verdictsKept[s].verdict.checked \in 0..verdictsKept[s].put
  BY DEF VerdictIInv, VerdictShapes, VerdictTimes, VerdictEntries
<1>4. \A t \in Quotes!Answered : answer[t].ok \in BOOLEAN /\ answer[t].checked \in 0..answer[t].given
  BY DEF VerdictIInv, VerdictShapes, VerdictTimes, VerdictAnswers, Quotes!Answered
<1> QED BY <1>1, <1>2, <1>3, <1>4 DEF VerdictIInv, VerdictShapes, Quotes!TypeOK

LEMMA CertsTyped ==
  ASSUME Certs!SigningCertsAssumption
  PROVE  CertsIInv => Certs!TypeOK
<1> SUFFICES ASSUME CertsIInv PROVE Certs!TypeOK
  OBVIOUS
<1>1. published \subseteq 1..signing /\ certsCached.keys \subseteq 1..signing
  BY DEF CertsIInv, CertsShapes
<1>2. \A t \in Workers : push[t].code \in {0, 204, 401, 503}
  BY DEF CertsIInv, CertsShapes, CertsPushes, CertsCodes
<1>3. certsLock # None <=> \E t \in Workers : push[t].step \in {"must", "may"}
  BY DEF CertsIInv, CertsLockInv, Certs!SigningCertsAssumption
<1> QED BY <1>1, <1>2, <1>3 DEF Certs!TypeOK

\* A socket's buffer is never overrun.
RelayBuffers ==
  \A e \in Relays!Ends : written[e] <= MaxPieces /\ inbox[e] <= BUF /\ outbox[e] <= BUF

LEMMA RelayBuffersKept ==
  ASSUME Relays!RelayAssumption, RelayIInv, RelayBuffers, [Relays!Next]_(Relays!vars)
  PROVE  RelayBuffers'
<1>0. /\ BUF \in Nat /\ MaxPieces \in Nat
      /\ written \in [Relays!Ends -> Nat] /\ inbox \in [Relays!Ends -> Nat]
      /\ outbox \in [Relays!Ends -> Nat]
  BY DEF Relays!RelayAssumption, RelayIInv, RelayShapes
<1>1. ASSUME UNCHANGED <<written, outbox>>,
             \A e \in Relays!Ends : inbox'[e] \in {inbox[e], 0}
      PROVE  RelayBuffers'
  BY <1>0, <1>1 DEF RelayBuffers
<1>2. CASE Relays!Ingress \/ Relays!Request \/ Relays!Dial \/ UNCHANGED Relays!vars
  BY <1>1, <1>2 DEF Relays!Ingress, Relays!Request, Relays!Dial, Relays!vars, Relays!ends,
     Relays!sockets
<1>3. ASSUME NEW e \in Relays!Ends, Relays!Write(e)
      PROVE  RelayBuffers'
  BY <1>0, <1>3 DEF Relays!Write, RelayBuffers
<1>4. ASSUME NEW e \in Relays!Ends, Relays!Read(e)
      PROVE  RelayBuffers'
  BY <1>0, <1>4 DEF Relays!Read, RelayBuffers
<1>5. ASSUME NEW e \in Relays!Ends,
             Relays!ShutDown(e) \/ Relays!Vanish(e) \/ Relays!EndOfStream(e)
      PROVE  RelayBuffers'
  BY <1>1, <1>5 DEF Relays!ShutDown, Relays!Vanish, Relays!EndOfStream, Relays!ends, Relays!sockets
<1>6. ASSUME NEW e \in Relays!Ends, Relays!Receive(e)
      PROVE  RelayBuffers'
  BY <1>0, <1>1, <1>6 DEF Relays!Receive, Relays!ends
<1>7. CASE Relays!Select \/ Relays!Ended \/ Relays!Broken
  BY <1>1, <1>7 DEF Relays!Select, Relays!Ended, Relays!Broken, Relays!ends, Relays!sockets
<1>8. CASE Relays!Send
  <2>1. UNCHANGED <<written, inbox>>
    BY <1>8 DEF Relays!Send, Relays!ends
  <2>2. \A e \in Relays!Ends : outbox'[e] = outbox[e] \/ (outbox[e] < BUF /\ outbox'[e] = outbox[e] + 1)
    BY <1>0, <1>8 DEF Relays!Send
  <2> QED BY <1>0, <2>1, <2>2 DEF RelayBuffers
<1> QED BY <1>2, <1>3, <1>4, <1>5, <1>6, <1>7, <1>8 DEF Relays!Next, Relays!Pump

LEMMA RelayTyped ==
  ASSUME Relays!RelayAssumption
  PROVE  RelayIInv /\ RelayBuffers => Relays!TypeOK
<1> SUFFICES ASSUME RelayIInv, RelayBuffers PROVE Relays!TypeOK
  OBVIOUS
<1>1. /\ written \in [Relays!Ends -> Nat] /\ read \in [Relays!Ends -> Nat]
      /\ inbox \in [Relays!Ends -> Nat] /\ outbox \in [Relays!Ends -> Nat]
      /\ inHand \in [from : Relays!Ends, left : Nat] \cup {None}
      /\ BUF \in Nat /\ MaxPieces \in Nat
  BY DEF Relays!RelayAssumption, RelayIInv, RelayShapes
<1>2. ASSUME NEW e \in Relays!Ends PROVE read[e] <= MaxPieces
  <2> DEFINE inTransit == IF inHand # None /\ inHand.from = Relays!Other(e) THEN inHand.left ELSE 0
  <2>1. read[e] + outbox[e] + inbox[Relays!Other(e)] + inTransit = written[Relays!Other(e)]
    BY DEF RelayIInv, Relays!NeverMore
  <2>2. inTransit \in Nat /\ Relays!Other(e) \in Relays!Ends
    BY <1>1, RelayOtherEnd
  <2>3. written[Relays!Other(e)] <= MaxPieces
    BY <2>2 DEF RelayBuffers
  <2> HIDE DEF inTransit
  <2> QED BY <1>1, <2>1, <2>2, <2>3
<1>3. /\ written \in [Relays!Ends -> 0..MaxPieces] /\ read \in [Relays!Ends -> 0..MaxPieces]
      /\ inbox \in [Relays!Ends -> 0..BUF] /\ outbox \in [Relays!Ends -> 0..BUF]
  BY <1>1, <1>2 DEF RelayBuffers
<1>4. dialled \in DialAddresses \cup {None}
  BY DEF Relays!RelayAssumption, RelayIInv, Relays!OnlyListed
<1> QED BY <1>3, <1>4 DEF RelayIInv, RelayShapes, RelayHandInv, Relays!TypeOK

-----------------------------------------------------------------------------
\* Whatever happens in these parts, their variables keep their shape: the process
\* runs the key version that is deployed or the one before, a certificate on disk
\* was minted, a verdict is given no earlier than it was made, a fetch is the
\* lock holder's, and no buffer of a relayed connection is overrun.
THEOREM TrustKeepsItsTypes ==
  Spec => [](part \in {"keys", "client", "verdicts", "certs", "relay"} => TypesOK)
<1>0. /\ Client!CoSignerClientAssumption /\ Quotes!AttestationAssumption
      /\ Certs!SigningCertsAssumption /\ Relays!RelayAssumption
  BY PartsAssumption
<1>1. Spec => []KeysIInv
  <2>1. KeysIInv /\ [Keys!Next]_(Keys!vars) => KeysIInv'
    BY KeysStepIInv
  <2> QED BY KeysInitIInv, <2>1, KeysIsAPart, PTL DEF Keys!Spec
<1>2. Spec => [](ClientIInv /\ ClientMinted)
  <2>1. Client!Init => ClientIInv /\ ClientMinted
    <3> SUFFICES ASSUME Client!Init PROVE ClientIInv /\ ClientMinted
      OBVIOUS
    <3>1. minted = 0 /\ cert = 0 /\ key = 0 /\ thread = [t \in Workers |-> Client!NoCall]
          /\ wrong \in {{}} \cup {{f} : f \in Client!Faults}
      BY DEF Client!Init
    <3>2. \A t \in Workers : thread[t].pair = 0
      BY <3>1 DEF Client!NoCall
    <3> QED BY <1>0, <3>1, <3>2, ClientInitIInv DEF ClientMinted
  <2>2. ClientIInv /\ ClientMinted /\ [Client!Next]_(Client!vars) => (ClientIInv /\ ClientMinted)'
    BY <1>0, ClientStepIInv, ClientMintedKept
  <2> QED BY <2>1, <2>2, ClientIsAPart, PTL DEF Client!Spec
<1>3. Spec => [](VerdictIInv /\ VerdictTimes)
  <2>1. Quotes!Init => VerdictIInv /\ VerdictTimes
    BY <1>0, BoundsAreNumbers, VerdictInitIInv DEF Quotes!Init, VerdictTimes, Quotes!Answered
  <2>2. VerdictIInv /\ VerdictTimes /\ [Quotes!Next]_(Quotes!vars) => (VerdictIInv /\ VerdictTimes)'
    BY <1>0, BoundsAreNumbers, VerdictStepIInv, VerdictTimesKept
  <2> QED BY <2>1, <2>2, VerdictIsAPart, PTL DEF Quotes!Spec
<1>4. Spec => []CertsIInv
  <2>1. Certs!Init => CertsIInv
    BY <1>0, CertsInitIInv
  <2>2. CertsIInv /\ [Certs!Next]_(Certs!vars) => CertsIInv'
    BY <1>0, CertsStepIInv
  <2> QED BY <2>1, <2>2, CertsIsAPart, PTL DEF Certs!Spec
<1>5. Spec => [](RelayIInv /\ RelayBuffers)
  <2>1. Relays!Init => RelayIInv /\ RelayBuffers
    BY <1>0, RelayInitIInv DEF Relays!Init, RelayBuffers, Relays!All, Relays!RelayAssumption
  <2>2. RelayIInv /\ RelayBuffers /\ [Relays!Next]_(Relays!vars) => (RelayIInv /\ RelayBuffers)'
    BY <1>0, RelayStepIInv, RelayBuffersKept
  <2> QED BY <2>1, <2>2, RelayIsAPart, PTL DEF Relays!Spec
<1>6. KeysIInv /\ ClientIInv /\ ClientMinted /\ VerdictIInv /\ VerdictTimes /\ CertsIInv /\ RelayIInv
        /\ RelayBuffers => (part \in {"keys", "client", "verdicts", "certs", "relay"} => TypesOK)
  BY <1>0, BoundsAreNumbers, ClientTyped, VerdictTyped, CertsTyped, RelayTyped DEF KeysIInv, TypesOK
<1> QED BY <1>1, <1>2, <1>3, <1>4, <1>5, <1>6, PTL
=============================================================================
