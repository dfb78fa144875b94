--------------------------- MODULE BackendProofs ----------------------------
(***************************************************************************)
(* What the mail process's parts promise, for every value of their         *)
(* constants: the account manifest, the access tokens, the choice of a     *)
(* model provider, the voice jobs and the drafting pass.                   *)
(*                                                                         *)
(* Each has its inductive invariant, the steps that keep it, and last the  *)
(* property of SideBySide that follows.                                    *)
(***************************************************************************)
EXTENDS SideBySide, Integers, Sequences, FiniteSetTheorems, SequenceTheorems, WellFoundedInduction, TLAPS

-----------------------------------------------------------------------------
\* A set of numbers has a least one, and a bounded one a greatest.
LEMMA Least ==
  ASSUME NEW T, T \subseteq Nat, T # {}
  PROVE  \E x \in T : \A y \in T : x <= y
<1>1. \E x \in T : \A y \in T : ~(<<y, x>> \in OpToRel(<, Nat))
  BY NatLessThanWellFounded, WFMin
<1>2. PICK x \in T : \A y \in T : ~(<<y, x>> \in OpToRel(<, Nat))
  BY <1>1
<1>3. \A y \in T : ~(y < x)
  BY <1>2 DEF OpToRel
<1> QED BY <1>3

LEMMA Greatest ==
  ASSUME NEW n \in Nat, NEW T, T \subseteq 0..n, T # {}
  PROVE  \E x \in T : \A y \in T : y <= x
<1> DEFINE U == {n - k : k \in T}
<1>0. \A k \in T : n - k \in Nat
  OBVIOUS
<1>1. U \subseteq Nat /\ U # {}
  BY <1>0
<1>2. PICK u \in U : \A v \in U : u <= v
  BY <1>1, Least
<1>3. n - u \in T /\ \A y \in T : n - y \in U
  BY <1>2
<1>4. \A y \in T : u <= n - y
  BY <1>2, <1>3
<1>5. \A y \in T : y <= n - u
  BY <1>1, <1>2, <1>4
<1> QED BY <1>3, <1>5

-----------------------------------------------------------------------------
(* Manifest (accounts/account.py).                                           *)
(* The lock on the file is what the argument rests on: from the read to the  *)
(* rename its holder's copy is one operation away from the file as it is     *)
(* (ManifestCopyInv). That no two accounts come to share a handle needs      *)
(* more: a handle is looked up or drawn before the lock is taken, and must   *)
(* then be nobody else's at any later time (ManifestHandleInv).              *)

\* The threads that have a handle in hand and have not used it.
ManifestWaiting(t)  == storeAt[t] \in {"called", "entered", "locked", "read"}
ManifestChanging(t) == storeAt[t] \in {"edited", "written"}

\* Another account of the store under the same handle or the same customer.
ManifestClash(store, a, b) ==
  /\ a # b /\ store[a] # None /\ store[b] # None
  /\ \/ store[a].handle = store[b].handle
     \/ store[a].polar_customer_id # None
        /\ store[a].polar_customer_id = store[b].polar_customer_id
ManifestNoClash(store) == \A a, b \in Addresses : ~ManifestClash(store, a, b)

\* What one operation, that was not refused, made of a store.
ManifestMade(old, new, handles) ==
  \E o \in Manifests!Operations :
    /\ o.kind = "register" => o.handle = handles[o.who]
    /\ ~Manifests!Refused(old, o) /\ new = Manifests!Edited(old, o)

ManifestLockInv ==
  \A t \in StoreThreads :
    (fileLock = t) <=> storeAt[t] \in {"locked", "read", "edited", "written", "saved"}

ManifestCopyInv ==
  \A t \in StoreThreads :
    /\ storeAt[t] = "read" => data[t] = manifest
    /\ ManifestChanging(t) => ManifestMade(manifest, data[t], looked[t])
    /\ storeAt[t] = "written" => tmp = data[t]

\* A handle in a thread's hand is held by nobody else, and nobody else has it in
\* hand for another account.
ManifestHandleInv ==
  /\ \A a \in Addresses : manifest[a] # None => manifest[a].handle <= calls
  /\ \A t \in StoreThreads : ManifestWaiting(t) \/ ManifestChanging(t) =>
       \A a \in Addresses :
         /\ looked[t][a] <= calls
         /\ \A b \in Addresses \ {a} : manifest[b] # None => manifest[b].handle # looked[t][a]
  /\ \A t, u \in StoreThreads :
       t # u /\ (ManifestWaiting(t) \/ ManifestChanging(t)) /\ (ManifestWaiting(u) \/ ManifestChanging(u)) =>
         \A a, b \in Addresses : a # b => looked[t][a] # looked[u][b]

ManifestShapes ==
  /\ manifest \in Manifests!Store /\ calls \in Nat
  /\ storeAt \in [StoreThreads -> Manifests!Places]
  /\ data \in [StoreThreads -> Manifests!Store \union {None}]
  /\ DOMAIN looked = StoreThreads
  /\ \A t \in StoreThreads : ManifestWaiting(t) \/ ManifestChanging(t) => looked[t] \in [Addresses -> Nat]

ManifestIInv ==
  ManifestShapes /\ ManifestLockInv /\ ManifestCopyInv /\ ManifestHandleInv /\ ManifestNoClash(manifest)

-----------------------------------------------------------------------------
\* A store of whole entries is made a store of whole entries.
LEMMA ManifestEditedIsStore ==
  ASSUME Manifests!ManifestAssumption, NEW store \in Manifests!Store, NEW o \in Manifests!Operations,
         ~Manifests!Refused(store, o)
  PROVE  Manifests!Edited(store, o) \in Manifests!Store
<1>1. CASE o.kind = "register"
  <2>1. o.who \in Addresses /\ o.handle \in Nat
            /\ Manifests!Edited(store, o) = Manifests!Register(store, o.who, o.handle)
    BY <1>1 DEF Manifests!Operations, Manifests!ValuesOf, Manifests!Edited,
       Manifests!ManifestAssumption
  <2>2. Manifests!Fresh(o.handle) \in Manifests!Entry
    BY <2>1 DEF Manifests!Fresh, Manifests!Entry, Manifests!ValuesOf
  <2>3. ASSUME store[o.who] # None
        PROVE  [store[o.who] EXCEPT !.token_file = TRUE] \in Manifests!Entry
    BY <2>1, <2>3 DEF Manifests!Store, Manifests!Entry
  <2>4. CASE store[o.who] = None
    BY <2>1, <2>2, <2>4 DEF Manifests!Register, Manifests!Store
  <2>5. CASE store[o.who] # None
    BY <2>1, <2>3, <2>5 DEF Manifests!Register, Manifests!Store
  <2> QED BY <2>4, <2>5
<1>2. CASE o.kind = "delete"
  <2>1. o.who \in Addresses /\ Manifests!Edited(store, o) = Manifests!Delete(store, o.who)
    BY <1>2 DEF Manifests!Operations, Manifests!ValuesOf, Manifests!Edited
  <2> QED BY <2>1 DEF Manifests!Delete, Manifests!Store
<1>3. CASE o.kind = "plan_status"
  <2>1. o.who \in Addresses /\ o.value \in Manifests!ValuesOf.plan_status /\ store[o.who] # None
        /\ Manifests!Edited(store, o) = Manifests!SetPlanStatus(store, o.who, o.value)
    BY <1>3 DEF Manifests!Operations, Manifests!ValuesOf, Manifests!Edited,
       Manifests!Refused
  <2> QED BY <2>1 DEF Manifests!SetPlanStatus, Manifests!Store, Manifests!Entry
<1>4. CASE o.kind = "telegram"
  <2>1. o.who \in Addresses /\ o.value \in Manifests!ValuesOf.telegram /\ store[o.who] # None
        /\ Manifests!Edited(store, o) = Manifests!SetTelegram(store, o.who, o.value)
    BY <1>4 DEF Manifests!Operations, Manifests!ValuesOf, Manifests!Edited,
       Manifests!Refused
  <2> QED BY <2>1 DEF Manifests!SetTelegram, Manifests!Store, Manifests!Entry,
             Manifests!ValuesOf
<1>5. CASE o.kind = "voice_file"
  <2>1. o.who \in Addresses /\ o.value \in Manifests!ValuesOf.voice_file /\ store[o.who] # None
        /\ Manifests!Edited(store, o) = Manifests!SetVoice(store, o.who, o.value)
    BY <1>5 DEF Manifests!Operations, Manifests!ValuesOf, Manifests!Edited,
       Manifests!Refused
  <2> QED BY <2>1 DEF Manifests!SetVoice, Manifests!Store, Manifests!Entry,
             Manifests!ValuesOf
<1>6. CASE o.kind = "settings"
  <2>1. o.who \in Addresses /\ o.value \in Manifests!ValuesOf.settings /\ store[o.who] # None
        /\ Manifests!Edited(store, o) = Manifests!SetSettings(store, o.who, o.value)
    BY <1>6 DEF Manifests!Operations, Manifests!ValuesOf, Manifests!Edited,
       Manifests!Refused
  <2> QED BY <2>1 DEF Manifests!SetSettings, Manifests!Store, Manifests!Entry,
             Manifests!ValuesOf
<1>7. CASE o.kind = "polar_customer_id"
  <2>1. o.who \in Addresses /\ o.value \in Manifests!ValuesOf.polar_customer_id /\ store[o.who] # None
        /\ Manifests!Edited(store, o) = Manifests!SetCustomer(store, o.who, o.value)
    BY <1>7 DEF Manifests!Operations, Manifests!ValuesOf, Manifests!Edited,
       Manifests!Refused
  <2> QED BY <2>1 DEF Manifests!SetCustomer, Manifests!Store, Manifests!Entry,
             Manifests!ValuesOf
<1> QED BY <1>1, <1>2, <1>3, <1>4, <1>5, <1>6, <1>7 DEF Manifests!Operations,
           Manifests!ValuesOf

\* What an operation is, once it is known which.
LEMMA ManifestFieldOperation ==
  ASSUME NEW store, NEW o \in Manifests!Operations, o.kind \in DOMAIN Manifests!ValuesOf,
         ~Manifests!Refused(store, o)
  PROVE  /\ o.who \in Addresses /\ o.value \in Manifests!ValuesOf[o.kind] /\ store[o.who] # None
         /\ Manifests!Edited(store, o) = [store EXCEPT ![o.who][o.kind] = o.value]
         /\ o.kind = "polar_customer_id" =>
              \A b \in Manifests!Registered(store) \ {o.who} : store[b].polar_customer_id # o.value
<1>1. /\ o.who \in Addresses /\ o.value \in Manifests!ValuesOf[o.kind] /\ store[o.who] # None
  BY DEF Manifests!Operations, Manifests!ValuesOf, Manifests!Refused
<1>2. o.kind = "polar_customer_id" =>
        \A b \in Manifests!Registered(store) \ {o.who} : store[b].polar_customer_id # o.value
  BY DEF Manifests!Refused
<1>3. o.kind = "plan_status" => Manifests!Edited(store, o) = [store EXCEPT ![o.who][o.kind] = o.value]
  BY DEF Manifests!Edited, Manifests!SetPlanStatus
<1>4. o.kind = "telegram" => Manifests!Edited(store, o) = [store EXCEPT ![o.who][o.kind] = o.value]
  BY DEF Manifests!Edited, Manifests!SetTelegram
<1>5. o.kind = "voice_file" => Manifests!Edited(store, o) = [store EXCEPT ![o.who][o.kind] = o.value]
  BY DEF Manifests!Edited, Manifests!SetVoice
<1>6. o.kind = "settings" => Manifests!Edited(store, o) = [store EXCEPT ![o.who][o.kind] = o.value]
  BY DEF Manifests!Edited, Manifests!SetSettings
<1>7. o.kind = "polar_customer_id" => Manifests!Edited(store, o) = [store EXCEPT ![o.who][o.kind] = o.value]
  BY DEF Manifests!Edited, Manifests!SetCustomer
<1> QED BY <1>1, <1>2, <1>3, <1>4, <1>5, <1>6, <1>7 DEF Manifests!ValuesOf

\* The address an operation is for is the only one whose entry it touches.
LEMMA ManifestEditedApart ==
  ASSUME Manifests!ManifestAssumption, NEW store \in Manifests!Store, ManifestNoClash(store),
         NEW o \in Manifests!Operations,
         ~Manifests!Refused(store, o),
         o.kind = "register" =>
           \A b \in Addresses \ {o.who} : store[b] # None => store[b].handle # o.handle
  PROVE  ManifestNoClash(Manifests!Edited(store, o))
<1>1. CASE o.kind \in DOMAIN Manifests!ValuesOf
  <2> DEFINE new == [store EXCEPT ![o.who][o.kind] = o.value]
  <2>1. /\ o.who \in Addresses /\ store[o.who] # None /\ Manifests!Edited(store, o) = new
        /\ o.kind = "polar_customer_id" =>
              \A b \in Manifests!Registered(store) \ {o.who} : store[b].polar_customer_id # o.value
    BY <1>1, ManifestFieldOperation
  <2>2. \A a \in Addresses \ {o.who} : new[a] = store[a]
    BY DEF Manifests!Store
  <2>3. new[o.who].handle = store[o.who].handle
    BY <1>1, <2>1 DEF Manifests!Store, Manifests!Entry, Manifests!ValuesOf
  <2>4. new[o.who].polar_customer_id =
          IF o.kind = "polar_customer_id" THEN o.value ELSE store[o.who].polar_customer_id
    BY <1>1, <2>1 DEF Manifests!Store, Manifests!Entry, Manifests!ValuesOf
  <2>5. \A b \in Addresses \ {o.who} : ~ManifestClash(new, o.who, b) /\ ~ManifestClash(new, b, o.who)
    BY <2>1, <2>2, <2>3, <2>4 DEF ManifestNoClash, ManifestClash, Manifests!Registered,
       Manifests!Store
  <2> QED BY <2>1, <2>2, <2>5 DEF ManifestNoClash, ManifestClash
<1>2. CASE o.kind = "delete"
  <2>1. o.who \in Addresses /\ Manifests!Edited(store, o) = [store EXCEPT ![o.who] = None]
    BY <1>2 DEF Manifests!Operations, Manifests!ValuesOf, Manifests!Edited,
       Manifests!Delete
  <2> QED BY <2>1 DEF ManifestNoClash, ManifestClash, Manifests!Store
<1>3. CASE o.kind = "register"
  <2>1. o.who \in Addresses /\ Manifests!Edited(store, o) = Manifests!Register(store, o.who, o.handle)
    BY <1>3 DEF Manifests!Operations, Manifests!ValuesOf, Manifests!Edited
  <2>2. CASE store[o.who] = None
    <3>1. Manifests!Edited(store, o) = [store EXCEPT ![o.who] = Manifests!Fresh(o.handle)]
      BY <2>1, <2>2 DEF Manifests!Register, Manifests!Store
    <3>2. Manifests!Fresh(o.handle).handle = o.handle /\ Manifests!Fresh(o.handle).polar_customer_id = None
      BY DEF Manifests!Fresh
    <3> QED BY <1>3, <2>1, <3>1, <3>2 DEF ManifestNoClash, ManifestClash,
               Manifests!Store
  <2>3. CASE store[o.who] # None
    <3>1. Manifests!Edited(store, o) = [store EXCEPT ![o.who].token_file = TRUE]
      BY <2>1, <2>3 DEF Manifests!Register, Manifests!Store
    <3> QED BY <2>1, <2>3, <3>1 DEF ManifestNoClash, ManifestClash, Manifests!Store,
               Manifests!Entry
  <2> QED BY <2>2, <2>3
<1> QED BY <1>1, <1>2, <1>3 DEF Manifests!Operations, Manifests!ValuesOf

\* The manifest, the atomic store and the library count alike.
LEMMA ManifestSameCount ==
  \A S : /\ Manifests!AccountsStore!Cardinality(S) = Cardinality(S)
         /\ Manifests!Cardinality(S) = Cardinality(S)
BY DEF Manifests!AccountsStore!Cardinality, Manifests!Cardinality, Cardinality

LEMMA ManifestSameFinite == \A S : Manifests!IsFiniteSet(S) = IsFiniteSet(S)
BY DEF Manifests!IsFiniteSet, IsFiniteSet

\* Every operation is one step of the atomic store, or none.
LEMMA ManifestEditedIsAStep ==
  ASSUME Manifests!ManifestAssumption, manifest \in Manifests!Store, NEW o \in Manifests!Operations,
         ~Manifests!Refused(manifest, o),
         manifest' = Manifests!Edited(manifest, o),
         o.kind = "register" =>
           \A b \in Addresses \ {o.who} : manifest[b] # None => manifest[b].handle # o.handle
  PROVE  [Manifests!AccountsStore!Next]_manifest
<1>0. DOMAIN manifest = Addresses
  BY DEF Manifests!Store
<1>1. CASE o.kind \in DOMAIN Manifests!ValuesOf
  <2>1. /\ o.who \in Addresses /\ o.value \in Manifests!ValuesOf[o.kind] /\ manifest[o.who] # None
        /\ manifest' = [manifest EXCEPT ![o.who][o.kind] = o.value]
        /\ o.kind = "polar_customer_id" =>
              \A b \in Manifests!Registered(manifest) \ {o.who} : manifest[b].polar_customer_id # o.value
    BY <1>1, ManifestFieldOperation
  <2>2. Manifests!AccountsStore!SetField
    BY <1>0, <1>1, <2>1
       DEF Manifests!AccountsStore!SetField, Manifests!AccountsStore!Registered,
       Manifests!AccountsStore!ValuesOf, Manifests!Registered,
           Manifests!ValuesOf
  <2> QED BY <2>2 DEF Manifests!AccountsStore!Next
<1>2. CASE o.kind = "delete"
  <2>1. o.who \in Addresses /\ manifest' = [manifest EXCEPT ![o.who] = None]
    BY <1>2 DEF Manifests!Operations, Manifests!ValuesOf, Manifests!Edited,
       Manifests!Delete
  <2>2. manifest[o.who] = None => manifest' = manifest
    BY <2>1 DEF Manifests!Store
  <2>3. manifest[o.who] # None => Manifests!AccountsStore!Remove
    BY <1>0, <2>1 DEF Manifests!AccountsStore!Remove, Manifests!AccountsStore!Registered
  <2> QED BY <2>2, <2>3 DEF Manifests!AccountsStore!Next
<1>3. CASE o.kind = "register"
  <2>1. /\ o.who \in Addresses /\ o.handle \in Nat
        /\ manifest' = Manifests!Register(manifest, o.who, o.handle)
    BY <1>3 DEF Manifests!Operations, Manifests!ValuesOf, Manifests!Edited,
       Manifests!ManifestAssumption
  <2>2. CASE manifest[o.who] = None
    <3>1. manifest' = [manifest EXCEPT ![o.who] = Manifests!AccountsStore!Fresh(o.handle)]
      BY <2>1, <2>2 DEF Manifests!Register, Manifests!Store, Manifests!Fresh,
         Manifests!AccountsStore!Fresh
    <3>2. Cardinality(Manifests!Registered(manifest)) < MaxAccounts
      <4>1. Cardinality(Manifests!Registered(manifest)) \in Nat
        <5>1. IsFiniteSet(Manifests!Registered(manifest))
          BY <1>0, FS_Subset, ManifestSameFinite DEF Manifests!Registered,
             Manifests!ManifestAssumption
        <5> QED BY <5>1, FS_CardinalityType
      <4> QED BY <1>3, <2>2, <4>1, ManifestSameCount DEF Manifests!Refused,
                 Manifests!ManifestAssumption
    <3>3. manifest'[o.who].handle = o.handle /\ manifest'[o.who] # None
      <4>1. Manifests!AccountsStore!Fresh(o.handle) \in Manifests!Entry
        BY <2>1 DEF Manifests!AccountsStore!Fresh, Manifests!Entry, Manifests!ValuesOf
      <4>2. manifest'[o.who] = Manifests!AccountsStore!Fresh(o.handle)
        BY <1>0, <2>1, <3>1
      <4>3. Manifests!AccountsStore!Fresh(o.handle).handle = o.handle
        BY DEF Manifests!AccountsStore!Fresh
      <4>4. Manifests!AccountsStore!Fresh(o.handle) # None
        BY <4>1 DEF Manifests!ManifestAssumption
      <4> QED BY <4>2, <4>3, <4>4
    <3>4. Manifests!AccountsStore!Create
      <4>1. Manifests!AccountsStore!Registered(manifest) = Manifests!Registered(manifest)
        BY DEF Manifests!AccountsStore!Registered, Manifests!Registered
      <4>2. o.who \in Addresses \ Manifests!Registered(manifest)
        BY <2>1, <2>2 DEF Manifests!Registered
      <4>3. \A b \in Manifests!Registered(manifest) : manifest[b].handle # manifest'[o.who].handle
        BY <1>0, <1>3, <3>3, <4>2 DEF Manifests!Registered
      <4>4. manifest' = [manifest EXCEPT ![o.who] = Manifests!AccountsStore!Fresh(manifest'[o.who].handle)]
        BY <3>1, <3>3
      <4> QED BY <3>2, <3>3, <4>1, <4>2, <4>3, <4>4,
                 ManifestSameCount DEF Manifests!AccountsStore!Create
    <3> QED BY <3>4 DEF Manifests!AccountsStore!Next
  <2>3. CASE manifest[o.who] # None
    <3>1. manifest' = [manifest EXCEPT ![o.who].token_file = TRUE]
      BY <2>1, <2>3 DEF Manifests!Register, Manifests!Store
    <3>2. Manifests!AccountsStore!Renew
      BY <1>0, <2>1, <2>3, <3>1 DEF Manifests!AccountsStore!Renew,
         Manifests!AccountsStore!Registered
    <3> QED BY <3>2 DEF Manifests!AccountsStore!Next
  <2> QED BY <2>2, <2>3
<1> QED BY <1>1, <1>2, <1>3 DEF Manifests!Operations, Manifests!ValuesOf

\* Where the handles of an edited store come from.
LEMMA ManifestHandleOf ==
  ASSUME Manifests!ManifestAssumption, NEW store \in Manifests!Store, NEW o \in Manifests!Operations,
         ~Manifests!Refused(store, o),
         NEW b \in Addresses, Manifests!Edited(store, o)[b] # None
  PROVE  \/ store[b] # None /\ Manifests!Edited(store, o)[b].handle = store[b].handle
         \/ o.kind = "register" /\ b = o.who /\ Manifests!Edited(store, o)[b].handle = o.handle
<1>1. CASE o.kind \in DOMAIN Manifests!ValuesOf
  <2>1. /\ o.who \in Addresses /\ store[o.who] # None
        /\ Manifests!Edited(store, o) = [store EXCEPT ![o.who][o.kind] = o.value]
    BY <1>1, ManifestFieldOperation
  <2> QED BY <1>1, <2>1 DEF Manifests!Store, Manifests!Entry, Manifests!ValuesOf
<1>2. CASE o.kind = "delete"
  <2>1. o.who \in Addresses /\ Manifests!Edited(store, o) = [store EXCEPT ![o.who] = None]
    BY <1>2 DEF Manifests!Operations, Manifests!ValuesOf, Manifests!Edited,
       Manifests!Delete
  <2> QED BY <2>1 DEF Manifests!Store
<1>3. CASE o.kind = "register"
  <2>1. o.who \in Addresses /\ Manifests!Edited(store, o) = Manifests!Register(store, o.who, o.handle)
    BY <1>3 DEF Manifests!Operations, Manifests!ValuesOf, Manifests!Edited
  <2>2. CASE store[o.who] = None
    <3>1. Manifests!Edited(store, o) = [store EXCEPT ![o.who] = Manifests!Fresh(o.handle)]
      BY <2>1, <2>2 DEF Manifests!Register, Manifests!Store
    <3>2. Manifests!Fresh(o.handle).handle = o.handle
      BY DEF Manifests!Fresh
    <3> QED BY <1>3, <2>1, <3>1, <3>2 DEF Manifests!Store
  <2>3. CASE store[o.who] # None
    <3>1. Manifests!Edited(store, o) = [store EXCEPT ![o.who].token_file = TRUE]
      BY <2>1, <2>3 DEF Manifests!Register, Manifests!Store
    <3> QED BY <2>1, <2>3, <3>1 DEF Manifests!Store, Manifests!Entry
  <2> QED BY <2>2, <2>3
<1> QED BY <1>1, <1>2, <1>3 DEF Manifests!Operations, Manifests!ValuesOf

-----------------------------------------------------------------------------
LEMMA ManifestInitIInv ==
  ASSUME Manifests!ManifestAssumption
  PROVE  Manifests!Init => ManifestIInv
<1> SUFFICES ASSUME Manifests!Init PROVE ManifestIInv
  OBVIOUS
<1>1. Manifests!Fresh(0) \in Manifests!Entry /\ Manifests!Fresh(0).handle = 0
  BY DEF Manifests!Fresh, Manifests!Entry, Manifests!ValuesOf
<1>2. ManifestShapes /\ ManifestLockInv /\ ManifestCopyInv
  BY <1>1 DEF Manifests!Init, ManifestShapes, ManifestLockInv, ManifestCopyInv,
     Manifests!Places,
     Manifests!Store, ManifestWaiting, ManifestChanging, Manifests!ManifestAssumption
<1>3. ManifestHandleInv
  BY <1>1 DEF Manifests!Init, ManifestHandleInv, ManifestWaiting, ManifestChanging
<1>4. ManifestNoClash(manifest)
  BY DEF Manifests!Init, ManifestNoClash, ManifestClash, Manifests!Registered
<1> QED BY <1>2, <1>3, <1>4 DEF ManifestIInv

\* Calls, locks and reads.
LEMMA ManifestCallKeeps ==
  ASSUME Manifests!ManifestAssumption, ManifestIInv, NEW t \in StoreThreads, Manifests!Call(t)
  PROVE  ManifestIInv'
<1>1. /\ storeAt' = [storeAt EXCEPT ![t] = "called"] /\ calls' = calls + 1 /\ storeAt[t] = "idle"
      /\ manifest' = manifest /\ tmp' = tmp /\ fileLock' = fileLock /\ data' = data
      /\ looked' = [looked EXCEPT ![t] = [a \in Addresses |-> Manifests!HandleFor(a)]]
  BY DEF Manifests!Call, Manifests!Goes, Manifests!locks
<1>2. calls \in Nat /\ \A a \in Addresses :
        manifest[a] # None => manifest[a].handle \in Nat /\ manifest[a].handle <= calls
  BY DEF ManifestIInv, ManifestShapes, ManifestHandleInv, Manifests!Store,
     Manifests!Entry
<1>3. \A a \in Addresses :
        /\ Manifests!HandleFor(a) \in Nat /\ Manifests!HandleFor(a) <= calls + 1
        /\ \/ Manifests!HandleFor(a) = calls + 1
           \/ manifest[a] # None /\ Manifests!HandleFor(a) = manifest[a].handle
  BY <1>2 DEF Manifests!HandleFor
<1>4. \A a, b \in Addresses :
        a # b /\ manifest[b] # None => manifest[b].handle # Manifests!HandleFor(a)
  BY <1>2, <1>3 DEF ManifestIInv, ManifestNoClash, ManifestClash, ManifestShapes
<1>5. ManifestShapes'
  <2>1. storeAt' \in [StoreThreads -> Manifests!Places] /\ calls' \in Nat /\ DOMAIN looked' = StoreThreads
    BY <1>1, <1>2 DEF ManifestIInv, ManifestShapes, Manifests!Places
  <2>2. looked'[t] \in [Addresses -> Nat]
    BY <1>1, <1>3 DEF ManifestIInv, ManifestShapes
  <2>3. \A u \in StoreThreads \ {t} : storeAt'[u] = storeAt[u] /\ looked'[u] = looked[u]
    BY <1>1 DEF ManifestIInv, ManifestShapes
  <2> QED BY <1>1, <2>1, <2>2, <2>3 DEF ManifestIInv, ManifestShapes, ManifestWaiting,
             ManifestChanging
<1>6. ManifestLockInv' /\ ManifestCopyInv'
  BY <1>1 DEF ManifestIInv, ManifestShapes, ManifestLockInv, ManifestCopyInv,
     ManifestChanging, ManifestMade
<1>7. ManifestHandleInv'
  <2>1. \A u \in StoreThreads \ {t} : ManifestWaiting(u)' = ManifestWaiting(u)
            /\ ManifestChanging(u)' = ManifestChanging(u)
                              /\ looked'[u] = looked[u]
    BY <1>1 DEF ManifestIInv, ManifestShapes, ManifestWaiting, ManifestChanging
  <2>2. \A a \in Addresses : looked'[t][a] = Manifests!HandleFor(a)
    BY <1>1 DEF ManifestIInv, ManifestShapes
  <2>3. \A u \in StoreThreads \ {t} : ManifestWaiting(u) \/ ManifestChanging(u) =>
          \A a, b \in Addresses : a # b => looked[u][a] # Manifests!HandleFor(b)
    BY <1>2, <1>3 DEF ManifestIInv, ManifestShapes, ManifestHandleInv
  <2>4. \A u \in StoreThreads : ManifestWaiting(u)' \/ ManifestChanging(u)' =>
          \A a \in Addresses :
            /\ looked'[u][a] <= calls'
            /\ \A b \in Addresses \ {a} : manifest[b] # None =>
                                          manifest[b].handle # looked'[u][a]
    <3>1. ASSUME NEW u \in StoreThreads \ {t}, ManifestWaiting(u) \/ ManifestChanging(u),
                 NEW a \in Addresses
          PROVE  looked[u][a] <= calls + 1
      BY <1>2, <3>1 DEF ManifestIInv, ManifestShapes, ManifestHandleInv
    <3> QED BY <1>1, <1>3, <1>4, <2>1, <2>2, <3>1 DEF ManifestIInv, ManifestHandleInv
  <2>5. \A u, v \in StoreThreads :
          u # v /\ (ManifestWaiting(u) \/ ManifestChanging(u))' /\ (ManifestWaiting(v)
              \/ ManifestChanging(v))' =>
            \A a, b \in Addresses : a # b => looked'[u][a] # looked'[v][b]
    <3> SUFFICES ASSUME NEW u \in StoreThreads, NEW v \in StoreThreads, u # v,
                        (ManifestWaiting(u) \/ ManifestChanging(u))',
                        (ManifestWaiting(v) \/ ManifestChanging(v))',
                        NEW a \in Addresses, NEW b \in Addresses, a # b
                 PROVE  looked'[u][a] # looked'[v][b]
      OBVIOUS
    <3>1. CASE u = t
      BY <2>1, <2>2, <2>3, <3>1
    <3>2. CASE v = t
      BY <2>1, <2>2, <2>3, <3>2
    <3>3. CASE u # t /\ v # t
      BY <2>1, <3>3 DEF ManifestIInv, ManifestHandleInv
    <3> QED BY <3>1, <3>2, <3>3
  <2>6. \A a \in Addresses : manifest[a] # None => manifest[a].handle <= calls'
    BY <1>1, <1>2
  <2> QED BY <1>1, <2>4, <2>5, <2>6 DEF ManifestHandleInv
<1>8. ManifestNoClash(manifest)'
  BY <1>1 DEF ManifestIInv
<1> QED BY <1>5, <1>6, <1>7, <1>8 DEF ManifestIInv

\* A step that leaves the file alone and gives nobody a handle.
LEMMA ManifestHandlesKept ==
  ASSUME ManifestHandleInv, UNCHANGED <<manifest, calls>>,
         \A u \in StoreThreads : (ManifestWaiting(u) \/ ManifestChanging(u))' =>
                            (ManifestWaiting(u) \/ ManifestChanging(u)) /\ looked'[u] = looked[u]
  PROVE  ManifestHandleInv'
BY DEF ManifestHandleInv

LEMMA ManifestEnterKeeps ==
  ASSUME Manifests!ManifestAssumption, ManifestIInv, NEW t \in StoreThreads,
         Manifests!Enter(t) \/ Manifests!Flock(t) \/ Manifests!Read(t)
  PROVE  ManifestIInv'
<1>1. CASE Manifests!Enter(t)
  <2>1. ManifestShapes' /\ ManifestLockInv' /\ ManifestCopyInv'
    BY <1>1 DEF Manifests!Enter, Manifests!Goes, ManifestIInv, ManifestShapes,
       ManifestLockInv, ManifestCopyInv,
       Manifests!Places, ManifestWaiting, ManifestChanging, ManifestMade
  <2>2. ManifestHandleInv' /\ ManifestNoClash(manifest)'
    BY <1>1, ManifestHandlesKept DEF Manifests!Enter, Manifests!Goes, ManifestIInv,
       ManifestShapes, ManifestWaiting,
       ManifestChanging
  <2> QED BY <2>1, <2>2 DEF ManifestIInv
<1>2. CASE Manifests!Flock(t)
  <2>1. ManifestShapes' /\ ManifestLockInv' /\ ManifestCopyInv'
    BY <1>2 DEF Manifests!Flock, Manifests!Goes, ManifestIInv, ManifestShapes,
       ManifestLockInv, ManifestCopyInv,
       Manifests!Places, ManifestWaiting, ManifestChanging, ManifestMade,
       Manifests!ManifestAssumption
  <2>2. ManifestHandleInv' /\ ManifestNoClash(manifest)'
    BY <1>2, ManifestHandlesKept DEF Manifests!Flock, Manifests!Goes, ManifestIInv,
       ManifestShapes, ManifestWaiting,
       ManifestChanging
  <2> QED BY <2>1, <2>2 DEF ManifestIInv
<1>3. CASE Manifests!Read(t)
  <2>1. ManifestShapes' /\ ManifestLockInv' /\ ManifestCopyInv'
    BY <1>3 DEF Manifests!Read, Manifests!Goes, Manifests!locks, ManifestIInv,
       ManifestShapes, ManifestLockInv,
       ManifestCopyInv, Manifests!Places, ManifestWaiting, ManifestChanging,
       ManifestMade
  <2>2. ManifestHandleInv' /\ ManifestNoClash(manifest)'
    BY <1>3, ManifestHandlesKept DEF Manifests!Read, Manifests!Goes, ManifestIInv,
       ManifestShapes, ManifestWaiting,
       ManifestChanging
  <2> QED BY <2>1, <2>2 DEF ManifestIInv
<1> QED BY <1>1, <1>2, <1>3

\* The holder of the lock makes one change of its copy, which is the file's.
LEMMA ManifestEditKeeps ==
  ASSUME Manifests!ManifestAssumption, ManifestIInv, NEW t \in StoreThreads, Manifests!Edit(t)
  PROVE  ManifestIInv'
<1>1. PICK o \in Manifests!Operations :
        /\ o.kind = "register" => o.handle = looked[t][o.who]
        /\ LET edited == IF Manifests!Refused(data[t], o) THEN data[t] ELSE Manifests!Edited(data[t], o)
           IN /\ data' = [data EXCEPT ![t] = edited]
              /\ Manifests!Goes(t, IF edited = data[t] THEN "saved" ELSE "edited")
  BY DEF Manifests!Edit
<1> DEFINE edited == IF Manifests!Refused(data[t], o) THEN data[t] ELSE Manifests!Edited(data[t], o)
           place  == IF edited = data[t] THEN "saved" ELSE "edited"
<1>2. /\ storeAt[t] = "read" /\ data[t] = manifest /\ manifest \in Manifests!Store
      /\ data' = [data EXCEPT ![t] = edited] /\ storeAt' = [storeAt EXCEPT ![t] = place]
      /\ UNCHANGED <<manifest, tmp, fileLock, looked, calls>>
  BY <1>1 DEF Manifests!Edit, Manifests!Goes, Manifests!locks, ManifestIInv,
     ManifestShapes, ManifestCopyInv
<1>3. edited \in Manifests!Store
  BY <1>2, ManifestEditedIsStore
<1>4. place = "edited" => ManifestMade(manifest, edited, looked[t])
  BY <1>1, <1>2 DEF ManifestMade
<1> HIDE DEF edited
<1>5. place \in {"saved", "edited"}
  OBVIOUS
<1> HIDE DEF place
<1>6. ManifestShapes' /\ ManifestLockInv'
  BY <1>2, <1>3, <1>5 DEF ManifestIInv, ManifestShapes, ManifestLockInv,
     Manifests!Places, ManifestWaiting, ManifestChanging
<1>7. ManifestCopyInv'
  BY <1>2, <1>4, <1>5 DEF ManifestIInv, ManifestShapes, ManifestCopyInv,
     ManifestChanging, ManifestMade
<1>8. ManifestHandleInv' /\ ManifestNoClash(manifest)'
  BY <1>2, <1>5, ManifestHandlesKept DEF ManifestIInv, ManifestShapes, ManifestWaiting,
     ManifestChanging
<1> QED BY <1>6, <1>7, <1>8 DEF ManifestIInv

LEMMA ManifestWriteTmpKeeps ==
  ASSUME Manifests!ManifestAssumption, ManifestIInv, NEW t \in StoreThreads, Manifests!WriteTmp(t)
  PROVE  ManifestIInv'
<1>1. ManifestShapes' /\ ManifestLockInv'
  BY DEF Manifests!WriteTmp, Manifests!Goes, Manifests!locks, ManifestIInv,
     ManifestShapes, ManifestLockInv,
     Manifests!Places, ManifestWaiting, ManifestChanging
<1>2. ManifestCopyInv'
  BY DEF Manifests!WriteTmp, Manifests!Goes, ManifestIInv, ManifestShapes,
     ManifestLockInv, ManifestCopyInv, ManifestChanging,
     ManifestMade
<1>3. ManifestHandleInv' /\ ManifestNoClash(manifest)'
  BY ManifestHandlesKept DEF Manifests!WriteTmp, Manifests!Goes, ManifestIInv,
     ManifestShapes, ManifestWaiting, ManifestChanging
<1> QED BY <1>1, <1>2, <1>3 DEF ManifestIInv

\* What the rename puts in place is one operation on the file as it is.
LEMMA ManifestReplaceMakes ==
  ASSUME Manifests!ManifestAssumption, ManifestIInv, NEW t \in StoreThreads, Manifests!Replace(t)
  PROVE  \E o \in Manifests!Operations :
           /\ ~Manifests!Refused(manifest, o) /\ manifest' = Manifests!Edited(manifest, o)
           /\ o.kind = "register" =>
                /\ o.who \in Addresses /\ o.handle = looked[t][o.who]
                /\ \A b \in Addresses \ {o.who} :
                     manifest[b] # None => manifest[b].handle # o.handle
<1>1. storeAt[t] = "written" /\ ManifestChanging(t) /\ manifest' = data[t]
          /\ ManifestMade(manifest, data[t], looked[t])
  BY DEF Manifests!Replace, ManifestIInv, ManifestCopyInv, ManifestChanging
<1>2. PICK o \in Manifests!Operations :
          /\ o.kind = "register" => o.handle = looked[t][o.who]
          /\ ~Manifests!Refused(manifest, o)
          /\ data[t] = Manifests!Edited(manifest, o)
  BY <1>1 DEF ManifestMade
<1>3. o.kind = "register" => o.who \in Addresses
  BY DEF Manifests!Operations, Manifests!ValuesOf
<1>4. o.kind = "register" =>
        \A b \in Addresses \ {o.who} : manifest[b] # None => manifest[b].handle # o.handle
  BY <1>1, <1>2, <1>3 DEF ManifestIInv, ManifestHandleInv
<1> QED BY <1>1, <1>2, <1>3, <1>4

LEMMA ManifestReplaceKeeps ==
  ASSUME Manifests!ManifestAssumption, ManifestIInv, NEW t \in StoreThreads, Manifests!Replace(t)
  PROVE  ManifestIInv'
<1>1. PICK o \in Manifests!Operations :
           /\ ~Manifests!Refused(manifest, o) /\ manifest' = Manifests!Edited(manifest, o)
           /\ o.kind = "register" =>
                /\ o.who \in Addresses /\ o.handle = looked[t][o.who]
                /\ \A b \in Addresses \ {o.who} :
                     manifest[b] # None => manifest[b].handle # o.handle
  BY ManifestReplaceMakes
<1>2. /\ storeAt[t] = "written" /\ storeAt' = [storeAt EXCEPT ![t] = "saved"]
      /\ UNCHANGED <<fileLock, looked, data, calls>>
  BY DEF Manifests!Replace, Manifests!Goes, Manifests!locks
<1>3. manifest \in Manifests!Store /\ manifest' \in Manifests!Store
  BY <1>1, ManifestEditedIsStore DEF ManifestIInv, ManifestShapes
<1>4. ManifestShapes' /\ ManifestLockInv'
  BY <1>2, <1>3 DEF ManifestIInv, ManifestShapes, ManifestLockInv, Manifests!Places,
     ManifestWaiting, ManifestChanging
<1>5. ManifestCopyInv'
  <2>1. \A u \in StoreThreads \ {t} : storeAt[u] # "read" /\ ~ManifestChanging(u)
    BY <1>2 DEF ManifestIInv, ManifestLockInv, ManifestChanging
  <2>2. \A u \in StoreThreads : storeAt'[u] # "read" /\ ~ManifestChanging(u)' /\ storeAt'[u] # "written"
    BY <1>2, <2>1 DEF ManifestIInv, ManifestShapes, ManifestChanging
  <2> QED BY <2>2 DEF ManifestCopyInv
<1>6. \A b \in Addresses : manifest'[b] # None =>
        \/ manifest[b] # None /\ manifest'[b].handle = manifest[b].handle
        \/ manifest'[b].handle = looked[t][b]
  BY <1>1, <1>3, ManifestHandleOf
<1>7. ManifestHandleInv'
  <2>1. ManifestChanging(t) /\ \A a \in Addresses : looked[t][a] <= calls
    BY <1>2 DEF ManifestIInv, ManifestHandleInv, ManifestChanging
  <2>2. \A a \in Addresses : manifest'[a] # None => manifest'[a].handle <= calls'
    BY <1>2, <1>6, <2>1 DEF ManifestIInv, ManifestHandleInv
  <2>3. \A u \in StoreThreads : (ManifestWaiting(u) \/ ManifestChanging(u))' =>
          u # t /\ (ManifestWaiting(u) \/ ManifestChanging(u)) /\ looked'[u] = looked[u]
    BY <1>2 DEF ManifestIInv, ManifestShapes, ManifestWaiting, ManifestChanging
  <2>4. ASSUME NEW u \in StoreThreads, (ManifestWaiting(u) \/ ManifestChanging(u))', NEW a \in Addresses
        PROVE  /\ looked'[u][a] <= calls'
               /\ \A b \in Addresses \ {a} :
                    manifest'[b] # None => manifest'[b].handle # looked'[u][a]
    <3>1. looked[u][a] <= calls
          /\ \A b \in Addresses \ {a} : manifest[b] # None => manifest[b].handle # looked[u][a]
      BY <2>3, <2>4 DEF ManifestIInv, ManifestHandleInv
    <3>2. \A b \in Addresses \ {a} : looked[t][b] # looked[u][a]
      BY <2>1, <2>3, <2>4 DEF ManifestIInv, ManifestHandleInv
    <3> QED BY <1>2, <1>6, <2>3, <2>4, <3>1, <3>2
  <2>5. \A u, v \in StoreThreads :
          u # v /\ (ManifestWaiting(u) \/ ManifestChanging(u))' /\ (ManifestWaiting(v)
              \/ ManifestChanging(v))' =>
            \A a, b \in Addresses : a # b => looked'[u][a] # looked'[v][b]
    BY <2>3 DEF ManifestIInv, ManifestHandleInv
  <2> QED BY <2>2, <2>4, <2>5 DEF ManifestHandleInv
<1>8. ManifestNoClash(manifest)'
  BY <1>1, <1>3, ManifestEditedApart DEF ManifestIInv
<1> QED BY <1>4, <1>5, <1>7, <1>8 DEF ManifestIInv

\* Leaving the transaction, by its `finally` or by death, needs no care: who is
\* idle holds nothing.
LEMMA ManifestReleaseKeeps ==
  ASSUME Manifests!ManifestAssumption, ManifestIInv, NEW t \in StoreThreads, Manifests!Release(t)
  PROVE  ManifestIInv'
<1>1. ManifestShapes'
  BY DEF Manifests!Release, Manifests!Goes, ManifestIInv, ManifestShapes,
     Manifests!Places, ManifestWaiting,
     ManifestChanging
<1>2. ManifestLockInv'
  BY DEF Manifests!Release, Manifests!Goes, ManifestIInv, ManifestShapes,
     ManifestLockInv,
     Manifests!ManifestAssumption
<1>3. ManifestCopyInv'
  BY DEF Manifests!Release, Manifests!Goes, ManifestIInv, ManifestShapes,
     ManifestCopyInv, ManifestChanging, ManifestMade
<1>4. ManifestHandleInv' /\ ManifestNoClash(manifest)'
  BY ManifestHandlesKept DEF Manifests!Release, Manifests!Goes, ManifestIInv,
     ManifestShapes, ManifestWaiting, ManifestChanging
<1> QED BY <1>1, <1>2, <1>3, <1>4 DEF ManifestIInv

LEMMA ManifestCrashKeeps ==
  ASSUME Manifests!ManifestAssumption, ManifestIInv, NEW p \in StoreProcesses, Manifests!Crash(p)
  PROVE  ManifestIInv'
<1> DEFINE dead == {t \in StoreThreads : StoreProcessOf[t] = p}
<1>1. /\ storeAt' = [t \in StoreThreads |-> IF t \in dead THEN "idle" ELSE storeAt[t]]
      /\ looked' = [t \in StoreThreads |-> IF t \in dead THEN None ELSE looked[t]]
      /\ data' = [t \in StoreThreads |-> IF t \in dead THEN None ELSE data[t]]
      /\ fileLock' = IF fileLock \in dead THEN None ELSE fileLock
      /\ UNCHANGED <<manifest, tmp, calls>>
  BY DEF Manifests!Crash
<1>2. dead \subseteq StoreThreads
  OBVIOUS
<1> HIDE DEF dead
<1>3. ManifestShapes'
  BY <1>1 DEF ManifestIInv, ManifestShapes, Manifests!Places, ManifestWaiting,
     ManifestChanging
<1>4. ManifestLockInv'
  BY <1>1, <1>2 DEF ManifestIInv, ManifestLockInv, Manifests!ManifestAssumption
<1>5. ManifestCopyInv'
  BY <1>1 DEF ManifestIInv, ManifestShapes, ManifestCopyInv, ManifestChanging,
     ManifestMade
<1>6. ManifestHandleInv' /\ ManifestNoClash(manifest)'
  BY <1>1, ManifestHandlesKept DEF ManifestIInv, ManifestWaiting, ManifestChanging
<1> QED BY <1>3, <1>4, <1>5, <1>6 DEF ManifestIInv

LEMMA ManifestStepIInv ==
  ASSUME Manifests!ManifestAssumption, ManifestIInv, [Manifests!Next]_(Manifests!vars)
  PROVE  ManifestIInv'
<1>1. CASE \E t \in StoreThreads : Manifests!Call(t) \/ Manifests!Step(t)
  BY <1>1, ManifestCallKeeps, ManifestEnterKeeps, ManifestEditKeeps,
     ManifestWriteTmpKeeps, ManifestReplaceKeeps,
     ManifestReleaseKeeps DEF Manifests!Step
<1>2. CASE \E p \in StoreProcesses : Manifests!Crash(p)
  BY <1>2, ManifestCrashKeeps
<1>3. CASE UNCHANGED Manifests!vars
  <2>1. UNCHANGED <<manifest, tmp, fileLock, storeAt, looked, data, calls>>
    BY <1>3 DEF Manifests!vars, Manifests!locks
  <2>2. ManifestShapes' /\ ManifestLockInv' /\ ManifestNoClash(manifest)'
    BY <2>1 DEF ManifestIInv, ManifestShapes, ManifestLockInv, ManifestWaiting,
       ManifestChanging
  <2>3. ManifestCopyInv'
    BY <2>1 DEF ManifestIInv, ManifestCopyInv, ManifestChanging
  <2>4. ManifestHandleInv'
    BY <2>1, ManifestHandlesKept DEF ManifestIInv, ManifestWaiting, ManifestChanging
  <2> QED BY <2>2, <2>3, <2>4 DEF ManifestIInv
<1> QED BY <1>1, <1>2, <1>3 DEF Manifests!Next

\* Only the rename changes the file.
LEMMA ManifestStepImplements ==
  ASSUME Manifests!ManifestAssumption, ManifestIInv, [Manifests!Next]_(Manifests!vars)
  PROVE  [Manifests!AccountsStore!Next]_manifest
<1>1. CASE \E t \in StoreThreads : Manifests!Replace(t)
  BY <1>1, ManifestReplaceMakes, ManifestEditedIsAStep DEF ManifestIInv, ManifestShapes
<1>2. CASE UNCHANGED manifest
  BY <1>2
<1>3. (\E t \in StoreThreads : Manifests!Replace(t)) \/ UNCHANGED manifest
  BY DEF Manifests!Next, Manifests!Step, Manifests!vars, Manifests!Call,
     Manifests!Enter, Manifests!Flock, Manifests!Read, Manifests!Edit,
     Manifests!WriteTmp, Manifests!Release, Manifests!Crash
<1> QED BY <1>1, <1>2, <1>3

\* A manifest no two of whose accounts clash can be loaded.
LEMMA ManifestNoClashLoads ==
  ASSUME manifest' \in Manifests!Store, ManifestNoClash(manifest)'
  PROVE  Manifests!Loadable'
BY DEF Manifests!Loadable, ManifestNoClash, ManifestClash, Manifests!Registered,
   Manifests!Store

LEMMA ManifestInitImplements ==
  ASSUME Manifests!ManifestAssumption
  PROVE  Manifests!Init => Manifests!AccountsStore!Init
<1> SUFFICES ASSUME Manifests!Init PROVE Manifests!AccountsStore!Init
  OBVIOUS
<1>1. Manifests!AccountsStore!Fresh(0) = Manifests!Fresh(0)
  BY DEF Manifests!AccountsStore!Fresh, Manifests!Fresh
<1> QED BY <1>1 DEF Manifests!Init, Manifests!AccountsStore!Init,
           Manifests!AccountsStore!Registered, Manifests!Registered

-----------------------------------------------------------------------------
\* From its read to its rename the lock's holder works on the file as it is, and
\* no handle in anybody's hand is, or will be, another account's (the
\* transaction of accounts/account.py, its two locks and the handle that
\* onboarding looks up before it takes them).
THEOREM TransactionInvariant ==
  ASSUME Manifests!ManifestAssumption
  PROVE  Manifests!Spec => []ManifestIInv
<1>1. Manifests!Init => ManifestIInv
  BY ManifestInitIInv
<1>2. ManifestIInv /\ [Manifests!Next]_(Manifests!vars) => ManifestIInv'
  BY ManifestStepIInv
<1> QED BY <1>1, <1>2, PTL DEF Manifests!Spec

\* The seven operations of accounts/account.py implement the atomic store: every
\* change of the file is one operation on the file as it was, whichever threads
\* and processes call and wherever they die, and all_accounts() can load what
\* it leaves.
THEOREM ManifestImplementsStore ==
  ASSUME Manifests!ManifestAssumption
  PROVE  Manifests!Spec => Manifests!ManifestHolds
<1>1. Manifests!Init => Manifests!AccountsStore!Init
  BY ManifestInitImplements
<1>2. ManifestIInv /\ [Manifests!Next]_(Manifests!vars) => [Manifests!ManifestStep]_(Manifests!vars)
  <2> SUFFICES ASSUME ManifestIInv, [Manifests!Next]_(Manifests!vars) PROVE Manifests!ManifestStep
    OBVIOUS
  <2>1. [Manifests!AccountsStore!Next]_manifest
    BY ManifestStepImplements
  <2>2. Manifests!Loadable'
    BY ManifestStepIInv, ManifestNoClashLoads DEF ManifestIInv, ManifestShapes
  <2> QED BY <2>1, <2>2 DEF Manifests!ManifestStep
<1>3. ASSUME Manifests!ManifestAssumption PROVE Manifests!Spec => []ManifestIInv
  BY TransactionInvariant
<1> QED BY <1>1, <1>2, <1>3, PTL DEF Manifests!Spec, Manifests!ManifestHolds

-----------------------------------------------------------------------------
\* Where `part` is this component's, its steps are the only ones; elsewhere its
\* variables stand still.
LEMMA ManifestIsAPart == Spec => Manifests!Spec
<1>1. Init => Manifests!Init
  BY DEF Init
<1>2. [Next]_vars => [Manifests!Next]_(Manifests!vars)
  BY DEF Next, vars, manifestVars, Manifests!vars, Manifests!locks
<1> QED BY <1>1, <1>2, PTL DEF Spec, Manifests!Spec

\* The manifest's refinement, as SideBySide states it (accounts/account.py).
THEOREM ManifestAlwaysHolds == Spec => ManifestHolds
<1>0. Manifests!ManifestAssumption
  BY PartsAssumption
<1>1. Manifests!Spec => Manifests!ManifestHolds
  BY <1>0, ManifestImplementsStore
<1>2. [Manifests!ManifestStep]_(Manifests!vars)
        => [part = "manifest" => Manifests!ManifestStep]_manifestVars
  BY DEF manifestVars, Manifests!vars, Manifests!locks
<1> QED BY <1>1, <1>2, ManifestIsAPart, PTL DEF ManifestHolds, Manifests!ManifestHolds

-----------------------------------------------------------------------------
(* AccessTokens (custody/tokens.py, gmail_gcal/google_client.py).            *)
(* Inside the lock a thread's hand is of the record it read, or the record   *)
(* has moved on and the cache is dropped after it (TokenHandInv,             *)
(* TokenGrantInv).                                                           *)

TokenToks == [grant : Nat, until : Int]
TokenHands == [asked : Nat, grant : Nat, token : TokenToks \cup {None}]
TokenClients == [handle : Nat, token : TokenToks \cup {None}, expiry : Int]
TokenPlaces == {"idle", "asking", "refreshing", "posting", "storing", "pairing"}
TokenInside == {"refreshing", "posting", "storing"}

TokenShapes ==
  /\ now \in Nat /\ handle \in Nat /\ grant \in Nat /\ used \in Nat
  /\ cache # None => cache \in [token : TokenToks, expiry : Int]
  /\ at \in [Workers -> TokenPlaces] /\ hand \in [Workers -> TokenHands]
  /\ services \in [Workers -> TokenClients \cup {None}]
  /\ op \in [step : {"none", "consented", "settled", "revoked", "dropped"},
             handle : Nat, grant : Nat]
  /\ \A t \in Workers : /\ at[t] # "idle" => services[t] \in TokenClients
                        /\ at[t] \in {"storing", "pairing"} => hand[t].token \in TokenToks

\* The lock is held by the one thread that refreshes, and the cache it found
\* spent when it came in is as it found it.
TokenLockInv ==
  \A t \in Workers : at[t] \in TokenInside =>
    /\ lock = t
    /\ cache # None => cache.expiry <= hand[t].asked

\* What a thread refreshes with, and what the cache holds, is the consent on
\* disk, but from the time a sign-in has settled to the time it drops the cache.
TokenGrantInv ==
  op.step # "settled" /\ handle # 0 =>
    /\ cache # None => cache.token.grant = grant
    /\ \A t \in Workers : at[t] \in {"posting", "storing"} => hand[t].grant = grant

\* A token waits at most Delay for the clock to be read.
TokenHandInv ==
  \A t \in Workers :
    /\ hand[t].asked <= now
    /\ at[t] = "storing" => /\ hand[t].token.grant = hand[t].grant
                            /\ now <= hand[t].token.until - Life + Delay

TokenIInv ==
  TokenShapes /\ TokenLockInv /\ TokenGrantInv /\ TokenHandInv /\ Tokens!TokenOutlivesItsExpiry

TokenKept == TokenIInv' /\ Tokens!OneRefreshPerToken

LEMMA TokenInitIInv ==
  ASSUME Tokens!AccessTokensAssumption
  PROVE  Tokens!Init => TokenIInv
<1> SUFFICES ASSUME Tokens!Init PROVE TokenIInv
  OBVIOUS
<1>1. Tokens!Empty \in TokenHands /\ Tokens!Empty.asked = 0
  BY DEF Tokens!Empty, TokenHands
<1>2. Tokens!NoOp \in [step : {"none", "consented", "settled", "revoked", "dropped"},
                       handle : Nat, grant : Nat]
  BY DEF Tokens!NoOp
<1>3. TokenShapes
  BY <1>1, <1>2 DEF Tokens!Init, TokenShapes, TokenPlaces
<1> QED BY <1>1, <1>3 DEF Tokens!Init, TokenIInv, TokenLockInv, TokenGrantInv,
           TokenHandInv, Tokens!TokenOutlivesItsExpiry, TokenInside

LEMMA TokenAskKeeps ==
  ASSUME Tokens!AccessTokensAssumption, TokenIInv, NEW t \in Workers, Tokens!Ask(t)
  PROVE  TokenKept
<1> DEFINE h == [Tokens!Empty EXCEPT !.asked = now]
           s == [handle |-> handle, token |-> None, expiry |-> 0]
<1>1. /\ hand' = [hand EXCEPT ![t] = h] /\ at' = [at EXCEPT ![t] = "asking"]
      /\ UNCHANGED <<now, Tokens!rows, live, cache, lock, op, torn>>
      /\ \/ services[t] = None /\ services' = [services EXCEPT ![t] = s]
         \/ services[t] # None /\ UNCHANGED services
  BY DEF Tokens!Ask, Tokens!Go
<1>2. h \in TokenHands /\ h.asked = now /\ now \in Nat
  BY DEF Tokens!Empty, TokenHands, TokenIInv, TokenShapes
<1>3. s \in TokenClients /\ s.token = None
  BY DEF TokenClients, TokenIInv, TokenShapes
<1> HIDE DEF h, s
<1>4. /\ at'[t] = "asking" /\ hand'[t] = h
      /\ \A u \in Workers : u # t => at'[u] = at[u] /\ hand'[u] = hand[u] /\ services'[u] = services[u]
      /\ services'[t] = services[t] \/ services'[t] = s
      /\ services'[t] \in TokenClients
  BY <1>1, <1>3 DEF TokenIInv, TokenShapes
<1>5. TokenShapes'
  BY <1>1, <1>2, <1>3, <1>4 DEF TokenIInv, TokenShapes, TokenPlaces, Tokens!rows
<1>6. TokenLockInv' /\ TokenGrantInv'
  BY <1>1, <1>4 DEF TokenIInv, TokenLockInv, TokenGrantInv, TokenInside, Tokens!rows
<1>7. TokenHandInv'
  BY <1>1, <1>2, <1>4 DEF TokenIInv, TokenHandInv
<1>8. Tokens!TokenOutlivesItsExpiry'
  BY <1>1, <1>3, <1>4 DEF TokenIInv, Tokens!TokenOutlivesItsExpiry
<1> QED BY <1>1, <1>5, <1>6, <1>7, <1>8 DEF TokenIInv, TokenKept,
           Tokens!OneRefreshPerToken

LEMMA TokenEnterKeeps ==
  ASSUME Tokens!AccessTokensAssumption, TokenIInv, NEW t \in Workers, Tokens!Enter(t)
  PROVE  TokenKept
<1>0. hand[t] \in TokenHands /\ at[t] = "asking" /\ lock = None
      /\ UNCHANGED <<now, Tokens!rows, live, cache, services, op, torn>>
  BY DEF Tokens!Enter, Tokens!FromCache, TokenIInv, TokenShapes
<1>0a. \A u \in Workers : at[u] \notin TokenInside
  BY <1>0 DEF TokenIInv, TokenLockInv, Tokens!AccessTokensAssumption
<1>1. CASE Tokens!CacheGood(t) /\ Tokens!FromCache(t)
  <2> DEFINE h == [hand[t] EXCEPT !.token = cache.token]
  <2>1. /\ hand' = [hand EXCEPT ![t] = h] /\ at' = [at EXCEPT ![t] = "pairing"] /\ cache # None
        /\ UNCHANGED lock
    BY <1>1 DEF Tokens!FromCache, Tokens!Go, Tokens!CacheGood
  <2>1a. cache.token \in TokenToks
    BY <2>1 DEF TokenIInv, TokenShapes
  <2>2. h \in TokenHands /\ h.asked = hand[t].asked /\ h.token = cache.token
    BY <1>0, <2>1a DEF TokenHands
  <2> HIDE DEF h
  <2>3. /\ at'[t] = "pairing" /\ hand'[t] = h
        /\ \A u \in Workers : u # t => at'[u] = at[u] /\ hand'[u] = hand[u]
    BY <2>1 DEF TokenIInv, TokenShapes
  <2>4. TokenShapes'
    BY <1>0, <2>1, <2>1a, <2>2, <2>3 DEF TokenIInv, TokenShapes, TokenPlaces,
       Tokens!rows
  <2>5. TokenLockInv' /\ TokenGrantInv' /\ TokenHandInv' /\ Tokens!TokenOutlivesItsExpiry'
    BY <1>0, <2>1, <2>2, <2>3 DEF TokenIInv, TokenLockInv, TokenGrantInv, TokenHandInv,
       Tokens!TokenOutlivesItsExpiry,
       TokenInside, Tokens!rows
  <2> QED BY <1>0, <2>4, <2>5 DEF TokenIInv, TokenKept, Tokens!OneRefreshPerToken
<1>2. CASE ~Tokens!CacheGood(t)
  <2>1. at' = [at EXCEPT ![t] = "refreshing"] /\ lock' = t /\ UNCHANGED hand
    BY <1>2 DEF Tokens!Enter, Tokens!Go
  <2>2. at'[t] = "refreshing" /\ \A u \in Workers : u # t => at'[u] = at[u]
    BY <2>1 DEF TokenIInv, TokenShapes
  <2>3. cache # None => cache.expiry <= hand[t].asked
    BY <1>0, <1>2 DEF Tokens!CacheGood, TokenIInv, TokenShapes, TokenHands
  <2>4. TokenShapes'
    BY <1>0, <2>1, <2>2 DEF TokenIInv, TokenShapes, TokenPlaces, Tokens!rows
  <2>5. TokenLockInv'
    BY <1>0, <1>0a, <2>1, <2>2, <2>3 DEF TokenIInv, TokenLockInv, TokenInside
  <2>6. TokenGrantInv' /\ TokenHandInv' /\ Tokens!TokenOutlivesItsExpiry'
    BY <1>0, <2>1, <2>2 DEF TokenIInv, TokenGrantInv, TokenHandInv,
       Tokens!TokenOutlivesItsExpiry, Tokens!rows
  <2> QED BY <1>0, <2>4, <2>5, <2>6 DEF TokenIInv, TokenKept, Tokens!OneRefreshPerToken
<1> QED BY <1>1, <1>2 DEF Tokens!Enter

\* A call that ends without a token: what raises leaves the lock.
LEMMA TokenRaiseKeeps ==
  ASSUME Tokens!AccessTokensAssumption, TokenIInv, NEW t \in Workers,
         Tokens!ReleaseFails(t) \/ Tokens!PostFails(t)
  PROVE  TokenKept
<1>1. /\ hand' = [hand EXCEPT ![t] = Tokens!Empty] /\ at' = [at EXCEPT ![t] = "idle"]
      /\ lock' = None /\ UNCHANGED <<now, Tokens!rows, live, cache, services, op, torn>>
      /\ at[t] \in TokenInside
  BY DEF Tokens!ReleaseFails, Tokens!PostFails, Tokens!Raise, Tokens!Go, TokenIInv,
     TokenLockInv, TokenInside
<1>2. Tokens!Empty \in TokenHands /\ Tokens!Empty.asked = 0 /\ now \in Nat
  BY DEF Tokens!Empty, TokenHands, TokenIInv, TokenShapes
<1>3. /\ at'[t] = "idle" /\ hand'[t] = Tokens!Empty
      /\ \A u \in Workers : u # t => at'[u] = at[u] /\ hand'[u] = hand[u]
      /\ \A u \in Workers : u # t => at[u] \notin TokenInside
  BY <1>1 DEF TokenIInv, TokenShapes, TokenLockInv
<1>4. TokenShapes'
  BY <1>1, <1>2, <1>3 DEF TokenIInv, TokenShapes, TokenPlaces, Tokens!rows
<1>5. TokenLockInv'
  BY <1>1, <1>3 DEF TokenLockInv, TokenInside
<1>6. TokenGrantInv' /\ Tokens!TokenOutlivesItsExpiry'
  BY <1>1, <1>3 DEF TokenIInv, TokenGrantInv, Tokens!TokenOutlivesItsExpiry, Tokens!rows
<1>7. TokenHandInv'
  BY <1>1, <1>2, <1>3 DEF TokenIInv, TokenHandInv
<1> QED BY <1>1, <1>4, <1>5, <1>6, <1>7 DEF TokenIInv, TokenKept,
           Tokens!OneRefreshPerToken

LEMMA TokenReleaseKeeps ==
  ASSUME Tokens!AccessTokensAssumption, TokenIInv, NEW t \in Workers, Tokens!Release(t)
  PROVE  TokenKept
<1> DEFINE h == [hand[t] EXCEPT !.grant = grant]
<1>1. /\ hand' = [hand EXCEPT ![t] = h] /\ at' = [at EXCEPT ![t] = "posting"]
      /\ at[t] = "refreshing" /\ UNCHANGED <<now, Tokens!rows, live, cache, lock, services, op, torn>>
  BY DEF Tokens!Release, Tokens!Go
<1>2. h \in TokenHands /\ h.asked = hand[t].asked /\ h.grant = grant
  BY DEF TokenHands, TokenIInv, TokenShapes
<1> HIDE DEF h
<1>3. /\ at'[t] = "posting" /\ hand'[t] = h
      /\ \A u \in Workers : u # t => at'[u] = at[u] /\ hand'[u] = hand[u]
  BY <1>1 DEF TokenIInv, TokenShapes
<1>4. TokenShapes'
  BY <1>1, <1>2, <1>3 DEF TokenIInv, TokenShapes, TokenPlaces, Tokens!rows
<1>5. TokenLockInv' /\ TokenGrantInv' /\ TokenHandInv' /\ Tokens!TokenOutlivesItsExpiry'
  BY <1>1, <1>2, <1>3 DEF TokenIInv, TokenLockInv, TokenGrantInv, TokenHandInv,
     Tokens!TokenOutlivesItsExpiry, TokenInside, Tokens!rows
<1> QED BY <1>1, <1>4, <1>5 DEF TokenIInv, TokenKept, Tokens!OneRefreshPerToken

LEMMA TokenPostKeeps ==
  ASSUME Tokens!AccessTokensAssumption, TokenIInv, NEW t \in Workers, Tokens!Post(t)
  PROVE  TokenKept
<1> DEFINE token == [grant |-> hand[t].grant, until |-> now + Life]
           h == [hand[t] EXCEPT !.token = token]
<1>1. /\ hand' = [hand EXCEPT ![t] = h] /\ at' = [at EXCEPT ![t] = "storing"]
      /\ at[t] = "posting" /\ UNCHANGED <<now, Tokens!rows, live, cache, lock, services, op, torn>>
  BY DEF Tokens!Post, Tokens!Go
<1>2. hand[t] \in TokenHands /\ now \in Nat /\ Life \in Nat /\ Delay \in Nat
  BY DEF TokenIInv, TokenShapes, Tokens!AccessTokensAssumption
<1>3. token \in TokenToks /\ token.grant = hand[t].grant /\ token.until = now + Life
  BY <1>2 DEF TokenToks, TokenHands
<1> HIDE DEF token
<1>4. h \in TokenHands /\ h.asked = hand[t].asked /\ h.grant = hand[t].grant /\ h.token = token
  BY <1>2, <1>3 DEF TokenHands
<1> HIDE DEF h
<1>5. /\ at'[t] = "storing" /\ hand'[t] = h
      /\ \A u \in Workers : u # t => at'[u] = at[u] /\ hand'[u] = hand[u]
  BY <1>1 DEF TokenIInv, TokenShapes
<1>6. TokenShapes'
  BY <1>1, <1>3, <1>4, <1>5 DEF TokenIInv, TokenShapes, TokenPlaces, Tokens!rows
<1>7. TokenLockInv' /\ TokenGrantInv' /\ Tokens!TokenOutlivesItsExpiry'
  BY <1>1, <1>4, <1>5 DEF TokenIInv, TokenLockInv, TokenGrantInv,
     Tokens!TokenOutlivesItsExpiry, TokenInside, Tokens!rows
<1>8. TokenHandInv'
  BY <1>1, <1>2, <1>3, <1>4, <1>5 DEF TokenIInv, TokenHandInv
<1> QED BY <1>1, <1>6, <1>7, <1>8 DEF TokenIInv, TokenKept, Tokens!OneRefreshPerToken

LEMMA TokenStoreKeeps ==
  ASSUME Tokens!AccessTokensAssumption, TokenIInv, NEW t \in Workers, Tokens!Store(t)
  PROVE  TokenKept
<1> DEFINE c == [token |-> hand[t].token, expiry |-> Tokens!Expiry]
<1>1. /\ cache' = c /\ at' = [at EXCEPT ![t] = "pairing"] /\ lock' = None
      /\ at[t] = "storing" /\ UNCHANGED <<now, Tokens!rows, live, services, hand, op, torn>>
  BY DEF Tokens!Store, Tokens!Go, TokenIInv, TokenLockInv, TokenInside
<1>2. /\ hand[t] \in TokenHands /\ now \in Nat /\ Life \in Nat /\ Delay \in Nat /\ EXPIRY_MARGIN \in Nat
      /\ Delay <= EXPIRY_MARGIN /\ hand[t].token \in TokenToks /\ lock = t
      /\ cache # None => cache.expiry <= hand[t].asked
      /\ hand[t].asked <= now
      /\ hand[t].token.grant = hand[t].grant
      /\ now <= hand[t].token.until - Life + Delay
  BY <1>1 DEF TokenIInv, TokenShapes, Tokens!AccessTokensAssumption, TokenLockInv,
     TokenHandInv, TokenInside
<1>3. Tokens!Expiry \in Int /\ Tokens!Expiry <= hand[t].token.until /\ hand[t].token.until \in Int
  BY <1>2 DEF Tokens!Expiry, TokenToks
<1>4. c \in [token : TokenToks, expiry : Int] /\ c.token = hand[t].token /\ c.expiry = Tokens!Expiry
  BY <1>2, <1>3
<1> HIDE DEF c
<1>5. /\ at'[t] = "pairing" /\ \A u \in Workers : u # t => at'[u] = at[u]
      /\ \A u \in Workers : u # t => at[u] \notin TokenInside
  BY <1>1, <1>2 DEF TokenIInv, TokenShapes, TokenLockInv
<1>6. TokenShapes'
  BY <1>1, <1>2, <1>4, <1>5 DEF TokenIInv, TokenShapes, TokenPlaces, Tokens!rows
<1>7. TokenLockInv'
  BY <1>1, <1>5 DEF TokenLockInv, TokenInside
<1>8. TokenGrantInv'
  BY <1>1, <1>2, <1>4, <1>5 DEF TokenIInv, TokenGrantInv, Tokens!rows
<1>9. TokenHandInv'
  BY <1>1, <1>5 DEF TokenIInv, TokenHandInv
<1>10. Tokens!TokenOutlivesItsExpiry'
  BY <1>1, <1>3, <1>4 DEF TokenIInv, Tokens!TokenOutlivesItsExpiry
<1>11. Tokens!OneRefreshPerToken
  <2>1. hand[t].asked \in Nat /\ (cache # None => cache.expiry \in Int)
    BY <1>2 DEF TokenHands, TokenIInv, TokenShapes
  <2> QED BY <1>2, <2>1 DEF Tokens!OneRefreshPerToken
<1> QED BY <1>6, <1>7, <1>8, <1>9, <1>10, <1>11 DEF TokenIInv, TokenKept

LEMMA TokenPairKeeps ==
  ASSUME Tokens!AccessTokensAssumption, TokenIInv, NEW t \in Workers, Tokens!Pair(t)
  PROVE  TokenKept
<1> DEFINE s == [services[t] EXCEPT !.token = hand[t].token, !.expiry = cache.expiry]
<1>1. /\ at[t] = "pairing" /\ at' = [at EXCEPT ![t] = "idle"] /\ hand' = [hand EXCEPT ![t] = Tokens!Empty]
      /\ UNCHANGED <<now, Tokens!rows, live, cache, lock, op>>
  BY DEF Tokens!Pair, Tokens!Go
<1>2. Tokens!Empty \in TokenHands /\ Tokens!Empty.asked = 0 /\ now \in Nat
  BY DEF Tokens!Empty, TokenHands, TokenIInv, TokenShapes
<1>3. hand[t].token \in TokenToks /\ services[t] \in TokenClients
  BY <1>1 DEF TokenIInv, TokenShapes
<1>4. /\ at'[t] = "idle" /\ hand'[t] = Tokens!Empty
      /\ \A u \in Workers : u # t => at'[u] = at[u] /\ hand'[u] = hand[u]
  BY <1>1 DEF TokenIInv, TokenShapes
<1>5. TokenLockInv' /\ TokenGrantInv'
  BY <1>1, <1>4 DEF TokenIInv, TokenLockInv, TokenGrantInv, TokenInside, Tokens!rows
<1>6. TokenHandInv'
  BY <1>1, <1>2, <1>4 DEF TokenIInv, TokenHandInv
<1>7. CASE cache = None
  <2>1. UNCHANGED <<services, torn>>
    BY <1>7 DEF Tokens!Pair
  <2>2. TokenShapes'
    BY <1>1, <1>2, <1>4, <2>1 DEF TokenIInv, TokenShapes, TokenPlaces, Tokens!rows
  <2>3. Tokens!TokenOutlivesItsExpiry'
    BY <1>1, <2>1 DEF TokenIInv, Tokens!TokenOutlivesItsExpiry
  <2> QED BY <1>1, <1>5, <1>6, <2>2, <2>3 DEF TokenIInv, TokenKept,
             Tokens!OneRefreshPerToken
<1>8. CASE cache # None
  <2>1. /\ services' = [services EXCEPT ![t] = s]
        /\ torn' = IF cache.token = hand[t].token THEN torn \ {t} ELSE torn \cup {t}
    BY <1>8 DEF Tokens!Pair
  <2>2. cache.expiry \in Int
    BY <1>8 DEF TokenIInv, TokenShapes
  <2>3. s \in TokenClients /\ s.token = hand[t].token /\ s.expiry = cache.expiry
    BY <1>3, <2>2 DEF TokenClients
  <2> HIDE DEF s
  <2>4. services'[t] = s /\ \A u \in Workers : u # t => services'[u] = services[u]
    BY <2>1 DEF TokenIInv, TokenShapes
  <2>5. TokenShapes'
    BY <1>1, <1>2, <1>4, <2>1, <2>3, <2>4 DEF TokenIInv, TokenShapes, TokenPlaces,
       Tokens!rows
  <2>6. Tokens!TokenOutlivesItsExpiry'
    <3>1. \A u \in Workers : u # t => (u \in torn' <=> u \in torn)
      BY <2>1
    <3>2. t \notin torn' => cache.token = hand[t].token
      BY <2>1
    <3> QED BY <1>1, <1>8, <2>3, <2>4, <3>1, <3>2 DEF TokenIInv,
               Tokens!TokenOutlivesItsExpiry
  <2> QED BY <1>1, <1>5, <1>6, <2>5, <2>6 DEF TokenIInv, TokenKept,
             Tokens!OneRefreshPerToken
<1> QED BY <1>7, <1>8

\* The handoff thread: a sign-in or a deletion.
LEMMA TokenHandoffKeeps ==
  ASSUME Tokens!AccessTokensAssumption, TokenIInv, Tokens!Handoff
  PROVE  TokenKept
<1>0. UNCHANGED <<now, lock, services, at, hand, torn>>
  BY DEF Tokens!Handoff, Tokens!Consent, Tokens!Settle, Tokens!Forget, Tokens!Revoke,
     Tokens!DropCache, Tokens!RemoveRow
<1>1. used \in Nat /\ handle \in Nat /\ grant \in Nat
      /\ op \in [step : {"none", "consented", "settled", "revoked", "dropped"},
                 handle : Nat, grant : Nat]
      /\ op.handle \in Nat /\ op.grant \in Nat
  BY DEF TokenIInv, TokenShapes
<1>2. Tokens!NoOp \in [step : {"none", "consented", "settled", "revoked", "dropped"},
                       handle : Nat, grant : Nat] /\ Tokens!NoOp.step = "none"
  BY DEF Tokens!NoOp
<1>3. CASE Tokens!Consent
  <2>1. /\ used' = used + 1 /\ UNCHANGED <<handle, grant, cache>> /\ op'.step = "consented"
        /\ op.step = "none"
        /\ op' \in [step : {"none", "consented", "settled", "revoked", "dropped"},
                    handle : Nat, grant : Nat]
    BY <1>1, <1>3 DEF Tokens!Consent
  <2>2. TokenShapes'
    BY <1>0, <1>1, <2>1 DEF TokenIInv, TokenShapes
  <2> QED BY <1>0, <2>1, <2>2 DEF TokenIInv, TokenKept, TokenLockInv, TokenGrantInv,
             TokenHandInv, Tokens!TokenOutlivesItsExpiry,
             Tokens!OneRefreshPerToken
<1>4. CASE Tokens!Settle
  <2>1. /\ handle' = op.handle /\ grant' = op.grant /\ UNCHANGED <<used, cache>>
        /\ op'.step = "settled"
        /\ op' \in [step : {"none", "consented", "settled", "revoked", "dropped"},
                    handle : Nat, grant : Nat]
    BY <1>1, <1>4 DEF Tokens!Settle
  <2>2. TokenShapes'
    BY <1>0, <1>1, <2>1 DEF TokenIInv, TokenShapes
  <2> QED BY <1>0, <2>1, <2>2 DEF TokenIInv, TokenKept, TokenLockInv, TokenGrantInv,
             TokenHandInv, Tokens!TokenOutlivesItsExpiry,
             Tokens!OneRefreshPerToken
<1>5. CASE Tokens!Forget \/ Tokens!DropCache
  <2>1. /\ cache' = None /\ lock = None /\ UNCHANGED Tokens!rows
        /\ op' \in [step : {"none", "consented", "settled", "revoked", "dropped"},
                    handle : Nat, grant : Nat]
    BY <1>1, <1>2, <1>5 DEF Tokens!Forget, Tokens!DropCache
  <2>2. \A t \in Workers : at[t] \notin TokenInside
    BY <2>1 DEF TokenIInv, TokenLockInv, Tokens!AccessTokensAssumption
  <2>3. TokenShapes'
    BY <1>0, <2>1 DEF TokenIInv, TokenShapes, Tokens!rows
  <2> QED BY <1>0, <2>1, <2>2, <2>3 DEF TokenIInv, TokenKept, TokenLockInv,
             TokenGrantInv, TokenHandInv,
             Tokens!TokenOutlivesItsExpiry, Tokens!OneRefreshPerToken, TokenInside
<1>6. CASE Tokens!Revoke
  <2>1. /\ UNCHANGED <<Tokens!rows, cache>> /\ op'.step = "revoked" /\ op.step = "none"
        /\ op' \in [step : {"none", "consented", "settled", "revoked", "dropped"},
                    handle : Nat, grant : Nat]
    BY <1>2, <1>6 DEF Tokens!Revoke
  <2>2. TokenShapes'
    BY <1>0, <2>1 DEF TokenIInv, TokenShapes, Tokens!rows
  <2> QED BY <1>0, <2>1, <2>2 DEF TokenIInv, TokenKept, TokenLockInv, TokenGrantInv,
             TokenHandInv, Tokens!TokenOutlivesItsExpiry,
             Tokens!OneRefreshPerToken, Tokens!rows
<1>7. CASE Tokens!RemoveRow
  <2>1. handle' = 0 /\ grant' = 0 /\ op' = Tokens!NoOp /\ UNCHANGED <<used, cache>>
    BY <1>7 DEF Tokens!RemoveRow
  <2>2. TokenShapes'
    BY <1>0, <1>2, <2>1 DEF TokenIInv, TokenShapes
  <2> QED BY <1>0, <2>1, <2>2 DEF TokenIInv, TokenKept, TokenLockInv, TokenGrantInv,
             TokenHandInv, Tokens!TokenOutlivesItsExpiry,
             Tokens!OneRefreshPerToken
<1> QED BY <1>3, <1>4, <1>5, <1>6, <1>7 DEF Tokens!Handoff

LEMMA TokenTickKeeps ==
  ASSUME Tokens!AccessTokensAssumption, TokenIInv, Tokens!Tick
  PROVE  TokenKept
<1>1. /\ now' = now + 1 /\ now \in Nat
             /\ UNCHANGED <<Tokens!rows, live, cache, lock, services, at, hand, op, torn>>
      /\ \A t \in Workers : at[t] = "storing" => now + 1 <= hand[t].token.until - Life + Delay
  BY DEF Tokens!Tick, TokenIInv, TokenShapes
<1>2. \A t \in Workers : hand[t].asked \in Nat
  BY DEF TokenIInv, TokenShapes, TokenHands
<1>3. TokenShapes'
  BY <1>1 DEF TokenIInv, TokenShapes, Tokens!rows
<1>4. TokenLockInv' /\ TokenGrantInv' /\ Tokens!TokenOutlivesItsExpiry'
  BY <1>1 DEF TokenIInv, TokenLockInv, TokenGrantInv, Tokens!TokenOutlivesItsExpiry,
     Tokens!rows
<1>5. TokenHandInv'
  BY <1>1, <1>2 DEF TokenIInv, TokenHandInv
<1> QED BY <1>1, <1>3, <1>4, <1>5 DEF TokenIInv, TokenKept, Tokens!OneRefreshPerToken

LEMMA TokenStepKeeps ==
  ASSUME Tokens!AccessTokensAssumption, TokenIInv, [Tokens!Next]_(Tokens!vars)
  PROVE  TokenIInv' /\ Tokens!AccessTokensStep
<1>1. ASSUME NEW t \in Workers, Tokens!Call(t) PROVE TokenKept
  BY <1>1, TokenAskKeeps, TokenEnterKeeps, TokenReleaseKeeps, TokenRaiseKeeps,
     TokenPostKeeps, TokenStoreKeeps, TokenPairKeeps DEF Tokens!Call
<1>3. TokenKept
  <2>1. CASE UNCHANGED Tokens!vars
    BY <2>1 DEF Tokens!vars, Tokens!rows, TokenIInv, TokenShapes, TokenKept,
       TokenLockInv, TokenGrantInv, TokenHandInv, Tokens!TokenOutlivesItsExpiry,
       Tokens!OneRefreshPerToken
  <2> QED BY <1>1, <2>1, TokenHandoffKeeps, TokenTickKeeps DEF Tokens!Next
<1>5. TokenIInv' => Tokens!CacheIsCurrent'
  BY DEF TokenIInv, TokenGrantInv, Tokens!CacheIsCurrent
<1> QED BY <1>3, <1>5 DEF TokenKept, TokenIInv, Tokens!AccessTokensStep

-----------------------------------------------------------------------------
\* Where `part` is this component's, its steps are the only ones; elsewhere its
\* variables stand still.
LEMMA TokenIsAPart == Spec => Tokens!Spec
<1>1. Init => Tokens!Init
  BY DEF Init
<1>2. [Next]_vars => [Tokens!Next]_(Tokens!vars)
  BY DEF Next, vars, tokensVars, Tokens!vars
<1> QED BY <1>1, <1>2, PTL DEF Spec, Tokens!Spec

\* For any threads: once a sign-in or a deletion is over the cached token is of the
\* consent on disk, no token is counted on for longer than Google honours it, and
\* one is replaced only when there is none or it is spent (custody/tokens.py).
THEOREM AccessTokensAlwaysHold == Spec => AccessTokensHold
<1>0. Tokens!AccessTokensAssumption
  BY PartsAssumption
<1>1. Tokens!Init => TokenIInv
  BY <1>0, TokenInitIInv
<1>2. TokenIInv /\ [Tokens!Next]_(Tokens!vars) => TokenIInv'
  BY <1>0, TokenStepKeeps
<1>3. TokenIInv /\ [Tokens!Next]_(Tokens!vars) => [part = "tokens" => Tokens!AccessTokensStep]_tokensVars
  BY <1>0, TokenStepKeeps
<1> QED BY <1>1, <1>2, <1>3, TokenIsAPart, PTL DEF Tokens!Spec, AccessTokensHold

-----------------------------------------------------------------------------
(* Providers (integrations/llm_client.py, custody/handoff.py).               *)
(* A client is for the choice of the account it was built from and for keys  *)
(* of this daemon's (ProviderClientInv); a daemon that is down has loaded    *)
(* nothing (ProviderDownInv).                                                *)

\* FiniteSets is one module, however it is reached.
LEMMA ModelsSameSets ==
  \A S : /\ Models!Cardinality(S) = Cardinality(S)
         /\ Models!IsFiniteSet(S) = IsFiniteSet(S)
BY DEF Models!Cardinality, Cardinality, Models!IsFiniteSet, IsFiniteSet

ProviderShapes ==
  /\ llmNow \in Nat
  /\ env \in [daemon : (SUBSET Models!Keys) \cup {None}, web : SUBSET Models!Keys]
         /\ config \in SUBSET Models!Keys
  /\ choice \in [Loops -> [choice : Catalogue \cup {None}] \cup {None}]
  /\ llm \in [Loops -> [provider : Catalogue, checked : BOOLEAN] \cup {None}]
  /\ rings \in [Catalogue -> Nat \X (Nat \cup {None})] /\ once \in [Catalogue -> Nat \cup {None}]
  /\ settings \subseteq Catalogue /\ chosen \in Catalogue \cup {None}
  /\ offered # None => offered \subseteq Catalogue

\* A client is for the choice of the account it was built from, and for keys
\* that the daemon still has; an enclave's was verified.
ProviderClientRight(t) ==
  /\ choice[t] # None
  /\ llm[t].provider \in Models!Resolve(choice[t].choice, Models!Configured(env.daemon))
  /\ llm[t].provider \in Confidential => llm[t].checked

ProviderClientInv == \A t \in Loops : llm[t] # None => ProviderClientRight(t)

\* A daemon that is down has loaded no account.
ProviderDownInv == env.daemon = None => \A t \in Loops : choice[t] = None

ProviderRingInv == \A p \in Catalogue : once[p] = rings[p][2]

ProviderIInv ==
  ProviderShapes /\ ProviderClientInv /\ ProviderDownInv /\ ProviderRingInv
      /\ Models!SentWhereChosen /\ Models!OfferIsTrue

LEMMA ProviderInitIInv ==
  ASSUME Models!ProvidersAssumption
  PROVE  Models!Init => ProviderIInv
<1> SUFFICES ASSUME Models!Init PROVE ProviderIInv
  OBVIOUS
<1>1. ProviderShapes
  BY DEF Models!Init, ProviderShapes, Models!Idle
<1>2. ProviderClientInv /\ ProviderDownInv /\ ProviderRingInv
  BY DEF Models!Init, ProviderClientInv, ProviderDownInv, ProviderRingInv, Models!Idle
<1> QED BY <1>1, <1>2 DEF Models!Init, ProviderIInv, Models!SentWhereChosen,
           Models!OfferIsTrue

\* What each step leaves true, and the count of the operator's rings.
ProviderKept == ProviderIInv' /\ Models!RingsSpaced

LEMMA ProviderRingsAtRest ==
  ASSUME ProviderIInv, UNCHANGED rings
  PROVE  Models!RingsSpaced
<1> SUFFICES ASSUME NEW p \in Catalogue, rings'[p][1] > rings[p][1] PROVE FALSE
  BY DEF Models!RingsSpaced
<1>1. rings[p][1] \in Nat
  BY DEF ProviderIInv, ProviderShapes
<1> QED BY <1>1

LEMMA ProviderConfiguredTyped ==
  ASSUME NEW keys
  PROVE  Models!Configured(keys) \subseteq Catalogue
BY DEF Models!Configured

\* The settings page is shown, and posted.
LEMMA ProviderPageKeeps ==
  ASSUME Models!ProvidersAssumption, ProviderIInv,
         Models!Show \/ \E p \in Catalogue \cup {None} : Models!Post(p)
  PROVE  ProviderKept
<1>1. UNCHANGED <<Models!world, Models!daemonVars, Models!alerts>>
  BY DEF Models!Show, Models!Post
<1>2. settings' \subseteq Catalogue /\ chosen' \in Catalogue \cup {None}
      /\ (offered' # None => offered' \subseteq Catalogue) /\ Models!OfferIsTrue'
  <2>1. ASSUME Models!Ask
        PROVE  (offered' # None => offered' \subseteq Catalogue) /\ Models!OfferIsTrue'
    BY <1>1, <2>1, ProviderConfiguredTyped DEF Models!Ask, Models!OfferIsTrue,
       ProviderIInv, ProviderShapes, Models!world
  <2>2. CASE Models!Show
    BY <2>1, <2>2, ProviderConfiguredTyped DEF Models!Show, Models!Ask, ProviderIInv,
       ProviderShapes
  <2>3. ASSUME NEW p \in Catalogue \cup {None}, Models!Post(p)
        PROVE  /\ settings' \subseteq Catalogue /\ chosen' \in Catalogue \cup {None}
               /\ (offered' # None => offered' \subseteq Catalogue) /\ Models!OfferIsTrue'
    <3>1. settings' = settings /\ chosen' \in {chosen, p}
      BY <2>3 DEF Models!Post, Models!SetSettings
    <3>2. Models!Ask \/ UNCHANGED <<offered, moved>>
      BY <2>3 DEF Models!Post
    <3>3. Models!OfferIsTrue' /\ (offered' # None => offered' \subseteq Catalogue)
      BY <1>1, <2>1, <3>2 DEF ProviderIInv, ProviderShapes, Models!OfferIsTrue,
         Models!world
    <3> QED BY <3>1, <3>3 DEF ProviderIInv, ProviderShapes
  <2> QED BY <2>2, <2>3
<1>3. ProviderShapes'
  BY <1>1, <1>2 DEF ProviderIInv, ProviderShapes, Models!world, Models!daemonVars,
     Models!alerts
<1>4. ProviderClientInv' /\ ProviderDownInv' /\ ProviderRingInv' /\ Models!SentWhereChosen'
  BY <1>1 DEF ProviderIInv, ProviderClientInv, ProviderDownInv, ProviderClientRight,
     ProviderRingInv, Models!SentWhereChosen, Models!world, Models!daemonVars,
     Models!alerts
<1>5. Models!RingsSpaced
  BY <1>1, ProviderRingsAtRest DEF Models!alerts
<1> QED BY <1>2, <1>3, <1>4, <1>5 DEF ProviderIInv, ProviderKept

LEMMA ProviderLoadKeeps ==
  ASSUME Models!ProvidersAssumption, ProviderIInv, NEW t \in Loops,
         Models!Load(t) \/ Models!Finish(t)
  PROVE  ProviderKept
<1> DEFINE account == IF Models!Load(t) THEN [choice |-> chosen] ELSE None
<1>1. UNCHANGED <<letter, Models!webVars, Models!alerts, Models!world>>
  BY DEF Models!Load, Models!Finish
<1>2. account \in [choice : Catalogue \cup {None}] \cup {None}
  BY DEF ProviderIInv, ProviderShapes
<1>3. \/ /\ choice' = [choice EXCEPT ![t] = account] /\ choice[t] = None
         /\ UNCHANGED llm
      \/ choice' = [choice EXCEPT ![t] = None] /\ llm' = [llm EXCEPT ![t] = None]
  BY DEF Models!Load, Models!Finish
<1> HIDE DEF account
<1>4. ProviderShapes'
  BY <1>1, <1>2, <1>3 DEF ProviderIInv, ProviderShapes, Models!webVars, Models!alerts,
     Models!world
<1>5. \A u \in Loops : llm'[u] # None =>
        llm[u] # None /\ llm'[u] = llm[u] /\ choice'[u] = choice[u]
  BY <1>3 DEF ProviderIInv, ProviderShapes, ProviderClientInv, ProviderClientRight
<1>6. ProviderClientInv'
  BY <1>1, <1>5 DEF ProviderIInv, ProviderClientInv, ProviderClientRight, Models!world
<1>6a. ProviderDownInv'
  BY <1>1 DEF ProviderIInv, ProviderShapes, ProviderDownInv, Models!Load,
     Models!Finish, Models!world
<1>7. ProviderRingInv' /\ Models!SentWhereChosen' /\ Models!OfferIsTrue'
  BY <1>1 DEF ProviderIInv, ProviderRingInv, Models!SentWhereChosen,
     Models!OfferIsTrue, Models!webVars, Models!alerts, Models!world
<1>8. Models!RingsSpaced
  BY <1>1, ProviderRingsAtRest DEF Models!alerts
<1> QED BY <1>4, <1>6, <1>6a, <1>7, <1>8 DEF ProviderIInv, ProviderKept

LEMMA ProviderResolveTyped ==
  ASSUME NEW keys, NEW picked, NEW p \in Models!Resolve(picked, Models!Configured(keys)),
         DEFAULT_PROVIDER \in Catalogue
  PROVE  /\ p \in Catalogue
         /\ picked # None => p = picked
         /\ picked = None /\ p # DEFAULT_PROVIDER =>
              Models!Cardinality(Models!Configured(keys)) = 1 /\ p \in Models!Configured(keys)
BY ProviderConfiguredTyped DEF Models!Resolve

LEMMA ProviderMakeClientKeeps ==
  ASSUME Models!ProvidersAssumption, ProviderIInv, NEW t \in Loops, Models!MakeClient(t)
  PROVE  ProviderKept
<1>1. UNCHANGED <<choice, letter, Models!webVars, Models!alerts, Models!world>> /\ choice[t] # None
  BY DEF Models!MakeClient
<1>2. PICK p \in Models!Resolve(choice[t].choice, Models!Configured(env.daemon)) :
        /\ p \in Confidential => p \in genuine
        /\ llm' = [llm EXCEPT ![t] = [provider |-> p, checked |-> p \in genuine]]
  BY DEF Models!MakeClient
<1>3. p \in Catalogue
  BY ProviderConfiguredTyped, ProviderResolveTyped DEF Models!ProvidersAssumption
<1>4. /\ llm'[t] = [provider |-> p, checked |-> p \in genuine]
      /\ \A u \in Loops : u # t => llm'[u] = llm[u]
  BY <1>2 DEF ProviderIInv, ProviderShapes
<1>5. llm'[t].provider = p /\ (p \in genuine => llm'[t].checked)
  <2>1. \A q \in BOOLEAN : [provider |-> p, checked |-> q].checked = q
    OBVIOUS
  <2>2. (p \in genuine) \in BOOLEAN
    OBVIOUS
  <2>3. [provider |-> p, checked |-> p \in genuine].checked = (p \in genuine)
    BY <2>1, <2>2, Zenon
  <2>4. llm'[t].checked = (p \in genuine)
    BY <1>4, <2>3, Zenon
  <2>5. p \in genuine => llm'[t].checked
    BY <2>4, Zenon
  <2> QED BY <1>4, <2>5
<1>6. ProviderShapes'
  BY <1>1, <1>2, <1>3 DEF ProviderIInv, ProviderShapes, Models!webVars, Models!alerts,
     Models!world
<1>7. ProviderClientRight(t)'
  BY <1>1, <1>2, <1>5 DEF ProviderClientRight, Models!world
<1>8. ProviderClientInv'
  BY <1>1, <1>4, <1>7 DEF ProviderIInv, ProviderClientInv, ProviderClientRight,
     Models!world
<1>9. ProviderDownInv' /\ ProviderRingInv' /\ Models!SentWhereChosen' /\ Models!OfferIsTrue'
  BY <1>1 DEF ProviderIInv, ProviderDownInv, ProviderRingInv, Models!SentWhereChosen,
     Models!OfferIsTrue, Models!webVars, Models!alerts, Models!world
<1>10. Models!RingsSpaced
  BY <1>1, ProviderRingsAtRest DEF Models!alerts
<1> QED BY <1>6, <1>8, <1>9, <1>10 DEF ProviderIInv, ProviderKept

\* What a choice resolves to is the choice, the standard provider, or the one
\* there is.
LEMMA ProviderOnlyOne ==
  ASSUME NEW S, Models!IsFiniteSet(S), Models!Cardinality(S) = 1, NEW p \in S
  PROVE  S = {p}
<1>1. PICK q : S = {q}
  BY FS_Singleton, ModelsSameSets
<1> QED BY <1>1

LEMMA ProviderCompleteKeeps ==
  ASSUME Models!ProvidersAssumption, ProviderIInv, NEW t \in Loops, Models!Complete(t)
  PROVE  ProviderKept
<1> DEFINE message == [choice |-> choice[t].choice, keys |-> env.daemon,
                       provider |-> llm[t].provider, checked |-> llm[t].checked]
<1>1. /\ UNCHANGED <<choice, llm, Models!webVars, Models!alerts, Models!world>> /\ llm[t] # None
      /\ letter' = message
  BY DEF Models!Complete
<1>2. ProviderClientRight(t)
  BY <1>1 DEF ProviderIInv, ProviderClientInv
<1>3. /\ message.choice = choice[t].choice /\ message.keys = env.daemon
      /\ message.provider = llm[t].provider /\ message.checked = llm[t].checked
  OBVIOUS
<1>4. Models!SentWhereChosen'
  <2>1. llm[t].provider \in Models!Configured(env.daemon)
            /\ Models!Cardinality(Models!Configured(env.daemon)) = 1
          => Models!Configured(env.daemon) = {llm[t].provider}
    <3>1. Models!IsFiniteSet(Models!Configured(env.daemon))
      BY FS_Subset, ModelsSameSets, ProviderConfiguredTyped DEF Models!ProvidersAssumption
    <3> QED BY <3>1, ProviderOnlyOne
  <2>2. /\ choice[t].choice # None => llm[t].provider = choice[t].choice
        /\ choice[t].choice = None /\ llm[t].provider # DEFAULT_PROVIDER =>
             /\ Models!Cardinality(Models!Configured(env.daemon)) = 1
             /\ llm[t].provider \in Models!Configured(env.daemon)
    BY <1>2, ProviderResolveTyped DEF ProviderClientRight, Models!ProvidersAssumption
  <2> HIDE DEF message
  <2> QED BY <1>1, <1>2, <1>3, <2>1, <2>2 DEF Models!SentWhereChosen,
             ProviderClientRight
<1> HIDE DEF message
<1>5. ProviderShapes' /\ ProviderClientInv' /\ ProviderDownInv' /\ ProviderRingInv' /\ Models!OfferIsTrue'
  BY <1>1 DEF ProviderIInv, ProviderShapes, ProviderDownInv, ProviderClientInv,
     ProviderClientRight, ProviderRingInv, Models!OfferIsTrue, Models!webVars,
     Models!alerts, Models!world
<1>6. Models!RingsSpaced
  BY <1>1, ProviderRingsAtRest DEF Models!alerts
<1> QED BY <1>4, <1>5, <1>6 DEF ProviderIInv, ProviderKept

LEMMA ProviderRefusesKeeps ==
  ASSUME Models!ProvidersAssumption, ProviderIInv, NEW t \in Loops, Models!ProviderRefuses(t)
  PROVE  ProviderKept
<1> DEFINE p == llm[t].provider
<1>1. /\ UNCHANGED <<letter, Models!webVars, Models!world>> /\ llm[t] # None
      /\ choice' = [choice EXCEPT ![t] = None] /\ llm' = [llm EXCEPT ![t] = None]
  BY DEF Models!ProviderRefuses
<1>2. p \in Catalogue /\ llmNow \in Nat
  BY <1>1 DEF ProviderIInv, ProviderShapes
<1>3. rings[p] = <<rings[p][1], rings[p][2]>> /\ rings[p][1] \in Nat /\ once[p] = rings[p][2]
  BY <1>2 DEF ProviderIInv, ProviderShapes, ProviderRingInv
<1>4. \A u \in Loops : llm'[u] # None =>
        llm[u] # None /\ llm'[u] = llm[u] /\ choice'[u] = choice[u]
  BY <1>1 DEF ProviderIInv, ProviderShapes
<1>5. ProviderClientInv'
  BY <1>1, <1>4 DEF ProviderIInv, ProviderClientInv, ProviderClientRight, Models!world
<1>6. Models!SentWhereChosen' /\ Models!OfferIsTrue' /\ ProviderDownInv'
  BY <1>1 DEF ProviderIInv, ProviderShapes, Models!SentWhereChosen, Models!OfferIsTrue,
     ProviderDownInv, Models!webVars, Models!world
<1>7. CASE ~Models!Due(p)
  <2>1. UNCHANGED Models!alerts
    BY <1>7 DEF Models!ProviderRefuses
  <2>2. ProviderShapes' /\ ProviderRingInv'
    BY <1>1, <2>1 DEF ProviderIInv, ProviderShapes, ProviderRingInv, Models!webVars,
       Models!alerts, Models!world
  <2> QED BY <1>5, <1>6, <2>1, <2>2, ProviderRingsAtRest DEF ProviderIInv,
             ProviderKept, Models!alerts
<1>8. CASE Models!Due(p)
  <2> DEFINE ring == <<rings[p][1] + 1, llmNow>>
  <2>1. once' = [once EXCEPT ![p] = llmNow] /\ rings' = [rings EXCEPT ![p] = ring]
    BY <1>8 DEF Models!ProviderRefuses
  <2>2. ring \in Nat \X (Nat \cup {None}) /\ ring[2] = llmNow
    BY <1>2, <1>3
  <2> HIDE DEF ring
  <2>3. ProviderShapes'
    BY <1>1, <1>2, <2>1, <2>2 DEF ProviderIInv, ProviderShapes, Models!webVars,
       Models!world
  <2>4. /\ once'[p] = llmNow /\ rings'[p] = ring
        /\ \A q \in Catalogue : q # p => once'[q] = once[q] /\ rings'[q] = rings[q]
    BY <1>2, <2>1 DEF ProviderIInv, ProviderShapes
  <2>5. ProviderRingInv'
    BY <2>2, <2>4 DEF ProviderIInv, ProviderRingInv
  <2>6. Models!RingsSpaced
    <3> SUFFICES ASSUME NEW q \in Catalogue, rings'[q][1] > rings[q][1]
                 PROVE  rings[q][2] = None \/ llmNow - rings[q][2] >= COOLDOWN
      BY DEF Models!RingsSpaced
    <3>1. CASE q = p
      BY <1>3, <1>8, <3>1 DEF Models!Due
    <3>2. CASE q # p
      <4>1. rings'[q] = rings[q] /\ rings[q][1] \in Nat
        BY <2>4, <3>2 DEF ProviderIInv, ProviderShapes
      <4> QED BY <4>1
    <3> QED BY <3>1, <3>2
  <2> QED BY <1>5, <1>6, <2>3, <2>5, <2>6 DEF ProviderIInv, ProviderKept
<1> QED BY <1>7, <1>8

\* A daemon that stops takes its clients and its alerts with it.
LEMMA ProviderStopKeeps ==
  ASSUME Models!ProvidersAssumption, ProviderIInv, Models!StopDaemon
  PROVE  ProviderKept
<1>1. /\ env' = [env EXCEPT !.daemon = None]
      /\ choice' = Models!Idle /\ llm' = Models!Idle /\ letter' = None
      /\ once' = [p \in Catalogue |-> None] /\ rings' = [p \in Catalogue |-> <<0, None>>]
      /\ UNCHANGED <<config, split, serving, genuine, llmNow, changes, Models!webVars>>
  BY DEF Models!StopDaemon
<1>2. env' \in [daemon : (SUBSET Models!Keys) \cup {None}, web : SUBSET Models!Keys] /\ env'.daemon = None
  BY <1>1 DEF ProviderIInv, ProviderShapes
<1>3. ProviderShapes'
  BY <1>1, <1>2 DEF ProviderIInv, ProviderShapes, Models!Idle, Models!webVars
<1>4. ProviderClientInv' /\ ProviderDownInv' /\ ProviderRingInv' /\ Models!SentWhereChosen'
          /\ Models!OfferIsTrue'
  BY <1>1, <1>2 DEF ProviderClientInv, ProviderDownInv, ProviderRingInv,
     Models!SentWhereChosen, Models!OfferIsTrue, Models!Idle
<1>5. Models!RingsSpaced
  <2> SUFFICES ASSUME NEW q \in Catalogue, rings'[q][1] > rings[q][1] PROVE FALSE
    BY DEF Models!RingsSpaced
  <2>1. rings[q][1] \in Nat /\ rings'[q][1] = 0
    BY <1>1 DEF ProviderIInv, ProviderShapes
  <2> QED BY <2>1
<1> QED BY <1>3, <1>4, <1>5 DEF ProviderIInv, ProviderKept

\* A daemon that starts has no client yet.
LEMMA ProviderStartKeeps ==
  ASSUME Models!ProvidersAssumption, ProviderIInv, Models!StartDaemon \/ Models!RestartWeb
  PROVE  ProviderKept
<1>1. UNCHANGED <<config, llmNow, settings, chosen, Models!daemonVars, Models!alerts>>
  BY DEF Models!StartDaemon, Models!RestartWeb
<1>2. env' \in [daemon : (SUBSET Models!Keys) \cup {None}, web : SUBSET Models!Keys]
  BY DEF ProviderIInv, ProviderShapes, Models!StartDaemon, Models!RestartWeb
<1>3. offered' \in {offered, None}
  BY DEF Models!StartDaemon, Models!RestartWeb
<1>4. ProviderShapes'
  BY <1>1, <1>2, <1>3 DEF ProviderIInv, ProviderShapes, Models!daemonVars, Models!alerts
<1>5. ProviderRingInv' /\ Models!SentWhereChosen'
  BY <1>1 DEF ProviderIInv, ProviderRingInv, Models!SentWhereChosen, Models!daemonVars,
     Models!alerts
<1>6. Models!OfferIsTrue'
  BY DEF ProviderIInv, ProviderShapes, Models!OfferIsTrue, Models!StartDaemon,
     Models!RestartWeb
<1>7. ProviderClientInv'
  <2>1. CASE Models!StartDaemon
    BY <1>1, <2>1 DEF Models!StartDaemon, ProviderIInv, ProviderClientInv,
       ProviderClientRight, ProviderDownInv, Models!daemonVars
  <2>2. CASE Models!RestartWeb
    <3>1. env'.daemon = env.daemon
      BY <2>2 DEF Models!RestartWeb, ProviderIInv, ProviderShapes
    <3> QED BY <1>1, <3>1 DEF ProviderIInv, ProviderClientInv, ProviderClientRight,
               Models!daemonVars
  <2> QED BY <2>1, <2>2
<1>8. ProviderDownInv'
  BY <1>1 DEF ProviderIInv, ProviderShapes, ProviderDownInv, Models!StartDaemon,
     Models!RestartWeb, Models!daemonVars
<1>9. Models!RingsSpaced
  BY <1>1, ProviderRingsAtRest DEF Models!alerts
<1> QED BY <1>4, <1>5, <1>6, <1>7, <1>8, <1>9 DEF ProviderIInv, ProviderKept

LEMMA ProviderWorldKeeps ==
  ASSUME Models!ProvidersAssumption, ProviderIInv,
         Models!Deploy \/ Models!Tick \/ \E p \in Catalogue : Models!Provider(p)
  PROVE  ProviderKept
<1>1. UNCHANGED <<env, Models!webVars, Models!daemonVars, Models!alerts>>
  BY DEF Models!Deploy, Models!Tick, Models!Provider
<1>2. llmNow' \in Nat /\ config' \in SUBSET Models!Keys
  BY DEF Models!Deploy, Models!Tick, Models!Provider, ProviderIInv, ProviderShapes
<1>3. ProviderShapes'
  BY <1>1, <1>2 DEF ProviderIInv, ProviderShapes, Models!webVars, Models!daemonVars,
     Models!alerts
<1>4. ProviderClientInv' /\ ProviderDownInv' /\ ProviderRingInv' /\ Models!SentWhereChosen'
          /\ Models!OfferIsTrue'
  BY <1>1 DEF ProviderIInv, ProviderClientInv, ProviderDownInv, ProviderClientRight,
     ProviderRingInv, Models!SentWhereChosen, Models!OfferIsTrue, Models!webVars,
     Models!daemonVars, Models!alerts
<1>5. Models!RingsSpaced
  BY <1>1, ProviderRingsAtRest DEF Models!alerts
<1> QED BY <1>3, <1>4, <1>5 DEF ProviderIInv, ProviderKept

LEMMA ProviderStepKeeps ==
  ASSUME Models!ProvidersAssumption, ProviderIInv, [Models!Next]_(Models!vars)
  PROVE  ProviderIInv' /\ Models!ProvidersStep
<1> SUFFICES ProviderKept
  BY DEF ProviderKept, ProviderIInv, Models!ProvidersStep
<1>1. ASSUME NEW t \in Loops,
             Models!Load(t) \/ Models!MakeClient(t) \/ Models!Finish(t) \/ Models!Complete(t)
                 \/ Models!ProviderRefuses(t)
      PROVE  ProviderKept
  BY <1>1, ProviderLoadKeeps, ProviderMakeClientKeeps, ProviderCompleteKeeps,
     ProviderRefusesKeeps
<1>2. CASE UNCHANGED Models!vars
  <2>1. ProviderIInv'
    BY <1>2 DEF Models!vars, Models!world, Models!webVars, Models!daemonVars,
       Models!alerts, ProviderIInv, ProviderShapes, ProviderClientInv,
       ProviderClientRight,
       ProviderDownInv, ProviderRingInv, Models!SentWhereChosen, Models!OfferIsTrue
  <2>2. UNCHANGED rings
    BY <1>2 DEF Models!vars, Models!alerts
  <2>3. Models!RingsSpaced
    BY <2>2, ProviderRingsAtRest
  <2> QED BY <2>1, <2>3 DEF ProviderKept
<1>3. CASE Models!Next
  <2>1. CASE Models!Show \/ \E p \in Catalogue \cup {None} : Models!Post(p)
    BY <2>1, ProviderPageKeeps
  <2>2. CASE Models!StopDaemon
    BY <2>2, ProviderStopKeeps
  <2>3. CASE Models!StartDaemon \/ Models!RestartWeb
    BY <2>3, ProviderStartKeeps
  <2>4. CASE Models!Deploy \/ Models!Tick \/ \E p \in Catalogue : Models!Provider(p)
    BY <2>4, ProviderWorldKeeps
  <2> QED BY <1>1, <1>3, <2>1, <2>2, <2>3, <2>4 DEF Models!Next
<1> QED BY <1>2, <1>3

-----------------------------------------------------------------------------
\* Where `part` is this component's, its steps are the only ones; elsewhere its
\* variables stand still.
LEMMA ProviderIsAPart == Spec => Models!Spec
<1>1. Init => Models!Init
  BY DEF Init
<1>2. [Next]_vars => [Models!Next]_(Models!vars)
  BY DEF Next, vars, llmVars, Models!vars, Models!world, Models!webVars,
     Models!daemonVars, Models!alerts
<1> QED BY <1>1, <1>2, PTL DEF Spec, Models!Spec

\* Through every change of the choice, the keys and the enclave: a letter goes to
\* the provider its account named or the standard one, to an enclave only once it
\* was verified; what the web process remembers is what the daemon can reach; and
\* one provider rings once in a window (integrations/llm_client.py).
THEOREM ProvidersAlwaysHold == Spec => ProvidersHold
<1>0. Models!ProvidersAssumption
  BY PartsAssumption
<1>1. Models!Init => ProviderIInv
  BY <1>0, ProviderInitIInv
<1>2. ProviderIInv /\ [Models!Next]_(Models!vars) => ProviderIInv'
  BY <1>0, ProviderStepKeeps
<1>3. ProviderIInv /\ [Models!Next]_(Models!vars) => [part = "providers" => Models!ProvidersStep]_llmVars
  BY <1>0, ProviderStepKeeps
<1> QED BY <1>1, <1>2, <1>3, ProviderIsAPart, PTL DEF Models!Spec, ProvidersHold

-----------------------------------------------------------------------------
(* Voice (drafting/voice_generation.py, custody/handoff_server.py).          *)
(* A job in the table is of its account's run and runs only as long as the   *)
(* run's thread (VoiceJobsInv, VoiceThreadsInv); of every other run it is    *)
(* known what became of its outcome (VoiceOutcomeInv).                       *)

LEMMA VoiceMaxIs ==
  ASSUME NEW n \in Nat, NEW T, T \subseteq 0..n, T # {}
  PROVE  Voices!Max(T) \in T /\ \A y \in T : y <= Voices!Max(T)
<1>1. \E x \in T : \A y \in T : y <= x
  BY Greatest
<1>2. \E x \in T : \A y \in T : x >= y
  BY <1>1
<1>3. Voices!Max(T) \in T /\ \A y \in T : Voices!Max(T) >= y
  BY <1>2, Zenon DEF Voices!Max
<1> QED BY <1>3

VoiceJobs == [state : {"running", "done", "failed"}, started : Nat, run : Nat]
VoiceRuns == [account : VoiceAccounts, row : Nat \ {0}, began : Nat, told : BOOLEAN, cut : BOOLEAN,
              clearedFor : Nat]
VoicePages == [op : {"none", "ask", "delete", "remove"}, seen : Nat \cup {None}, since : Nat]
VoiceWaits == [upTo : Nat, how : {"none", "finished", "timeout", "unreached"}]

VoiceShapes ==
  /\ voiceNow \in Nat /\ row \in [VoiceAccounts -> 0..MaxSignUps]
  /\ jobs \in [VoiceAccounts -> VoiceJobs \cup {None}]
  /\ runs \in Seq(VoiceRuns) /\ DOMAIN threads \subseteq DOMAIN runs
  /\ voicePage \in [Tabs -> VoicePages] /\ forgotten \in [VoiceAccounts -> VoiceWaits]
  /\ \A t \in Tabs : voicePage[t].op = "ask" => voicePage[t].seen \in Nat \ {0}

\* A run was begun before now, for a sign-up that there has been.
VoiceRunsInv ==
  \A r \in DOMAIN runs : runs[r].began <= voiceNow /\ runs[r].row <= MaxSignUps

\* A job is of a run of its account's, counts its age from no earlier than that
\* was begun, and is running only as long as the run has a thread.
VoiceJobsInv ==
  \A a \in VoiceAccounts : jobs[a] # None =>
    /\ jobs[a].run \in DOMAIN runs /\ runs[jobs[a].run].account = a
    /\ runs[jobs[a].run].began <= jobs[a].started /\ jobs[a].started <= voiceNow
    /\ jobs[a].state = "running" => jobs[a].run \in DOMAIN threads

\* A thread's job is in the table, running; no deletion that is over was
\* answered that it had finished.
VoiceThreadsInv ==
  \A r \in DOMAIN threads :
    LET a == runs[r].account IN
    /\ jobs[a] # None /\ jobs[a].state = "running" /\ jobs[a].run = r
    /\ forgotten[a].how \in {"timeout", "unreached"} \/ r > forgotten[a].upTo

\* What a deletion covers was begun.
VoiceWaitsInv == \A a \in VoiceAccounts : forgotten[a].upTo <= Len(runs)

\* What may have become of a run's outcome, with a later run spelled out.
VoiceAccounted(r) ==
  LET a == runs[r].account IN
  \/ r \in DOMAIN threads \/ runs[r].told
  \/ jobs[a] # None /\ jobs[a].run = r
  \/ voiceNow - runs[r].began > JOB_RETENTION
  \/ \E s \in DOMAIN runs : runs[s].account = a /\ s > r
  \/ row[a] # runs[r].row \/ forgotten[a].upTo >= r
  \/ runs[r].cut \/ runs[r].clearedFor \notin {0, r}

VoiceOutcomeInv == \A r \in DOMAIN runs : VoiceAccounted(r)

VoiceIInv ==
  VoiceShapes /\ VoiceRunsInv /\ VoiceJobsInv /\ VoiceThreadsInv /\ VoiceWaitsInv /\ VoiceOutcomeInv

LEMMA VoiceRunsTyped ==
  ASSUME VoiceShapes
  PROVE  /\ Len(runs) \in Nat /\ DOMAIN runs = 1..Len(runs)
         /\ \A r \in DOMAIN runs : r \in Nat /\ runs[r] \in VoiceRuns
BY DEF VoiceShapes

LEMMA VoiceLatestIs ==
  ASSUME VoiceShapes, NEW a
  PROVE  /\ Voices!Latest(a) \in Nat /\ Voices!Latest(a) <= Len(runs)
         /\ \A r \in DOMAIN runs : runs[r].account = a => r <= Voices!Latest(a)
         /\ \A r \in Nat : Voices!Latest(a) > r => \E s \in DOMAIN runs : runs[s].account = a /\ s > r
<1> DEFINE T == {r \in DOMAIN runs : runs[r].account = a} \cup {0}
<1>1. T \subseteq 0..Len(runs) /\ T # {} /\ Len(runs) \in Nat
  BY VoiceRunsTyped
<1>2. Voices!Max(T) \in T /\ \A y \in T : y <= Voices!Max(T)
  BY <1>1, VoiceMaxIs
<1> DEFINE m == Voices!Max(T)
<1>3. Voices!Latest(a) = m
  BY DEF Voices!Latest
<1>4. m \in T /\ \A y \in T : y <= m
  BY <1>2
<1> HIDE DEF m
<1>5. m \in Nat /\ m <= Len(runs)
  BY <1>1, <1>4
<1>6. \A r \in DOMAIN runs : runs[r].account = a => r <= m
  BY <1>4
<1>7. \A r \in Nat : m > r => \E s \in DOMAIN runs : runs[s].account = a /\ s > r
  BY <1>4, <1>5
<1> QED BY <1>3, <1>5, <1>6, <1>7

LEMMA VoiceInitIInv ==
  ASSUME Voices!VoiceAssumption
  PROVE  Voices!Init => VoiceIInv
<1> SUFFICES ASSUME Voices!Init PROVE VoiceIInv
  OBVIOUS
<1>1. Voices!Idle \in VoicePages /\ Voices!Idle.op = "none"
  BY DEF Voices!Idle, VoicePages
<1>2. runs \in Seq(VoiceRuns) /\ DOMAIN runs = {} /\ DOMAIN threads = {} /\ Len(runs) = 0
  BY DEF Voices!Init
<1>3. [upTo |-> 0, how |-> "none"] \in VoiceWaits
  BY DEF VoiceWaits
<1>4. VoiceShapes
  BY <1>1, <1>2, <1>3 DEF Voices!Init, VoiceShapes, Voices!VoiceAssumption
<1> QED BY <1>2, <1>4 DEF Voices!Init, VoiceIInv, VoiceRunsInv, VoiceJobsInv,
           VoiceThreadsInv, VoiceWaitsInv, VoiceOutcomeInv

LEMMA InvGivesVoiceJobsHold ==
  ASSUME VoiceIInv
  PROVE  Voices!VoiceJobsHold
<1>0. \A r \in DOMAIN runs : r \in Nat /\ runs[r].account \in VoiceAccounts
  BY VoiceRunsTyped DEF VoiceIInv, VoiceRuns
<1>1. Voices!OneRunPerAccount
  BY DEF VoiceIInv, VoiceThreadsInv, Voices!OneRunPerAccount
<1>2. Voices!WaitingEnds
  <2> SUFFICES ASSUME NEW a \in VoiceAccounts
               PROVE  Voices!Running(a) <=> \E r \in DOMAIN threads : runs[r].account = a
    BY DEF Voices!WaitingEnds
  <2>1. ASSUME Voices!Running(a) PROVE \E r \in DOMAIN threads : runs[r].account = a
    BY <2>1 DEF VoiceIInv, VoiceJobsInv, Voices!Running
  <2>2. ASSUME NEW r \in DOMAIN threads, runs[r].account = a PROVE Voices!Running(a)
    BY <2>2 DEF VoiceIInv, VoiceThreadsInv, Voices!Running
  <2> QED BY <2>1, <2>2
<1>3. Voices!OutcomeTold
  <2> SUFFICES ASSUME NEW r \in DOMAIN runs, VoiceAccounted(r),
                      ~(Voices!Latest(runs[r].account) > r)
               PROVE  ~\E s \in DOMAIN runs : runs[s].account = runs[r].account /\ s > r
    BY DEF VoiceIInv, VoiceOutcomeInv, Voices!OutcomeTold, VoiceAccounted
  <2>1. Voices!Latest(runs[r].account) \in Nat /\ r \in Nat
        /\ \A s \in DOMAIN runs : runs[s].account = runs[r].account => s <= Voices!Latest(runs[r].account)
    BY <1>0, VoiceLatestIs DEF VoiceIInv
  <2> QED BY <1>0, <2>1
<1>4. Voices!DeletionWaits
  BY DEF VoiceIInv, VoiceThreadsInv, Voices!DeletionWaits
<1> QED BY <1>1, <1>2, <1>3, <1>4 DEF Voices!VoiceJobsHold

LEMMA VoiceGenerateKeeps ==
  ASSUME Voices!VoiceAssumption, VoiceIInv, NEW t \in Tabs, Voices!Generate(t)
  PROVE  VoiceIInv'
<1> DEFINE a == AccountOf[t]
           run == Len(runs) + 1
           job == [state |-> "running", started |-> voiceNow, run |-> run]
           rec == [account |-> a, row |-> row[a], began |-> voiceNow, told |-> FALSE, cut |-> FALSE,
                   clearedFor |-> 0]
<1>1. /\ Voices!SignedIn(t) /\ ~Voices!Running(a) /\ jobs' = [jobs EXCEPT ![a] = job]
      /\ threads' = [r \in DOMAIN threads \cup {run} |-> IF r = run THEN "reading" ELSE threads[r]]
      /\ runs' = Append(runs, rec) /\ UNCHANGED <<voiceNow, row, voicePage, voiceRestarts, forgotten>>
  BY DEF Voices!Generate
<1>2. /\ a \in VoiceAccounts /\ Len(runs) \in Nat /\ DOMAIN runs = 1..Len(runs) /\ voiceNow \in Nat
      /\ row[a] \in Nat \ {0} /\ row[a] <= MaxSignUps
  BY <1>1, VoiceRunsTyped DEF VoiceIInv, VoiceShapes, Voices!SignedIn,
     Voices!VoiceAssumption
<1>3. /\ job \in VoiceJobs /\ job # None /\ job.state = "running" /\ job.started = voiceNow /\ job.run = run
  BY <1>2 DEF VoiceJobs, Voices!VoiceAssumption
<1>4. /\ rec \in VoiceRuns /\ rec.account = a /\ rec.began = voiceNow /\ rec.row = row[a]
  BY <1>2 DEF VoiceRuns
<1> HIDE DEF a, job, rec
<1>5. /\ runs' \in Seq(VoiceRuns) /\ Len(runs') = run /\ DOMAIN runs' = 1..run /\ runs'[run] = rec
      /\ \A r \in DOMAIN runs : r \in DOMAIN runs' /\ runs'[r] = runs[r] /\ r # run /\ r < run
  BY <1>1, <1>2, <1>4 DEF VoiceIInv, VoiceShapes
<1>5a. \A r \in DOMAIN runs' : r = run \/ r \in DOMAIN runs
  BY <1>2, <1>5
<1>6. jobs'[a] = job /\ \A b \in VoiceAccounts : b # a => jobs'[b] = jobs[b]
  BY <1>1, <1>2 DEF VoiceIInv, VoiceShapes
<1>7. DOMAIN threads' = DOMAIN threads \cup {run}
  BY <1>1
<1> HIDE DEF run
<1>8. VoiceShapes'
  BY <1>1, <1>2, <1>3, <1>5, <1>7 DEF VoiceIInv, VoiceShapes
<1>9. VoiceRunsInv'
  BY <1>1, <1>2, <1>4, <1>5, <1>5a DEF VoiceIInv, VoiceRunsInv, VoiceShapes
<1>10. VoiceJobsInv'
  BY <1>1, <1>2, <1>3, <1>4, <1>5, <1>6, <1>7 DEF VoiceIInv, VoiceJobsInv
<1>11. VoiceThreadsInv'
  <2> SUFFICES ASSUME NEW r \in DOMAIN threads'
               PROVE  /\ jobs'[runs'[r].account] # None
                      /\ jobs'[runs'[r].account].state = "running"
                      /\ jobs'[runs'[r].account].run = r
                      /\ \/ forgotten'[runs'[r].account].how \in {"timeout", "unreached"}
                         \/ r > forgotten'[runs'[r].account].upTo
    BY DEF VoiceThreadsInv
  <2>1. CASE r = run
    <3>1. forgotten[a].upTo <= Len(runs) /\ forgotten[a].upTo \in Nat
      BY <1>2 DEF VoiceIInv, VoiceWaitsInv, VoiceShapes, VoiceWaits
    <3> QED BY <1>1, <1>2, <1>3, <1>4, <1>5, <1>6, <2>1, <3>1 DEF run
  <2>2. CASE r # run
    <3>1. r \in DOMAIN threads /\ r \in DOMAIN runs
      BY <1>7, <2>2 DEF VoiceIInv, VoiceShapes
    <3>2. runs[r].account # a /\ runs[r].account \in VoiceAccounts
      BY <1>1, <3>1, VoiceRunsTyped DEF VoiceIInv, VoiceThreadsInv, Voices!Running,
         VoiceRuns
    <3> QED BY <1>1, <1>5, <1>6, <3>1, <3>2 DEF VoiceIInv, VoiceThreadsInv
  <2> QED BY <2>1, <2>2
<1>12. VoiceWaitsInv'
  <2>1. \A b \in VoiceAccounts : forgotten[b].upTo \in Nat
    BY DEF VoiceIInv, VoiceShapes, VoiceWaits
  <2> QED BY <1>1, <1>2, <1>5, <2>1 DEF VoiceIInv, VoiceWaitsInv, run
<1>13. VoiceOutcomeInv'
  <2> SUFFICES ASSUME NEW r \in DOMAIN runs' PROVE VoiceAccounted(r)'
    BY DEF VoiceOutcomeInv
  <2>1. CASE r = run
    BY <1>7, <2>1 DEF VoiceAccounted
  <2>2. ASSUME r # run, runs[r].account = a PROVE VoiceAccounted(r)'
    <3>1. run \in DOMAIN runs' /\ runs'[run].account = a /\ run > r /\ runs'[r].account = a
      BY <1>2, <1>4, <1>5, <1>5a, <2>2 DEF run
    <3> QED BY <3>1 DEF VoiceAccounted
  <2>3. ASSUME r # run, runs[r].account # a PROVE VoiceAccounted(r)'
    <3>1. r \in DOMAIN runs /\ runs'[r] = runs[r] /\ runs[r].account \in VoiceAccounts
      BY <1>5, <1>5a, <2>3, VoiceRunsTyped DEF VoiceIInv, VoiceRuns
    <3>2. VoiceAccounted(r)
      BY <3>1 DEF VoiceIInv, VoiceOutcomeInv
    <3>3. (\E s \in DOMAIN runs : runs[s].account = runs[r].account /\ s > r)
            => \E s \in DOMAIN runs' : runs'[s].account = runs'[r].account /\ s > r
      BY <1>5, <3>1
    <3>4. jobs'[runs[r].account] = jobs[runs[r].account]
      BY <1>6, <2>3, <3>1
    <3> QED BY <1>1, <1>7, <3>1, <3>2, <3>3, <3>4 DEF VoiceAccounted
  <2> QED BY <2>1, <2>2, <2>3
<1> QED BY <1>8, <1>9, <1>10, <1>11, <1>12, <1>13 DEF VoiceIInv

\* A step that leaves the runs alone, and takes from the table only jobs that
\* do not run and whose runs are accounted for without it.
LEMMA VoiceTableKeeps ==
  ASSUME Voices!VoiceAssumption, VoiceIInv, UNCHANGED <<voiceNow, row, threads, runs, forgotten>>,
         jobs' \in [VoiceAccounts -> VoiceJobs \cup {None}],
         \A a \in VoiceAccounts : \/ jobs'[a] = jobs[a]
                                  \/ jobs'[a] = None /\ ~Voices!Running(a),
         \A r \in DOMAIN runs : VoiceAccounted(r)',
         voicePage' \in [Tabs -> VoicePages],
         \A t \in Tabs : voicePage'[t].op = "ask" => voicePage'[t].seen \in Nat \ {0}
  PROVE  VoiceIInv'
<1>1. VoiceShapes' /\ VoiceRunsInv' /\ VoiceWaitsInv' /\ VoiceOutcomeInv'
  BY DEF VoiceIInv, VoiceShapes, VoiceRunsInv, VoiceWaitsInv, VoiceOutcomeInv
<1>2. VoiceJobsInv'
  BY DEF VoiceIInv, VoiceJobsInv
<1>3. VoiceThreadsInv'
  <2>1. \A r \in DOMAIN threads : runs[r].account \in VoiceAccounts
    BY VoiceRunsTyped DEF VoiceIInv, VoiceShapes, VoiceRuns
  <2> QED BY <2>1 DEF VoiceIInv, VoiceThreadsInv, Voices!Running
<1> QED BY <1>1, <1>2, <1>3 DEF VoiceIInv

LEMMA VoiceAskKeeps ==
  ASSUME Voices!VoiceAssumption, VoiceIInv, NEW t \in Tabs, Voices!Ask(t)
  PROVE  VoiceIInv'
<1>1. /\ jobs' = Voices!PruneFinished(jobs)
             /\ UNCHANGED <<voiceNow, row, threads, voiceRestarts, runs, forgotten>>
  BY DEF Voices!Ask
<1>2. /\ jobs' \in [VoiceAccounts -> VoiceJobs \cup {None}]
      /\ \A a \in VoiceAccounts : \/ jobs'[a] = jobs[a]
                                  \/ jobs'[a] = None /\ ~Voices!Running(a) /\ Voices!Old(jobs[a])
  BY <1>1 DEF Voices!PruneFinished, Voices!Running, Voices!Old, VoiceIInv, VoiceShapes
<1>3. PICK reply \in {jobs'[AccountOf[t]], None} :
        voicePage' = [voicePage EXCEPT ![t] = IF reply = None \/ reply.state = "running" THEN Voices!Idle
                                              ELSE [op |-> "ask", seen |-> reply.run, since |-> 0]]
  BY DEF Voices!Ask
<1>4. AccountOf[t] \in VoiceAccounts
  BY DEF Voices!VoiceAssumption
<1>5. reply # None => reply.run \in Nat \ {0}
  <2>1. reply # None => reply.run \in DOMAIN runs
    BY <1>2, <1>3, <1>4 DEF VoiceIInv, VoiceJobsInv
  <2> QED BY <2>1, VoiceRunsTyped DEF VoiceIInv
<1>6. Voices!Idle \in VoicePages /\ Voices!Idle.op = "none"
  BY DEF Voices!Idle, VoicePages
<1>7. reply # None => /\ [op |-> "ask", seen |-> reply.run, since |-> 0] \in VoicePages
                      /\ [op |-> "ask", seen |-> reply.run, since |-> 0].seen \in Nat \ {0}
  BY <1>5 DEF VoicePages
<1>8. /\ voicePage' \in [Tabs -> VoicePages]
      /\ \A u \in Tabs : voicePage'[u].op = "ask" => voicePage'[u].seen \in Nat \ {0}
  BY <1>3, <1>6, <1>7 DEF VoiceIInv, VoiceShapes
<1>9. ASSUME NEW r \in DOMAIN runs PROVE VoiceAccounted(r)'
  <2>1. VoiceAccounted(r) /\ runs[r].account \in VoiceAccounts /\ runs[r].began \in Nat /\ voiceNow \in Nat
        /\ JOB_RETENTION \in Nat
    BY VoiceRunsTyped DEF VoiceIInv, VoiceOutcomeInv, VoiceRuns, VoiceShapes,
       Voices!VoiceAssumption
  <2> DEFINE a == runs[r].account
  <2>2. CASE jobs'[a] = jobs[a]
    BY <1>1, <2>1, <2>2 DEF VoiceAccounted
  <2>3. CASE jobs[a] # None /\ jobs[a].run = r /\ Voices!Old(jobs[a])
    <3>1. runs[r].began <= jobs[a].started /\ jobs[a].started \in Nat
      BY <2>1, <2>3 DEF VoiceIInv, VoiceJobsInv, VoiceShapes, VoiceJobs
    <3>2. voiceNow - runs[r].began > JOB_RETENTION
      BY <2>1, <2>3, <3>1 DEF Voices!Old
    <3> QED BY <1>1, <3>2 DEF VoiceAccounted
  <2>4. CASE jobs[a] = None \/ jobs[a].run # r
    BY <1>1, <2>1, <2>4 DEF VoiceAccounted
  <2> QED BY <1>2, <2>1, <2>2, <2>3, <2>4
<1> QED BY <1>1, <1>2, <1>8, <1>9, VoiceTableKeeps

LEMMA VoiceRenderKeeps ==
  ASSUME Voices!VoiceAssumption, VoiceIInv, NEW t \in Tabs, Voices!Render(t)
  PROVE  VoiceIInv'
<1> DEFINE a == AccountOf[t]
           shownRun == voicePage[t].seen
           clears(r) == jobs[a] # jobs'[a] /\ jobs[a].run = r
           after(r) == [runs[r] EXCEPT !.told = @ \/ r = shownRun,
                                       !.clearedFor = IF clears(r) THEN shownRun ELSE @]
<1>1. /\ voicePage[t].op = "ask" /\ voicePage' = [voicePage EXCEPT ![t] = Voices!Idle]
      /\ jobs' \in {jobs, Voices!ClearStatus(jobs, a)}
      /\ runs' = [r \in DOMAIN runs |-> after(r)]
      /\ UNCHANGED <<voiceNow, row, threads, voiceRestarts, forgotten>>
  BY DEF Voices!Render
<1>2. a \in VoiceAccounts /\ shownRun \in Nat \ {0}
  BY <1>1 DEF VoiceIInv, VoiceShapes, Voices!VoiceAssumption
<1>3. ASSUME NEW r \in DOMAIN runs
      PROVE  /\ after(r) \in VoiceRuns /\ after(r).account = runs[r].account
             /\ after(r).row = runs[r].row /\ after(r).began = runs[r].began
             /\ after(r).cut = runs[r].cut
             /\ runs[r].told \/ r = shownRun => after(r).told
             /\ after(r).clearedFor = IF clears(r) THEN shownRun ELSE runs[r].clearedFor
  <2>1. runs[r] \in VoiceRuns /\ r \in Nat
    BY VoiceRunsTyped DEF VoiceIInv
  <2> DEFINE b == runs[r].told \/ r = shownRun
             c == IF clears(r) THEN shownRun ELSE runs[r].clearedFor
  <2>2. b \in BOOLEAN
    BY Zenon
  <2>3. c \in Nat
    BY <1>2, <2>1 DEF VoiceRuns
  <2>4. after(r) = [runs[r] EXCEPT !.told = b, !.clearedFor = c]
    BY <2>1 DEF VoiceRuns
  <2> HIDE DEF b, c, after
  <2>5. /\ after(r) \in VoiceRuns /\ after(r).account = runs[r].account
        /\ after(r).row = runs[r].row /\ after(r).began = runs[r].began
        /\ after(r).cut = runs[r].cut /\ after(r).clearedFor = c
    BY <2>1, <2>2, <2>3, <2>4 DEF VoiceRuns
  <2>6. after(r).told = b
    BY <2>1, <2>2, <2>3, <2>4 DEF VoiceRuns
  <2>7. runs[r].told \/ r = shownRun => after(r).told
    BY <2>6, Zenon DEF b
  <2> QED BY <2>5, <2>7 DEF c
<1> HIDE DEF after
<1>4. /\ runs' \in Seq(VoiceRuns) /\ DOMAIN runs' = DOMAIN runs /\ Len(runs') = Len(runs)
      /\ \A r \in DOMAIN runs : runs'[r] = after(r)
  <2>1. Len(runs) \in Nat /\ DOMAIN runs = 1..Len(runs)
    BY VoiceRunsTyped DEF VoiceIInv
  <2>2. DOMAIN runs' = DOMAIN runs /\ \A r \in DOMAIN runs : runs'[r] = after(r)
    BY <1>1
  <2>3. runs' \in [1..Len(runs) -> VoiceRuns]
    BY <1>1, <1>3, <2>1
  <2>4. runs' \in Seq(VoiceRuns)
    BY <2>1, <2>3, SeqDef
  <2> QED BY <2>1, <2>2, <2>3, <2>4, LenProperties
<1>5. /\ jobs' \in [VoiceAccounts -> VoiceJobs \cup {None}]
      /\ \A b \in VoiceAccounts : \/ jobs'[b] = jobs[b]
                                  \/ jobs'[b] = None /\ b = a /\ ~Voices!Running(b)
  BY <1>1 DEF Voices!ClearStatus, Voices!Running, VoiceIInv, VoiceShapes
<1>6. VoiceShapes'
  <2>1. Voices!Idle \in VoicePages /\ Voices!Idle.op = "none"
    BY DEF Voices!Idle, VoicePages
  <2> QED BY <1>1, <1>4, <1>5, <2>1 DEF VoiceIInv, VoiceShapes
<1>7. VoiceRunsInv' /\ VoiceWaitsInv'
  BY <1>1, <1>3, <1>4 DEF VoiceIInv, VoiceRunsInv, VoiceWaitsInv
<1>8. VoiceJobsInv'
  BY <1>1, <1>3, <1>4, <1>5 DEF VoiceIInv, VoiceJobsInv
<1>9. VoiceThreadsInv'
  <2>1. \A r \in DOMAIN threads : r \in DOMAIN runs /\ runs[r].account \in VoiceAccounts
    BY VoiceRunsTyped DEF VoiceIInv, VoiceShapes, VoiceRuns
  <2> QED BY <1>1, <1>3, <1>4, <1>5, <2>1 DEF VoiceIInv, VoiceThreadsInv, Voices!Running
<1>10. VoiceOutcomeInv'
  <2> SUFFICES ASSUME NEW r \in DOMAIN runs PROVE VoiceAccounted(r)'
    BY <1>4 DEF VoiceOutcomeInv
  <2>1. VoiceAccounted(r) /\ runs[r].account \in VoiceAccounts /\ r \in Nat
    BY VoiceRunsTyped DEF VoiceIInv, VoiceOutcomeInv, VoiceRuns
  <2>2. CASE r = shownRun
    BY <1>3, <1>4, <2>2 DEF VoiceAccounted
  <2>3. CASE r # shownRun /\ clears(r)
    BY <1>2, <1>3, <1>4, <2>3 DEF VoiceAccounted
  <2>4. CASE r # shownRun /\ ~clears(r)
    <3>1. /\ runs'[r].account = runs[r].account /\ runs'[r].row = runs[r].row
          /\ runs'[r].began = runs[r].began /\ runs'[r].cut = runs[r].cut
          /\ runs[r].told => runs'[r].told
          /\ runs'[r].clearedFor = runs[r].clearedFor
      BY <1>3, <1>4, <2>4
    <3>2. (\E s \in DOMAIN runs : runs[s].account = runs[r].account /\ s > r)
            => \E s \in DOMAIN runs' : runs'[s].account = runs'[r].account /\ s > r
      BY <1>3, <1>4
    <3>3. (jobs[runs[r].account] # None /\ jobs[runs[r].account].run = r)
            => (jobs'[runs[r].account] # None /\ jobs'[runs[r].account].run = r)
      BY <1>5, <2>1, <2>4
    <3> QED BY <1>1, <2>1, <3>1, <3>2, <3>3 DEF VoiceAccounted
  <2> QED BY <2>2, <2>3, <2>4
<1> QED BY <1>6, <1>7, <1>8, <1>9, <1>10 DEF VoiceIInv

\* A step of a run's thread that leaves the table alone.
LEMMA VoiceThreadKeeps ==
  ASSUME VoiceIInv, DOMAIN threads' = DOMAIN threads,
         UNCHANGED <<voiceNow, row, jobs, voicePage, voiceRestarts, runs, forgotten>>
  PROVE  VoiceIInv'
<1>1. \A r : VoiceAccounted(r) => VoiceAccounted(r)'
  BY DEF VoiceAccounted
<1> QED BY <1>1 DEF VoiceIInv, VoiceShapes, VoiceRunsInv, VoiceJobsInv,
           VoiceThreadsInv, VoiceWaitsInv, VoiceOutcomeInv

LEMMA VoiceFinishKeeps ==
  ASSUME Voices!VoiceAssumption, VoiceIInv, NEW r \in DOMAIN threads, Voices!Finish(r)
  PROVE  VoiceIInv'
<1> DEFINE a == runs[r].account
<1>1. PICK state \in {"done", "failed"} :
        jobs' = [jobs EXCEPT ![a] = [state |-> state, run |-> r,
                   started |-> IF @ = None THEN voiceNow ELSE @.started]]
  BY DEF Voices!Finish
<1>2. /\ threads' = [x \in DOMAIN threads \ {r} |-> threads[x]]
      /\ UNCHANGED <<voiceNow, row, voicePage, voiceRestarts, runs, forgotten>>
  BY DEF Voices!Finish
<1>3. /\ r \in DOMAIN runs /\ r \in Nat /\ a \in VoiceAccounts /\ jobs[a] # None /\ jobs[a] \in VoiceJobs
      /\ jobs[a].run = r
  BY VoiceRunsTyped DEF VoiceIInv, VoiceShapes, VoiceRuns, VoiceThreadsInv
<1> DEFINE job == [state |-> state, run |-> r, started |-> jobs[a].started]
<1>4. jobs' = [jobs EXCEPT ![a] = job]
  BY <1>1, <1>3
<1>5. /\ job \in VoiceJobs /\ job # None /\ job.state # "running" /\ job.run = r
      /\ job.started = jobs[a].started
  BY <1>3 DEF VoiceJobs, Voices!VoiceAssumption
<1> HIDE DEF job
<1>6. jobs'[a] = job /\ \A b \in VoiceAccounts : b # a => jobs'[b] = jobs[b]
  BY <1>3, <1>4 DEF VoiceIInv, VoiceShapes
<1>7. DOMAIN threads' = DOMAIN threads \ {r}
  BY <1>2
<1>8. VoiceShapes'
  BY <1>2, <1>4, <1>5, <1>7 DEF VoiceIInv, VoiceShapes
<1>9. VoiceRunsInv' /\ VoiceWaitsInv'
  BY <1>2 DEF VoiceIInv, VoiceRunsInv, VoiceWaitsInv
<1>10. VoiceJobsInv'
  <2> SUFFICES ASSUME NEW b \in VoiceAccounts, jobs'[b] # None
               PROVE  /\ jobs'[b].run \in DOMAIN runs /\ runs[jobs'[b].run].account = b
                      /\ runs[jobs'[b].run].began <= jobs'[b].started
                      /\ jobs'[b].started <= voiceNow
                      /\ jobs'[b].state = "running" => jobs'[b].run \in DOMAIN threads'
    BY <1>2 DEF VoiceJobsInv
  <2>1. CASE b = a
    BY <1>3, <1>5, <1>6, <2>1 DEF VoiceIInv, VoiceJobsInv
  <2>2. CASE b # a
    BY <1>3, <1>6, <1>7, <2>2 DEF VoiceIInv, VoiceJobsInv
  <2> QED BY <2>1, <2>2
<1>11. VoiceThreadsInv'
  <2> SUFFICES ASSUME NEW s \in DOMAIN threads, s # r
               PROVE  /\ jobs'[runs[s].account] # None
                      /\ jobs'[runs[s].account].state = "running"
                      /\ jobs'[runs[s].account].run = s
                      /\ \/ forgotten[runs[s].account].how \in {"timeout", "unreached"}
                         \/ s > forgotten[runs[s].account].upTo
    BY <1>2, <1>7 DEF VoiceThreadsInv
  <2>1. runs[s].account \in VoiceAccounts /\ s \in DOMAIN runs
    BY VoiceRunsTyped DEF VoiceIInv, VoiceShapes, VoiceRuns
  <2>2. runs[s].account # a
    BY <1>3 DEF VoiceIInv, VoiceThreadsInv
  <2> QED BY <1>6, <2>1, <2>2 DEF VoiceIInv, VoiceThreadsInv
<1>12. VoiceOutcomeInv'
  <2> SUFFICES ASSUME NEW s \in DOMAIN runs PROVE VoiceAccounted(s)'
    BY <1>2 DEF VoiceOutcomeInv
  <2>1. VoiceAccounted(s) /\ runs[s].account \in VoiceAccounts
    BY VoiceRunsTyped DEF VoiceIInv, VoiceOutcomeInv, VoiceRuns
  <2>2. CASE s = r
    BY <1>2, <1>5, <1>6, <2>2 DEF VoiceAccounted
  <2>3. CASE s # r
    <3>1. (jobs[runs[s].account] # None /\ jobs[runs[s].account].run = s)
            => (jobs'[runs[s].account] # None /\ jobs'[runs[s].account].run = s)
      BY <1>3, <1>6, <2>1, <2>3
    <3>2. s \in DOMAIN threads => s \in DOMAIN threads'
      BY <1>7, <2>3
    <3> QED BY <1>2, <2>1, <3>1, <3>2 DEF VoiceAccounted
  <2> QED BY <2>2, <2>3
<1> QED BY <1>8, <1>9, <1>10, <1>11, <1>12 DEF VoiceIInv

LEMMA VoiceRunKeeps ==
  ASSUME Voices!VoiceAssumption, VoiceIInv, NEW r \in DOMAIN threads, Voices!Run(r)
  PROVE  VoiceIInv'
<1>1. CASE Voices!Collect(r)
  BY <1>1, VoiceThreadKeeps DEF Voices!Collect, Voices!GoesTo
<1>2. CASE Voices!Synthesize(r)
  BY <1>2, VoiceThreadKeeps DEF Voices!Synthesize, Voices!GoesTo
<1>3. CASE Voices!Save(r, "writing", "pointing") \/ Voices!Save(r, "pointing", "done")
  BY <1>3, VoiceThreadKeeps DEF Voices!Save, Voices!GoesTo
<1>4. CASE Voices!Finish(r)
  BY <1>4, VoiceFinishKeeps
<1> QED BY <1>1, <1>2, <1>3, <1>4 DEF Voices!Run

LEMMA VoiceBeginDeleteKeeps ==
  ASSUME Voices!VoiceAssumption, VoiceIInv, NEW t \in Tabs, Voices!BeginDelete(t)
  PROVE  VoiceIInv'
<1> DEFINE wait == [op |-> "delete", seen |-> None, since |-> voiceNow]
<1>1. /\ voicePage' = [voicePage EXCEPT ![t] = wait]
      /\ UNCHANGED <<voiceNow, row, jobs, threads, voiceRestarts, runs, forgotten>>
  BY DEF Voices!BeginDelete
<1>2. wait \in VoicePages /\ wait.op # "ask"
  BY DEF VoicePages, VoiceIInv, VoiceShapes
<1> HIDE DEF wait
<1>3. /\ voicePage' \in [Tabs -> VoicePages]
      /\ \A u \in Tabs : voicePage'[u].op = "ask" => voicePage'[u].seen \in Nat \ {0}
  BY <1>1, <1>2 DEF VoiceIInv, VoiceShapes
<1>4. \A r \in DOMAIN runs : VoiceAccounted(r)'
  BY <1>1 DEF VoiceIInv, VoiceOutcomeInv, VoiceAccounted
<1>5. jobs' \in [VoiceAccounts -> VoiceJobs \cup {None}]
  BY <1>1 DEF VoiceIInv, VoiceShapes
<1> QED BY <1>1, <1>3, <1>4, <1>5, VoiceTableKeeps

LEMMA VoiceForgetKeeps ==
  ASSUME Voices!VoiceAssumption, VoiceIInv, NEW t \in Tabs, Voices!Forget(t)
  PROVE  VoiceIInv'
<1> DEFINE a == AccountOf[t]
<1>1. PICK how \in {"finished", "timeout", "unreached"} :
        /\ IF how = "unreached" THEN jobs' \in {jobs, Voices!ClearStatus(jobs,
                   a)} ELSE Voices!AwaitJob(t, how)
        /\ forgotten' = [forgotten EXCEPT ![a] = [upTo |-> Voices!Latest(a), how |-> how]]
  BY DEF Voices!Forget
<1>2. /\ voicePage' = [voicePage EXCEPT ![t].op = "remove", ![t].since = 0]
      /\ UNCHANGED <<voiceNow, row, threads, voiceRestarts, runs>>
  BY DEF Voices!Forget
<1>3. a \in VoiceAccounts
  BY DEF Voices!VoiceAssumption
<1>4. /\ Voices!Latest(a) \in Nat /\ Voices!Latest(a) <= Len(runs)
      /\ \A r \in DOMAIN runs : runs[r].account = a => r <= Voices!Latest(a)
  BY VoiceLatestIs DEF VoiceIInv
<1> DEFINE wait == [upTo |-> Voices!Latest(a), how |-> how]
<1>5. wait \in VoiceWaits /\ wait.upTo = Voices!Latest(a) /\ wait.how = how
  BY <1>4 DEF VoiceWaits
<1> HIDE DEF wait
<1>6. /\ forgotten' = [forgotten EXCEPT ![a] = wait] /\ forgotten'[a] = wait
      /\ forgotten' \in [VoiceAccounts -> VoiceWaits]
      /\ \A b \in VoiceAccounts : b # a => forgotten'[b] = forgotten[b]
  BY <1>1, <1>3, <1>5 DEF wait, VoiceIInv, VoiceShapes
<1>7. /\ jobs' \in [VoiceAccounts -> VoiceJobs \cup {None}]
      /\ \A b \in VoiceAccounts : \/ jobs'[b] = jobs[b]
                                  \/ jobs'[b] = None /\ b = a /\ ~Voices!Running(b)
      /\ how = "finished" => ~Voices!Running(a)
  BY <1>1, <1>3 DEF Voices!ClearStatus, Voices!AwaitJob, Voices!Running, VoiceIInv,
     VoiceShapes
<1>8. /\ voicePage' \in [Tabs -> VoicePages]
      /\ \A u \in Tabs : voicePage'[u].op = "ask" => voicePage'[u].seen \in Nat \ {0}
  BY <1>2 DEF VoiceIInv, VoiceShapes, VoicePages
<1>9. VoiceShapes'
  BY <1>2, <1>6, <1>7, <1>8 DEF VoiceIInv, VoiceShapes
<1>10. VoiceRunsInv'
  BY <1>2 DEF VoiceIInv, VoiceRunsInv
<1>11. VoiceJobsInv'
  BY <1>2, <1>7 DEF VoiceIInv, VoiceJobsInv
<1>12. VoiceThreadsInv'
  <2> SUFFICES ASSUME NEW r \in DOMAIN threads
               PROVE  /\ jobs'[runs[r].account] # None
                      /\ jobs'[runs[r].account].state = "running"
                      /\ jobs'[runs[r].account].run = r
                      /\ \/ forgotten'[runs[r].account].how \in {"timeout", "unreached"}
                         \/ r > forgotten'[runs[r].account].upTo
    BY <1>2 DEF VoiceThreadsInv
  <2>1. runs[r].account \in VoiceAccounts /\ Voices!Running(runs[r].account)
    BY VoiceRunsTyped DEF VoiceIInv, VoiceShapes, VoiceRuns, VoiceThreadsInv,
       Voices!Running
  <2>2. CASE runs[r].account = a
    BY <1>5, <1>6, <1>7, <2>1, <2>2 DEF VoiceIInv, VoiceThreadsInv
  <2>3. CASE runs[r].account # a
    BY <1>6, <1>7, <2>1, <2>3 DEF VoiceIInv, VoiceThreadsInv
  <2> QED BY <2>2, <2>3
<1>13. VoiceWaitsInv'
  BY <1>2, <1>4, <1>5, <1>6 DEF VoiceIInv, VoiceWaitsInv
<1>14. VoiceOutcomeInv'
  <2> SUFFICES ASSUME NEW r \in DOMAIN runs PROVE VoiceAccounted(r)'
    BY <1>2 DEF VoiceOutcomeInv
  <2>1. VoiceAccounted(r) /\ runs[r].account \in VoiceAccounts /\ r \in Nat
    BY VoiceRunsTyped DEF VoiceIInv, VoiceOutcomeInv, VoiceRuns
  <2>2. CASE runs[r].account = a
    <3>1. forgotten'[a].upTo >= r
      BY <1>4, <1>5, <1>6, <2>1, <2>2
    <3> QED BY <1>2, <2>2, <3>1 DEF VoiceAccounted
  <2>3. CASE runs[r].account # a
    BY <1>2, <1>6, <1>7, <2>1, <2>3 DEF VoiceAccounted
  <2> QED BY <2>2, <2>3
<1> QED BY <1>9, <1>10, <1>11, <1>12, <1>13, <1>14 DEF VoiceIInv

LEMMA VoiceRemoveKeeps ==
  ASSUME Voices!VoiceAssumption, VoiceIInv, NEW t \in Tabs, Voices!Remove(t)
  PROVE  VoiceIInv'
<1>1. /\ row' = [row EXCEPT ![AccountOf[t]] = 0] /\ voicePage' = [voicePage EXCEPT ![t] = Voices!Idle]
      /\ UNCHANGED <<voiceNow, jobs, threads, voiceRestarts, runs, forgotten>>
  BY DEF Voices!Remove
<1>2. Voices!Idle \in VoicePages /\ Voices!Idle.op = "none"
  BY DEF Voices!Idle, VoicePages
<1>3. MaxSignUps \in Nat /\ AccountOf[t] \in VoiceAccounts
  BY DEF Voices!VoiceAssumption
<1>4. VoiceShapes'
  BY <1>1, <1>2, <1>3 DEF VoiceIInv, VoiceShapes
<1>5. VoiceRunsInv' /\ VoiceJobsInv' /\ VoiceThreadsInv' /\ VoiceWaitsInv'
  BY <1>1 DEF VoiceIInv, VoiceRunsInv, VoiceJobsInv, VoiceThreadsInv, VoiceWaitsInv
<1>6. VoiceOutcomeInv'
  <2> SUFFICES ASSUME NEW r \in DOMAIN runs PROVE VoiceAccounted(r)'
    BY <1>1 DEF VoiceOutcomeInv
  <2>1. VoiceAccounted(r) /\ runs[r].account \in VoiceAccounts /\ runs[r].row # 0
    BY VoiceRunsTyped DEF VoiceIInv, VoiceOutcomeInv, VoiceRuns
  <2>2. row'[runs[r].account] = row[runs[r].account] \/ row'[runs[r].account] = 0
    BY <1>1, <1>3, <2>1 DEF VoiceIInv, VoiceShapes
  <2> QED BY <1>1, <2>1, <2>2 DEF VoiceAccounted
<1> QED BY <1>4, <1>5, <1>6 DEF VoiceIInv

LEMMA VoiceSignUpKeeps ==
  ASSUME Voices!VoiceAssumption, VoiceIInv, NEW a \in VoiceAccounts, Voices!SignUp(a)
  PROVE  VoiceIInv'
<1> DEFINE T == Voices!SignUps(a)
           m == Voices!Max(T)
<1>1. /\ m < MaxSignUps /\ row' = [row EXCEPT ![a] = m + 1]
      /\ UNCHANGED <<voiceNow, jobs, threads, voicePage, voiceRestarts, runs, forgotten>>
  BY DEF Voices!SignUp
<1>2. MaxSignUps \in Nat \ {0}
  BY DEF Voices!VoiceAssumption
<1>3. T \subseteq 0..MaxSignUps /\ T # {}
  BY <1>2, VoiceRunsTyped DEF Voices!SignUps, VoiceIInv, VoiceRunsInv, VoiceRuns
<1>4. m \in T /\ \A y \in T : y <= m
  BY <1>2, <1>3, VoiceMaxIs
<1> HIDE DEF m
<1>5. m \in Nat /\ m + 1 \in 0..MaxSignUps
  BY <1>1, <1>2, <1>3, <1>4
<1>6. VoiceShapes'
  BY <1>1, <1>5 DEF VoiceIInv, VoiceShapes
<1>7. VoiceRunsInv' /\ VoiceJobsInv' /\ VoiceThreadsInv' /\ VoiceWaitsInv'
  BY <1>1 DEF VoiceIInv, VoiceRunsInv, VoiceJobsInv, VoiceThreadsInv, VoiceWaitsInv
<1>8. VoiceOutcomeInv'
  <2> SUFFICES ASSUME NEW r \in DOMAIN runs PROVE VoiceAccounted(r)'
    BY <1>1 DEF VoiceOutcomeInv
  <2>1. VoiceAccounted(r) /\ runs[r].account \in VoiceAccounts /\ runs[r].row \in Nat
    BY VoiceRunsTyped DEF VoiceIInv, VoiceOutcomeInv, VoiceRuns
  <2>2. CASE runs[r].account = a
    <3>1. runs[r].row \in T
      BY <2>2 DEF Voices!SignUps
    <3>2. row'[a] = m + 1
      BY <1>1 DEF VoiceIInv, VoiceShapes
    <3>3. row'[a] # runs[r].row
      BY <1>4, <1>5, <2>1, <3>1, <3>2
    <3> QED BY <1>1, <2>2, <3>3 DEF VoiceAccounted
  <2>3. CASE runs[r].account # a
    <3>1. row'[runs[r].account] = row[runs[r].account]
      BY <1>1, <2>1, <2>3 DEF VoiceIInv, VoiceShapes
    <3> QED BY <1>1, <2>1, <3>1 DEF VoiceAccounted
  <2> QED BY <2>2, <2>3
<1> QED BY <1>6, <1>7, <1>8 DEF VoiceIInv

LEMMA VoiceRestartKeeps ==
  ASSUME Voices!VoiceAssumption, VoiceIInv, Voices!Restart
  PROVE  VoiceIInv'
<1> DEFINE after(r) == [runs[r] EXCEPT !.cut = TRUE]
<1>1. /\ jobs' = [a \in VoiceAccounts |-> None] /\ threads' = <<>>
      /\ runs' = [r \in DOMAIN runs |-> after(r)]
      /\ UNCHANGED <<voiceNow, row, voicePage, forgotten>>
  BY DEF Voices!Restart
<1>2. \A r \in DOMAIN runs : /\ after(r) \in VoiceRuns /\ after(r).began = runs[r].began
                             /\ after(r).row = runs[r].row /\ after(r).cut
  BY VoiceRunsTyped DEF VoiceIInv, VoiceRuns
<1> HIDE DEF after
<1>3. /\ runs' \in Seq(VoiceRuns) /\ DOMAIN runs' = DOMAIN runs /\ Len(runs') = Len(runs)
      /\ \A r \in DOMAIN runs : runs'[r] = after(r)
  <2>1. Len(runs) \in Nat /\ DOMAIN runs = 1..Len(runs)
    BY VoiceRunsTyped DEF VoiceIInv
  <2>2. DOMAIN runs' = DOMAIN runs /\ \A r \in DOMAIN runs : runs'[r] = after(r)
    BY <1>1
  <2>3. runs' \in [1..Len(runs) -> VoiceRuns]
    BY <1>1, <1>2, <2>1
  <2>4. runs' \in Seq(VoiceRuns)
    BY <2>1, <2>3, SeqDef
  <2> QED BY <2>1, <2>2, <2>3, <2>4, LenProperties
<1>4. DOMAIN threads' = {}
  BY <1>1
<1>5. VoiceShapes'
  BY <1>1, <1>3, <1>4 DEF VoiceIInv, VoiceShapes
<1>6. VoiceRunsInv' /\ VoiceJobsInv' /\ VoiceThreadsInv' /\ VoiceWaitsInv'
  BY <1>1, <1>2, <1>3, <1>4 DEF VoiceIInv, VoiceRunsInv, VoiceJobsInv, VoiceThreadsInv,
     VoiceWaitsInv
<1>7. VoiceOutcomeInv'
  BY <1>2, <1>3 DEF VoiceOutcomeInv, VoiceAccounted
<1> QED BY <1>5, <1>6, <1>7 DEF VoiceIInv

LEMMA VoiceTickKeeps ==
  ASSUME Voices!VoiceAssumption, VoiceIInv, Voices!Tick
  PROVE  VoiceIInv'
<1>1. /\ voiceNow' = voiceNow + 1 /\ voiceNow \in Nat
      /\ UNCHANGED <<row, jobs, threads, voicePage, voiceRestarts, runs, forgotten>>
  BY DEF Voices!Tick, VoiceIInv, VoiceShapes
<1>2. VoiceShapes' /\ VoiceThreadsInv' /\ VoiceWaitsInv'
  BY <1>1 DEF VoiceIInv, VoiceShapes, VoiceThreadsInv, VoiceWaitsInv
<1>3. VoiceRunsInv'
  BY <1>1, VoiceRunsTyped DEF VoiceIInv, VoiceRunsInv, VoiceRuns
<1>4. VoiceJobsInv'
  <2>1. \A a \in VoiceAccounts : jobs[a] # None => jobs[a].started \in Nat
    BY DEF VoiceIInv, VoiceShapes, VoiceJobs
  <2> QED BY <1>1, <2>1 DEF VoiceIInv, VoiceJobsInv
<1>5. VoiceOutcomeInv'
  <2> SUFFICES ASSUME NEW r \in DOMAIN runs PROVE VoiceAccounted(r)'
    BY <1>1 DEF VoiceOutcomeInv
  <2>1. VoiceAccounted(r) /\ runs[r].began \in Nat /\ JOB_RETENTION \in Nat
    BY VoiceRunsTyped DEF VoiceIInv, VoiceOutcomeInv, VoiceRuns, Voices!VoiceAssumption
  <2> QED BY <1>1, <2>1 DEF VoiceAccounted
<1> QED BY <1>2, <1>3, <1>4, <1>5 DEF VoiceIInv

LEMMA VoiceStepIInv ==
  ASSUME Voices!VoiceAssumption
  PROVE  VoiceIInv /\ [Voices!Next]_(Voices!vars) => VoiceIInv'
<1> SUFFICES ASSUME VoiceIInv, [Voices!Next]_(Voices!vars) PROVE VoiceIInv'
  OBVIOUS
<1>1. ASSUME NEW t \in Tabs, Voices!Serve(t) PROVE VoiceIInv'
  BY <1>1, VoiceGenerateKeeps, VoiceAskKeeps, VoiceRenderKeeps, VoiceBeginDeleteKeeps,
     VoiceForgetKeeps, VoiceRemoveKeeps DEF Voices!Serve
<1>2. ASSUME NEW r \in DOMAIN threads, Voices!Run(r) PROVE VoiceIInv'
  BY <1>2, VoiceRunKeeps
<1>3. ASSUME NEW a \in VoiceAccounts, Voices!SignUp(a) PROVE VoiceIInv'
  BY <1>3, VoiceSignUpKeeps
<1>4. CASE Voices!Restart
  BY <1>4, VoiceRestartKeeps
<1>5. CASE Voices!Tick
  BY <1>5, VoiceTickKeeps
<1>6. CASE UNCHANGED Voices!vars
  BY <1>6, VoiceThreadKeeps DEF Voices!vars
<1> QED BY <1>1, <1>2, <1>3, <1>4, <1>5, <1>6 DEF Voices!Next

-----------------------------------------------------------------------------
\* Where `part` is this component's, its steps are the only ones; elsewhere its
\* variables stand still.
LEMMA VoiceIsAPart == Spec => Voices!Spec
<1>1. Init => Voices!Init
  BY DEF Init
<1>2. [Next]_vars => [Voices!Next]_(Voices!vars)
  BY DEF Next, vars, voiceVars, Voices!vars
<1> QED BY <1>1, <1>2, PTL DEF Spec, Voices!Spec

\* For any accounts and tabs: one run per account, a page that waits waits for a
\* thread, an outcome leaves the table only for a named reason, and a deletion
\* leaves no run behind but one that outlasted or escaped its wait
\* (drafting/voice_generation.py, custody/handoff_server.py).
THEOREM VoiceJobsAlwaysHold == Spec => []VoiceJobsHold
<1>0. Voices!VoiceAssumption
  BY PartsAssumption
<1>1. Voices!Init => VoiceIInv
  BY <1>0, VoiceInitIInv
<1>2. VoiceIInv /\ [Voices!Next]_(Voices!vars) => VoiceIInv'
  BY <1>0, VoiceStepIInv
<1>3. VoiceIInv => VoiceJobsHold
  BY <1>0, InvGivesVoiceJobsHold DEF VoiceJobsHold
<1> QED BY <1>1, <1>2, <1>3, VoiceIsAPart, PTL DEF Voices!Spec

-----------------------------------------------------------------------------
(* Drafting (pipeline.py, drafting/).                                        *)
(* The announcement comes after the loop, and any exception ends the loop:   *)
(* so at every point a draft in the mailbox is announced, reported, an       *)
(* orphan of a dead pass, or in the hands of the one that runs               *)
(* (DraftsAccounted). For the calendar the argument is arithmetic: how old   *)
(* an answer can be when it is stored, read and used (DraftCalendarInv).     *)

DraftShapes ==
  /\ draft \in [Drafts!Messages -> {"none", "progress", "failed", "rejected", "clean", "dashed"}]
  /\ behind \cup taken \subseteq arrived /\ arrived \subseteq Drafts!Messages
  /\ batch \subseteq taken /\ taken \cap behind = {} /\ drafted \subseteq taken \cap Mail
  /\ pc \in {"idle", "next", "model", "reply", "ask", "asked", "insert"}
  /\ pc \in {"idle", "next"} => msg = None
  /\ pc \notin {"idle", "next"} => msg \in batch
  /\ pc \in {"model", "reply"} => msg \in Requests \cup Mail
  /\ pc = "reply" => body \in {"clean", "dashed"}
  /\ pc \in {"ask", "asked", "insert"} => msg \in Sent
  /\ pc = "idle" => taken = {} /\ batch = {} /\ drafted = {}

\* Only the request being answered may hold a draft nobody has accounted for.
DraftsAccounted ==
  \A m \in Drafts!Messages :
    draft[m] # "none" => \/ m \in told \cup failed \cup orphans \cup drafted
                         \/ m = msg /\ m \in Requests

\* What is known of the calendar: an answer of "private" was true when it was
\* asked for, is stored within a call of that, and is used within its lifetime.
DraftCalendarInv ==
  /\ clock \in Nat /\ sharedSince \in Nat /\ sharedSince <= clock /\ shared \in BOOLEAN
  /\ pc \in {"asked", "insert"} => askedAt \in Nat /\ askedAt <= clock /\ clock <= askedAt + Delay
  /\ pc = "asked" /\ body # "shared" /\ shared => askedAt <= sharedSince
  /\ pc = "insert" /\ shared => askedAt < sharedSince + SHARING_TTL + Delay
  /\ sharing # None => sharing.at \in Nat /\ sharing.at <= clock
  /\ sharing # None /\ ~sharing.shared /\ shared => sharing.at <= sharedSince + Delay

DraftIInv == DraftShapes /\ DraftsAccounted /\ DraftCalendarInv

DraftKept == DraftIInv' /\ Drafts!EventsStayPrivate /\ Drafts!BanIsKept

LEMMA DraftFacts ==
  ASSUME Drafts!DraftingAssumption
  PROVE  /\ SHARING_TTL \in Nat /\ SHARING_TTL > 0 /\ Delay \in Nat
         /\ Drafts!Messages = Requests \cup Mail \cup Sent /\ None \notin Drafts!Messages
         /\ \A m \in Mail \cup Sent : m \notin Requests
         /\ \A m \in Sent : m \notin Mail
BY DEF Drafts!DraftingAssumption, Drafts!Messages

LEMMA DraftInitIInv ==
  ASSUME Drafts!DraftingAssumption
  PROVE  Drafts!Init => DraftIInv
<1> SUFFICES ASSUME Drafts!Init PROVE DraftIInv
  OBVIOUS
<1>1. DraftShapes
  BY DEF Drafts!Init, DraftShapes
<1>2. DraftsAccounted
  BY DEF Drafts!Init, DraftsAccounted
<1>3. clock = 0 /\ sharedSince = 0 /\ shared = FALSE /\ pc = "idle" /\ sharing = None
  BY DEF Drafts!Init
<1>4. DraftCalendarInv
  <2>0. clock \in Nat /\ sharedSince \in Nat /\ sharedSince <= clock
    BY <1>3
  <2>1. shared \in BOOLEAN
    BY <1>3
  <2>2. sharing = None /\ pc \notin {"asked", "insert"}
    BY <1>3
  <2> QED BY <2>0, <2>1, <2>2 DEF DraftCalendarInv
<1> QED BY <1>1, <1>2, <1>4 DEF DraftIInv

\* Away from the calendar's path nothing it knows changes.
LEMMA DraftCalendarRests ==
  ASSUME DraftCalendarInv, UNCHANGED <<clock, shared, sharedSince, sharing>>,
         pc' \notin {"asked", "insert"}
  PROVE  DraftCalendarInv'
BY DEF DraftCalendarInv

\* Where no event is written and no draft, two of the promises say nothing.
LEMMA DraftQuiet ==
  ASSUME UNCHANGED <<draft, scheduled>>
  PROVE  Drafts!EventsStayPrivate /\ Drafts!BanIsKept
BY DEF Drafts!EventsStayPrivate, Drafts!BanIsKept

LEMMA DraftArriveKeeps ==
  ASSUME Drafts!DraftingAssumption, DraftIInv, NEW m \in Drafts!Messages, Drafts!Arrive(m)
  PROVE  DraftKept
<1>1. /\ arrived' = arrived \cup {m}
      /\ UNCHANGED <<behind, taken, batch, pc, msg, body, askedAt, draft, drafted, told, failed,
                     orphans, clock, shared, sharedSince, sharing, scheduled>>
  BY DEF Drafts!Arrive, Drafts!world, Drafts!work, Drafts!output, Drafts!calendar
<1>2. DraftShapes' /\ DraftsAccounted'
  BY <1>1 DEF DraftIInv, DraftShapes, DraftsAccounted
<1>3. DraftCalendarInv'
  BY <1>1 DEF DraftIInv, DraftCalendarInv
<1> QED BY <1>1, <1>2, <1>3, DraftQuiet DEF DraftKept, DraftIInv

LEMMA DraftFetchKeeps ==
  ASSUME Drafts!DraftingAssumption, DraftIInv, Drafts!Fetch
  PROVE  DraftKept
<1>1. UNCHANGED <<arrived, behind, msg, draft, drafted, told, failed, orphans,
                  clock, shared, sharedSince, sharing, scheduled>>
  BY DEF Drafts!Fetch, Drafts!world, Drafts!work, Drafts!output, Drafts!calendar
<1>2. pc = "idle" /\ pc' = "next" /\ taken' = arrived \ behind /\ batch' = taken'
  BY DEF Drafts!Fetch
<1>3. DraftShapes' /\ DraftsAccounted'
  BY <1>1, <1>2 DEF DraftIInv, DraftShapes, DraftsAccounted
<1>4. DraftCalendarInv'
  BY <1>1, <1>2, DraftCalendarRests DEF DraftIInv
<1> QED BY <1>1, <1>3, <1>4, DraftQuiet DEF DraftKept, DraftIInv

\* A step that leaves a message, or its path, behind keeps the books when what
\* it leaves is accounted for.
LEMMA DraftLeaveKeeps ==
  ASSUME Drafts!DraftingAssumption, DraftIInv, NEW finished, Drafts!Leave(finished), pc # "idle",
         UNCHANGED <<arrived, behind, taken, orphans>>,
         draft' \in [Drafts!Messages -> {"none", "progress", "failed", "rejected", "clean", "dashed"}],
         drafted' \subseteq taken \cap Mail,
         \A m \in Drafts!Messages :
            draft'[m] # "none" => m \in told' \cup failed' \cup orphans \cup drafted'
  PROVE  DraftShapes' /\ DraftsAccounted' /\ pc' = "next"
<1>1. batch' = batch \ finished /\ pc' = "next" /\ msg' = None
  BY DEF Drafts!Leave
<1>2. DraftShapes'
  BY <1>1 DEF DraftIInv, DraftShapes
<1>3. DraftsAccounted'
  BY <1>1 DEF DraftsAccounted
<1> QED BY <1>1, <1>2, <1>3

\* The two ways a path fails: mail loses all its drafts' announcement and is
\* reported whole, a request is reported alone.
LEMMA DraftMailFails ==
  ASSUME Drafts!DraftingAssumption, DraftIInv, Drafts!MailFails, pc # "idle", msg \notin Requests,
         UNCHANGED <<arrived, behind, taken, orphans>>
  PROVE  DraftShapes' /\ DraftsAccounted' /\ pc' = "next" /\ UNCHANGED draft
<1>1. /\ Drafts!Leave(Mail) /\ failed' = failed \cup (taken \cap Mail) /\ drafted' = {}
      /\ UNCHANGED <<draft, told>>
  BY DEF Drafts!MailFails
<1>2. \A m \in Drafts!Messages :
         draft'[m] # "none" => m \in told' \cup failed' \cup orphans \cup drafted'
  BY <1>1 DEF DraftIInv, DraftShapes, DraftsAccounted
<1>3. draft' \in [Drafts!Messages -> {"none", "progress", "failed", "rejected", "clean", "dashed"}]
  BY <1>1 DEF DraftIInv, DraftShapes
<1> QED BY <1>1, <1>2, <1>3, DraftLeaveKeeps

LEMMA DraftRequestFails ==
  ASSUME Drafts!DraftingAssumption, DraftIInv, NEW m \in Requests, Drafts!RequestFails(m),
         pc # "idle", msg \in {m, None},
         UNCHANGED <<arrived, behind, taken, orphans>>
  PROVE  DraftShapes' /\ DraftsAccounted' /\ pc' = "next" /\ UNCHANGED draft
<1>1. Drafts!Leave({m}) /\ failed' = failed \cup {m} /\ UNCHANGED <<draft, drafted, told>>
  BY DEF Drafts!RequestFails
<1>2. \A n \in Drafts!Messages :
         draft'[n] # "none" => n \in told' \cup failed' \cup orphans \cup drafted'
  BY <1>1, DraftFacts DEF DraftIInv, DraftsAccounted
<1>3. draft' \in [Drafts!Messages -> {"none", "progress", "failed", "rejected", "clean", "dashed"}]
      /\ drafted' \subseteq taken \cap Mail
  BY <1>1 DEF DraftIInv, DraftShapes
<1> QED BY <1>1, <1>2, <1>3, DraftLeaveKeeps

LEMMA DraftRaised ==
  ASSUME Drafts!DraftingAssumption, DraftIInv, Drafts!Raised, pc \in {"model", "reply"},
         UNCHANGED <<arrived, behind, taken, orphans>>
  PROVE  DraftShapes' /\ DraftsAccounted' /\ pc' = "next" /\ UNCHANGED draft
<1>1. msg \in Requests \cup Mail
  BY DEF DraftIInv, DraftShapes
<1>2. CASE msg \in Mail
  BY <1>2, DraftMailFails, DraftFacts DEF Drafts!Raised
<1>3. CASE msg \notin Mail
  BY <1>1, <1>3, DraftRequestFails DEF Drafts!Raised
<1> QED BY <1>2, <1>3

\* Whatever a path does short of the calendar leaves the calendar alone.
LEMMA DraftPathKept ==
  ASSUME DraftIInv, DraftShapes', DraftsAccounted', pc' \notin {"asked", "insert"},
         UNCHANGED <<clock, shared, sharedSince, sharing, scheduled>>, Drafts!BanIsKept
  PROVE  DraftKept
<1>1. DraftCalendarInv'
  BY DraftCalendarRests DEF DraftIInv
<1> QED BY <1>1 DEF DraftKept, DraftIInv, Drafts!EventsStayPrivate

LEMMA DraftStartRequestKeeps ==
  ASSUME Drafts!DraftingAssumption, DraftIInv, NEW m \in Drafts!Messages, Drafts!StartRequest(m)
  PROVE  DraftKept
<1>1. /\ pc = "next" /\ m \in batch /\ m \in Requests /\ msg = None
      /\ UNCHANGED <<arrived, behind, taken, orphans, clock, shared, sharedSince, sharing, scheduled>>
  BY DEF Drafts!StartRequest, Drafts!Turn, Drafts!world, Drafts!calendar, DraftIInv, DraftShapes
<1>2. CASE Drafts!Leave({m}) /\ told' = told \cup {m} /\ UNCHANGED <<draft, drafted, failed>>
  <2>1. \A n \in Drafts!Messages :
           draft'[n] # "none" => n \in told' \cup failed' \cup orphans \cup drafted'
    BY <1>1, <1>2, DraftFacts DEF DraftIInv, DraftsAccounted
  <2>2. draft' \in [Drafts!Messages -> {"none", "progress", "failed", "rejected", "clean", "dashed"}]
        /\ drafted' \subseteq taken \cap Mail
    BY <1>2 DEF DraftIInv, DraftShapes
  <2>3. DraftShapes' /\ DraftsAccounted' /\ pc' = "next"
    BY <1>1, <1>2, <2>1, <2>2, DraftLeaveKeeps
  <2>4. Drafts!BanIsKept
    BY <1>2 DEF Drafts!BanIsKept
  <2> QED BY <1>1, <2>3, <2>4, DraftPathKept
<1>3. CASE Drafts!RequestFails(m)
  <2>1. DraftShapes' /\ DraftsAccounted' /\ pc' = "next" /\ UNCHANGED draft
    BY <1>1, <1>3, DraftRequestFails
  <2>2. Drafts!BanIsKept
    BY <2>1 DEF Drafts!BanIsKept
  <2> QED BY <1>1, <2>1, <2>2, DraftPathKept
<1>4. CASE /\ Drafts!TakeUp(m, "model") /\ draft' = [draft EXCEPT ![m] = "progress"]
           /\ UNCHANGED <<told, drafted, failed>>
  <2>1. pc' = "model" /\ msg' = m /\ UNCHANGED batch
    BY <1>4 DEF Drafts!TakeUp
  <2>2. DraftShapes'
    BY <1>1, <1>4, <2>1 DEF DraftIInv, DraftShapes
  <2>3. DraftsAccounted'
    BY <1>1, <1>4, <2>1, DraftFacts DEF DraftIInv, DraftsAccounted, DraftShapes
  <2>4. Drafts!BanIsKept
    BY <1>4 DEF Drafts!BanIsKept, DraftIInv, DraftShapes
  <2> QED BY <1>1, <2>1, <2>2, <2>3, <2>4, DraftPathKept
<1> QED BY <1>2, <1>3, <1>4 DEF Drafts!StartRequest

LEMMA DraftStartMailKeeps ==
  ASSUME Drafts!DraftingAssumption, DraftIInv, NEW m \in Drafts!Messages, Drafts!StartMail(m)
  PROVE  DraftKept
<1>1. /\ pc = "next" /\ m \in batch /\ m \in Mail /\ msg = None
      /\ UNCHANGED <<arrived, behind, taken, orphans, clock, shared, sharedSince, sharing, scheduled>>
  BY DEF Drafts!StartMail, Drafts!Turn, Drafts!world, Drafts!calendar, DraftIInv, DraftShapes
<1>2. msg \notin Requests
  BY <1>1, DraftFacts
<1>3. CASE Drafts!Leave({m}) /\ UNCHANGED Drafts!output
  <2>0. UNCHANGED <<draft, drafted, told, failed>>
    BY <1>3 DEF Drafts!output
  <2>1. \A n \in Drafts!Messages :
           draft'[n] # "none" => n \in told' \cup failed' \cup orphans \cup drafted'
    BY <1>2, <2>0 DEF DraftIInv, DraftsAccounted
  <2>2. draft' \in [Drafts!Messages -> {"none", "progress", "failed", "rejected", "clean", "dashed"}]
        /\ drafted' \subseteq taken \cap Mail
    BY <2>0 DEF DraftIInv, DraftShapes
  <2>3. DraftShapes' /\ DraftsAccounted' /\ pc' = "next"
    BY <1>1, <1>3, <2>1, <2>2, DraftLeaveKeeps
  <2>4. Drafts!BanIsKept
    BY <2>0 DEF Drafts!BanIsKept
  <2> QED BY <1>1, <2>3, <2>4, DraftPathKept
<1>4. CASE Drafts!MailFails
  <2>1. DraftShapes' /\ DraftsAccounted' /\ pc' = "next" /\ UNCHANGED draft
    BY <1>1, <1>2, <1>4, DraftMailFails
  <2>2. Drafts!BanIsKept
    BY <2>1 DEF Drafts!BanIsKept
  <2> QED BY <1>1, <2>1, <2>2, DraftPathKept
<1>5. CASE Drafts!TakeUp(m, "model") /\ UNCHANGED Drafts!output
  <2>1. pc' = "model" /\ msg' = m /\ UNCHANGED <<batch, draft, drafted, told, failed>>
    BY <1>5 DEF Drafts!TakeUp, Drafts!output
  <2>2. DraftShapes'
    BY <1>1, <2>1 DEF DraftIInv, DraftShapes
  <2>3. DraftsAccounted'
    BY <1>1, <1>2, <2>1 DEF DraftIInv, DraftsAccounted
  <2>4. Drafts!BanIsKept
    BY <2>1 DEF Drafts!BanIsKept
  <2> QED BY <1>1, <2>1, <2>2, <2>3, <2>4, DraftPathKept
<1> QED BY <1>3, <1>4, <1>5 DEF Drafts!StartMail

\* An empty body of mail ends its path; a request is told, and its draft says so.
LEMMA DraftEmptyKeeps ==
  ASSUME Drafts!DraftingAssumption, DraftIInv, Drafts!Empty, pc = "model",
         UNCHANGED <<arrived, behind, taken, orphans>>
  PROVE  DraftShapes' /\ DraftsAccounted' /\ pc' = "next" /\ Drafts!BanIsKept
<1>1. msg \in Requests \cup Mail /\ msg \in Drafts!Messages
  BY DraftFacts DEF DraftIInv, DraftShapes
<1>2. CASE msg \in Mail
  <2>1. DraftShapes' /\ DraftsAccounted' /\ pc' = "next" /\ UNCHANGED draft
    BY <1>2, DraftMailFails, DraftFacts DEF Drafts!Empty
  <2> QED BY <2>1 DEF Drafts!BanIsKept
<1>3. CASE msg \notin Mail
  <2>1. /\ Drafts!Leave({msg}) /\ told' = told \cup {msg}
        /\ draft' = [draft EXCEPT ![msg] = "failed"] /\ UNCHANGED <<drafted, failed>>
    BY <1>3 DEF Drafts!Empty
  <2>2. \A n \in Drafts!Messages :
           draft'[n] # "none" => n \in told' \cup failed' \cup orphans \cup drafted'
    BY <1>1, <2>1 DEF DraftIInv, DraftsAccounted, DraftShapes
  <2>3. draft' \in [Drafts!Messages -> {"none", "progress", "failed", "rejected", "clean", "dashed"}]
        /\ drafted' \subseteq taken \cap Mail
    BY <2>1 DEF DraftIInv, DraftShapes
  <2>4. DraftShapes' /\ DraftsAccounted' /\ pc' = "next"
    BY <2>1, <2>2, <2>3, DraftLeaveKeeps
  <2>5. Drafts!BanIsKept
    BY <1>1, <2>1 DEF Drafts!BanIsKept, DraftIInv, DraftShapes
  <2> QED BY <2>4, <2>5
<1> QED BY <1>2, <1>3

LEMMA DraftCompleteKeeps ==
  ASSUME Drafts!DraftingAssumption, DraftIInv, Drafts!Complete
  PROVE  DraftKept
<1>1. /\ pc = "model"
      /\ UNCHANGED <<arrived, behind, taken, orphans, clock, shared, sharedSince, sharing, scheduled>>
  BY DEF Drafts!Complete, Drafts!world, Drafts!calendar
<1>2. CASE Drafts!Raised
  <2>1. DraftShapes' /\ DraftsAccounted' /\ pc' = "next" /\ UNCHANGED draft
    BY <1>1, <1>2, DraftRaised
  <2>2. Drafts!BanIsKept
    BY <2>1 DEF Drafts!BanIsKept
  <2> QED BY <1>1, <2>1, <2>2, DraftPathKept
<1>3. CASE Drafts!Empty
  BY <1>1, <1>3, DraftEmptyKeeps, DraftPathKept
<1>4. CASE /\ pc' \in {"model", "reply"} /\ (pc' = "reply" => body' \in {"clean", "dashed"})
           /\ UNCHANGED <<msg, batch, Drafts!output>>
  <2>1. UNCHANGED <<msg, batch, draft, drafted, told, failed>>
    BY <1>4 DEF Drafts!output
  <2>2. DraftShapes'
    BY <1>1, <1>4, <2>1 DEF DraftIInv, DraftShapes
  <2>3. DraftsAccounted'
    BY <1>1, <2>1 DEF DraftIInv, DraftsAccounted
  <2>4. Drafts!BanIsKept
    BY <2>1 DEF Drafts!BanIsKept
  <2> QED BY <1>1, <1>4, <2>2, <2>3, <2>4, DraftPathKept
<1>5. \/ Drafts!Raised \/ Drafts!Empty
      \/ /\ pc' \in {"model", "reply"} /\ (pc' = "reply" => body' \in {"clean", "dashed"})
         /\ UNCHANGED <<msg, batch, Drafts!output>>
  BY <1>1 DEF Drafts!Complete
<1> QED BY <1>2, <1>3, <1>4, <1>5

\* The draft that is saved holds a dash only where none is banned, and its
\* message is told or will be announced.
LEMMA DraftSaveReplyKeeps ==
  ASSUME Drafts!DraftingAssumption, DraftIInv, Drafts!SaveReply
  PROVE  DraftKept
<1>1. /\ pc = "reply" /\ msg \in Requests \cup Mail /\ msg \in batch /\ batch \subseteq taken
      /\ msg \in Drafts!Messages
      /\ UNCHANGED <<arrived, behind, taken, orphans, clock, shared, sharedSince, sharing, scheduled>>
  BY DraftFacts DEF Drafts!SaveReply, Drafts!world, Drafts!calendar, DraftIInv, DraftShapes
<1>2. CASE Drafts!Raised
  <2>1. DraftShapes' /\ DraftsAccounted' /\ pc' = "next" /\ UNCHANGED draft
    BY <1>1, <1>2, DraftRaised
  <2>2. Drafts!BanIsKept
    BY <2>1 DEF Drafts!BanIsKept
  <2> QED BY <1>1, <2>1, <2>2, DraftPathKept
<1>3. ASSUME Drafts!Leave({msg}),
             draft' = [draft EXCEPT ![msg] = IF ~Drafts!Rejected THEN body
                                             ELSE IF msg \in Requests THEN "rejected" ELSE @],
             IF Drafts!Rejected \/ msg \in Requests
             THEN told' = told \cup {msg} /\ UNCHANGED drafted
             ELSE drafted' = drafted \cup {msg} /\ UNCHANGED told,
             UNCHANGED failed
      PROVE  DraftKept
  <2>1. draft' \in [Drafts!Messages -> {"none", "progress", "failed", "rejected", "clean", "dashed"}]
    BY <1>1, <1>3 DEF DraftIInv, DraftShapes
  <2>2. \A n \in Drafts!Messages :
           draft'[n] # "none" => n \in told' \cup failed' \cup orphans \cup drafted'
    <3> SUFFICES ASSUME NEW n \in Drafts!Messages, draft'[n] # "none"
                 PROVE  n \in told' \cup failed' \cup orphans \cup drafted'
      OBVIOUS
    <3>1. told \subseteq told' /\ drafted \subseteq drafted' /\ msg \in told' \cup drafted'
      BY <1>3
    <3>2. CASE n = msg
      BY <3>1, <3>2
    <3>3. CASE n # msg
      <4>1. draft'[n] = draft[n]
        BY <1>3, <3>3 DEF DraftIInv, DraftShapes
      <4> QED BY <1>3, <3>1, <3>3, <4>1 DEF DraftIInv, DraftsAccounted
    <3> QED BY <3>2, <3>3
  <2>3. drafted' \subseteq taken \cap Mail
    BY <1>1, <1>3 DEF DraftIInv, DraftShapes
  <2>4. DraftShapes' /\ DraftsAccounted' /\ pc' = "next"
    BY <1>1, <1>3, <2>1, <2>2, <2>3, DraftLeaveKeeps
  <2>5. Drafts!BanIsKept
    <3> SUFFICES ASSUME NEW n \in Drafts!Messages, draft[n] # "dashed", draft'[n] = "dashed"
                 PROVE  ~ban
      BY DEF Drafts!BanIsKept
    <3>1. n = msg
      BY <1>1, <1>3 DEF DraftIInv, DraftShapes
    <3> QED BY <1>1, <1>3, <3>1 DEF DraftIInv, DraftShapes, Drafts!Rejected
  <2> QED BY <1>1, <2>4, <2>5, DraftPathKept
<1> QED BY <1>2, <1>3 DEF Drafts!SaveReply

LEMMA DraftAnnounceKeeps ==
  ASSUME Drafts!DraftingAssumption, DraftIInv, Drafts!Announce
  PROVE  DraftKept
<1>1. /\ pc = "next" /\ told' = told \cup drafted /\ drafted' = {}
      /\ UNCHANGED <<arrived, behind, taken, batch, orphans, pc, msg, body, draft, failed, clock, shared,
                     sharedSince, sharing, scheduled>>
  BY DEF Drafts!Announce, Drafts!world, Drafts!mail, Drafts!work, Drafts!calendar
<1>2. DraftShapes'
  BY <1>1 DEF DraftIInv, DraftShapes
<1>3. DraftsAccounted'
  BY <1>1 DEF DraftIInv, DraftsAccounted
<1> QED BY <1>1, <1>2, <1>3, DraftPathKept DEF Drafts!BanIsKept

\* A sent message has no draft: to leave it, or all that are left, is to leave
\* nothing behind in the mailbox.
LEMMA DraftSentLeaves ==
  ASSUME Drafts!DraftingAssumption, DraftIInv, NEW finished, Drafts!Leave(finished), pc # "idle",
         msg \in Sent \cup {None}, UNCHANGED <<arrived, behind, taken, orphans, draft, drafted>>,
         told \subseteq told', failed \subseteq failed'
  PROVE  DraftShapes' /\ DraftsAccounted' /\ pc' = "next" /\ Drafts!BanIsKept
<1>1. msg \notin Requests
  BY DraftFacts DEF Drafts!Messages
<1>2. \A n \in Drafts!Messages :
         draft'[n] # "none" => n \in told' \cup failed' \cup orphans \cup drafted'
  BY <1>1 DEF DraftIInv, DraftsAccounted
<1>3. draft' \in [Drafts!Messages -> {"none", "progress", "failed", "rejected", "clean", "dashed"}]
      /\ drafted' \subseteq taken \cap Mail
  BY DEF DraftIInv, DraftShapes
<1> QED BY <1>2, <1>3, DraftLeaveKeeps DEF Drafts!BanIsKept

LEMMA DraftStartSentKeeps ==
  ASSUME Drafts!DraftingAssumption, DraftIInv, NEW m \in Drafts!Messages, Drafts!StartSent(m)
  PROVE  DraftKept
<1>1. /\ pc = "next" /\ m \in batch /\ m \in Sent /\ msg = None
      /\ UNCHANGED <<arrived, behind, taken, orphans, draft, drafted, told, clock, shared, sharedSince,
                     sharing, scheduled>>
  BY DEF Drafts!StartSent, Drafts!Turn, Drafts!world, Drafts!calendar, DraftIInv, DraftShapes
<1>2. CASE Drafts!Leave({m}) /\ failed \subseteq failed'
  <2>1. DraftShapes' /\ DraftsAccounted' /\ pc' = "next" /\ Drafts!BanIsKept
    BY <1>1, <1>2, DraftSentLeaves
  <2> QED BY <1>1, <2>1, DraftPathKept
<1>3. CASE Drafts!TakeUp(m, "ask") /\ UNCHANGED failed
  <2>1. pc' = "ask" /\ msg' = m /\ UNCHANGED batch
    BY <1>3 DEF Drafts!TakeUp
  <2>2. DraftShapes'
    BY <1>1, <2>1 DEF DraftIInv, DraftShapes
  <2>3. DraftsAccounted'
    BY <1>1, <1>3, <2>1, DraftFacts DEF DraftIInv, DraftsAccounted
  <2> QED BY <1>1, <2>1, <2>2, <2>3, DraftPathKept DEF Drafts!BanIsKept
<1> QED BY <1>2, <1>3 DEF Drafts!StartSent

\* A refusal ends the path; what it says of the audience is the cache's matter.
LEMMA DraftRefuses ==
  ASSUME Drafts!DraftingAssumption, DraftIInv, NEW u, Drafts!Refuse(u), pc \in {"ask", "asked"},
         UNCHANGED <<arrived, behind, taken, orphans, draft, drafted, failed>>
  PROVE  DraftShapes' /\ DraftsAccounted' /\ pc' = "next" /\ Drafts!BanIsKept
<1>1. Drafts!Leave(Sent) /\ told \subseteq told' /\ msg \in Sent
  BY DEF Drafts!Refuse, DraftIInv, DraftShapes
<1> QED BY <1>1, DraftSentLeaves

\* Along the calendar's path the books stand still.
LEMMA DraftBooksRest ==
  ASSUME DraftIInv, pc \in {"ask", "asked", "insert"}, pc' \in {"ask", "asked", "insert"},
         UNCHANGED <<arrived, behind, taken, batch, msg, orphans, draft, drafted, told, failed>>
  PROVE  DraftShapes' /\ DraftsAccounted' /\ Drafts!BanIsKept
<1>1. DraftShapes'
  BY DEF DraftIInv, DraftShapes
<1>2. DraftsAccounted'
  BY DEF DraftIInv, DraftsAccounted
<1> QED BY <1>1, <1>2 DEF Drafts!BanIsKept

LEMMA DraftAskKeeps ==
  ASSUME Drafts!DraftingAssumption, DraftIInv, Drafts!Ask
  PROVE  DraftKept
<1>1. /\ pc = "ask"
      /\ UNCHANGED <<arrived, behind, taken, orphans, draft, drafted, failed, clock, shared, sharedSince,
                     sharing, scheduled>>
  BY DEF Drafts!Ask, Drafts!world
<1>2. ASSUME NEW u, Drafts!Refuse(u) PROVE DraftKept
  <2>1. DraftShapes' /\ DraftsAccounted' /\ pc' = "next" /\ Drafts!BanIsKept
    BY <1>1, <1>2, DraftRefuses
  <2> QED BY <1>1, <2>1, DraftPathKept
<1>3. CASE Drafts!Fresh /\ ~sharing.shared /\ Drafts!Clear
  <2>1. pc' = "insert" /\ askedAt' = clock /\ UNCHANGED <<msg, batch, told>>
    BY <1>3 DEF Drafts!Clear
  <2>2. DraftShapes' /\ DraftsAccounted' /\ Drafts!BanIsKept
    BY <1>1, <2>1, DraftBooksRest
  <2>3. sharing # None /\ clock - sharing.at < SHARING_TTL
    BY <1>3 DEF Drafts!Fresh
  <2>4. shared => clock < sharedSince + SHARING_TTL + Delay
    BY <1>3, <2>3, DraftFacts DEF DraftIInv, DraftCalendarInv
  <2>5. DraftCalendarInv'
    BY <1>1, <2>1, <2>4, DraftFacts DEF DraftIInv, DraftCalendarInv
  <2> QED BY <1>1, <2>2, <2>5 DEF DraftKept, DraftIInv, Drafts!EventsStayPrivate
<1>4. CASE /\ pc' = "asked" /\ askedAt' = clock /\ body' = (IF shared THEN "shared" ELSE "private")
           /\ UNCHANGED <<msg, batch, told>>
  <2>1. DraftShapes' /\ DraftsAccounted' /\ Drafts!BanIsKept
    BY <1>1, <1>4, DraftBooksRest
  <2>2. DraftCalendarInv'
    BY <1>1, <1>4, DraftFacts DEF DraftIInv, DraftCalendarInv
  <2> QED BY <1>1, <2>1, <2>2 DEF DraftKept, DraftIInv, Drafts!EventsStayPrivate
<1>5. \/ Drafts!Refuse(FALSE) \/ Drafts!Refuse(TRUE)
      \/ Drafts!Fresh /\ ~sharing.shared /\ Drafts!Clear
      \/ /\ pc' = "asked" /\ askedAt' = clock /\ body' = (IF shared THEN "shared" ELSE "private")
         /\ UNCHANGED <<msg, batch, told>>
  BY DEF Drafts!Ask
<1> QED BY <1>2, <1>3, <1>4, <1>5

LEMMA DraftStoreKeeps ==
  ASSUME Drafts!DraftingAssumption, DraftIInv, Drafts!Store
  PROVE  DraftKept
<1>1. /\ pc = "asked" /\ sharing' = [at |-> clock, shared |-> body = "shared"]
      /\ UNCHANGED <<arrived, behind, taken, orphans, draft, drafted, failed, clock, shared, sharedSince,
                     scheduled>>
  BY DEF Drafts!Store, Drafts!world
<1>2. sharing'.at = clock /\ sharing'.shared = (body = "shared")
  BY <1>1
<1>3. body # "shared" /\ shared => clock <= sharedSince + Delay
  BY <1>1, DraftFacts DEF DraftIInv, DraftCalendarInv
<1>4. ASSUME pc' # "asked", pc' = "insert" => askedAt' = clock /\ body # "shared"
      PROVE  DraftCalendarInv'
  BY <1>1, <1>2, <1>3, <1>4, DraftFacts DEF DraftIInv, DraftCalendarInv
<1>5. CASE body = "shared"
  <2>1. Drafts!Refuse(FALSE)
    BY <1>5 DEF Drafts!Store
  <2>2. DraftShapes' /\ DraftsAccounted' /\ pc' = "next" /\ Drafts!BanIsKept
    BY <1>1, <2>1, DraftRefuses
  <2> QED BY <1>1, <1>4, <2>2 DEF DraftKept, DraftIInv, Drafts!EventsStayPrivate
<1>6. CASE body # "shared"
  <2>1. pc' = "insert" /\ askedAt' = clock /\ UNCHANGED <<msg, batch, told>>
    BY <1>6 DEF Drafts!Store, Drafts!Clear
  <2>2. DraftShapes' /\ DraftsAccounted' /\ Drafts!BanIsKept
    BY <1>1, <2>1, DraftBooksRest
  <2> QED BY <1>1, <1>4, <1>6, <2>1, <2>2 DEF DraftKept, DraftIInv, Drafts!EventsStayPrivate
<1> QED BY <1>5, <1>6

\* The one step that writes an event, at most a call after the audience was known.
LEMMA DraftInsertKeeps ==
  ASSUME Drafts!DraftingAssumption, DraftIInv, Drafts!Insert
  PROVE  DraftKept
<1>1. /\ pc = "insert" /\ Drafts!Leave({msg}) /\ told \subseteq told' /\ failed \subseteq failed'
      /\ UNCHANGED <<arrived, behind, taken, orphans, draft, drafted, clock, shared, sharedSince, sharing>>
  BY DEF Drafts!Insert, Drafts!world
<1>2. DraftShapes' /\ DraftsAccounted' /\ pc' = "next" /\ Drafts!BanIsKept
  <2>1. msg \in Sent
    BY <1>1 DEF DraftIInv, DraftShapes
  <2> QED BY <1>1, <2>1, DraftSentLeaves
<1>3. DraftCalendarInv'
  BY <1>1, <1>2, DraftCalendarRests DEF DraftIInv
<1>4. shared => clock - sharedSince < SHARING_TTL + 2 * Delay
  BY <1>1, DraftFacts DEF DraftIInv, DraftCalendarInv
<1> QED BY <1>2, <1>3, <1>4 DEF DraftKept, DraftIInv, Drafts!EventsStayPrivate

LEMMA DraftFinishKeeps ==
  ASSUME Drafts!DraftingAssumption, DraftIInv, Drafts!Finish
  PROVE  DraftKept
<1>1. /\ pc = "next" /\ batch = {} /\ drafted = {} /\ pc' = "idle"
      /\ behind' = behind \cup taken /\ taken' = {}
      /\ UNCHANGED <<arrived, batch, orphans, msg, body, draft, drafted, told, failed, clock, shared,
                     sharedSince, sharing, scheduled>>
  BY DEF Drafts!Finish, Drafts!world, Drafts!work, Drafts!output, Drafts!calendar
<1>2. DraftShapes'
  BY <1>1 DEF DraftIInv, DraftShapes
<1>3. DraftsAccounted'
  BY <1>1 DEF DraftIInv, DraftsAccounted
<1> QED BY <1>1, <1>2, <1>3, DraftPathKept DEF Drafts!BanIsKept

\* What a dying pass has saved and not said is an orphan from then on.
LEMMA DraftCrashKeeps ==
  ASSUME Drafts!DraftingAssumption, DraftIInv, Drafts!Crash
  PROVE  DraftKept
<1>1. /\ pc # "idle" /\ pc' = "idle" /\ taken' = {} /\ batch' = {} /\ drafted' = {} /\ msg' = None
      /\ orphans' = orphans \cup {m \in taken : draft[m] # "none" /\ m \notin told \cup failed}
      /\ sharing' = None
      /\ UNCHANGED <<arrived, behind, draft, told, failed, clock, shared, sharedSince, scheduled>>
  BY DEF Drafts!Crash, Drafts!world
<1>2. DraftShapes'
  BY <1>1 DEF DraftIInv, DraftShapes
<1>3. ASSUME NEW m \in Drafts!Messages, draft[m] # "none"
      PROVE  m \in told \cup failed \cup orphans'
  <2>1. CASE m \in told \cup failed \cup orphans
    BY <1>1, <2>1
  <2>2. CASE m \in drafted \/ (m = msg /\ m \in Requests)
    <3>1. m # None
      BY DraftFacts
    <3>2. m \in taken
      BY <2>2, <3>1 DEF DraftIInv, DraftShapes
    <3> QED BY <1>1, <1>3, <3>2
  <2> QED BY <1>3, <2>1, <2>2 DEF DraftIInv, DraftsAccounted
<1>4. DraftsAccounted'
  BY <1>1, <1>3 DEF DraftsAccounted
<1>5. DraftCalendarInv'
  BY <1>1 DEF DraftIInv, DraftCalendarInv
<1> QED BY <1>1, <1>2, <1>4, <1>5, DraftQuiet DEF DraftKept, DraftIInv

LEMMA DraftWorldKeeps ==
  ASSUME Drafts!DraftingAssumption, DraftIInv, Drafts!Share \/ Drafts!Tick
  PROVE  DraftKept
<1>1. /\ pc \in {"ask", "asked", "insert"}
      /\ UNCHANGED <<arrived, behind, taken, batch, orphans, pc, msg, body, askedAt, draft, drafted, told,
                     failed, sharing, scheduled>>
  BY DEF Drafts!Share, Drafts!Tick, Drafts!Scheduling, Drafts!mail, Drafts!work, Drafts!output,
     Drafts!calendar
<1>2. DraftShapes' /\ DraftsAccounted' /\ Drafts!BanIsKept
  BY <1>1, DraftBooksRest
<1>3. CASE Drafts!Share
  <2>1. shared' = ~shared /\ sharedSince' = clock /\ UNCHANGED clock
    BY <1>3 DEF Drafts!Share
  <2>2. DraftCalendarInv'
    BY <1>1, <2>1, DraftFacts DEF DraftIInv, DraftCalendarInv
  <2> QED BY <1>1, <1>2, <2>2 DEF DraftKept, DraftIInv, Drafts!EventsStayPrivate
<1>4. CASE Drafts!Tick
  <2>1. /\ clock' = clock + 1 /\ UNCHANGED <<shared, sharedSince>>
        /\ pc \in {"asked", "insert"} => clock - askedAt < Delay
    BY <1>4 DEF Drafts!Tick
  <2>2. DraftCalendarInv'
    BY <1>1, <2>1, DraftFacts DEF DraftIInv, DraftCalendarInv
  <2> QED BY <1>1, <1>2, <2>2 DEF DraftKept, DraftIInv, Drafts!EventsStayPrivate
<1> QED BY <1>3, <1>4

LEMMA DraftStepKeeps ==
  ASSUME Drafts!DraftingAssumption, DraftIInv, [Drafts!Next]_(Drafts!vars)
  PROVE  DraftKept
<1>1. ASSUME NEW m \in Drafts!Messages,
             \/ Drafts!Arrive(m) \/ Drafts!StartRequest(m) \/ Drafts!StartMail(m)
             \/ Drafts!StartSent(m)
      PROVE  DraftKept
  BY <1>1, DraftArriveKeeps, DraftStartRequestKeeps, DraftStartMailKeeps, DraftStartSentKeeps
<1>2. CASE Drafts!Complete \/ Drafts!SaveReply \/ Drafts!Announce \/ Drafts!Ask
  BY <1>2, DraftCompleteKeeps, DraftSaveReplyKeeps, DraftAnnounceKeeps, DraftAskKeeps
<1>3. CASE Drafts!Store \/ Drafts!Insert \/ Drafts!Finish \/ Drafts!Fetch
  BY <1>3, DraftStoreKeeps, DraftInsertKeeps, DraftFinishKeeps, DraftFetchKeeps
<1>4. CASE Drafts!Crash \/ Drafts!Share \/ Drafts!Tick
  BY <1>4, DraftCrashKeeps, DraftWorldKeeps
<1>5. CASE UNCHANGED Drafts!vars
  <2>1. UNCHANGED <<arrived, behind, taken, batch, orphans, pc, msg, body, askedAt, draft, drafted, told,
                    failed, clock, shared, sharedSince, sharing, scheduled>>
    BY <1>5 DEF Drafts!vars, Drafts!world, Drafts!mail, Drafts!work, Drafts!output, Drafts!calendar
  <2>2. DraftShapes' /\ DraftsAccounted'
    BY <2>1 DEF DraftIInv, DraftShapes, DraftsAccounted
  <2>3. DraftCalendarInv'
    BY <2>1 DEF DraftIInv, DraftCalendarInv
  <2> QED BY <2>1, <2>2, <2>3, DraftQuiet DEF DraftKept, DraftIInv
<1> QED BY <1>1, <1>2, <1>3, <1>4, <1>5 DEF Drafts!Next, Drafts!Step

\* The cursor passes only what is accounted for, and nothing in hand is behind it.
LEMMA DraftInvSaid ==
  ASSUME Drafts!DraftingAssumption, DraftIInv
  PROVE  Drafts!SavedWorkIsSaid
<1> SUFFICES ASSUME NEW m \in behind, draft[m] # "none"
             PROVE  m \in told \cup failed \cup orphans
  BY DEF Drafts!SavedWorkIsSaid
<1>1. m \in Drafts!Messages /\ m \notin drafted /\ m # msg
  BY DraftFacts DEF DraftIInv, DraftShapes
<1> QED BY <1>1 DEF DraftIInv, DraftsAccounted

-----------------------------------------------------------------------------
\* Where `part` is this component's, its steps are the only ones; elsewhere its
\* variables stand still.
LEMMA DraftIsAPart == Spec => Drafts!Spec
<1>1. Init => Drafts!Init
  BY DEF Init
<1>2. [Next]_vars => [Drafts!Next]_(Drafts!vars)
  BY DEF Next, vars, draftingVars, Drafts!vars, Drafts!world, Drafts!mail, Drafts!work,
     Drafts!output, Drafts!calendar
<1> QED BY <1>1, <1>2, PTL DEF Spec, Drafts!Spec

\* However passes and crashes interleave with the mail, the sharing of the
\* calendar and the time: nothing in the mailbox behind the cursor is unsaid but
\* what a dying pass left, no event goes to a calendar shared for longer than an
\* answer lives, and no banned dash is saved (pipeline.process_account,
\* calendar_api.write_calendar_audience, manual_draft.process_draft_request).
THEOREM DraftingAlwaysHolds == Spec => DraftingHolds
<1>0. Drafts!DraftingAssumption
  BY PartsAssumption
<1>1. Drafts!Init => DraftIInv
  BY <1>0, DraftInitIInv
<1>2. DraftIInv /\ [Drafts!Next]_(Drafts!vars) => DraftIInv'
  BY <1>0, DraftStepKeeps DEF DraftKept
<1>3. DraftIInv => Drafts!SavedWorkIsSaid
  BY <1>0, DraftInvSaid
<1>4. DraftIInv /\ [Drafts!Next]_(Drafts!vars) => Drafts!EventsStayPrivate /\ Drafts!BanIsKept
  BY <1>0, DraftStepKeeps DEF DraftKept
<1>5. DraftIInv /\ [Drafts!Next]_(Drafts!vars) /\ Drafts!SavedWorkIsSaid'
        => [part = "drafting" => Drafts!DraftingStep]_draftingVars
  BY <1>4 DEF Drafts!DraftingStep
<1> QED BY <1>1, <1>2, <1>3, <1>5, DraftIsAPart, PTL DEF Drafts!Spec, DraftingHolds
-----------------------------------------------------------------------------
(* The shapes of these parts' variables.                                     *)
(* Each part's invariant has most of its TypeOK; what it lacks is inductive  *)
(* beside it.                                                                *)

\* A temporary file is a whole store, and the locks are their holders'.
ManifestHeld ==
  /\ tmp \in Manifests!Store \union {None}
  /\ threadLock \in [StoreProcesses -> StoreThreads \union {None}]
  /\ fileLock \in StoreThreads \union {None}
  /\ looked \in [StoreThreads -> [Addresses -> Nat] \union {None}]
  /\ calls \in 0..MaxCalls /\ storeCrashes \in 0..MaxCrashes

LEMMA ManifestHeldKept ==
  ASSUME Manifests!ManifestAssumption, ManifestIInv, ManifestHeld,
         [Manifests!Next]_(Manifests!vars)
  PROVE  ManifestHeld'
<1>0. /\ manifest \in Manifests!Store /\ data \in [StoreThreads -> Manifests!Store \union {None}]
      /\ StoreProcessOf \in [StoreThreads -> StoreProcesses] /\ MaxCalls \in Nat /\ MaxCrashes \in Nat
  BY DEF ManifestIInv, ManifestShapes, Manifests!ManifestAssumption
<1>1. ASSUME NEW t \in StoreThreads, Manifests!Call(t) PROVE ManifestHeld'
  <2>1. /\ calls' = calls + 1 /\ calls < MaxCalls
        /\ looked' = [looked EXCEPT ![t] = [a \in Addresses |-> Manifests!HandleFor(a)]]
        /\ UNCHANGED <<tmp, threadLock, fileLock, storeCrashes>>
    BY <1>1 DEF Manifests!Call, Manifests!locks
  <2>2. \A a \in Addresses : Manifests!HandleFor(a) \in Nat
    BY <1>0 DEF Manifests!HandleFor, Manifests!Store, Manifests!Entry, ManifestHeld
  <2>3. [a \in Addresses |-> Manifests!HandleFor(a)] \in [Addresses -> Nat]
    BY <2>2
  <2>4. looked' \in [StoreThreads -> [Addresses -> Nat] \union {None}]
    BY <2>1, <2>3 DEF ManifestHeld
  <2> QED BY <1>0, <2>1, <2>4 DEF ManifestHeld
<1>2. ASSUME NEW t \in StoreThreads, Manifests!Enter(t) \/ Manifests!Flock(t) PROVE ManifestHeld'
  BY <1>0, <1>2 DEF Manifests!Enter, Manifests!Flock, Manifests!locks, ManifestHeld
<1>3. ASSUME NEW t \in StoreThreads, Manifests!Read(t) \/ Manifests!Edit(t) PROVE ManifestHeld'
  BY <1>0, <1>3 DEF Manifests!Read, Manifests!Edit, Manifests!locks, ManifestHeld
<1>4. ASSUME NEW t \in StoreThreads, Manifests!WriteTmp(t) \/ Manifests!Replace(t) PROVE ManifestHeld'
  BY <1>0, <1>4 DEF Manifests!WriteTmp, Manifests!Replace, Manifests!locks, ManifestHeld
<1>5. ASSUME NEW t \in StoreThreads, Manifests!Release(t) PROVE ManifestHeld'
  BY <1>0, <1>5 DEF Manifests!Release, Manifests!locks, ManifestHeld
<1>6. ASSUME NEW p \in StoreProcesses, Manifests!Crash(p) PROVE ManifestHeld'
  <2>1. /\ storeCrashes' = storeCrashes + 1 /\ storeCrashes < MaxCrashes
        /\ threadLock' = [threadLock EXCEPT ![p] = None] /\ fileLock' \in {None, fileLock}
        /\ looked' = [t \in StoreThreads |-> IF t \in {u \in StoreThreads : StoreProcessOf[u] = p}
                                             THEN None ELSE looked[t]]
        /\ UNCHANGED <<tmp, calls>>
    BY <1>6 DEF Manifests!Crash
  <2>2. looked' \in [StoreThreads -> [Addresses -> Nat] \union {None}]
    BY <2>1 DEF ManifestHeld
  <2>3. storeCrashes' \in 0..MaxCrashes
    BY <1>0, <2>1 DEF ManifestHeld
  <2> QED BY <2>1, <2>2, <2>3 DEF ManifestHeld
<1>7. CASE UNCHANGED Manifests!vars
  BY <1>7 DEF Manifests!vars, Manifests!locks, ManifestHeld
<1> QED BY <1>1, <1>2, <1>3, <1>4, <1>5, <1>6, <1>7 DEF Manifests!Next, Manifests!Step

LEMMA ManifestTyped == ManifestIInv /\ ManifestHeld => Manifests!TypeOK
BY DEF ManifestIInv, ManifestShapes, ManifestHeld, Manifests!TypeOK

-----------------------------------------------------------------------------
\* What a settings post was answered.
ProviderAnswered == saved \in {None, "saved", "raised", "not offered", "unavailable"}

LEMMA ProviderAnsweredKept ==
  ASSUME ProviderAnswered, [Models!Next]_(Models!vars)
  PROVE  ProviderAnswered'
<1>1. saved' \in {saved, "saved", "raised", "not offered", "unavailable"}
  <2>1. ASSUME NEW p \in Catalogue \union {None}, Models!Post(p)
        PROVE  saved' \in {"saved", "raised", "not offered", "unavailable"}
    BY <2>1 DEF Models!Post, Models!SetSettings
  <2>2. CASE Models!Show \/ Models!Deploy \/ Models!StopDaemon \/ Models!StartDaemon
             \/ Models!RestartWeb \/ Models!Tick \/ UNCHANGED Models!vars
             \/ \E p \in Catalogue : Models!Provider(p)
    BY <2>2 DEF Models!Show, Models!Deploy, Models!StopDaemon, Models!StartDaemon,
       Models!RestartWeb, Models!Tick, Models!Provider, Models!vars, Models!webVars
  <2>3. ASSUME NEW t \in Loops, Models!Load(t) \/ Models!MakeClient(t) \/ Models!Finish(t)
                                \/ Models!Complete(t) \/ Models!ProviderRefuses(t)
        PROVE  saved' = saved
    BY <2>3 DEF Models!Load, Models!MakeClient, Models!Finish, Models!Complete,
       Models!ProviderRefuses, Models!webVars
  <2> QED BY <2>1, <2>2, <2>3 DEF Models!Next
<1> QED BY <1>1 DEF ProviderAnswered

LEMMA ProviderTyped == ProviderIInv /\ ProviderAnswered => Models!TypeOK
BY DEF ProviderIInv, ProviderShapes, ProviderClientInv, ProviderClientRight, ProviderAnswered,
   Models!TypeOK

-----------------------------------------------------------------------------
LEMMA VoiceClockKept ==
  ASSUME LastTimes.voice \in Nat, voiceNow \in 0..LastTimes.voice, [Voices!Next]_(Voices!vars)
  PROVE  voiceNow' \in 0..LastTimes.voice
<1>1. CASE Voices!Tick
  BY <1>1 DEF Voices!Tick
<1>2. ASSUME NEW t \in Tabs, Voices!Serve(t) PROVE UNCHANGED voiceNow
  BY <1>2 DEF Voices!Serve, Voices!Generate, Voices!Ask, Voices!Render, Voices!BeginDelete,
     Voices!Forget, Voices!Remove
<1>3. ASSUME NEW r \in DOMAIN threads, Voices!Run(r) PROVE UNCHANGED voiceNow
  BY <1>3 DEF Voices!Run, Voices!Collect, Voices!Synthesize, Voices!Save, Voices!Finish
<1>4. CASE Voices!Restart \/ (\E a \in VoiceAccounts : Voices!SignUp(a)) \/ UNCHANGED Voices!vars
  BY <1>4 DEF Voices!Restart, Voices!SignUp, Voices!vars
<1> QED BY <1>1, <1>2, <1>3, <1>4 DEF Voices!Next

LEMMA VoiceTyped == VoiceIInv /\ voiceNow \in 0..LastTimes.voice => Voices!TypeOK
<1> SUFFICES ASSUME VoiceIInv, voiceNow \in 0..LastTimes.voice PROVE Voices!TypeOK
  OBVIOUS
<1>1. ASSUME NEW a \in VoiceAccounts, jobs[a] # None
      PROVE  /\ jobs[a].state \in {"running", "done", "failed"}
             /\ jobs[a].run \in DOMAIN runs /\ jobs[a].started <= voiceNow
  <2>1. jobs[a] \in VoiceJobs
    BY <1>1 DEF VoiceIInv, VoiceShapes
  <2> QED BY <1>1, <2>1 DEF VoiceIInv, VoiceJobsInv, VoiceJobs
<1>2. \A t \in Tabs : voicePage[t].op \in {"none", "ask", "delete", "remove"}
  BY DEF VoiceIInv, VoiceShapes, VoicePages
<1> QED BY <1>1, <1>2 DEF VoiceIInv, VoiceShapes, Voices!TypeOK

-----------------------------------------------------------------------------
\* A token is of a consent given so far, and from no later than now.
TokenGood(n, u) == [grant : 1..u, until : 0..n + Life]

TokenFit ==
  /\ now \in 0..LastTimes.tokens /\ used \in 1..MaxConsents
  /\ handle \in 0..used /\ grant \in 0..used /\ live \subseteq 1..used
  /\ op.handle \in 0..used /\ op.grant \in 0..used
  /\ cache # None => cache \in [token : TokenGood(now, used), expiry : 0..now + Life]
  /\ \A t \in Workers :
       /\ at[t] \in {"posting", "storing"} => hand[t].grant \in 1..used
       /\ at[t] \in {"storing", "pairing"} => hand[t].token \in TokenGood(now, used)
       /\ at[t] # "idle" \/ services[t] # None =>
            /\ services[t].handle \in 1..used
            /\ services[t].token \in TokenGood(now, used) \cup {None}

\* The lock is let go of by whoever leaves.
TokenHeld ==
  /\ lock \in Workers \cup {None} /\ torn \subseteq Workers
  /\ \A t \in Workers : lock = t => at[t] \in TokenInside

LEMMA TokenNumbers ==
  ASSUME Tokens!AccessTokensAssumption
  PROVE  /\ Life \in Nat /\ EXPIRY_MARGIN \in 0..Life /\ LastTimes.tokens \in Nat
         /\ MaxConsents \in Nat \ {0}
BY DEF Tokens!AccessTokensAssumption

LEMMA TokenLockLet ==
  ASSUME Tokens!AccessTokensAssumption, TokenIInv, TokenHeld, [Tokens!Next]_(Tokens!vars)
  PROVE  TokenHeld'
<1>0. at \in [Workers -> TokenPlaces] /\ None \notin Workers
  BY DEF TokenIInv, TokenShapes, Tokens!AccessTokensAssumption
<1>1. ASSUME NEW t \in Workers, Tokens!Ask(t) \/ Tokens!Enter(t) PROVE TokenHeld'
  BY <1>0, <1>1 DEF Tokens!Ask, Tokens!Enter, Tokens!FromCache, Tokens!Go, TokenHeld, TokenInside
<1>2. ASSUME NEW t \in Workers, Tokens!Release(t) \/ Tokens!Post(t) PROVE TokenHeld'
  BY <1>0, <1>2 DEF Tokens!Release, Tokens!Post, Tokens!Go, TokenHeld, TokenInside
<1>3. ASSUME NEW t \in Workers,
             Tokens!ReleaseFails(t) \/ Tokens!PostFails(t) \/ Tokens!Store(t)
      PROVE  TokenHeld'
  BY <1>0, <1>3 DEF Tokens!ReleaseFails, Tokens!PostFails, Tokens!Store, Tokens!Raise, Tokens!Go,
     TokenHeld, TokenInside
<1>4. ASSUME NEW t \in Workers, Tokens!Pair(t) PROVE TokenHeld'
  <2>1. /\ at[t] = "pairing" /\ at' = [at EXCEPT ![t] = "idle"] /\ lock' = lock
        /\ torn' \in {torn, torn \ {t}, torn \cup {t}}
    BY <1>4 DEF Tokens!Pair, Tokens!Go
  <2> QED BY <1>0, <2>1 DEF TokenHeld, TokenInside
<1>5. CASE Tokens!Handoff \/ Tokens!Tick \/ UNCHANGED Tokens!vars
  BY <1>5 DEF Tokens!Handoff, Tokens!Consent, Tokens!Settle, Tokens!Forget, Tokens!Revoke,
     Tokens!DropCache, Tokens!RemoveRow, Tokens!Tick, Tokens!vars, TokenHeld
<1> QED BY <1>1, <1>2, <1>3, <1>4, <1>5 DEF Tokens!Next, Tokens!Call

LEMMA TokenCallFits ==
  ASSUME Tokens!AccessTokensAssumption, TokenIInv, TokenFit,
         NEW t \in Workers, Tokens!Call(t)
  PROVE  TokenFit'
<1>0. /\ at \in [Workers -> TokenPlaces] /\ hand \in [Workers -> TokenHands]
      /\ services \in [Workers -> TokenClients \cup {None}]
      /\ now \in Nat /\ used \in Nat /\ Life \in Nat /\ EXPIRY_MARGIN \in 0..Life
      /\ at[t] # "idle" => services[t] \in TokenClients
  BY TokenNumbers DEF TokenIInv, TokenShapes
<1>1. UNCHANGED <<now, handle, grant, used, live, op>>
  BY DEF Tokens!Call, Tokens!Ask, Tokens!Enter, Tokens!FromCache, Tokens!Release,
     Tokens!ReleaseFails, Tokens!PostFails, Tokens!Post, Tokens!Store, Tokens!Pair, Tokens!rows
<1>2. ASSUME \/ cache' = cache
             \/ cache' \in [token : TokenGood(now, used), expiry : 0..now + Life],
             \A u \in Workers \ {t} : /\ at'[u] = at[u] /\ hand'[u] = hand[u]
                                      /\ services'[u] = services[u],
             at'[t] \in {"posting", "storing"} => hand'[t].grant \in 1..used,
             at'[t] \in {"storing", "pairing"} => hand'[t].token \in TokenGood(now, used),
             \/ /\ services'[t] = services[t]
                /\ at'[t] = "idle" \/ at[t] # "idle" \/ services[t] # None
             \/ /\ services'[t].handle \in 1..used
                /\ services'[t].token \in TokenGood(now, used) \cup {None}
      PROVE  TokenFit'
  BY <1>1, <1>2 DEF TokenFit, TokenGood
<1>3. CASE Tokens!Ask(t)
  <2>1. /\ handle # 0 /\ cache' = cache /\ at' = [at EXCEPT ![t] = "asking"]
        /\ hand' = [hand EXCEPT ![t] = [Tokens!Empty EXCEPT !.asked = now]]
        /\ \/ services[t] # None /\ services' = services
           \/ services' = [services EXCEPT ![t] = [handle |-> handle, token |-> None, expiry |-> 0]]
    BY <1>3 DEF Tokens!Ask, Tokens!Go
  <2>2. \/ services[t] # None /\ services'[t] = services[t]
        \/ /\ services'[t].handle \in 1..used
           /\ services'[t].token \in TokenGood(now, used) \cup {None}
    BY <1>0, <2>1 DEF TokenFit
  <2>3. at'[t] = "asking"
    BY <1>0, <2>1
  <2> QED BY <1>0, <1>2, <2>1, <2>2, <2>3
<1>4. CASE Tokens!Enter(t)
  <2>0. at[t] = "asking"
    BY <1>4 DEF Tokens!Enter
  <2>1. CASE Tokens!FromCache(t) /\ cache # None
    <3>1. /\ cache' = cache /\ services' = services /\ at' = [at EXCEPT ![t] = "pairing"]
          /\ hand' = [hand EXCEPT ![t].token = cache.token]
      BY <2>1 DEF Tokens!FromCache, Tokens!Go
    <3>2. cache.token \in TokenGood(now, used)
      BY <2>1 DEF TokenFit
    <3>3. at'[t] = "pairing" /\ hand'[t].token = cache.token
      BY <1>0, <3>1 DEF TokenHands
    <3> QED BY <1>0, <1>2, <2>0, <3>1, <3>2, <3>3
  <2>2. CASE at' = [at EXCEPT ![t] = "refreshing"] /\ UNCHANGED <<cache, services, hand>>
    BY <1>0, <1>2, <2>0, <2>2
  <2> QED BY <1>4, <2>1, <2>2 DEF Tokens!Enter, Tokens!Go, Tokens!CacheGood
<1>5. CASE Tokens!Release(t)
  <2>1. /\ at[t] = "refreshing" /\ grant # 0 /\ cache' = cache /\ services' = services
        /\ at' = [at EXCEPT ![t] = "posting"] /\ hand' = [hand EXCEPT ![t].grant = grant]
    BY <1>5 DEF Tokens!Release, Tokens!Go
  <2>2. at'[t] = "posting" /\ hand'[t].grant = grant /\ grant \in 1..used
    BY <1>0, <2>1 DEF TokenHands, TokenFit
  <2> QED BY <1>0, <1>2, <2>1, <2>2
<1>6. CASE Tokens!ReleaseFails(t) \/ Tokens!PostFails(t)
  <2>1. /\ at' = [at EXCEPT ![t] = "idle"] /\ hand' = [hand EXCEPT ![t] = Tokens!Empty]
        /\ UNCHANGED <<cache, services>>
    BY <1>6 DEF Tokens!ReleaseFails, Tokens!PostFails, Tokens!Raise, Tokens!Go
  <2>2. at'[t] = "idle"
    BY <1>0, <2>1
  <2> QED BY <1>0, <1>2, <2>1, <2>2
<1>7. CASE Tokens!Post(t)
  <2> DEFINE gained == [grant |-> hand[t].grant, until |-> now + Life]
  <2>1. /\ at[t] = "posting" /\ at' = [at EXCEPT ![t] = "storing"]
        /\ hand' = [hand EXCEPT ![t].token = gained] /\ UNCHANGED <<cache, services>>
    BY <1>7 DEF Tokens!Post, Tokens!Go
  <2>2. hand[t].grant \in 1..used
    BY <2>1 DEF TokenFit
  <2>3. gained \in TokenGood(now, used)
    BY <1>0, <2>2 DEF TokenGood
  <2>4. at'[t] = "storing" /\ hand'[t].token = gained /\ hand'[t].grant = hand[t].grant
    BY <1>0, <2>1 DEF TokenHands
  <2> HIDE DEF gained
  <2> QED BY <1>0, <1>2, <2>1, <2>2, <2>3, <2>4
<1>8. CASE Tokens!Store(t)
  <2>1. /\ at[t] = "storing" /\ at' = [at EXCEPT ![t] = "pairing"] /\ UNCHANGED <<hand, services>>
        /\ cache' = [token |-> hand[t].token, expiry |-> now + Life - EXPIRY_MARGIN]
    BY <1>8 DEF Tokens!Store, Tokens!Go, Tokens!Expiry
  <2>2. hand[t].token \in TokenGood(now, used)
    BY <2>1 DEF TokenFit
  <2>3. now + Life - EXPIRY_MARGIN \in 0..now + Life
    BY <1>0
  <2>4. cache' \in [token : TokenGood(now, used), expiry : 0..now + Life]
    BY <2>1, <2>2, <2>3
  <2> QED BY <1>0, <1>2, <2>1, <2>2, <2>4
<1>9. CASE Tokens!Pair(t)
  <2>1. /\ at[t] = "pairing" /\ at' = [at EXCEPT ![t] = "idle"] /\ cache' = cache
        /\ hand' = [hand EXCEPT ![t] = Tokens!Empty]
        /\ \/ services' = services
           \/ services' = [services EXCEPT ![t].token = hand[t].token, ![t].expiry = cache.expiry]
    BY <1>9 DEF Tokens!Pair, Tokens!Go
  <2>2. hand[t].token \in TokenGood(now, used)
    BY <2>1 DEF TokenFit
  <2>3. \/ services'[t] = services[t]
        \/ services'[t].handle = services[t].handle /\ services'[t].token = hand[t].token
    BY <1>0, <2>1 DEF TokenClients
  <2>4. \/ services'[t] = services[t]
        \/ /\ services'[t].handle \in 1..used
           /\ services'[t].token \in TokenGood(now, used) \cup {None}
    BY <2>1, <2>2, <2>3 DEF TokenFit
  <2>5. at'[t] = "idle"
    BY <1>0, <2>1
  <2> QED BY <1>0, <1>2, <2>1, <2>4, <2>5
<1> QED BY <1>3, <1>4, <1>5, <1>6, <1>7, <1>8, <1>9 DEF Tokens!Call

LEMMA TokenLater == \A a, b, c \in Nat : a <= b => 0..a + c \subseteq 0..b + c
OBVIOUS

LEMMA TokenRestFits ==
  ASSUME Tokens!AccessTokensAssumption, TokenIInv, TokenFit,
         Tokens!Handoff \/ Tokens!Tick \/ UNCHANGED Tokens!vars
  PROVE  TokenFit'
<1>0. /\ now \in Nat /\ used \in Nat /\ Life \in Nat /\ MaxConsents \in Nat
      /\ op \in [step : {"none", "consented", "settled", "revoked", "dropped"},
                 handle : Nat, grant : Nat]
  BY TokenNumbers DEF TokenIInv, TokenShapes
<1>1. ASSUME UNCHANGED <<at, hand, services>>, now' \in Nat, used' \in Nat, now <= now', used <= used',
             cache' \in {cache, None}, now' <= LastTimes.tokens, used' <= MaxConsents,
             handle' \in 0..used', grant' \in 0..used', live' \subseteq 1..used',
             op'.handle \in 0..used', op'.grant \in 0..used'
      PROVE  TokenFit'
  <2>1. TokenGood(now, used) \subseteq TokenGood(now', used')
    BY <1>0, <1>1 DEF TokenGood
  <2>2. 1..used \subseteq 1..used' /\ 0..now + Life \subseteq 0..now' + Life
    <3>1. \A i \in 1..used : i \in 1..used'
      BY <1>0, <1>1
    <3>2. 0..now + Life \subseteq 0..now' + Life
      BY <1>0, <1>1, TokenLater, Zenon
    <3> QED BY <3>1, <3>2
  <2>3. cache' # None => cache' \in [token : TokenGood(now', used'), expiry : 0..now' + Life]
    BY <1>1, <2>1, <2>2 DEF TokenFit
  <2>4. now' \in 0..LastTimes.tokens /\ used' \in 1..MaxConsents
    BY <1>0, <1>1, TokenNumbers DEF TokenFit
  <2> HIDE DEF TokenGood
  <2> QED BY <1>1, <2>1, <2>2, <2>3, <2>4 DEF TokenFit
<1>2. CASE Tokens!Consent
  <2>1. /\ used' = used + 1 /\ used < MaxConsents /\ live' = live \cup {used'}
        /\ op'.handle \in {handle, used'} /\ op'.grant = used'
        /\ UNCHANGED <<now, handle, grant, cache, services, at, hand>>
    BY <1>2 DEF Tokens!Consent
  <2>2. live' \subseteq 1..used'
    BY <1>0, <2>1 DEF TokenFit
  <2> QED BY <1>0, <1>1, <2>1, <2>2, TokenNumbers DEF TokenFit
<1>3. CASE Tokens!Settle \/ Tokens!Forget \/ Tokens!Revoke
  <2>1. /\ handle' \in {handle, op.handle} /\ grant' \in {grant, op.grant}
        /\ live' \subseteq live /\ cache' \in {cache, None}
        /\ UNCHANGED <<now, used, at, hand, services>>
    BY <1>3 DEF Tokens!Settle, Tokens!Forget, Tokens!Revoke, Tokens!rows
  <2>2. op'.handle \in {0, op.handle} /\ op'.grant \in {0, op.grant}
    BY <1>0, <1>3 DEF Tokens!Settle, Tokens!Forget, Tokens!Revoke, Tokens!NoOp
  <2> QED BY <1>0, <1>1, <2>1, <2>2, TokenNumbers DEF TokenFit
<1>4. CASE Tokens!DropCache \/ Tokens!RemoveRow
  <2>1. /\ handle' \in {handle, 0} /\ grant' \in {grant, 0} /\ cache' \in {cache, None}
        /\ UNCHANGED <<now, used, live, at, hand, services>>
    BY <1>4 DEF Tokens!DropCache, Tokens!RemoveRow, Tokens!rows
  <2>2. op'.handle \in {0, op.handle} /\ op'.grant \in {0, op.grant}
    BY <1>0, <1>4 DEF Tokens!DropCache, Tokens!RemoveRow, Tokens!NoOp
  <2> QED BY <1>0, <1>1, <2>1, <2>2, TokenNumbers DEF TokenFit
<1>5. CASE Tokens!Tick
  BY <1>0, <1>1, <1>5, TokenNumbers DEF Tokens!Tick, Tokens!rows, TokenFit
<1>6. CASE UNCHANGED Tokens!vars
  BY <1>6 DEF Tokens!vars, Tokens!rows, TokenFit, TokenGood
<1> QED BY <1>2, <1>3, <1>4, <1>5, <1>6 DEF Tokens!Handoff

LEMMA TokenStepFits ==
  ASSUME Tokens!AccessTokensAssumption, TokenIInv, TokenFit, [Tokens!Next]_(Tokens!vars)
  PROVE  TokenFit'
BY TokenCallFits, TokenRestFits DEF Tokens!Next

LEMMA TokenInitFits ==
  ASSUME Tokens!AccessTokensAssumption, Tokens!Init
  PROVE  TokenFit /\ TokenHeld
<1>1. \A t \in Workers : lock # t /\ at[t] = "idle" /\ services[t] = None
  BY DEF Tokens!Init, Tokens!AccessTokensAssumption
<1>2. cache = None /\ op = Tokens!NoOp /\ now = 0 /\ used = 1 /\ handle = 1 /\ grant = 1
      /\ live = {1} /\ lock = None /\ torn = {}
  BY DEF Tokens!Init
<1>3. op.handle = 0 /\ op.grant = 0
  BY <1>2 DEF Tokens!NoOp
<1>4. TokenFit
  BY <1>1, <1>2, <1>3, TokenNumbers DEF TokenFit
<1> QED BY <1>1, <1>2, <1>4 DEF TokenHeld

LEMMA TokenTyped ==
  ASSUME Tokens!AccessTokensAssumption, TokenIInv, TokenFit, TokenHeld
  PROVE  Tokens!TypeOK
<1>0. /\ now \in Nat /\ now <= LastTimes.tokens /\ used \in Nat /\ used <= MaxConsents
      /\ Life \in Nat /\ LastTimes.tokens \in Nat /\ MaxConsents \in Nat
  BY TokenNumbers DEF TokenIInv, TokenShapes, TokenFit
<1>1. TokenGood(now, used) \subseteq Tokens!Tokens /\ 0..now + Life \subseteq 0..LastTimes.tokens + Life
  BY <1>0 DEF TokenGood, Tokens!Tokens
<1>2. cache = None \/ cache \in [token : Tokens!Tokens, expiry : 0..LastTimes.tokens + Life]
  BY <1>1 DEF TokenFit
<1>3. ASSUME NEW t \in Workers
      PROVE  /\ at[t] \in Tokens!Steps
             /\ services[t] = None \/ /\ services[t].handle \in 1..used
                                      /\ services[t].token \in Tokens!Tokens \cup {None}
             /\ lock = t => at[t] \in {"refreshing", "posting", "storing"}
  <2>1. at[t] \in Tokens!Steps
    BY DEF TokenIInv, TokenShapes, TokenPlaces, Tokens!Steps
  <2>2. lock = t => at[t] \in {"refreshing", "posting", "storing"}
    BY DEF TokenHeld, TokenInside
  <2> QED BY <1>1, <2>1, <2>2 DEF TokenFit
<1> QED BY <1>0, <1>2, <1>3 DEF TokenFit, TokenHeld, Tokens!TypeOK

-----------------------------------------------------------------------------
\* The model's turns and the dash retries are counted to their limits, and the
\* body is what the path in hand makes of it.
DraftWork == /\ turn \in 0..MAX_ITERATIONS /\ retry \in 0..MAX_EM_DASH_RETRIES
             /\ body \in {"none", "clean", "dashed", "private", "shared"}

LEMMA DraftWorkKept ==
  ASSUME Drafts!DraftingAssumption, DraftWork, [Drafts!Next]_(Drafts!vars)
  PROVE  DraftWork'
<1>0. MAX_ITERATIONS \in Nat /\ MAX_EM_DASH_RETRIES \in Nat
  BY DEF Drafts!DraftingAssumption
<1>1. ASSUME NEW S, Drafts!Leave(S) PROVE DraftWork'
  BY <1>0, <1>1 DEF Drafts!Leave, DraftWork
<1>2. ASSUME UNCHANGED <<turn, retry, body>> PROVE DraftWork'
  BY <1>2 DEF DraftWork
<1>3. Drafts!MailFails \/ (\E m : Drafts!RequestFails(m)) => \E S : Drafts!Leave(S)
  BY DEF Drafts!MailFails, Drafts!RequestFails
<1>4. Drafts!Raised \/ Drafts!Empty => \E S : Drafts!Leave(S)
  BY <1>3 DEF Drafts!Raised, Drafts!Empty
<1>5. ASSUME NEW m \in Drafts!Messages,
             Drafts!StartRequest(m) \/ Drafts!StartMail(m) \/ Drafts!StartSent(m)
      PROVE  DraftWork'
  BY <1>1, <1>2, <1>3, <1>5
     DEF Drafts!StartRequest, Drafts!StartMail, Drafts!StartSent, Drafts!TakeUp
<1>6. CASE Drafts!Complete
  <2>1. CASE Drafts!Raised \/ Drafts!Empty
    BY <1>1, <1>4, <2>1
  <2>2. CASE turn < MAX_ITERATIONS /\ turn' = turn + 1 /\ UNCHANGED <<retry, body>>
    BY <1>0, <2>2 DEF DraftWork
  <2>3. CASE retry < MAX_EM_DASH_RETRIES /\ Drafts!Again /\ UNCHANGED body
    BY <1>0, <2>3 DEF Drafts!Again, DraftWork
  <2>4. CASE body' \in {"clean", "dashed"} /\ UNCHANGED <<turn, retry>>
    BY <2>4 DEF DraftWork
  <2> QED BY <1>6, <2>1, <2>2, <2>3, <2>4 DEF Drafts!Complete
<1>7. CASE Drafts!SaveReply \/ Drafts!Insert \/ Drafts!Finish \/ Drafts!Announce \/ Drafts!Fetch
  BY <1>1, <1>2, <1>4, <1>7 DEF Drafts!SaveReply, Drafts!Insert, Drafts!Finish, Drafts!Announce,
     Drafts!Fetch, Drafts!work
<1>8. CASE Drafts!Ask \/ Drafts!Store
  <2>1. (\E u : Drafts!Refuse(u)) => \E S : Drafts!Leave(S)
    BY DEF Drafts!Refuse
  <2>2. CASE body' \in {"none", "private", "shared"} /\ UNCHANGED <<turn, retry>>
    BY <2>2 DEF DraftWork
  <2> QED BY <1>1, <1>8, <2>1, <2>2 DEF Drafts!Ask, Drafts!Store, Drafts!Clear
<1>9. CASE Drafts!Crash
  BY <1>0, <1>9 DEF Drafts!Crash, DraftWork
<1>10. CASE Drafts!Share \/ Drafts!Tick \/ (\E m \in Drafts!Messages : Drafts!Arrive(m))
            \/ UNCHANGED Drafts!vars
  BY <1>2, <1>10 DEF Drafts!Share, Drafts!Tick, Drafts!Arrive, Drafts!vars, Drafts!work
<1> QED BY <1>5, <1>6, <1>7, <1>8, <1>9, <1>10 DEF Drafts!Next, Drafts!Step

\* Sent mail gets no draft, and only what has arrived is spoken of.
DraftTold == /\ told \cup failed \subseteq arrived /\ orphans \subseteq Requests \cup Mail
             /\ \A m \in Sent : draft[m] = "none"
             /\ ban \in BOOLEAN

LEMMA DraftToldKept ==
  ASSUME Drafts!DraftingAssumption, DraftIInv, DraftTold, [Drafts!Next]_(Drafts!vars)
  PROVE  DraftTold'
<1>0. /\ Drafts!Messages = Requests \cup Mail \cup Sent
      /\ \A m \in Sent : m \notin Requests /\ m \notin Mail
      /\ draft \in [Drafts!Messages -> {"none", "progress", "failed", "rejected", "clean", "dashed"}]
      /\ batch \subseteq taken /\ taken \subseteq arrived /\ arrived \subseteq Drafts!Messages
      /\ drafted \subseteq arrived
      /\ pc \notin {"idle", "next"} => msg \in batch
      /\ pc \in {"model", "reply"} => msg \in Requests \cup Mail
  BY DraftFacts DEF DraftIInv, DraftShapes
<1>1. ASSUME told' \cup failed' \subseteq arrived, arrived \subseteq arrived',
             UNCHANGED <<orphans, ban>>,
             \/ draft' = draft
             \/ \E m \in Requests \cup Mail : \E d : draft' = [draft EXCEPT ![m] = d]
      PROVE  DraftTold'
  BY <1>0, <1>1 DEF DraftTold
<1>2. ASSUME UNCHANGED <<told, failed, orphans, draft>>, arrived \subseteq arrived', ban' \in BOOLEAN
      PROVE  DraftTold'
  BY <1>2 DEF DraftTold
<1>3. ASSUME NEW m \in Drafts!Messages, Drafts!StartRequest(m) PROVE DraftTold'
  <2>1. m \in batch /\ m \in Requests /\ UNCHANGED <<orphans, ban, arrived>>
    BY <1>3 DEF Drafts!StartRequest, Drafts!Turn
  <2>2. told' \in {told, told \cup {m}} /\ failed' \in {failed, failed \cup {m}}
    BY <1>3 DEF Drafts!StartRequest, Drafts!RequestFails
  <2>3. draft' = draft \/ draft' = [draft EXCEPT ![m] = "progress"]
    BY <1>3 DEF Drafts!StartRequest, Drafts!RequestFails
  <2> QED BY <1>0, <1>1, <2>1, <2>2, <2>3 DEF DraftTold
<1>4. ASSUME NEW m \in Drafts!Messages, Drafts!StartMail(m) \/ Drafts!StartSent(m) PROVE DraftTold'
  <2>1. m \in batch /\ UNCHANGED <<orphans, ban, arrived, told, draft>>
    BY <1>4 DEF Drafts!StartMail, Drafts!StartSent, Drafts!Turn, Drafts!output, Drafts!MailFails
  <2>2. failed' \in {failed, failed \cup {m}, failed \cup (taken \cap Mail)}
    BY <1>4 DEF Drafts!StartMail, Drafts!StartSent, Drafts!MailFails, Drafts!output
  <2> QED BY <1>0, <1>1, <2>1, <2>2 DEF DraftTold
<1>5. CASE Drafts!Complete \/ Drafts!SaveReply
  <2>1. pc \in {"model", "reply"} /\ UNCHANGED <<orphans, ban, arrived>>
    BY <1>5 DEF Drafts!Complete, Drafts!SaveReply
  <2>2. Drafts!Raised => /\ failed' \in {failed \cup {msg}, failed \cup (taken \cap Mail)}
                         /\ UNCHANGED <<told, draft>>
    BY DEF Drafts!Raised, Drafts!MailFails, Drafts!RequestFails
  <2>3. Drafts!Empty => /\ failed' \in {failed, failed \cup (taken \cap Mail)}
                        /\ told' \in {told, told \cup {msg}}
                        /\ draft' = draft \/ draft' = [draft EXCEPT ![msg] = "failed"]
    BY DEF Drafts!Empty, Drafts!MailFails
  <2>4. CASE Drafts!Complete
    BY <1>0, <1>1, <2>1, <2>2, <2>3, <2>4 DEF Drafts!Complete, Drafts!output, DraftTold
  <2>5. CASE Drafts!SaveReply
    <3>1. CASE Drafts!Raised
      BY <1>0, <1>1, <2>1, <2>2, <3>1 DEF DraftTold
    <3>2. CASE told' \in {told, told \cup {msg}} /\ failed' = failed
               /\ \E d : draft' = [draft EXCEPT ![msg] = d]
      BY <1>0, <1>1, <2>1, <3>2 DEF DraftTold
    <3> QED BY <2>5, <3>1, <3>2 DEF Drafts!SaveReply
  <2> QED BY <1>5, <2>4, <2>5
<1>6. CASE Drafts!Announce
  BY <1>0, <1>1, <1>6 DEF Drafts!Announce, Drafts!mail, DraftTold
<1>7. CASE Drafts!Ask \/ Drafts!Store
  <2>1. /\ told' \in {told, told \cup (batch \cap Sent)}
        /\ UNCHANGED <<failed, orphans, ban, arrived, draft>>
    BY <1>7 DEF Drafts!Ask, Drafts!Store, Drafts!Clear, Drafts!Refuse
  <2> QED BY <1>0, <1>1, <2>1 DEF DraftTold
<1>8. CASE Drafts!Insert
  <2>1. /\ pc = "insert" /\ told' \in {told, told \cup {msg}} /\ failed' \in {failed, failed \cup {msg}}
        /\ UNCHANGED <<orphans, ban, arrived, draft>>
    BY <1>8 DEF Drafts!Insert
  <2> QED BY <1>0, <1>1, <2>1 DEF DraftTold
<1>9. CASE Drafts!Fetch \/ (\E m \in Drafts!Messages : Drafts!Arrive(m))
  BY <1>2, <1>9 DEF Drafts!Fetch, Drafts!Arrive, Drafts!output, DraftTold
<1>10. CASE Drafts!Crash
  <2>1. /\ orphans' = orphans \cup {m \in taken : draft[m] # "none" /\ m \notin told \cup failed}
        /\ UNCHANGED <<told, failed, arrived, draft, ban>>
    BY <1>10 DEF Drafts!Crash
  <2>2. \A m \in taken : draft[m] # "none" => m \in Requests \cup Mail
    BY <1>0 DEF DraftTold
  <2> QED BY <2>1, <2>2 DEF DraftTold
<1>11. CASE Drafts!Finish \/ Drafts!Share \/ Drafts!Tick \/ UNCHANGED Drafts!vars
  <2>1. UNCHANGED <<told, failed, orphans, draft, arrived, ban>>
    BY <1>11 DEF Drafts!Finish, Drafts!Share, Drafts!Tick, Drafts!vars, Drafts!output, Drafts!mail
  <2> QED BY <1>2, <2>1 DEF DraftTold
<1> QED BY <1>3, <1>4, <1>5, <1>6, <1>7, <1>8, <1>9, <1>10, <1>11 DEF Drafts!Next, Drafts!Step

\* The clock stops at its bound, and a remembered answer is yes or no.
DraftClock == clock \in 0..LastTimes.drafting /\ (sharing # None => sharing.shared \in BOOLEAN)

LEMMA DraftClockKept ==
  ASSUME LastTimes.drafting \in Nat, DraftClock, [Drafts!Next]_(Drafts!vars)
  PROVE  DraftClock'
<1>1. clock' \in 0..LastTimes.drafting
  <2>1. CASE Drafts!Tick
    BY <2>1 DEF Drafts!Tick, DraftClock
  <2>2. CASE clock' = clock
    BY <2>2 DEF DraftClock
  <2> QED BY <2>1, <2>2 DEF Drafts!Next, Drafts!Step, Drafts!Arrive, Drafts!Fetch, Drafts!Crash,
             Drafts!Share, Drafts!StartRequest, Drafts!StartMail, Drafts!StartSent, Drafts!Complete,
             Drafts!SaveReply, Drafts!Announce, Drafts!Ask, Drafts!Store, Drafts!Insert,
             Drafts!Finish, Drafts!world, Drafts!vars
<1>2. \/ sharing' \in {sharing, None} \/ sharing' = [at |-> clock, shared |-> body = "shared"]
  BY DEF Drafts!Next, Drafts!Step, Drafts!Arrive, Drafts!Fetch, Drafts!Crash, Drafts!Share,
     Drafts!StartRequest, Drafts!StartMail, Drafts!StartSent, Drafts!Complete,
     Drafts!SaveReply, Drafts!Announce, Drafts!Ask, Drafts!Store, Drafts!Insert,
     Drafts!Finish, Drafts!Tick, Drafts!calendar, Drafts!vars
<1>4. sharing' # None => sharing'.shared \in BOOLEAN
  <2>1. CASE sharing' \in {sharing, None}
    BY <2>1 DEF DraftClock
  <2>2. CASE sharing' = [at |-> clock, shared |-> body = "shared"]
    <3>1. sharing'.shared = (body = "shared")
      BY <2>2
    <3> QED BY <3>1
  <2> QED BY <1>2, <2>1, <2>2
<1> QED BY <1>1, <1>4 DEF DraftClock

LEMMA DraftInitTyped ==
  ASSUME Drafts!DraftingAssumption, LastTimes.drafting \in Nat, Drafts!Init
  PROVE  DraftWork /\ DraftTold /\ DraftClock
<1>1. MAX_ITERATIONS \in Nat /\ MAX_EM_DASH_RETRIES \in Nat
  BY DEF Drafts!DraftingAssumption
<1>2. DraftWork
  BY <1>1 DEF Drafts!Init, DraftWork
<1>3. DraftTold
  BY DEF Drafts!Init, DraftTold, Drafts!Messages
<1>4. DraftClock
  BY DEF Drafts!Init, DraftClock
<1> QED BY <1>2, <1>3, <1>4

LEMMA DraftTyped ==
  ASSUME Drafts!DraftingAssumption, DraftIInv, DraftWork, DraftTold, DraftClock
  PROVE  Drafts!TypeOK
<1>1. /\ clock \in 0..LastTimes.drafting /\ sharedSince \in 0..clock
      /\ sharing # None => sharing.at \in 0..clock
  BY DEF DraftIInv, DraftCalendarInv, DraftClock
<1>2. shared \in BOOLEAN /\ ban \in BOOLEAN /\ (sharing # None => sharing.shared \in BOOLEAN)
  BY DEF DraftIInv, DraftCalendarInv, DraftTold, DraftClock
<1>3. (msg = None) = (pc \in {"idle", "next"}) /\ (msg # None => msg \in batch)
  BY DraftFacts DEF DraftIInv, DraftShapes
<1>4. /\ behind \subseteq arrived /\ arrived \subseteq Drafts!Messages
      /\ batch \subseteq taken /\ taken \subseteq arrived \ behind
      /\ pc \in {"idle", "next", "model", "reply", "ask", "asked", "insert"}
      /\ draft \in [Drafts!Messages -> {"none", "progress", "failed", "rejected", "clean", "dashed"}]
      /\ drafted \subseteq taken \cap Mail
  BY DEF DraftIInv, DraftShapes
<1> QED BY <1>1, <1>2, <1>3, <1>4 DEF DraftWork, DraftTold, Drafts!TypeOK

-----------------------------------------------------------------------------
\* Type correctness, whichever of these parts the behaviour is one of: in particular
\* the lock of the token cache is its holder's, no message is drafted over more turns
\* of the model or dash retries than their limits, and no draft is made of sent mail
\* (accounts/account_manifest.py, custody/tokens.py, drafting/agentic_drafter.py,
\* integrations/llm_client.py, voice/voice_worker.py).
THEOREM BackendKeepsItsTypes ==
  Spec => [](part \in {"manifest", "tokens", "drafting", "providers", "voice"} => TypesOK)
<1>0. /\ Manifests!ManifestAssumption /\ Tokens!AccessTokensAssumption
      /\ Drafts!DraftingAssumption /\ Models!ProvidersAssumption /\ Voices!VoiceAssumption
      /\ LastTimes.drafting \in Nat /\ LastTimes.voice \in Nat
  BY PartsAssumption, BoundsAreNumbers
<1>1. Spec => [](ManifestIInv /\ ManifestHeld)
  <2>1. Manifests!Init => ManifestIInv /\ ManifestHeld
    BY <1>0, ManifestInitIInv DEF Manifests!Init, ManifestHeld, Manifests!ManifestAssumption
  <2>2. ManifestIInv /\ ManifestHeld /\ [Manifests!Next]_(Manifests!vars)
          => (ManifestIInv /\ ManifestHeld)'
    BY <1>0, ManifestStepIInv, ManifestHeldKept
  <2> QED BY <2>1, <2>2, ManifestIsAPart, PTL DEF Manifests!Spec
<1>2. Spec => [](TokenIInv /\ TokenFit /\ TokenHeld)
  <2>1. Tokens!Init => TokenIInv /\ TokenFit /\ TokenHeld
    BY <1>0, TokenInitIInv, TokenInitFits
  <2>2. TokenIInv /\ TokenFit /\ TokenHeld /\ [Tokens!Next]_(Tokens!vars)
          => (TokenIInv /\ TokenFit /\ TokenHeld)'
    BY <1>0, TokenStepKeeps, TokenStepFits, TokenLockLet
  <2> QED BY <2>1, <2>2, TokenIsAPart, PTL DEF Tokens!Spec
<1>3. Spec => [](DraftIInv /\ DraftWork /\ DraftTold /\ DraftClock)
  <2>1. Drafts!Init => DraftIInv /\ DraftWork /\ DraftTold /\ DraftClock
    BY <1>0, DraftInitIInv, DraftInitTyped
  <2>2. DraftIInv /\ DraftWork /\ DraftTold /\ DraftClock /\ [Drafts!Next]_(Drafts!vars)
          => (DraftIInv /\ DraftWork /\ DraftTold /\ DraftClock)'
    BY <1>0, DraftStepKeeps, DraftWorkKept, DraftToldKept, DraftClockKept DEF DraftKept
  <2> QED BY <2>1, <2>2, DraftIsAPart, PTL DEF Drafts!Spec
<1>4. Spec => [](ProviderIInv /\ ProviderAnswered)
  <2>1. Models!Init => ProviderIInv /\ ProviderAnswered
    BY <1>0, ProviderInitIInv DEF Models!Init, ProviderAnswered
  <2>2. ProviderIInv /\ ProviderAnswered /\ [Models!Next]_(Models!vars)
          => (ProviderIInv /\ ProviderAnswered)'
    BY <1>0, ProviderStepKeeps, ProviderAnsweredKept
  <2> QED BY <2>1, <2>2, ProviderIsAPart, PTL DEF Models!Spec
<1>5. Spec => [](VoiceIInv /\ voiceNow \in 0..LastTimes.voice)
  <2>1. Voices!Init => VoiceIInv /\ voiceNow \in 0..LastTimes.voice
    BY <1>0, VoiceInitIInv DEF Voices!Init
  <2>2. VoiceIInv /\ voiceNow \in 0..LastTimes.voice /\ [Voices!Next]_(Voices!vars)
          => (VoiceIInv /\ voiceNow \in 0..LastTimes.voice)'
    BY <1>0, VoiceStepIInv, VoiceClockKept
  <2> QED BY <2>1, <2>2, VoiceIsAPart, PTL DEF Voices!Spec
<1>6. Manifests!TypeOK /\ Tokens!TypeOK /\ Drafts!TypeOK /\ Models!TypeOK /\ Voices!TypeOK
        => (part \in {"manifest", "tokens", "drafting", "providers", "voice"} => TypesOK)
  BY DEF TypesOK
<1>7. /\ ManifestIInv /\ ManifestHeld => Manifests!TypeOK
      /\ TokenIInv /\ TokenFit /\ TokenHeld => Tokens!TypeOK
      /\ DraftIInv /\ DraftWork /\ DraftTold /\ DraftClock => Drafts!TypeOK
      /\ ProviderIInv /\ ProviderAnswered => Models!TypeOK
      /\ VoiceIInv /\ voiceNow \in 0..LastTimes.voice => Voices!TypeOK
  BY <1>0, ManifestTyped, TokenTyped, DraftTyped, ProviderTyped, VoiceTyped
<1> QED BY <1>1, <1>2, <1>3, <1>4, <1>5, <1>6, <1>7, PTL
=============================================================================
