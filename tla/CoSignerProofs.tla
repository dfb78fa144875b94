-------------------------- MODULE CoSignerProofs --------------------------
(***************************************************************************)
(* Proofs about CoSigner.tla, for every value of its constants.            *)
(*                                                                         *)
(* The argument has three parts.  The log that the limiter counts and the  *)
(* whole history agree on every row young enough to be counted (LogInv,    *)
(* LimiterIsExact).  What a thread found admissible under the lock is      *)
(* still admissible when it writes its row, although the clock may have    *)
(* moved and retention may have run (DecidedInv, StaysAdmissible).  And a  *)
(* row that is admissible when written keeps every window below its        *)
(* ceiling (AdmissibleKeepsCeilings).                                      *)
(***************************************************************************)
EXTENDS CoSigner, FiniteSetTheorems, TLAPS

---------------------------------------------------------------------------
\* Facts about cardinalities, in the forms used below.

\* A subset of a finite set is finite and no larger.
LEMMA SubsetCard ==
  ASSUME NEW T, IsFiniteSet(T), NEW S \in SUBSET T
  PROVE  /\ IsFiniteSet(S)
         /\ Cardinality(S) \in Nat
         /\ Cardinality(T) \in Nat
         /\ Cardinality(S) <= Cardinality(T)
BY FS_Subset, FS_CardinalityType

\* A set below a bound stays within it when one element joins it.
LEMMA OneMoreCard ==
  ASSUME NEW S, IsFiniteSet(S), NEW n \in Nat, Cardinality(S) < n,
         NEW x, NEW T \in SUBSET (S \union {x})
  PROVE  Cardinality(T) <= n
<1>0. Cardinality(S) \in Nat
  BY FS_CardinalityType
<1>1. /\ IsFiniteSet(S \union {x})
      /\ Cardinality(S \union {x}) = IF x \in S THEN Cardinality(S)
                                                ELSE Cardinality(S) + 1
  BY FS_AddElement
<1>2. Cardinality(S \union {x}) \in Nat
  BY <1>1, FS_CardinalityType
<1>3. Cardinality(T) \in Nat /\ Cardinality(T) <= Cardinality(S \union {x})
  BY <1>1, SubsetCard
<1> QED BY <1>0, <1>1, <1>2, <1>3

\* The accounts named by a finite set of rows are finitely many.
LEMMA UidsFinite ==
  ASSUME NEW log, IsFiniteSet(log)
  PROVE  IsFiniteSet({r.uid : r \in log})
<1> DEFINE U == {r.uid : r \in log}
           f == [r \in log |-> r.uid]
<1>1. f \in Surjection(log, U)
  BY DEF Surjection
<1> QED BY <1>1, FS_Surjection

---------------------------------------------------------------------------
\* The rules, over a history of grants.

UserAt(log, T, a, u) ==
  {r \in Within(log, T, Window) : r.action = a /\ r.uid = u}
ActionAt(log, T, a) == {r \in Within(log, T, Window) : r.action = a}
ReleasesAt(log, T) ==
  {r \in Within(log, T, DistinctWindow) : r.action \in KEY_RELEASING}
UidsAt(log, T) == {r.uid : r \in ReleasesAt(log, T)}

CeilingsAt(log, T) ==
  /\ \A a \in KEY_RELEASING, u \in Uids :
       Cardinality(UserAt(log, T, a, u)) <= PerUserLimit
  /\ \A a \in Actions \ {WRAP} : Cardinality(ActionAt(log, T, a)) <= LimitOf(a)
  /\ Cardinality(UidsAt(log, T)) <= DistinctLimit

\* A finite set of grants, none stamped later than t.
History(log, t) ==
  /\ log \subseteq Row
  /\ IsFiniteSet(log)
  /\ \A r \in log : r.decision = ALLOW /\ r.ts <= t

\* Between a decision and its row the clock only moves forward: an account the
\* rules admitted at t is still admitted at a later t2.  The sweep rule is the
\* one that needs an argument, because the account it exempted may have left
\* the window; then it took one of the at most DistinctLimit places with it.
LEMMA StaysAdmissible ==
  ASSUME NEW log, NEW t \in Nat, NEW t2 \in Nat, t <= t2, History(log, t),
         NEW u \in Uids, NEW a \in Actions,
         Cardinality(UidsAt(log, t)) <= DistinctLimit,
         ~RateRefused(log, t, u, a)
  PROVE  ~RateRefused(log, t2, u, a)
<1> USE LimitsAssumption, WindowsAssumption
<1>1. \A s \in Nat : \A acts :
        /\ Granted(log, s - Window, acts) \in SUBSET log
        /\ GrantedTo(log, s - Window, acts, u) \in SUBSET log
  BY DEF Granted, GrantedTo
<1>2. \A acts : /\ Granted(log, t2 - Window, acts) \in SUBSET Granted(log, t - Window, acts)
                /\ GrantedTo(log, t2 - Window, acts, u)
                     \in SUBSET GrantedTo(log, t - Window, acts, u)
  BY DEF Granted, GrantedTo, History, Row
<1>3. \A acts : /\ Cardinality(Granted(log, t2 - Window, acts)) \in Nat
                /\ Cardinality(Granted(log, t - Window, acts)) \in Nat
                /\ Cardinality(Granted(log, t2 - Window, acts))
                     <= Cardinality(Granted(log, t - Window, acts))
  BY <1>1, <1>2, SubsetCard DEF History
<1>4. \A acts : /\ Cardinality(GrantedTo(log, t2 - Window, acts, u)) \in Nat
                /\ Cardinality(GrantedTo(log, t - Window, acts, u)) \in Nat
                /\ Cardinality(GrantedTo(log, t2 - Window, acts, u))
                     <= Cardinality(GrantedTo(log, t - Window, acts, u))
  BY <1>1, <1>2, SubsetCard DEF History
<1>5. a \in KEY_RELEASING => ~SweepRefused(log, t2, u)
  <2> SUFFICES ASSUME a \in KEY_RELEASING PROVE ~SweepRefused(log, t2, u)
    OBVIOUS
  <2> DEFINE D(s) == DistinctUids(log, s - DistinctWindow, KEY_RELEASING)
             G(s) == GrantedTo(log, s - DistinctWindow, KEY_RELEASING, u)
  <2>1. ~SweepRefused(log, t, u)
    BY DEF RateRefused, KEY_RELEASING, UNWRAP, UNWRAP_DATA, SIGN, REWRAP
  <2>2. IsFiniteSet(D(t))
    <3>1. Granted(log, t - DistinctWindow, KEY_RELEASING) \in SUBSET log
      BY DEF Granted
    <3>2. IsFiniteSet(Granted(log, t - DistinctWindow, KEY_RELEASING))
      BY <3>1, SubsetCard DEF History
    <3> QED BY <3>2, UidsFinite DEF DistinctUids
  <2>3. D(t2) \in SUBSET D(t)
    BY DEF DistinctUids, Granted, History, Row
  <2>4. Cardinality(D(t2)) \in Nat /\ Cardinality(D(t)) \in Nat
        /\ Cardinality(D(t2)) <= Cardinality(D(t))
    BY <2>2, <2>3, SubsetCard
  <2>5. D(t) = UidsAt(log, t)
    BY DEF DistinctUids, Granted, UidsAt, ReleasesAt, Within, History, Row
  <2>6. CASE G(t2) # {}
    BY <2>6 DEF SweepRefused
  <2>7. CASE G(t2) = {} /\ G(t) # {}
    <3>1. u \in D(t) /\ u \notin D(t2)
      BY <2>7 DEF DistinctUids, GrantedTo
    <3>2. D(t2) \in SUBSET (D(t) \ {u})
      BY <2>3, <3>1
    <3>3. IsFiniteSet(D(t) \ {u}) /\ Cardinality(D(t) \ {u}) = Cardinality(D(t)) - 1
      BY <2>2, <3>1, FS_RemoveElement
    <3>4. Cardinality(D(t2)) <= Cardinality(D(t)) - 1
      BY <3>2, <3>3, SubsetCard
    <3>5. Cardinality(D(t2)) < DistinctLimit
      BY <2>4, <2>5, <3>4
    <3> QED BY <2>4, <3>5 DEF SweepRefused
  <2>8. CASE G(t) = {}
    <3>1. Cardinality(D(t)) < DistinctLimit
      BY <2>1, <2>4, <2>8 DEF SweepRefused
    <3> QED BY <2>4, <3>1 DEF SweepRefused
  <2> QED BY <2>6, <2>7, <2>8
<1> QED BY <1>3, <1>4, <1>5 DEF RateRefused

\* A grant admissible at the current time keeps every window below its ceiling.
LEMMA AdmissibleKeepsCeilings ==
  ASSUME NEW log, NEW t \in Nat, History(log, t),
         NEW row \in Row, row.ts = t,
         \A T \in Nat : CeilingsAt(log, T),
         ~RateRefused(log, t, row.uid, row.action),
         NEW T \in Nat
  PROVE  CeilingsAt(log \union {row}, T)
<1> USE LimitsAssumption, WindowsAssumption
<1> DEFINE new == log \union {row}
<1>1. CASE T < t
  <2>1. /\ Within(new, T, Window) = Within(log, T, Window)
        /\ Within(new, T, DistinctWindow) = Within(log, T, DistinctWindow)
    BY <1>1 DEF Within, Row
  <2> QED BY <2>1 DEF CeilingsAt, UserAt, ActionAt, UidsAt, ReleasesAt
<1>2. CASE T >= t
  <2>1. ASSUME NEW a \in KEY_RELEASING, NEW u \in Uids
        PROVE  Cardinality(UserAt(new, T, a, u)) <= PerUserLimit
    <3>1. CASE row.action = a /\ row.uid = u
      <4> DEFINE G == GrantedTo(log, t - Window, {a}, u)
      <4>1. IsFiniteSet(G)
        <5>1. G \in SUBSET log
          BY DEF GrantedTo, Granted
        <5> QED BY <5>1, SubsetCard DEF History
      <4>2. PerUserLimit \in Nat /\ Cardinality(G) < PerUserLimit
        <5>1. Cardinality(G) \in Nat
          BY <4>1, FS_CardinalityType
        <5> QED BY <5>1, <3>1 DEF RateRefused
      <4>3. UserAt(new, T, a, u) \in SUBSET (G \union {row})
        BY <1>2 DEF UserAt, Within, GrantedTo, Granted, History, Row
      <4> HIDE DEF G
      <4> QED BY <4>1, <4>2, <4>3, OneMoreCard
    <3>2. CASE ~(row.action = a /\ row.uid = u)
      <4>1. UserAt(new, T, a, u) = UserAt(log, T, a, u)
        BY <3>2 DEF UserAt, Within
      <4> QED BY <4>1 DEF CeilingsAt
    <3> QED BY <3>1, <3>2
  <2>2. ASSUME NEW a \in Actions \ {WRAP}
        PROVE  Cardinality(ActionAt(new, T, a)) <= LimitOf(a)
    <3>1. CASE row.action = a
      <4> DEFINE G == Granted(log, t - Window, {a})
      <4>1. IsFiniteSet(G)
        <5>1. G \in SUBSET log
          BY DEF Granted
        <5> QED BY <5>1, SubsetCard DEF History
      <4>2. LimitOf(a) \in Nat /\ Cardinality(G) < LimitOf(a)
        <5>1. Cardinality(G) \in Nat
          BY <4>1, FS_CardinalityType
        <5> QED BY <5>1, <3>1 DEF RateRefused, LimitOf, Actions, KEY_RELEASING,
                                  WRAP, UNWRAP, UNWRAP_DATA, SIGN, REWRAP
      <4>3. ActionAt(new, T, a) \in SUBSET (G \union {row})
        BY <1>2 DEF ActionAt, Within, Granted, History, Row
      <4> QED BY <4>1, <4>2, <4>3, OneMoreCard
    <3>2. CASE row.action # a
      <4>1. ActionAt(new, T, a) = ActionAt(log, T, a)
        BY <3>2 DEF ActionAt, Within
      <4> QED BY <4>1 DEF CeilingsAt
    <3> QED BY <3>1, <3>2
  <2>3. Cardinality(UidsAt(new, T)) <= DistinctLimit
    <3> DEFINE D == DistinctUids(log, t - DistinctWindow, KEY_RELEASING)
               u == row.uid
    <3>1. CASE row.action \notin KEY_RELEASING
      <4>1. UidsAt(new, T) = UidsAt(log, T)
        BY <3>1 DEF UidsAt, ReleasesAt, Within
      <4> QED BY <4>1 DEF CeilingsAt
    <3>2. CASE row.action \in KEY_RELEASING
      <4>1. IsFiniteSet(D) /\ Cardinality(D) \in Nat
        <5>1. Granted(log, t - DistinctWindow, KEY_RELEASING) \in SUBSET log
          BY DEF Granted
        <5>2. IsFiniteSet(Granted(log, t - DistinctWindow, KEY_RELEASING))
          BY <5>1, SubsetCard DEF History
        <5> QED BY <5>2, UidsFinite, FS_CardinalityType DEF DistinctUids
      <4>2. UidsAt(new, T) \in SUBSET (D \union {u})
        BY <1>2 DEF UidsAt, ReleasesAt, Within, DistinctUids, Granted, History, Row
      <4>3. ~SweepRefused(log, t, u)
        BY <3>2 DEF RateRefused
      <4>4. CASE u \in D
        <5>1. UidsAt(new, T) \in SUBSET D
          BY <4>2, <4>4
        <5>2. D = UidsAt(log, t)
          BY DEF DistinctUids, Granted, UidsAt, ReleasesAt, Within, History, Row
        <5>3. Cardinality(D) <= DistinctLimit
          BY <5>2 DEF CeilingsAt
        <5>4. /\ Cardinality(UidsAt(new, T)) \in Nat
              /\ Cardinality(UidsAt(new, T)) <= Cardinality(D)
          BY <4>1, <5>1, SubsetCard
        <5> QED BY <4>1, <5>3, <5>4
      <4>5. CASE u \notin D
        <5>1. GrantedTo(log, t - DistinctWindow, KEY_RELEASING, u) = {}
          BY <4>5 DEF GrantedTo, DistinctUids
        <5>2. DistinctLimit \in Nat /\ Cardinality(D) < DistinctLimit
          BY <4>1, <4>3, <5>1 DEF SweepRefused
        <5> QED BY <4>1, <4>2, <5>2, OneMoreCard
      <4> QED BY <4>4, <4>5
    <3> QED BY <3>1, <3>2
  <2> QED BY <2>1, <2>2, <2>3 DEF CeilingsAt
<1> QED BY <1>1, <1>2 DEF History, Row

---------------------------------------------------------------------------
\* The inductive invariant.

\* policy._LOCK: the thread between its decision and its row holds it.
LockInv ==
  \A t \in Threads :
    pc[t] = "decided" => lock = t /\ req[t] \in Uids \X Actions

\* The log is the history, less rows too old for any limiter to count.
LogInv ==
  /\ History(ledger, now)
  /\ \A r \in ledger : r.id < nextId
  /\ \A r \in ledger : r.ts >= now - AllowRetention => r \in requests
  /\ \A r \in requests : r.decision = ALLOW => r \in ledger

\* `grants` has every pair ever allowed, and a wrap only once.
GrantsInv ==
  /\ \A r \in ledger : <<r.uid, r.action>> \in grants
  /\ \A r, s \in ledger :
       r.action = WRAP /\ s.action = WRAP /\ r.uid = s.uid => r = s

CeilingsInv == \A T \in Nat : CeilingsAt(ledger, T)

\* A request found admissible stays so until its row is written.
DecidedInv ==
  \A t \in Threads :
    pc[t] = "decided" /\ refusal[t] = "none" =>
      /\ req[t][2] = WRAP => req[t] \notin grants
      /\ ~RateRefused(ledger, now, req[t][1], req[t][2])

\* The one request that can be granted after the kill switch was tripped is the
\* one that was past its check by then.
KillInv ==
  /\ ~disabled => lateGrants = 0
  /\ lateGrants <= 1
  /\ \A t \in Threads :
       disabled /\ pc[t] = "decided" /\ refusal[t] = "none" => lateGrants = 0

IInv == /\ TypeOK
        /\ LockInv
        /\ LogInv
        /\ GrantsInv
        /\ CeilingsInv
        /\ DecidedInv
        /\ KillInv

\* What the limiter reads from the log it would read from the history.
LEMMA LimiterIsExact ==
  ASSUME TypeOK, LogInv, NEW u \in Uids, NEW a \in Actions
  PROVE  RateRefused(requests, now, u, a) <=> RateRefused(ledger, now, u, a)
<1> USE WindowsAssumption, RetentionAssumption
<1>1. ASSUME NEW w \in Nat, w < AllowRetention, NEW acts
      PROVE  Granted(requests, now - w, acts) = Granted(ledger, now - w, acts)
  BY <1>1 DEF Granted, LogInv, History, TypeOK, Row
<1>2. \A acts : Granted(requests, now - Window, acts) = Granted(ledger, now - Window, acts)
  BY <1>1
<1>3. \A acts : Granted(requests, now - DistinctWindow, acts)
                 = Granted(ledger, now - DistinctWindow, acts)
  BY <1>1
<1> QED BY <1>2, <1>3 DEF RateRefused, SweepRefused, GrantedTo, DistinctUids

---------------------------------------------------------------------------
\* The invariant holds initially.

\* A log of at most one row keeps every ceiling: each is at least one.
LEMMA InitInvariant == Init => IInv
<1> SUFFICES ASSUME Init PROVE IInv
  OBVIOUS
<1> USE LimitsAssumption, WindowsAssumption
<1>0. \A r \in ledger : r \in Row /\ r.ts = 0 /\ r.id = 0 /\ r.decision = ALLOW
                         /\ r.action = WRAP
  BY DEF Init, Row, Actions, WRAP
<1>1. TypeOK
  <2>1. ledger = requests /\ ledger \subseteq Row
    BY <1>0 DEF Init
  <2>2. grants \subseteq Uids \X Actions
    BY <2>1 DEF Init, Backfill, Row
  <2> QED BY <2>1, <2>2 DEF Init, TypeOK, Kinds
<1>2. History(ledger, now)
  <2>1. IsFiniteSet(ledger)
    <3>1. ledger = {} \/ \E x : ledger = {x}
      BY DEF Init
    <3>2. IsFiniteSet({}) /\ \A x : IsFiniteSet({x})
      BY FS_EmptySet, FS_Singleton
    <3> QED BY <3>1, <3>2
  <2> QED BY <1>0, <2>1 DEF Init, History
<1>3. LogInv /\ GrantsInv
  BY <1>2 DEF Init, LogInv, GrantsInv, Backfill
<1>4. ASSUME NEW T \in Nat PROVE CeilingsAt(ledger, T)
  <2>1. \A S \in SUBSET ledger : (\A r \in S : r.action # WRAP) => S = {}
    BY <1>0
  <2>2. \A a \in Actions \ {WRAP} : LimitOf(a) \in Nat
    BY DEF LimitOf, Actions, KEY_RELEASING, WRAP, UNWRAP, UNWRAP_DATA, SIGN, REWRAP
  <2>3. \A a \in KEY_RELEASING, u \in Uids : UserAt(ledger, T, a, u) = {}
    BY <2>1 DEF UserAt, Within, KEY_RELEASING, WRAP, UNWRAP, UNWRAP_DATA, Init
  <2>4. \A a \in Actions \ {WRAP} : ActionAt(ledger, T, a) = {}
    BY <2>1 DEF ActionAt, Within, Init
  <2>5. UidsAt(ledger, T) = {}
    BY <2>1 DEF UidsAt, ReleasesAt, Within, KEY_RELEASING, WRAP, UNWRAP, UNWRAP_DATA, Init
  <2> QED BY <2>2, <2>3, <2>4, <2>5, FS_EmptySet DEF CeilingsAt
<1>5. LockInv /\ DecidedInv /\ KillInv
  BY DEF Init, LockInv, DecidedInv, KillInv
<1> QED BY <1>1, <1>3, <1>4, <1>5 DEF IInv, CeilingsInv

---------------------------------------------------------------------------
\* Every step preserves it.

\* The decision itself: an admissible answer read from the log under the lock is
\* admissible against the history.
LEMMA DecideInvariant ==
  ASSUME IInv, NEW t \in Threads, Decide(t)
  PROVE  IInv'
<1> USE ThreadsAssumption, RequestedAssumption DEF IInv
<1>1. PICK r \in Requested, attested \in BOOLEAN, wellFormed \in BOOLEAN :
        /\ req' = [req EXCEPT ![t] = r]
        /\ refusal' = [refusal EXCEPT ![t] = Judge(r[1], r[2], attested, wellFormed)]
  BY DEF Decide
<1>2. r \in Uids \X Actions /\ r[1] \in Uids /\ r[2] \in Actions /\ r = <<r[1], r[2]>>
  OBVIOUS
<1>3. Judge(r[1], r[2], attested, wellFormed) \in Kinds
  BY DEF Judge, Kinds
<1>4. UNCHANGED <<now, requests, grants, nextId, disabled, ledger, lateGrants>>
      /\ lock' = t /\ pc' = [pc EXCEPT ![t] = "decided"] /\ lock = NoThread
  BY DEF Decide
<1>5. TypeOK'
  BY <1>1, <1>2, <1>3, <1>4 DEF TypeOK
<1>6. \A s \in Threads : s # t => pc'[s] # "decided"
  BY <1>4 DEF LockInv, TypeOK
<1>7. LockInv'
  BY <1>1, <1>2, <1>4, <1>6 DEF LockInv, TypeOK
<1>8. LogInv' /\ GrantsInv' /\ CeilingsInv'
  BY <1>4 DEF LogInv, History, GrantsInv, CeilingsInv
<1>9. refusal'[t] = "none" =>
        /\ ~disabled
        /\ r[2] = WRAP => r \notin grants
        /\ ~RateRefused(requests, now, r[1], r[2])
  BY <1>1, <1>2 DEF Judge, WrapOnceRefused, TypeOK
<1>10. DecidedInv'
  <2>1. refusal'[t] = "none" => ~RateRefused(ledger, now, r[1], r[2])
    BY <1>2, <1>9, LimiterIsExact
  <2>2. req'[t] = r
    BY <1>1 DEF TypeOK
  <2> QED BY <1>4, <1>6, <1>9, <2>1, <2>2 DEF DecidedInv
<1>11. KillInv'
  BY <1>4, <1>6, <1>9 DEF KillInv
<1> QED BY <1>5, <1>7, <1>8, <1>10, <1>11

\* Writing the row: a denied request touches neither the history nor `grants`; an
\* allowed one joins both, and AdmissibleKeepsCeilings applies to it.
LEMMA RecordInvariant ==
  ASSUME IInv, NEW t \in Threads, Record(t)
  PROVE  IInv'
<1> USE ThreadsAssumption DEF IInv
<1> DEFINE row == RowOf(t)
           u == req[t][1]
           a == req[t][2]
<1>1. /\ lock = t /\ req[t] \in Uids \X Actions
      /\ u \in Uids /\ a \in Actions /\ req[t] = <<u, a>>
      /\ \A s \in Threads : s # t => pc[s] # "decided"
  BY DEF Record, LockInv
<1>2. /\ row \in Row /\ row.ts = now /\ row.id = nextId /\ row.uid = u /\ row.action = a
      /\ row.decision = IF refusal[t] = "none" THEN ALLOW ELSE DENY
  BY <1>1 DEF RowOf, Row, TypeOK
<1>3. /\ requests' = requests \union {row}
      /\ nextId' = nextId + 1
      /\ UNCHANGED <<now, disabled>>
      /\ pc' = [pc EXCEPT ![t] = "idle"]
      /\ req' = [req EXCEPT ![t] = NoRequest]
      /\ refusal' = [refusal EXCEPT ![t] = "none"]
      /\ lock' = NoThread
  BY DEF Record
<1>4. \A s \in Threads : pc'[s] # "decided"
  BY <1>1, <1>3 DEF TypeOK
<1>5. LockInv' /\ DecidedInv'
  BY <1>4 DEF LockInv, DecidedInv
<1>6. ALLOW # DENY
  BY DEF ALLOW, DENY
<1>7. CASE refusal[t] # "none"
  <2>1. UNCHANGED <<grants, ledger, lateGrants>>
    BY <1>7 DEF Record
  <2>2. TypeOK'
    BY <1>2, <1>3, <2>1 DEF TypeOK, Kinds
  <2>3. LogInv'
    BY <1>2, <1>3, <1>6, <1>7, <2>1 DEF LogInv, History, TypeOK, Row
  <2>4. GrantsInv' /\ CeilingsInv'
    BY <2>1 DEF GrantsInv, CeilingsInv
  <2>5. KillInv'
    BY <1>3, <1>4, <2>1 DEF KillInv
  <2> QED BY <1>5, <2>2, <2>3, <2>4, <2>5
<1>8. CASE refusal[t] = "none"
  <2>1. /\ grants' = grants \union {req[t]}
        /\ ledger' = ledger \union {row}
        /\ lateGrants' = IF disabled THEN lateGrants + 1 ELSE lateGrants
    BY <1>8 DEF Record
  <2>2. /\ a = WRAP => req[t] \notin grants
        /\ ~RateRefused(ledger, now, u, a)
    BY <1>8 DEF DecidedInv, Record
  <2>3. lateGrants' \in Nat /\ KillInv'
    BY <1>3, <1>4, <1>8, <2>1 DEF KillInv, Record, TypeOK
  <2>4. TypeOK'
    BY <1>1, <1>2, <1>3, <2>1, <2>3 DEF TypeOK, Kinds
  <2>5. LogInv'
    <3>1. History(ledger', now')
      BY <1>2, <1>3, <1>8, <2>1, FS_AddElement DEF LogInv, History, TypeOK, Row
    <3> QED BY <1>2, <1>3, <2>1, <3>1 DEF LogInv, TypeOK, Row
  <2>6. GrantsInv'
    <3>1. \A r \in ledger : a = WRAP /\ r.action = WRAP => r.uid # u
      BY <1>1, <2>2 DEF GrantsInv
    <3> HIDE DEF row, u, a
    <3> QED BY <1>1, <1>2, <2>1, <3>1 DEF GrantsInv
  <2>7. CeilingsInv'
    <3>1. \A T \in Nat : CeilingsAt(ledger \union {row}, T)
      <4>1. now \in Nat /\ History(ledger, now)
        BY DEF TypeOK, LogInv
      <4> HIDE DEF row, u, a
      <4> QED BY <1>2, <2>2, <4>1, AdmissibleKeepsCeilings DEF CeilingsInv
    <3> QED BY <2>1, <3>1 DEF CeilingsInv
  <2> QED BY <1>5, <2>3, <2>4, <2>5, <2>6, <2>7
<1> QED BY <1>7, <1>8

\* Time passing: every ceiling is about fixed windows, and a decided request stays
\* admissible.
LEMMA TickInvariant ==
  ASSUME IInv, Tick
  PROVE  IInv'
<1> USE WindowsAssumption, RetentionAssumption DEF IInv
<1>1. /\ now' = now + 1 /\ now \in Nat /\ now' \in Nat /\ now <= now'
      /\ UNCHANGED <<requests, grants, nextId, disabled, lock, pc, req, refusal,
                     ledger, lateGrants>>
  BY DEF Tick, TypeOK
<1>2. TypeOK' /\ LockInv' /\ GrantsInv' /\ CeilingsInv' /\ KillInv'
  BY <1>1 DEF TypeOK, LockInv, GrantsInv, CeilingsInv, KillInv
<1>3. LogInv'
  BY <1>1 DEF LogInv, History, TypeOK, Row
<1>4. DecidedInv'
  <2>1. History(ledger, now) /\ Cardinality(UidsAt(ledger, now)) <= DistinctLimit
    BY <1>1 DEF LogInv, CeilingsInv, CeilingsAt
  <2> SUFFICES ASSUME NEW t \in Threads, pc[t] = "decided", refusal[t] = "none"
               PROVE  /\ req[t][2] = WRAP => req[t] \notin grants
                      /\ ~RateRefused(ledger, now', req[t][1], req[t][2])
    BY <1>1 DEF DecidedInv
  <2>2. req[t][1] \in Uids /\ req[t][2] \in Actions
    BY DEF LockInv
  <2>3. /\ req[t][2] = WRAP => req[t] \notin grants
        /\ ~RateRefused(ledger, now, req[t][1], req[t][2])
    BY DEF DecidedInv
  <2> QED BY <1>1, <2>1, <2>2, <2>3, StaysAdmissible
<1> QED BY <1>2, <1>3, <1>4

\* The steps that touch neither the history nor the clock: a prune, a restart, the
\* operator's switch, and stuttering.
LEMMA OtherInvariant ==
  ASSUME IInv,
         \/ Prune \/ Restart \/ TripKillSwitch \/ ClearKillSwitch
         \/ UNCHANGED vars
  PROVE  IInv'
<1> USE RetentionAssumption, WindowsAssumption DEF IInv
<1>1. CASE Prune
  <2>1. UNCHANGED <<now, grants, nextId, disabled, lock, pc, req, refusal,
                    ledger, lateGrants>>
        /\ requests' = {r \in requests : ~Expired(r)}
    BY <1>1 DEF Prune
  <2>2. \A r \in ledger : r.ts >= now - AllowRetention => ~Expired(r)
    BY <1>1, ALLOW # DENY DEF Expired, LogInv, History, TypeOK, Row, ALLOW, DENY
  <2>3. LogInv'
    BY <2>1, <2>2 DEF LogInv, History
  <2> QED BY <2>1, <2>3 DEF TypeOK, LockInv, GrantsInv, CeilingsInv, DecidedInv, KillInv
<1>2. CASE Restart
  <2>1. UNCHANGED <<now, requests, nextId, disabled, ledger, lateGrants>>
        /\ pc' = [t \in Threads |-> "idle"]
        /\ grants' = grants \union Backfill(requests)
        /\ lock' = NoThread /\ req' = [t \in Threads |-> NoRequest]
        /\ refusal' = [t \in Threads |-> "none"]
    BY <1>2 DEF Restart
  <2>2. Backfill(requests) \subseteq Uids \X Actions
    BY DEF Backfill, TypeOK, Row
  <2> QED BY <2>1, <2>2 DEF TypeOK, Kinds, LockInv, LogInv, History, GrantsInv,
                            CeilingsInv, DecidedInv, KillInv
<1>3. CASE TripKillSwitch
  BY <1>3 DEF TripKillSwitch, TypeOK, LockInv, LogInv, History, GrantsInv, CeilingsInv,
              DecidedInv, KillInv
<1>4. CASE ClearKillSwitch
  <2>1. UNCHANGED <<now, requests, grants, nextId, lock, pc, req, refusal, ledger>>
        /\ disabled' = FALSE /\ lateGrants' = 0
    BY <1>4 DEF ClearKillSwitch
  <2>2. TypeOK'
    BY <2>1 DEF TypeOK
  <2>4. KillInv'
    BY <2>1 DEF KillInv
  <2>3. LockInv' /\ LogInv' /\ GrantsInv'
    BY <2>1 DEF LockInv, LogInv, History, GrantsInv
  <2> QED BY <2>1, <2>2, <2>3, <2>4 DEF CeilingsInv, DecidedInv
<1>5. CASE UNCHANGED vars
  BY <1>5 DEF vars, TypeOK, LockInv, LogInv, History, GrantsInv, CeilingsInv, DecidedInv,
              KillInv
<1> QED BY <1>1, <1>2, <1>3, <1>4, <1>5

\* The invariant is inductive.
THEOREM Invariance == Spec => []IInv
<1>1. IInv /\ [Next]_vars => IInv'
  <2> SUFFICES ASSUME IInv, [Next]_vars PROVE IInv'
    OBVIOUS
  <2> QED BY DecideInvariant, RecordInvariant, TickInvariant, OtherInvariant DEF Next
<1> QED BY <1>1, InitInvariant, PTL DEF Spec

---------------------------------------------------------------------------
\* What follows from it.

\* Every value a variable of the service takes is of its type, whatever the order
\* of requests, prunes, restarts and operator actions (the types of the two tables
\* of cosigner/audit.py and of the state held under policy._LOCK).
THEOREM TypeCorrect == Spec => []TypeOK
BY Invariance, PTL DEF IInv

\* No account is ever wrapped twice: the answer comes from `grants`, which no prune
\* touches (policy._wrap_once_refusal).
THEOREM WrapOnceHolds == Spec => []WrapOnce
<1>1. IInv => WrapOnce
  <2> SUFFICES ASSUME IInv, NEW u \in Uids
               PROVE  Cardinality(WrapsOf(ledger, u)) <= 1
    BY DEF WrapOnce
  <2>1. WrapsOf(ledger, u) = {} \/ \E r : WrapsOf(ledger, u) = {r}
    BY DEF IInv, GrantsInv, WrapsOf
  <2>2. CASE WrapsOf(ledger, u) = {}
    <3>1. Cardinality({}) = 0
      BY FS_EmptySet
    <3> QED BY <2>2, <3>1
  <2>3. ASSUME NEW r, WrapsOf(ledger, u) = {r} PROVE Cardinality(WrapsOf(ledger, u)) <= 1
    <3>1. Cardinality({r}) = 1
      BY FS_Singleton
    <3> QED BY <2>3, <3>1
  <2> QED BY <2>1, <2>2, <2>3
<1> QED BY <1>1, Invariance, PTL

\* Every rate rule of policy._rate_refusal bounds every window of its length, not
\* just the ones that begin at a convenient moment: per account, per endpoint, and
\* in distinct accounts over both key-releasing endpoints.
THEOREM CeilingsHold == Spec => []Ceilings
<1>1. IInv => Ceilings
  <2> SUFFICES ASSUME IInv PROVE PerUserCeiling /\ AggregateCeiling /\ SweepCeiling
    BY DEF Ceilings
  <2>1. \A r \in ledger : r.ts \in Nat /\ r.action \in Actions /\ r.uid \in Uids
                          /\ CeilingsAt(ledger, r.ts)
    BY DEF IInv, TypeOK, Row, CeilingsInv
  <2>2. PerUserCeiling
    BY <2>1 DEF PerUserCeiling, CeilingsAt, UserAt
  <2>3. AggregateCeiling
    BY <2>1 DEF AggregateCeiling, CeilingsAt, ActionAt
  <2>4. SweepCeiling
    BY <2>1 DEF SweepCeiling, CeilingsAt, UidsAt, ReleasesAt
  <2> QED BY <2>2, <2>3, <2>4
<1> QED BY <1>1, Invariance, PTL

\* A prune can neither open a ceiling nor make one refuse: the limiter's answer is
\* the one the whole history gives (cosigner/retention.py).
THEOREM LimiterExactHolds == Spec => []LimiterExact
<1>1. IInv => LimiterExact
  BY LimiterIsExact DEF IInv, LimiterExact
<1> QED BY <1>1, Invariance, PTL

\* After the kill switch at most one request, already past its check, is granted
\* (policy.disabled_reason read under policy._LOCK).
THEOREM KillSwitchHolds == Spec => []KillSwitchStops
<1>1. IInv => KillSwitchStops
  BY DEF IInv, KillInv, KillSwitchStops
<1> QED BY <1>1, Invariance, PTL

\* The service implements the atomic ledger: recording an allowed request is one
\* admissible grant, the clock is the clock, and every other step is invisible.
THEOREM Refinement == Spec => ImplementsLedger
<1>1. Init => Ledger!Init
  BY DEF Init, Ledger!Init, Ledger!WRAP, Ledger!ALLOW, WRAP, ALLOW
<1>2. IInv /\ [Next]_vars => [Ledger!Next]_(Ledger!vars)
  <2> SUFFICES ASSUME IInv, [Next]_vars PROVE Ledger!Next \/ UNCHANGED <<now, ledger>>
    BY DEF Ledger!vars
  <2>1. ASSUME NEW t \in Threads, Record(t) PROVE Ledger!Next \/ UNCHANGED <<now, ledger>>
    <3> DEFINE row == RowOf(t)
    <3>1. CASE refusal[t] # "none"
      BY <2>1, <3>1 DEF Record
    <3>2. CASE refusal[t] = "none"
      <4>1. /\ ledger' = ledger \union {row} /\ UNCHANGED now
            /\ row.id = nextId /\ row.ts = now /\ row.decision = ALLOW
            /\ row.uid = req[t][1] /\ row.action = req[t][2]
        BY <2>1, <3>2 DEF Record, RowOf
      <4>2. row \in Row /\ req[t] = <<row.uid, row.action>>
        BY <2>1, <3>2 DEF IInv, LockInv, Record, RowOf, Row, TypeOK, ALLOW
      <4>3. row \in ledger' \ ledger
        BY <4>1 DEF IInv, LogInv, TypeOK, Row
      <4>4. row.action = WRAP => ~EverWrapped(ledger, row.uid)
        BY <2>1, <3>2, <4>1, <4>2 DEF Record, IInv, DecidedInv, GrantsInv, EverWrapped
      <4>5. ~RateRefused(ledger, now, row.uid, row.action)
        BY <2>1, <3>2, <4>1 DEF Record, IInv, DecidedInv
      <4> HIDE DEF row
      <4>6. Ledger!Row = Row /\ Ledger!ALLOW = ALLOW /\ Ledger!WRAP = WRAP
        BY DEF Ledger!Row, Ledger!Actions, Ledger!WRAP, Ledger!UNWRAP,
               Ledger!UNWRAP_DATA, Ledger!SIGN, Ledger!REWRAP, Ledger!ALLOW, Ledger!DENY,
               Row, Actions, WRAP, UNWRAP, UNWRAP_DATA, SIGN, REWRAP, ALLOW, DENY
      <4>7. row.action = WRAP => ~Ledger!EverWrapped(ledger, row.uid)
        BY <4>4, <4>6 DEF Ledger!EverWrapped, EverWrapped
      <4>8. ~Ledger!RateRefused(ledger, now, row.uid, row.action)
        <5>1. \A S : Ledger!Cardinality(S) = Cardinality(S)
          BY DEF Ledger!Cardinality, Cardinality, Ledger!IsFiniteSet, IsFiniteSet
        <5>2. Ledger!RateRefused(ledger, now, row.uid, row.action)
                <=> RateRefused(ledger, now, row.uid, row.action)
          BY <5>1
          DEF Ledger!RateRefused, RateRefused, Ledger!SweepRefused, SweepRefused,
              Ledger!DistinctUids, DistinctUids,
              Ledger!GrantedTo, GrantedTo, Ledger!Granted,
              Granted, Ledger!KEY_RELEASING, KEY_RELEASING, Ledger!UNWRAP, UNWRAP,
              Ledger!UNWRAP_DATA, UNWRAP_DATA, Ledger!SIGN, SIGN, Ledger!REWRAP, REWRAP,
              Ledger!ALLOW, ALLOW
        <5> QED BY <4>5, <5>2
      <4>9. Ledger!Grant
        <5> SUFFICES \E g \in ledger' \ ledger :
              /\ ledger' = ledger \union {g}
              /\ g \in Ledger!Row
              /\ g.decision = Ledger!ALLOW
              /\ g.ts = now
              /\ g.action = Ledger!WRAP => ~Ledger!EverWrapped(ledger, g.uid)
              /\ ~Ledger!RateRefused(ledger, now, g.uid, g.action)
              /\ UNCHANGED now
          BY DEF Ledger!Grant
        <5> USE <4>3
        <5> WITNESS row \in ledger' \ ledger
        <5> QED BY <4>1, <4>2, <4>6, <4>7, <4>8
      <4> QED BY <4>9 DEF Ledger!Next
    <3> QED BY <3>1, <3>2
  <2>2. CASE Tick
    <3>1. now \in Nat /\ now' = now + 1 /\ UNCHANGED ledger
      BY <2>2 DEF Tick, IInv, TypeOK
    <3> QED BY <3>1 DEF Ledger!Next, Ledger!Tick
  <2>3. CASE \/ \E t \in Threads : Decide(t)
             \/ Prune \/ Restart \/ TripKillSwitch \/ ClearKillSwitch \/ UNCHANGED vars
    BY <2>3 DEF Decide, Prune, Restart, TripKillSwitch, ClearKillSwitch, vars
  <2> QED BY <2>1, <2>2, <2>3 DEF Next
<1> QED BY <1>1, <1>2, Invariance, PTL DEF Spec, ImplementsLedger, Ledger!Spec
===========================================================================
