----------------------------- MODULE CoSigner -----------------------------
(***************************************************************************)
(* The co-signer's decision path: cosigner/policy.py authorize(), the log  *)
(* and the grants table of cosigner/audit.py, and the prune thread of      *)
(* cosigner/retention.py, on a server that answers each request on its own *)
(* thread and that may die and be restarted at any point.                  *)
(*                                                                         *)
(* policy._LOCK is held from the first read to the row that is written, so *)
(* a request is two steps, Decide and Record.  Between them the clock may  *)
(* advance, an operator may trip the kill switch, and retention (which     *)
(* takes audit._LOCK and not policy._LOCK) may prune.                      *)
(***************************************************************************)
EXTENDS GrantRules

CONSTANTS
  Threads,          \* request threads of the HTTP server
  AllowRetention,   \* ALLOW_RETENTION_SECONDS
  DenyRetention,    \* DENY_RETENTION_SECONDS
  Requested,        \* the <<uid, action>> pairs clients ask for
  NoThread,         \* nobody holds policy._LOCK
  MaxTime,          \* bound: the last tick of the clock
  MaxRows           \* bound: the number of decisions taken

VARIABLES
  now,        \* time.time()
  requests,   \* the `requests` table: one row per decision, prunable
  grants,     \* the `grants` table: <<uid, action>> ever allowed, never pruned
  nextId,     \* requests.id AUTOINCREMENT
  disabled,   \* disabled_reason() is not None
  lock,       \* the thread inside policy._LOCK
  pc,         \* per thread: "idle" or "decided"
  req,        \* per thread: the request being decided
  refusal,    \* per thread: the refusal's kind, "none" when allowed
  ledger,     \* history: every allowed row, pruned or not
  lateGrants  \* history: grants recorded since the kill switch was tripped

vars == <<now, requests, grants, nextId, disabled, lock, pc, req, refusal,
          ledger, lateGrants>>

\* The two assertions of retention.prune(): retention exceeds the longest
\* window a limiter reads, and denials are kept at least as long as grants.
ASSUME RetentionAssumption ==
  /\ AllowRetention \in Nat
  /\ DenyRetention \in Nat
  /\ AllowRetention > Window
  /\ AllowRetention > DistinctWindow
  /\ DenyRetention >= AllowRetention

ASSUME ThreadsAssumption == NoThread \notin Threads

ASSUME RequestedAssumption == Requested \subseteq (Uids \X Actions)

ASSUME BoundsAssumption == MaxTime \in Nat /\ MaxRows \in Nat

NoRequest == <<>>

Kinds == {"none", "disabled", "attestation", "request", "rate"}

TypeOK ==
  /\ now \in Nat
  /\ requests \subseteq Row
  /\ grants \subseteq (Uids \X Actions)
  /\ nextId \in Nat
  /\ disabled \in BOOLEAN
  /\ lock \in Threads \union {NoThread}
  /\ pc \in [Threads -> {"idle", "decided"}]
  /\ req \in [Threads -> (Uids \X Actions) \union {NoRequest}]
  /\ refusal \in [Threads -> Kinds]
  /\ ledger \subseteq Row
  /\ lateGrants \in Nat

---------------------------------------------------------------------------
\* BACKFILL: what connect() inserts into `grants` from the log.
Backfill(log) == {<<r.uid, r.action>> : r \in {x \in log : x.decision = ALLOW}}

\* The service starts on an empty log, or on one an earlier schema left, whose
\* wraps are only log rows until connect() has backfilled them.
Init ==
  /\ now = 0
  /\ \/ requests = {}
     \/ \E u \in Uids :
          requests = {[id |-> 0, ts |-> 0, uid |-> u, action |-> WRAP,
                       decision |-> ALLOW]}
  /\ grants = Backfill(requests)
  /\ nextId = 1
  /\ disabled = FALSE
  /\ lock = NoThread
  /\ pc = [t \in Threads |-> "idle"]
  /\ req = [t \in Threads |-> NoRequest]
  /\ refusal = [t \in Threads |-> "none"]
  /\ ledger = requests
  /\ lateGrants = 0

\* Broken variant: the question is asked of the log, which retention prunes.
WrapOnceFromLog(uid, action) ==
  action = WRAP /\ <<uid, WRAP>> \in Backfill(requests)

\* _wrap_once_refusal: reads the table retention never touches.
WrapOnceRefused(uid, action) == action = WRAP /\ <<uid, WRAP>> \in grants

\* authorize()'s cascade, in its order; a wrap has no rate rule.
Judge(uid, action, attested, wellFormed) ==
  IF disabled THEN "disabled"
  ELSE IF ~attested THEN "attestation"
  ELSE IF ~wellFormed THEN "request"
  ELSE IF WrapOnceRefused(uid, action) THEN "request"
  ELSE IF RateRefused(requests, now, uid, action) THEN "rate"
  ELSE "none"

\* Broken variant: the lock is not held from the count to the row.
DecideUnlocked(t) ==
  /\ pc[t] = "idle"
  /\ nextId <= MaxRows
  /\ \E r \in Requested, attested, wellFormed \in BOOLEAN :
       /\ req' = [req EXCEPT ![t] = r]
       /\ refusal' = [refusal EXCEPT ![t] = Judge(r[1], r[2], attested, wellFormed)]
  /\ pc' = [pc EXCEPT ![t] = "decided"]
  /\ UNCHANGED <<now, requests, grants, nextId, disabled, ledger, lateGrants, lock>>

\* A thread takes policy._LOCK and reads everything the decision depends on.
Decide(t) ==
  /\ pc[t] = "idle"
  /\ lock = NoThread
  /\ nextId <= MaxRows
  /\ \E r \in Requested, attested, wellFormed \in BOOLEAN :
       /\ req' = [req EXCEPT ![t] = r]
       /\ refusal' = [refusal EXCEPT ![t] = Judge(r[1], r[2], attested, wellFormed)]
  /\ lock' = t
  /\ pc' = [pc EXCEPT ![t] = "decided"]
  /\ UNCHANGED <<now, requests, grants, nextId, disabled, ledger, lateGrants>>

\* Broken variant: the decision column carries the refusal's kind.
RowOfKind(t) ==
  [id |-> nextId, ts |-> now, uid |-> req[t][1], action |-> req[t][2],
   decision |-> refusal[t]]

RowOf(t) ==
  [id |-> nextId, ts |-> now, uid |-> req[t][1], action |-> req[t][2],
   decision |-> IF refusal[t] = "none" THEN ALLOW ELSE DENY]

\* audit.record(): the row, and for an allowed request its grant, in one
\* transaction; then the lock is released.
Record(t) ==
  /\ pc[t] = "decided"
  /\ requests' = requests \union {RowOf(t)}
  /\ IF refusal[t] = "none"
     THEN /\ grants' = grants \union {req[t]}
          /\ ledger' = ledger \union {RowOf(t)}
          /\ lateGrants' = IF disabled THEN lateGrants + 1 ELSE lateGrants
     ELSE UNCHANGED <<grants, ledger, lateGrants>>
  /\ nextId' = nextId + 1
  /\ lock' = NoThread
  /\ pc' = [pc EXCEPT ![t] = "idle"]
  /\ req' = [req EXCEPT ![t] = NoRequest]
  /\ refusal' = [refusal EXCEPT ![t] = "none"]
  /\ UNCHANGED <<now, disabled>>

\* Broken variant: the cutoffs are derived from the sweep window alone.
ExpiredTooSoon(r) == r.ts < now - DistinctWindow

\* retention.prune(): strictly older than the cutoffs, by decision.
Expired(r) ==
  \/ r.decision = ALLOW /\ r.ts < now - AllowRetention
  \/ r.decision = DENY /\ r.ts < now - DenyRetention

Prune ==
  /\ \E r \in requests : Expired(r)
  /\ requests' = {r \in requests : ~Expired(r)}
  /\ UNCHANGED <<now, grants, nextId, disabled, lock, pc, req, refusal,
                 ledger, lateGrants>>

\* The process dies and systemd starts it again: threads and the lock are gone,
\* the database is not, and connect() backfills.
Restart ==
  /\ \E t \in Threads : pc[t] # "idle"
  /\ lock' = NoThread
  /\ pc' = [t \in Threads |-> "idle"]
  /\ req' = [t \in Threads |-> NoRequest]
  /\ refusal' = [t \in Threads |-> "none"]
  /\ grants' = grants \union Backfill(requests)
  /\ UNCHANGED <<now, requests, nextId, disabled, ledger, lateGrants>>

\* The operator creates or removes the kill switch file.
TripKillSwitch ==
  /\ ~disabled
  /\ disabled' = TRUE
  /\ UNCHANGED <<now, requests, grants, nextId, lock, pc, req, refusal, ledger,
                 lateGrants>>

ClearKillSwitch ==
  /\ disabled
  /\ disabled' = FALSE
  /\ lateGrants' = 0
  /\ UNCHANGED <<now, requests, grants, nextId, lock, pc, req, refusal, ledger>>

Tick ==
  /\ now < MaxTime
  /\ now' = now + 1
  /\ UNCHANGED <<requests, grants, nextId, disabled, lock, pc, req, refusal,
                 ledger, lateGrants>>

Next ==
  \/ \E t \in Threads : Decide(t) \/ Record(t)
  \/ Prune
  \/ Restart
  \/ TripKillSwitch
  \/ ClearKillSwitch
  \/ Tick

Spec == Init /\ [][Next]_vars

---------------------------------------------------------------------------
\* Properties.

\* An account is wrapped at most once in the life of the service, whatever
\* retention deletes and however often it restarts (policy._wrap_once_refusal,
\* audit.ever_granted).
WrapOnce == \A u \in Uids : Cardinality(WrapsOf(ledger, u)) <= 1

\* In no window of WINDOW_SECONDS does one account get more than its ceiling
\* out of one key-releasing endpoint (policy._rate_refusal).  It is enough to
\* look at the windows that end at a grant.
PerUserCeiling ==
  \A last \in ledger : last.action \in KEY_RELEASING =>
    Cardinality({r \in Within(ledger, last.ts, Window) :
                   r.action = last.action /\ r.uid = last.uid}) <= PerUserLimit

LimitOf(action) == CASE action = SIGN -> SignLimit
                     [] action = REWRAP -> RewrapLimit
                     [] action \in KEY_RELEASING -> TotalLimit

\* In no such window does one endpoint serve more than its aggregate ceiling.
AggregateCeiling ==
  \A last \in ledger : last.action # WRAP =>
    Cardinality({r \in Within(ledger, last.ts, Window) : r.action = last.action})
      <= LimitOf(last.action)

\* In no window of DISTINCT_WINDOW_SECONDS are more than DistinctLimit accounts
\* released, over both key-releasing endpoints together (_sweep_refusal).
SweepCeiling ==
  \A last \in ledger : last.action \in KEY_RELEASING =>
    Cardinality({r.uid : r \in {x \in Within(ledger, last.ts, DistinctWindow) :
                                  x.action \in KEY_RELEASING}}) <= DistinctLimit

\* Every ceiling of policy.py at once.
Ceilings == PerUserCeiling /\ AggregateCeiling /\ SweepCeiling

\* The limiter, which counts a log that retention prunes, answers exactly as it
\* would from the whole history: a prune neither opens a ceiling nor refuses
\* anybody (the docstring of cosigner/retention.py).
LimiterExact ==
  \A u \in Uids, a \in Actions :
    RateRefused(requests, now, u, a) <=> RateRefused(ledger, now, u, a)

\* Tripping the kill switch stops every request but the one already past its
\* check: at most one grant is recorded after it (disabled_reason, _LOCK).
KillSwitchStops == disabled => lateGrants <= 1

\* With its lock, its prunable log, its restarts and the gap between a decision
\* and its row, the service still grants one request at a time, each admissible
\* at the moment it is recorded.
Ledger == INSTANCE GrantLedger WITH now <- now, ledger <- ledger
ImplementsLedger == Ledger!Spec
===========================================================================
