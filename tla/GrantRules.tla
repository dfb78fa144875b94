---------------------------- MODULE GrantRules ----------------------------
(***************************************************************************)
(* The co-signer's rules, as operators on a log of decisions: what         *)
(* cosigner/audit.py counts and what cosigner/policy.py refuses.  They are *)
(* stated over an explicit log and an explicit time, so that the service   *)
(* (CoSigner.tla, whose log is pruned) and its promise (GrantLedger.tla,   *)
(* whose history is not) read the same rules.                              *)
(***************************************************************************)
EXTENDS Integers, FiniteSets

CONSTANTS
  Uids,            \* account handles, the values of a request's "uid"
  PerUserLimit,    \* key releases of one endpoint, per account per Window
  TotalLimit,      \* key releases of one endpoint, per Window
  SignLimit,       \* bare DPoP signatures per Window
  RewrapLimit,     \* rewraps per Window
  DistinctLimit,   \* distinct accounts released per DistinctWindow
  Window,          \* WINDOW_SECONDS
  DistinctWindow   \* DISTINCT_WINDOW_SECONDS

ASSUME LimitsAssumption ==
  /\ PerUserLimit \in Nat \ {0}
  /\ TotalLimit \in Nat \ {0}
  /\ SignLimit \in Nat \ {0}
  /\ RewrapLimit \in Nat \ {0}
  /\ DistinctLimit \in Nat \ {0}

ASSUME WindowsAssumption == Window \in Nat /\ DistinctWindow \in Nat

WRAP          == "wrap"
UNWRAP        == "unwrap-and-sign"
UNWRAP_DATA   == "unwrap"
SIGN          == "sign-dpop"
REWRAP        == "rewrap"
Actions       == {WRAP, UNWRAP, UNWRAP_DATA, SIGN, REWRAP}
KEY_RELEASING == {UNWRAP, UNWRAP_DATA}
ALLOW         == "allow"
DENY          == "deny"

\* A row of the log; the reason and the attestation columns are left out.
Row == [id : Nat, ts : Nat, uid : Uids, action : Actions,
        decision : {ALLOW, DENY}]

\* granted_since(since, action, uid) without its final COUNT: the rows of a log
\* allowed at or after `since`, for a set of actions.
Granted(log, since, acts) ==
  {r \in log : r.decision = ALLOW /\ r.ts >= since /\ r.action \in acts}

GrantedTo(log, since, acts, uid) ==
  {r \in Granted(log, since, acts) : r.uid = uid}

\* distinct_uids_since(since, action), without the COUNT.
DistinctUids(log, since, acts) == {r.uid : r \in Granted(log, since, acts)}

---------------------------------------------------------------------------
\* The limiter's rules about a log as it reads at time t.

\* Broken variant: breadth is metered for each endpoint on its own.
SweepRefusedPerEndpoint(log, t, uid) ==
  \E a \in KEY_RELEASING :
    /\ GrantedTo(log, t - DistinctWindow, {a}, uid) = {}
    /\ Cardinality(DistinctUids(log, t - DistinctWindow, {a})) >= DistinctLimit

\* The sweep rule: a new account once DistinctLimit accounts are in the window.
SweepRefused(log, t, uid) ==
  /\ GrantedTo(log, t - DistinctWindow, KEY_RELEASING, uid) = {}
  /\ Cardinality(DistinctUids(log, t - DistinctWindow, KEY_RELEASING))
       >= DistinctLimit

\* Broken variant: every ceiling is compared with > and so admits one too many.
RateRefusedOffByOne(log, t, uid, action) ==
  \/ /\ action = SIGN
     /\ Cardinality(Granted(log, t - Window, {SIGN})) > SignLimit
  \/ /\ action = REWRAP
     /\ Cardinality(Granted(log, t - Window, {REWRAP})) > RewrapLimit
  \/ /\ action \in KEY_RELEASING
     /\ \/ Cardinality(GrantedTo(log, t - Window, {action}, uid)) > PerUserLimit
        \/ SweepRefused(log, t, uid)
        \/ Cardinality(Granted(log, t - Window, {action})) > TotalLimit

RateRefused(log, t, uid, action) ==
  \/ /\ action = SIGN
     /\ Cardinality(Granted(log, t - Window, {SIGN})) >= SignLimit
  \/ /\ action = REWRAP
     /\ Cardinality(Granted(log, t - Window, {REWRAP})) >= RewrapLimit
  \/ /\ action \in KEY_RELEASING
     /\ \/ Cardinality(GrantedTo(log, t - Window, {action}, uid)) >= PerUserLimit
        \/ SweepRefused(log, t, uid)
        \/ Cardinality(Granted(log, t - Window, {action})) >= TotalLimit

EverWrapped(log, uid) ==
  \E r \in log : r.decision = ALLOW /\ r.action = WRAP /\ r.uid = uid

---------------------------------------------------------------------------
\* The part of a ledger inside the window of length w that ends at time t.
Within(log, t, w) == {r \in log : t - w <= r.ts /\ r.ts <= t}

\* The rows one wrap-once, per-user, aggregate or sweep rule is about.
WrapsOf(log, uid) == {r \in log : r.action = WRAP /\ r.uid = uid}
===========================================================================
