---------------------------- MODULE KeyVersions ----------------------------
(***************************************************************************)
(* Rotating the co-signer's outer key (cosigner/keys.py, with the requests *)
(* of cosigner/server.py that use it, and backend/custody/rotate.py on the *)
(* enclave): a new credential beside the old one, a deploy that bumps      *)
(* KEY_VERSION, a restart, a sweep that rewraps every stored record, and   *)
(* only then the deletion of the old credential.  Accounts sign up, use    *)
(* their records and are deleted throughout; the sweep may fail at any     *)
(* account, and the co-signer may restart at any time.                     *)
(***************************************************************************)
EXTENDS Naturals, FiniteSets

CONSTANTS Accounts, None,
          MAX_VERSION   \* bound: how often the key is rotated

KeyVersionsAssumption ==
  MAX_VERSION \in Nat \ {0} /\ None \notin Nat /\ (\A S \in SUBSET Accounts : S # None)

FIRST_VERSION == 1
Versions == FIRST_VERSION..MAX_VERSION

VARIABLES
  files,       \* versions with a credential on the co-signer's disk
  deployed,    \* KEY_VERSION in the code installed there
  KEY_VERSION, \* in the process that is running
  cached,      \* _CACHE: versions that process has loaded
  answers,     \* account -> version of a wrap answered and not yet stored
  record,      \* account -> version of its stored record, or None
  rows,        \* accounts in the manifest
  sweep,       \* rotate's accounts still to do, or None
  fetched,     \* the account being rewrapped and the answer for it, or None
  since,       \* the version the sweep under way began at
  rotated,     \* the version the last finished sweep began at
  missed       \* history: accounts signing up across a bump, unseen by a sweep

cosigner == <<files, deployed, KEY_VERSION, cached>>
signups  == <<answers, record, rows>>
rotation == <<sweep, fetched, since, rotated, missed>>
vars     == <<cosigner, signups, rotation>>

Init ==
  /\ files = {FIRST_VERSION} /\ deployed = FIRST_VERSION
  /\ KEY_VERSION = FIRST_VERSION /\ cached = {FIRST_VERSION}
  /\ answers = [a \in Accounts |-> None] /\ record = [a \in Accounts |-> None]
  /\ rows = {}
  /\ sweep = None /\ fetched = None /\ since = FIRST_VERSION
  /\ rotated = FIRST_VERSION /\ missed = {}

----------------------------------------------------------------------------
(* The co-signer.                                                          *)

\* Every version up to the current one whose key is cached or on disk.
Known == {v \in FIRST_VERSION..KEY_VERSION : v \in cached \union files}

OpensCurrentOnly(v) == v = KEY_VERSION /\ v \in Known
Opens(v) == v \in Known

\* known_versions() loads what it finds; an unwrap asks it first.
Look == cached' = Known

\* configured() refuses to start without the current key.
Restart ==
  /\ deployed \in files
  /\ KEY_VERSION' = deployed /\ cached' = {deployed}
  /\ UNCHANGED <<files, deployed, signups, rotation>>

\* The procedure of the module docstring: each step once the last is done.
Provision ==
  /\ deployed = KEY_VERSION /\ deployed < MAX_VERSION
  /\ files' = files \union {deployed + 1} /\ files' # files
  /\ UNCHANGED <<deployed, KEY_VERSION, cached, signups, rotation>>

Bump ==
  /\ deployed + 1 \in files /\ deployed' = deployed + 1
  /\ UNCHANGED <<files, KEY_VERSION, cached, signups, rotation>>

Retire ==
  /\ deployed = KEY_VERSION
  /\ \E v \in files : v < rotated /\ files' = files \ {v}
  /\ UNCHANGED <<deployed, KEY_VERSION, cached, signups, rotation>>

----------------------------------------------------------------------------
(* Accounts.                                                               *)

\* wrap(): under the current version, which the record names.
Wrap(a) ==
  /\ answers[a] = None /\ record[a] = None
  /\ KEY_VERSION \in Known
  /\ cached' = cached \union {KEY_VERSION}
  /\ answers' = [answers EXCEPT ![a] = KEY_VERSION]
  /\ UNCHANGED <<files, deployed, KEY_VERSION, record, rows, rotation>>

StoreRecord(a) ==
  /\ answers[a] # None
  /\ record' = [record EXCEPT ![a] = answers[a]]
  /\ answers' = [answers EXCEPT ![a] = None]
  /\ UNCHANGED <<cosigner, rows, rotation>>

Register(a) ==
  /\ record[a] # None /\ a \notin rows
  /\ rows' = rows \union {a}
  /\ UNCHANGED <<cosigner, answers, record, rotation>>

\* The row and then the key, which Custody takes apart.
Delete(a) ==
  /\ a \in rows
  /\ rows' = rows \ {a} /\ record' = [record EXCEPT ![a] = None]
  /\ missed' = missed \ {a}
  /\ UNCHANGED <<cosigner, answers, sweep, fetched, since, rotated>>

\* unwrap(): whether or not the record opens, the box has looked at its keys.
Unwrap(a) ==
  /\ record[a] # None /\ cached # Known
  /\ Look
  /\ UNCHANGED <<files, deployed, KEY_VERSION, signups, rotation>>

----------------------------------------------------------------------------
(* python -m backend.custody.rotate --apply                                *)

Signing(a) == answers[a] # None \/ (record[a] # None /\ a \notin rows)

\* candidates(): accounts with a row, a handle and a record.
StartSweep ==
  /\ sweep = None /\ deployed = KEY_VERSION
  /\ sweep' = {a \in rows : record[a] # None}
  /\ since' = KEY_VERSION
  /\ missed' = missed \union {a \in Accounts :
                   Signing(a) /\ KEY_VERSION \notin {answers[a], record[a]}}
  /\ UNCHANGED <<cosigner, signups, fetched, rotated>>

\* rewrap(): unwrapped under the version it names, wrapped under the current.
Fetch(a) ==
  /\ sweep # None /\ a \in sweep /\ fetched = None
  /\ record[a] # None /\ Opens(record[a]) /\ KEY_VERSION \in Known
  /\ Look
  /\ fetched' = [account |-> a, version |-> KEY_VERSION]
  /\ UNCHANGED <<files, deployed, KEY_VERSION, signups, sweep, since, rotated, missed>>

\* A deletion meanwhile is Custody's: what is stored then is no account's.
Store ==
  /\ fetched # None
  /\ record' = [record EXCEPT ![fetched.account] =
                  IF @ = None THEN None ELSE fetched.version]
  /\ sweep' = sweep \ {fetched.account} /\ fetched' = None
  /\ UNCHANGED <<cosigner, answers, rows, since, rotated, missed>>

\* The first refusal, lost answer or missing record ends the run.
SkipOnFailure ==
  /\ sweep # None /\ \E a \in sweep : sweep' = sweep \ {a}
  /\ fetched' = None
  /\ UNCHANGED <<cosigner, signups, since, rotated, missed>>

StopOnFailure ==
  /\ sweep # None /\ sweep # {}
  /\ sweep' = None /\ fetched' = None
  /\ UNCHANGED <<cosigner, signups, since, rotated, missed>>

FinishSweep ==
  /\ sweep = {}
  /\ sweep' = None /\ rotated' = since
  /\ UNCHANGED <<cosigner, signups, fetched, since, missed>>

Account(a) == Wrap(a) \/ StoreRecord(a) \/ Register(a) \/ Delete(a) \/ Unwrap(a) \/ Fetch(a)
Operator   == Provision \/ Bump \/ Restart \/ Retire \/ StartSweep

Next == (\E a \in Accounts : Account(a)) \/ Operator \/ Store \/ StopOnFailure \/ FinishSweep

Spec == Init /\ [][Next]_vars

----------------------------------------------------------------------------
\* Every variable keeps its shape; the process runs the deployed code or the one
\* before it.
TypeOK ==
  /\ files \subseteq Versions /\ cached \subseteq Versions
  /\ deployed \in Versions /\ KEY_VERSION \in {deployed, deployed - 1} \ {0}
  /\ answers \in [Accounts -> Versions \union {None}]
  /\ record \in [Accounts -> Versions \union {None}]
  /\ rows \subseteq {a \in Accounts : record[a] # None}
  /\ sweep = None \/ sweep \subseteq Accounts
  /\ fetched \in [account : Accounts, version : Versions] \union {None}
  /\ since \in Versions /\ rotated \in 1..KEY_VERSION /\ missed \subseteq Accounts

\* "Every existing record still opens" through a rotation, restarts, failed
\* sweeps and the retirement of the old key, but for an account that was wrapped
\* under the old key and not yet registered when the sweep listed the accounts:
\* the sweep cannot see it and does not say so.
RecordsOpen == \A a \in Accounts \ missed : record[a] # None => Opens(record[a])
=============================================================================
