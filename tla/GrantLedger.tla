---------------------------- MODULE GrantLedger ----------------------------
(***************************************************************************)
(* What the co-signer promises the rest of the system, with nothing of how *)
(* it keeps the promise: grants happen one at a time, each is admissible   *)
(* against the whole history of grants at the moment it is made, and no    *)
(* grant is ever forgotten.  There is no lock, no log that is pruned, no   *)
(* process that restarts and no gap between deciding and recording.        *)
(*                                                                         *)
(* CoSigner.tla is the detailed specification (cosigner/policy.py,         *)
(* audit.py, retention.py) and implements this one.                        *)
(***************************************************************************)
EXTENDS GrantRules

VARIABLES
  now,     \* the host's clock, in units of one tick
  ledger   \* every grant ever made

vars == <<now, ledger>>

\* A box may start on a log that already holds one account's wrap.
Init ==
  /\ now = 0
  /\ \/ ledger = {}
     \/ \E u \in Uids :
          ledger = {[id |-> 0, ts |-> 0, uid |-> u, action |-> WRAP,
                     decision |-> ALLOW]}

\* One admissible grant, stamped with the current time.
Grant ==
  \E row \in ledger' \ ledger :
    /\ ledger' = ledger \union {row}
    /\ row \in Row
    /\ row.decision = ALLOW
    /\ row.ts = now
    /\ row.action = WRAP => ~EverWrapped(ledger, row.uid)
    /\ ~RateRefused(ledger, now, row.uid, row.action)
    /\ UNCHANGED now

Tick == now' \in Nat /\ now' > now /\ UNCHANGED ledger

Next == Grant \/ Tick

Spec == Init /\ [][Next]_vars

===========================================================================
