----------------------------- MODULE MCCustody -----------------------------
(* Small instances of Custody for TLC. *)
EXTENDS Custody, TLC

CONSTANTS t1, t2

MCTasks == {t1, t2}
MCSymmetry == Permutations(MCTasks)
===========================================================================
