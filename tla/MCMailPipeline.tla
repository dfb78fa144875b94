-------------------------- MODULE MCMailPipeline --------------------------
(* Small instances of MailPipeline for TLC. *)
EXTENDS MailPipeline, TLC

CONSTANTS a1, a2, h1, r1, r2

MCBoth == {a1, a2}
MCOne == {a1}
MCNone == {}
MCHooks == {h1}
MCRenewer == {r1}
MCRenewers == {r1, r2}
MCSymmetry == Permutations(MCRenewers)
===========================================================================
