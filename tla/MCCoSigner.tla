---------------------------- MODULE MCCoSigner ----------------------------
(* Small instances of CoSigner for TLC. *)
EXTENDS CoSigner, TLC

CONSTANTS
  u1, u2, u3,   \* accounts
  anon,         \* the uid of a bare sign at the code exchange: none yet
  t1, t2

MCAccounts == {u1, u2, u3}
MCUids == MCAccounts \union {anon}
MCThreads == {t1, t2}

MCRequested ==
  (MCAccounts \X {WRAP, UNWRAP, UNWRAP_DATA}) \union {<<anon, SIGN>>, <<anon, REWRAP>>}

MCSymmetry == Permutations(MCThreads) \union Permutations(MCAccounts)
===========================================================================
