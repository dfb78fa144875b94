--------------------------- MODULE SignedCookies ---------------------------
(***************************************************************************)
(* What frontend/session.py signs, and when it opens it again.  A signed   *)
(* value is the purpose, value, time and key it was made of: nothing else  *)
(* yields the same signature, so a value changed on the way opens as None. *)
(***************************************************************************)
EXTENDS Naturals, Sequences, Functions

CONSTANT None

\* `ring` is the process's keys, the current one first, then the outgoing one.
Sign(purpose, value, now, ring) ==
  [purpose |-> purpose, value |-> value, iat |-> now, key |-> Head(ring)]

\* The right kind, young enough, and under a key this process still holds.
Opens(c, purpose, ttl, now, ring) ==
  /\ c # None /\ c.purpose = purpose
  /\ now - c.iat <= ttl
  /\ c.key \in Range(ring)

\* SESSION_SECRET moves to SESSION_SECRET_PREVIOUS, and what was there goes.
Rotated(ring) == <<Head(ring) + 1, Head(ring)>>
===========================================================================
