------------------------------ MODULE MCItems -------------------------------
(***************************************************************************)
(* Small threads for TLC.                                                  *)
(***************************************************************************)
EXTENDS Items

CONSTANTS p, a, c, d

\* A member's post and an archive thread, one comment each.
Two == [x \in {c, d} |-> IF x = c THEN p ELSE a]
Flat == [x \in {c, d} |-> Nothing]
=============================================================================
