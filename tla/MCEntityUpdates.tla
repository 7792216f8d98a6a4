-------------------------- MODULE MCEntityUpdates --------------------------
(* Instances of EntityUpdates for TLC.  The clients are interchangeable;   *)
(* the paths are not, where only some of them are seeded.                  *)
EXTENDS EntityUpdates, TLC

CONSTANTS c1, c2, c3, p1, p2, t1    \* model values

Symmetry == Permutations(Clients)
=============================================================================
