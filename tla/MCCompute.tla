----------------------------- MODULE MCCompute -----------------------------
(***************************************************************************)
(* Instances of Compute: j1 and j2 are jobs of one tenant, j3 of another.  *)
(***************************************************************************)
EXTENDS Compute, TLC

CONSTANTS j1, j2, j3, u1, u2

MCUserOf == [j \in Jobs |-> IF j = j3 THEN u2 ELSE u1]

WorkerSymmetry == Permutations(Workers)
=============================================================================
