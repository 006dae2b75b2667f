----------------------------- MODULE MCCircuit -----------------------------
(* Small instance of Circuit: two components, two constraints in gates of  *)
(* at most two, three selectors, one place of the private storage.         *)
EXTENDS Circuit, TLC

Symmetry == Permutations(Caller) \cup Permutations(Constraint)
=============================================================================
