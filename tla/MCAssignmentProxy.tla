------------------------- MODULE MCAssignmentProxy -------------------------
(* AssignmentProxy for two provers with two gates, one that reads its own  *)
(* row and one that reads the next.                                        *)
EXTENDS AssignmentProxy, TLC

CONSTANTS p1, p2

MCProver == {p1, p2}
MCValue == {0, 1}
MCGate == {[rotation |-> 0, accepts |-> {1}], [rotation |-> 1, accepts |-> {0}]}
Symmetry == Permutations(MCProver)
=============================================================================
