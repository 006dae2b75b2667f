--------------------------- MODULE MCCircuitProxy ---------------------------
(* Small instance of CircuitProxy: two proxies, two constraints, two       *)
(* selectors, two copy constraints over two places of the assignment and   *)
(* one of the private storage.                                             *)
EXTENDS CircuitProxy, TLC

Symmetry ==
    Permutations(Caller) \cup Permutations(Constraint) \cup Permutations(Place \ Private)
=============================================================================
