-------------------------- MODULE MCComponentBatch --------------------------
(* Small instance of ComponentBatch: five witness columns, a component of  *)
(* width two (two to a row) and one of width three (one to a row), two     *)
(* inputs with values that meet, functions that are not zero at zero.      *)
EXTENDS ComponentBatch

MCWidth == <<2, 3>>
MCInputValue == <<1, 2>>
MCValue == 0..4
MCFunction == <<[v \in MCValue |-> (v + 1) % 5], [v \in MCValue |-> (3 * v + 1) % 5]>>
=============================================================================
