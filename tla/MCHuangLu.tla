----------------------------- MODULE MCHuangLu -----------------------------
(* Small instance of HuangLu: three agents and every list of up to six     *)
(* tasks of sizes up to seven, which the caller hands over once.           *)
EXTENDS HuangLu

MaxTasks == 6
MaxSize == 7

SortedSizes == {s \in UNION {[1..n -> 1..MaxSize] : n \in 0..MaxTasks} : Sorted(s)}

SearchNext == (\E s \in SortedSizes : Begin(s)) \/ SearchStep

(* The caller waits for the function to return: it always runs on.         *)
SearchSpec == SearchInit /\ [][SearchNext]_searchVars /\ WF_searchVars(SearchStep)
=============================================================================
