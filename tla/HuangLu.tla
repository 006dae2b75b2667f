------------------------------ MODULE HuangLu ------------------------------
(***************************************************************************)
(* detail::huang_lu (include/nil/blueprint/detail/huang_lu.hpp): tasks of  *)
(* given sizes are shared out among agents so that the largest load is     *)
(* small.  A binary search looks for the least threshold for which giving  *)
(* every agent in turn the largest tasks that still fit leaves none over.  *)
(*                                                                         *)
(* A task is its position in the list that std::list::sort leaves, largest *)
(* first; tasks of one size are alike, so that their order and their keys  *)
(* are left out.                                                           *)
(***************************************************************************)
EXTENDS Naturals, Sequences, FiniteSets, FiniteSetsExt, Functions

CONSTANTS
    Agents  \* agent_amount

ASSUME AgentsAssumption == Agents \in Nat \ {0}

VARIABLES
    stage,        \* "idle", "search" between two rounds, "share" in one
    size,         \* sizes: the sorted sizes, task -> size
    left, right,  \* the interval that is searched
    best,         \* best_assignment: task -> agent
    agent,        \* i: whose turn it is
    load,         \* curr_bundle_size
    cursor,       \* it: the last task that was looked at
    remaining,    \* tasks_remaning
    assignment    \* not emptied between rounds

interval == <<left, right, best>>
round == <<agent, load, cursor, remaining, assignment>>
searchVars == <<stage, size, interval, round>>

Tasks == DOMAIN size

NoTasks == [t \in {} |-> 0]

SearchInit ==
    /\ stage = "idle"
    /\ size = <<>>
    /\ left = 0 /\ right = 0 /\ best = NoTasks
    /\ agent = 0 /\ load = 0 /\ cursor = 0
    /\ remaining = {} /\ assignment = NoTasks

(* Mutant: the quotient is rounded down.                                   *)
FloorBound(s) ==
    Max({SumFunction(s) \div Agents} \cup Range(s) \cup {0})

(* No sharing out has a largest load below this.                           *)
LowerBound(s) ==
    Max({(SumFunction(s) + Agents - 1) \div Agents} \cup Range(s) \cup {0})

Sorted(s) == \A i, j \in DOMAIN s : i < j => s[i] >= s[j]

Begin(s) ==
    /\ stage = "idle"
    /\ stage' = "search"
    /\ size' = s
    /\ left' = LowerBound(s)
    /\ right' = 2 * LowerBound(s)
    /\ UNCHANGED <<best, round>>

-----------------------------------------------------------------------------

(* Mutant: an interval of two thresholds is not searched.                  *)
SearchingWide ==
    stage = "share" \/ (stage = "search" /\ left + 1 < right)

Searching == stage = "share" \/ (stage = "search" /\ left < right)

Returned == stage # "idle" /\ ~Searching

threshold == left + (right - left) \div 2

FirstAgent == 0

StartRound ==
    /\ stage = "search" /\ Searching
    /\ stage' = "share"
    /\ agent' = FirstAgent /\ load' = 0 /\ cursor' = 0
    /\ remaining' = Tasks
    /\ UNCHANGED <<size, interval, assignment>>

Ahead == {t \in remaining : t > cursor}

(* The agent takes the next task if it still fits, or passes it on.        *)
Offer ==
    /\ stage = "share" /\ Ahead # {}
    /\ cursor' = Min(Ahead)
    /\ IF load + size[Min(Ahead)] <= threshold
       THEN /\ load' = load + size[Min(Ahead)]
            /\ remaining' = remaining \ {Min(Ahead)}
            /\ assignment' = [t \in DOMAIN assignment \cup {Min(Ahead)} |->
                                 IF t = Min(Ahead) THEN agent ELSE assignment[t]]
       ELSE UNCHANGED <<load, remaining, assignment>>
    /\ UNCHANGED <<stage, size, interval, agent>>

(* The for loop ends with the last agent, or with one who got nothing.     *)
TurnsEnd == Ahead = {} /\ (load = 0 \/ agent + 1 = Agents)

NextAgent ==
    /\ stage = "share" /\ Ahead = {} /\ ~TurnsEnd
    /\ agent' = agent + 1
    /\ load' = 0 /\ cursor' = 0
    /\ UNCHANGED <<stage, size, interval, remaining, assignment>>

(* Mutant: the upper end skips the threshold that was found to fit.        *)
NarrowTight ==
    IF remaining = {}
    THEN right' = Max({threshold, 1}) - 1 /\ best' = assignment /\ UNCHANGED left
    ELSE left' = threshold + 1 /\ UNCHANGED <<right, best>>

(* Mutant: the threshold that did not fit stays in the interval.           *)
NarrowStuck ==
    IF remaining = {}
    THEN right' = threshold /\ best' = assignment /\ UNCHANGED left
    ELSE left' = threshold /\ UNCHANGED <<right, best>>

Narrow ==
    IF remaining = {}
    THEN right' = threshold /\ best' = assignment /\ UNCHANGED left
    ELSE left' = threshold + 1 /\ UNCHANGED <<right, best>>

(* The break that follows in the code leaves when the least threshold of   *)
(* the interval fits: then left and right have met.                        *)
EndRound ==
    /\ stage = "share" /\ TurnsEnd
    /\ Narrow
    /\ stage' = "search"
    /\ UNCHANGED <<size, agent, load, cursor, remaining, assignment>>

SearchStep == StartRound \/ Offer \/ NextAgent \/ EndRound

(* Every call of huang_lu: there are no tasks of size 0, which would stay  *)
(* without an agent, since the interval of nothing but them is empty.      *)
SizeLists == {s \in Seq(Nat \ {0}) : Sorted(s)}

AnySearch == SearchInit /\ [][(\E s \in SizeLists : Begin(s)) \/ SearchStep]_searchVars

-----------------------------------------------------------------------------
(* Properties *)

SearchTypeOK ==
    /\ Sorted(size)
    /\ left \in Nat /\ right \in Nat /\ load \in Nat
    /\ stage \in {"idle", "search", "share"} /\ agent \in 0..(Agents - 1)
    /\ cursor \in Tasks \cup {0} /\ remaining \subseteq Tasks
    /\ DOMAIN assignment \subseteq Tasks
    /\ best \in [DOMAIN best -> 0..(Agents - 1)]

LoadOf(a, i) == SumFunctionOnSet(size, {t \in DOMAIN a : a[t] = i})

LargestLoad(a) == Max({LoadOf(a, i) : i \in 0..(Agents - 1)})

(* The least largest load of any sharing out, by exhaustive search.        *)
Optimum == Min({LargestLoad(a) : a \in [Tasks -> 0..(Agents - 1)]})

(* The interval means what it is searched for: what has been found shares  *)
(* out every task under the upper end, although the map it was copied from *)
(* is never emptied, and it closes only over something that was found: the *)
(* upper end of the start, which is never tried, is never the answer.      *)
IntervalMeans ==
    /\ left <= right
    /\ IF best = NoTasks
       THEN right = 2 * LowerBound(size)
       ELSE DOMAIN best = Tasks /\ LargestLoad(best) <= right

(* The answer shares out every task; the stretcher would put a zone that   *)
(* has no agent on agent 0 by default, over the rows already there.        *)
EveryTaskAssigned == Returned => DOMAIN best = Tasks

(* The answer is at most 11/9 of the optimum, as the comment above the     *)
(* function and its test say.                                              *)
WithinRatio == Returned => 9 * LargestLoad(best) <= 11 * Optimum

(* The binary search ends.                                                 *)
SearchEnds == (stage = "search") ~> Returned
=============================================================================
