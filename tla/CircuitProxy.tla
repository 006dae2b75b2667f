---------------------------- MODULE CircuitProxy ----------------------------
(***************************************************************************)
(* Several circuit_proxy objects in front of one shared circuit            *)
(* (include/nil/blueprint/blueprint/plonk/circuit_proxy.hpp), one for each *)
(* prover: a proxy notes which gates, lookup gates and copy constraints of *)
(* the shared circuit its prover uses.                                     *)
(*                                                                         *)
(* Components see a proxy as a circuit.  The calls it overrides go to the  *)
(* shared circuit; get_dynamic_lookup_table_selector, add_gate and         *)
(* add_lookup_gate with a selector are not overridden and work on the      *)
(* circuit that the proxy object itself inherits from.                     *)
(*                                                                         *)
(* The callers of module Circuit are the proxies.  Indices count from 1.   *)
(***************************************************************************)
EXTENDS Circuit

CONSTANT MaxCalls  \* bound on the different calls made by all the proxies

ASSUME MaxCallsAssumption == MaxCalls \in Nat

VARIABLES
    usedGates,            \* used_gates and used_lookup_gates of every proxy
    usedCopyConstraints,  \* used_copy_constraints of every proxy
    ownGates,             \* _gates and _lookup_gates the proxy inherits
    ownNextSelector       \* next_selector_index the proxy inherits

proxyVars == <<usedGates, usedCopyConstraints, ownGates, ownNextSelector>>
allVars == <<vars, proxyVars>>

ProxyInit ==
    /\ Init
    /\ usedGates = [p \in Caller |-> [k \in Kind |-> {}]]
    /\ usedCopyConstraints = [p \in Caller |-> {}]
    /\ ownGates = [p \in Caller |-> [k \in Kind |-> <<>>]]
    /\ ownNextSelector = [p \in Caller |-> 0]

-----------------------------------------------------------------------------
(* Calls that reach the shared circuit *)

(* Mutant: the gate used is taken to be the newest one.                    *)
NewestGate(kind, selector) == Len(gates'[kind])

(* get_gate_index and get_lookup_gate_index: the first gate with the       *)
(* selector, after the call.                                               *)
GateIndex(kind, selector) ==
    CHOOSE i \in DOMAIN gates'[kind] :
        /\ gates'[kind][i].selector = selector
        /\ \A j \in 1..(i - 1) : gates'[kind][j].selector # selector

(* add_gate and add_lookup_gate; the selector comes from the call.         *)
ProxyAddGate(p, kind, call) ==
    /\ AddGate(p, kind, call)
    /\ usedGates' = [usedGates EXCEPT ![p][kind] =
                       @ \cup {GateIndex(kind, SelectorOf(kind, call))}]
    /\ UNCHANGED <<usedCopyConstraints, ownGates, ownNextSelector>>

(* Mutant: the size is read before the call.                               *)
LastBeforeCall == {i \in {Len(copyConstraints)} : i > 0}

(* The last copy constraint after the call, whoever added it.              *)
LastCopyConstraint == {i \in {Len(copyConstraints')} : i > 0}

ProxyAddCopyConstraint(p, c) ==
    /\ AddCopyConstraint(p, c)
    /\ usedCopyConstraints' = [usedCopyConstraints EXCEPT ![p] = @ \cup LastCopyConstraint]
    /\ UNCHANGED <<usedGates, ownGates, ownNextSelector>>

-----------------------------------------------------------------------------
(* Calls that stay with the proxy *)

(* add_gate and add_lookup_gate with a selector some call has answered.    *)
ProxyAttachGate(p, kind, selector, args) ==
    /\ selector \in {a.selector : a \in {b \in answers : b.caller = p}} \cup
                    {d.selector : d \in {e \in dynamicSelectors : e.caller = p}}
    /\ ownGates' = [ownGates EXCEPT ![p][kind] = Append(@, Gate(selector, args))]
    /\ attachments' = attachments \cup
         {[caller |-> p, kind |-> kind, args |-> args, selector |-> selector]}
    /\ Cardinality(attachments') <= MaxAttachments
    /\ Len(ownGates'[p][kind]) <= MaxGates
    /\ UNCHANGED <<circuitVars, answers, dynamicSelectors, copyRequests,
                   usedGates, usedCopyConstraints, ownNextSelector>>

(* get_dynamic_lookup_table_selector                                       *)
ProxyGetDynamicLookupTableSelector(p) ==
    /\ ownNextSelector[p] < MaxSelectors
    /\ dynamicSelectors' =
         dynamicSelectors \cup {[caller |-> p, selector |-> ownNextSelector[p]]}
    /\ ownNextSelector' = [ownNextSelector EXCEPT ![p] = @ + 1]
    /\ UNCHANGED <<circuitVars, answers, attachments, copyRequests,
                   usedGates, usedCopyConstraints, ownGates>>

CallsMade ==
    Cardinality(answers) + Cardinality(dynamicSelectors)
      + Cardinality(attachments) + Cardinality(copyRequests)

ProxyNext ==
    /\ CallsMade < MaxCalls
    /\ \E p \in Caller :
        \/ \E kind \in Kind, call \in Call : ProxyAddGate(p, kind, call)
        \/ \E c \in CopyConstraint : ProxyAddCopyConstraint(p, c)
        \/ \E kind \in Kind, c \in Constraint, selector \in Selector :
              ProxyAttachGate(p, kind, selector, <<c>>)
        \/ ProxyGetDynamicLookupTableSelector(p)

ProxySpec == ProxyInit /\ [][ProxyNext]_allVars

-----------------------------------------------------------------------------
(* Properties *)

ProxyTypeOK ==
    /\ TypeOK
    /\ usedGates \in [Caller -> [Kind -> SUBSET (1..MaxGates)]]
    /\ \A p \in Caller, k \in Kind : usedGates[p][k] \subseteq DOMAIN gates[k]
    /\ \A p \in Caller : usedCopyConstraints[p] \subseteq DOMAIN copyConstraints
    /\ ownGates \in [Caller -> [Kind -> Seq([selector : Selector, args : Args])]]
    /\ ownNextSelector \in [Caller -> 0..MaxSelectors]

(* A prover's gates are the ones its components asked for: none is missing *)
(* from used_gates or used_lookup_gates, although another proxy may have   *)
(* created it, and none is there that only other proxies asked for.        *)
UsedGatesExact ==
    \A p \in Caller, k \in Kind :
        LET asked == {a \in answers : a.caller = p /\ a.kind = k}
        IN  /\ \A a \in asked : \E i \in usedGates[p][k] :
                  SameConstraints(gates[k][i].args, a.args)
            /\ \A i \in usedGates[p][k] : \E a \in asked :
                  SameConstraints(gates[k][i].args, a.args)

(* No copy constraint a prover's components asked for is missing from its  *)
(* used_copy_constraints, except those the circuit drops.                  *)
UsedCopyConstraintsCover ==
    \A r \in copyRequests : ~Dropped(r.constraint) =>
        \E i \in usedCopyConstraints[r.caller] : copyConstraints[i] = r.constraint
=============================================================================
