------------------------------ MODULE Circuit ------------------------------
(***************************************************************************)
(* circuit<plonk_constraint_system>                                        *)
(* (include/nil/blueprint/blueprint/plonk/circuit.hpp) and the identifiers *)
(* of gates and lookup gates it compares them by (gate_id.hpp).            *)
(*                                                                         *)
(* Components ask for a gate with its constraints and are answered with    *)
(* the selector to enable; a gate with the same identifier is shared.      *)
(* Gates and lookup gates are numbered by one counter, which also gives    *)
(* out the tag selectors of dynamic lookup tables.                         *)
(*                                                                         *)
(* A constraint is an opaque value.  An identifier is the evaluation of    *)
(* the constraints at random points: two differ whenever the constraints   *)
(* do (collisions of probability degree / field size are left out).        *)
(***************************************************************************)
EXTENDS Naturals, Sequences, FiniteSets

CONSTANTS
    Caller,          \* components (or proxies) that ask the circuit
    Constraint,      \* constraints of gates and of lookup gates
    MaxConstraints,  \* bound on the constraints of one gate
    Place,           \* variables a copy constraint may name
    Private,         \* those of them that are in the private storage
    MaxSelectors,    \* bound on the selectors given out
    MaxGates,        \* bound on the gates of one container
    MaxAnswers,      \* bound on the calls of add_gate with different results
    MaxAttachments,  \* bound on the calls of add_gate with a selector
    MaxCopies        \* bound on the copy constraints asked for

ASSUME PrivateAssumption == Private \subseteq Place
ASSUME BoundsAssumption ==
    /\ MaxConstraints \in Nat /\ MaxSelectors \in Nat /\ MaxGates \in Nat
    /\ MaxAnswers \in Nat /\ MaxAttachments \in Nat /\ MaxCopies \in Nat

VARIABLES
    gates,            \* _gates and _lookup_gates: sequences of [selector, args]
    selectorMap,      \* selector_map and lookup_selector_map: id -> selector
    nextSelector,     \* next_selector_index
    copyConstraints,  \* _copy_constraints
    answers,          \* history: what add_gate was asked and answered
    dynamicSelectors, \* history: what get_dynamic_lookup_table_selector answered
    attachments,      \* history: what add_gate(selector_id, ...) was asked
    copyRequests      \* history: what add_copy_constraint was asked

circuitVars == <<gates, selectorMap, nextSelector, copyConstraints>>
historyVars == <<answers, dynamicSelectors, attachments, copyRequests>>
vars == <<circuitVars, historyVars>>

Kind == {"gate", "lookup"}

(* add_gate takes one constraint, or a vector or list of constraints.      *)
Call ==
    [form : {"one"}, args : {<<c>> : c \in Constraint}] \cup
    [form : {"many"}, args : UNION {[1..n -> Constraint] : n \in 1..MaxConstraints}]

Occurrences(args) ==
    [c \in Constraint |-> Cardinality({i \in DOMAIN args : args[i] = c})]

(* Mutant: equal constraints of a gate are evaluated once.                 *)
IdWithoutRepetitions(call) ==
    [form |-> call.form,
     constraints |-> [c \in Constraint |-> IF \E i \in DOMAIN call.args : call.args[i] = c
                                           THEN 1 ELSE 0]]

(* The constraints of a list are sorted by value before they are weighted, *)
(* so their order is lost; a single constraint is not weighted at all and  *)
(* never meets the list that holds only it.                                *)
GateId(call) == [form |-> call.form, constraints |-> Occurrences(call.args)]

CopyConstraint == [first : Place, second : Place]

NoEntries == [id \in {} |-> 0]

Init ==
    /\ gates = [k \in Kind |-> <<>>]
    /\ selectorMap = [k \in Kind |-> NoEntries]
    /\ nextSelector = 0
    /\ copyConstraints = <<>>
    /\ answers = {}
    /\ dynamicSelectors = {}
    /\ attachments = {}
    /\ copyRequests = {}

-----------------------------------------------------------------------------
(* Gates *)

(* Mutant: each kind counts its own selectors.                             *)
SelectorPerKind(kind) == Len(gates[kind])

NewSelector(kind) == nextSelector

(* Mutant: the identifier keeps the order of the constraints.              *)
KnownInOrder(kind, call) ==
    /\ GateId(call) \in DOMAIN selectorMap[kind]
    /\ \E i \in DOMAIN gates[kind] : gates[kind][i].args = call.args

Known(kind, call) == GateId(call) \in DOMAIN selectorMap[kind]

SelectorOf(kind, call) ==
    IF Known(kind, call) THEN selectorMap[kind][GateId(call)] ELSE NewSelector(kind)

Gate(selector, args) == [selector |-> selector, args |-> args]

(* add_gate and add_lookup_gate without a selector.                        *)
AddGate(caller, kind, call) ==
    LET id == GateId(call)
        selector == SelectorOf(kind, call)
    IN
    /\ answers' = answers \cup {[caller |-> caller, kind |-> kind, form |-> call.form,
                                 args |-> call.args, selector |-> selector]}
    /\ IF Known(kind, call)
       THEN UNCHANGED <<gates, selectorMap, nextSelector>>
       ELSE /\ nextSelector < MaxSelectors /\ Len(gates[kind]) < MaxGates
            /\ selectorMap' = [selectorMap EXCEPT ![kind] =
                                 [i \in DOMAIN @ \cup {id} |->
                                    IF i = id THEN selector ELSE @[i]]]
            /\ gates' = [gates EXCEPT ![kind] = Append(@, Gate(selector, call.args))]
            /\ nextSelector' = nextSelector + 1
    /\ Cardinality(answers') <= MaxAnswers
    /\ UNCHANGED <<copyConstraints, dynamicSelectors, attachments, copyRequests>>

(* add_gate(selector_id, ...) and add_lookup_gate(selector_id, ...) with a *)
(* selector the circuit has given out.                                     *)
AttachGate(caller, kind, selector, args) ==
    /\ selector < nextSelector
    /\ Len(gates[kind]) < MaxGates
    /\ gates' = [gates EXCEPT ![kind] = Append(@, Gate(selector, args))]
    /\ attachments' = attachments \cup
         {[caller |-> caller, kind |-> kind, args |-> args, selector |-> selector]}
    /\ Cardinality(attachments') <= MaxAttachments
    /\ UNCHANGED <<selectorMap, nextSelector, copyConstraints,
                   answers, dynamicSelectors, copyRequests>>

(* Mutant: the counter is read and not advanced.                           *)
PeekDynamicSelector(caller) ==
    /\ nextSelector < MaxSelectors
    /\ dynamicSelectors' =
         dynamicSelectors \cup {[caller |-> caller, selector |-> nextSelector]}
    /\ UNCHANGED <<circuitVars, answers, attachments, copyRequests>>

(* get_dynamic_lookup_table_selector                                       *)
GetDynamicLookupTableSelector(caller) ==
    /\ nextSelector < MaxSelectors
    /\ dynamicSelectors' =
         dynamicSelectors \cup {[caller |-> caller, selector |-> nextSelector]}
    /\ nextSelector' = nextSelector + 1
    /\ UNCHANGED <<gates, selectorMap, copyConstraints,
                   answers, attachments, copyRequests>>

-----------------------------------------------------------------------------
(* Copy constraints *)

Dropped(c) == c.first = c.second \/ c.first \in Private \/ c.second \in Private

(* add_copy_constraint                                                     *)
AddCopyConstraint(caller, c) ==
    /\ copyRequests' = copyRequests \cup {[caller |-> caller, constraint |-> c]}
    /\ Cardinality(copyRequests') <= MaxCopies /\ Len(copyConstraints) < MaxCopies
    /\ copyConstraints' = IF Dropped(c) THEN copyConstraints
                          ELSE Append(copyConstraints, c)
    /\ UNCHANGED <<gates, selectorMap, nextSelector,
                   answers, dynamicSelectors, attachments>>

Next ==
    \E caller \in Caller :
        \/ \E kind \in Kind, call \in Call : AddGate(caller, kind, call)
        \/ \E kind \in Kind, c \in Constraint, selector \in 0..MaxSelectors :
              AttachGate(caller, kind, selector, <<c>>)
        \/ GetDynamicLookupTableSelector(caller)
        \/ \E c \in CopyConstraint : AddCopyConstraint(caller, c)

Spec == Init /\ [][Next]_vars

-----------------------------------------------------------------------------
(* Properties *)

Id == [form : {"one", "many"}, constraints : [Constraint -> 0..MaxConstraints]]
Selector == 0..(MaxSelectors - 1)
Args == UNION {[1..n -> Constraint] : n \in 1..MaxConstraints}

TypeOK ==
    /\ nextSelector \in 0..MaxSelectors
    /\ gates \in [Kind -> Seq([selector : Selector, args : Args])]
    /\ DOMAIN selectorMap = Kind
    /\ \A k \in Kind : /\ DOMAIN selectorMap[k] \subseteq Id
                       /\ \A id \in DOMAIN selectorMap[k] :
                             selectorMap[k][id] \in Selector
    /\ copyConstraints \in Seq(CopyConstraint)
    /\ answers \subseteq [caller : Caller, kind : Kind, form : {"one", "many"},
                          args : Args, selector : Selector]

SameConstraints(a, b) == Occurrences(a) = Occurrences(b)

(* Every selector add_gate ever answered still stands, in the container of *)
(* its kind, for exactly the constraints the caller asked for.             *)
AnswersStand ==
    \A a \in answers : \E i \in DOMAIN gates[a.kind] :
        /\ gates[a.kind][i].selector = a.selector
        /\ SameConstraints(gates[a.kind][i].args, a.args)

(* A selector switches on one thing: two answers with the same selector    *)
(* were given for the same constraints of the same kind.                   *)
SelectorsExclusive ==
    \A a, b \in answers : a.selector = b.selector =>
        a.kind = b.kind /\ SameConstraints(a.args, b.args)

(* A gate asked for again, by any component and with its constraints in    *)
(* any order, costs no second selector.                                    *)
GatesShared ==
    \A a, b \in answers :
        a.kind = b.kind /\ a.form = b.form /\ SameConstraints(a.args, b.args) =>
            a.selector = b.selector

(* The tag of a dynamic table is nobody else's: no other caller's table    *)
(* has it and no gate asked for with add_gate is switched on by it.        *)
SeparateDynamicSelectors ==
    \A d \in dynamicSelectors :
        /\ \A e \in dynamicSelectors : d.caller # e.caller => d.selector # e.selector
        /\ \A a \in answers : a.selector # d.selector
=============================================================================
