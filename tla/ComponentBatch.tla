--------------------------- MODULE ComponentBatch ---------------------------
(***************************************************************************)
(* Component batching: component_batch                                     *)
(* (include/nil/blueprint/component_batch.hpp) and the part of assignment  *)
(* that owns the batches (blueprint/plonk/assignment.hpp).                 *)
(*                                                                         *)
(* Larger components ask for single-row components (addition, ...) with    *)
(* add_input_to_batch_circuit while they generate the circuit and with     *)
(* add_input_to_batch_assignment while they generate the assignments.      *)
(* Both passes ask for the same things, either one may be ahead, and both  *)
(* must be answered with the same variable, an entry of the batch storage. *)
(* finalize_component_batches then places every input, several to a row,   *)
(* and makes the copy constraints point at the cells.                      *)
(*                                                                         *)
(* A batched component has one input and one output variable; its gate     *)
(* says output = Function[component][input].  The callers' own rows are    *)
(* modelled by their inputs, which hold values from the start, and by one  *)
(* cell for each request, into which the caller puts the value of the      *)
(* result and which it connects to the result by a copy constraint.        *)
(***************************************************************************)
EXTENDS Integers, Sequences, FiniteSets

CONSTANTS
    Components,       \* number of batched components, ordered as the batches are
    Witnesses,        \* number of witness columns
    Width,            \* witness columns of a component (get_component_witness_amount)
    Inputs,           \* number of the callers' input variables
    InputValue,       \* their values
    Value,            \* field elements
    Zero,             \* the element a dummy result holds
    Function,         \* the function a component computes
    MaxRequests,      \* bound on the requests of the callers
    MaxFinalizations  \* bound on the calls of finalize_component_batches

Component == 1..Components

ASSUME SizeAssumption ==
    /\ Components \in Nat /\ Witnesses \in Nat /\ Inputs \in Nat
    /\ MaxRequests \in Nat /\ MaxFinalizations \in Nat
ASSUME WidthAssumption == Width \in [Component -> 2..Witnesses]
ASSUME ValueAssumption ==
    /\ Zero \in Value
    /\ InputValue \in [1..Inputs -> Value]
    /\ Function \in [Component -> [Value -> Value]]

VARIABLES
    script,         \* the requests the callers make, the same in both passes
    answers,        \* the storage indices each pass has been answered with
    results,        \* inputs_results of every batch
    storage,        \* assignment_batch_private_storage
    uses,           \* the callers' cells that hold the results
    copies,         \* copy constraints: pairs of places
    table,          \* witness cells of the batch rows
    enabled,        \* <<component, row>>: the selector of its gate is enabled
    variableMap,    \* batch_variable_map: storage index -> cell
    nextRow,        \* the row the last finalization returned
    finalizations,  \* number of finalizations, with the length of the
    finalizedAt,    \* script at the last one
    aborted         \* an assertion has stopped the program

batchVars == <<results, storage>>
tableVars == <<table, enabled, variableMap, nextRow, finalizations, finalizedAt, aborted>>
vars == <<script, answers, batchVars, uses, copies, tableVars>>

Pass == {"circuit", "assignment"}

(* Variables: an input or a result cell of a caller, an entry of the batch *)
(* storage, a cell of a batch row.                                         *)
Input(v) == [kind |-> "input", at |-> v]
Use(i) == [kind |-> "use", at |-> i]
Batched(k) == [kind |-> "batch", at |-> k]
Cell(position) == [kind |-> "cell", at |-> position]

(* A request names a component and, as its input, an input of the callers  *)
(* or the result of an earlier request.                                    *)
Request(earlier) ==
    [component : Component,
     from : {Input(v) : v \in 1..Inputs} \cup {Batched(i) : i \in 1..earlier}]

NoEntries == [e \in {} |-> 0]

Init ==
    /\ script = <<>>
    /\ answers = [p \in Pass |-> <<>>]
    /\ results = [c \in Component |-> NoEntries]
    /\ storage = <<>>
    /\ uses = <<>>
    /\ copies = {}
    /\ table = NoEntries
    /\ enabled = {}
    /\ variableMap = NoEntries
    /\ nextRow = 0
    /\ finalizations = 0 /\ finalizedAt = 0
    /\ aborted = FALSE

-----------------------------------------------------------------------------
(* Asking for a result *)

(* var_value: inputs in the callers' rows, results in the storage.         *)
InputVarValue(place) ==
    IF place.kind = "input" THEN InputValue[place.at] ELSE storage[place.at]

(* What the pass uses as the input variable of the request.                *)
InputOf(pass, request) ==
    IF request.from.kind = "input" THEN request.from
    ELSE Batched(answers[pass][request.from.at])

Computed(c, input) == Function[c][InputVarValue(input)]

Found(c, input) == input \in DOMAIN results[c]

Put(c, input, index, assigned) ==
    results' = [results EXCEPT ![c] =
        [i \in DOMAIN @ \cup {input} |->
            IF i = input THEN [index |-> index, assigned |-> assigned] ELSE @[i]]]

(* add_batch_variable: the index of the entry added.                       *)
NewIndex == Len(storage')

(* Mutant: whatever is found is returned.                                  *)
ReusableAlways(pass, c, input) == Found(c, input)

Reusable(pass, c, input) ==
    Found(c, input) /\ (results[c][input].assigned \/ pass = "circuit")

(* add_input, the input has been through batching.                         *)
ReuseResult(pass, c, input, index) ==
    /\ Reusable(pass, c, input)
    /\ index = results[c][input].index
    /\ UNCHANGED batchVars

(* add_input from generate_circuit: a placeholder, to be filled later.     *)
PlaceholderResult(pass, c, input, index) ==
    /\ pass = "circuit" /\ ~Found(c, input)
    /\ storage' = Append(storage, Zero)
    /\ index = NewIndex
    /\ Put(c, input, index, FALSE)

(* add_input from generate_assignments, first one to ask.                  *)
NewResult(pass, c, input, index) ==
    /\ pass = "assignment" /\ ~Found(c, input)
    /\ storage' = Append(storage, Computed(c, input))
    /\ index = NewIndex
    /\ Put(c, input, index, TRUE)

(* Mutant: the result gets an entry of its own.                            *)
ReplacePlaceholder(pass, c, input, index) ==
    /\ pass = "assignment" /\ Found(c, input) /\ ~Reusable(pass, c, input)
    /\ storage' = Append(storage, Computed(c, input))
    /\ index = NewIndex
    /\ Put(c, input, index, TRUE)

(* Mutant: the value is stored, the flag is not.                           *)
StorePlaceholder(pass, c, input, index) ==
    /\ pass = "assignment" /\ Found(c, input) /\ ~Reusable(pass, c, input)
    /\ index = results[c][input].index
    /\ storage' = [storage EXCEPT ![index] = Computed(c, input)]
    /\ Put(c, input, index, FALSE)

(* add_input from generate_assignments, generate_circuit has asked before. *)
FillPlaceholder(pass, c, input, index) ==
    /\ pass = "assignment" /\ Found(c, input) /\ ~Reusable(pass, c, input)
    /\ index = results[c][input].index
    /\ storage' = [storage EXCEPT ![index] = Computed(c, input)]
    /\ Put(c, input, index, TRUE)

(* add_input_to_batch: the batch of the component is created when it is    *)
(* first asked; an empty batch and no batch behave the same.               *)
AddInputToBatch(pass, c, input, index) ==
    \/ ReuseResult(pass, c, input, index)
    \/ PlaceholderResult(pass, c, input, index)
    \/ NewResult(pass, c, input, index)
    \/ FillPlaceholder(pass, c, input, index)

(* The next request of a pass: the one the other pass has made already, or *)
(* a new one.                                                              *)
NextRequest(pass, request) ==
    LET i == Len(answers[pass]) + 1 IN
    /\ i <= MaxRequests
    /\ IF i <= Len(script)
       THEN request = script[i] /\ UNCHANGED script
       ELSE request \in Request(Len(script)) /\ script' = Append(script, request)

AskFromCircuit(request, index) ==
    /\ NextRequest("circuit", request)
    /\ AddInputToBatch("circuit", request.component, InputOf("circuit", request), index)
    /\ answers' = [answers EXCEPT !["circuit"] = Append(@, index)]
    /\ copies' = copies \cup {<<Use(Len(answers'["circuit"])), Batched(index)>>}
    /\ UNCHANGED <<uses, tableVars>>

AskFromAssignment(request, index) ==
    /\ NextRequest("assignment", request)
    /\ AddInputToBatch("assignment", request.component,
                       InputOf("assignment", request), index)
    /\ answers' = [answers EXCEPT !["assignment"] = Append(@, index)]
    /\ uses' = Append(uses, storage'[index])
    /\ UNCHANGED <<copies, tableVars>>

-----------------------------------------------------------------------------
(* Finalization *)

(* inputs_results is sorted by variable: the callers' columns come before  *)
(* the index of the batch storage.                                         *)
SortKey(input) == IF input.kind = "input" THEN input.at ELSE Inputs + input.at

Rank(c, input) ==
    Cardinality({i \in DOMAIN results[c] : SortKey(i) < SortKey(input)})

InputAt(c, rank) == CHOOSE i \in DOMAIN results[c] : Rank(c, i) = rank

Amount(c) == Cardinality(DOMAIN results[c])

Slots(c) == Witnesses \div Width[c]

Rows(c) == (Amount(c) + Slots(c) - 1) \div Slots(c)

(* Mutant: a row that is not full is not counted.                          *)
FullRows(c) == Amount(c) \div Slots(c)

RowsReturned(c) == Rows(c)

(* The row each batch starts at, and after the last batch the row that     *)
(* finalize_component_batches returns.                                     *)
FirstRow ==
    LET first[c \in 1..(Components + 1)] ==
            IF c = 1 THEN nextRow ELSE first[c - 1] + RowsReturned(c - 1)
    IN first

(* Mutant: the free slots of the last row stay empty.                      *)
OccupantOrNone(c, rank) == IF rank < Amount(c) THEN {InputAt(c, rank)} ELSE {}

(* The input in a slot; the first one fills the slots left over.           *)
Occupant(c, rank) == {InputAt(c, IF rank < Amount(c) THEN rank ELSE 0)}

(* The cells written by the batches.  The first two columns of a slot hold *)
(* the input and the output.                                               *)
Written ==
    UNION {UNION {UNION {{
        [at |-> <<FirstRow[c] + rank \div Slots(c), (rank % Slots(c)) * Width[c]>>,
         value |-> InputVarValue(input)],
        [at |-> <<FirstRow[c] + rank \div Slots(c), (rank % Slots(c)) * Width[c] + 1>>,
         value |-> Computed(c, input)]}
        : input \in Occupant(c, rank)}
        : rank \in 0..(Rows(c) * Slots(c) - 1)}
        : c \in Component}

InputCell(c, input) ==
    <<FirstRow[c] + Rank(c, input) \div Slots(c),
      (Rank(c, input) % Slots(c)) * Width[c]>>

OutputCell(c, input) ==
    <<InputCell(c, input)[1], InputCell(c, input)[2] + 1>>

AllInputs == UNION {{<<c, i>> : i \in DOMAIN results[c]} : c \in Component}

(* The replacement of the batch variables of a copy constraint.            *)
Resolved(pair) ==
    [n \in 1..2 |-> IF pair[n].kind = "batch" /\ pair[n].at \in DOMAIN variableMap'
                    THEN Cell(variableMap'[pair[n].at]) ELSE pair[n]]

(* finalize_component_batches once both passes are complete.               *)
FinalizeComponentBatches ==
    LET position(k) == LET ci == CHOOSE ci \in AllInputs : results[ci[1]][ci[2]].index = k
                       IN OutputCell(ci[1], ci[2])
        indices == {results[ci[1]][ci[2]].index : ci \in AllInputs}
        inputCopies == {<<Cell(InputCell(ci[1], ci[2])), ci[2]>> : ci \in AllInputs}
    IN
    /\ \A ci \in AllInputs : results[ci[1]][ci[2]].assigned
    /\ table' = [at \in DOMAIN table \cup {w.at : w \in Written} |->
                   IF \E w \in Written : w.at = at
                   THEN (CHOOSE w \in Written : w.at = at).value ELSE table[at]]
    /\ enabled' = enabled \cup
         UNION {{<<c, row>> : row \in FirstRow[c]..(FirstRow[c] + Rows(c) - 1)} : c \in Component}
    /\ variableMap' = [k \in DOMAIN variableMap \cup indices |->
                         IF k \in indices THEN position(k) ELSE variableMap[k]]
    /\ copies' = {Resolved(pair) : pair \in copies \cup inputCopies}
    /\ nextRow' = FirstRow[Components + 1]
    /\ finalizations' = finalizations + 1
    /\ finalizedAt' = Len(script)
    /\ UNCHANGED <<script, answers, batchVars, uses, aborted>>

(* BOOST_ASSERT(result_status)                                             *)
AbortFinalization ==
    /\ \E ci \in AllInputs : ~results[ci[1]][ci[2]].assigned
    /\ aborted' = TRUE
    /\ UNCHANGED <<script, answers, batchVars, uses, copies, table, enabled,
                   variableMap, nextRow, finalizations, finalizedAt>>

Complete == \A p \in Pass : Len(answers[p]) = Len(script)

Finalize ==
    /\ Complete /\ finalizations < MaxFinalizations
    /\ FinalizeComponentBatches \/ AbortFinalization

Next ==
    /\ ~aborted
    /\ \/ \E request \in Request(MaxRequests), index \in 0..MaxRequests :
            AskFromCircuit(request, index)
       \/ \E request \in Request(MaxRequests), index \in 0..MaxRequests :
            AskFromAssignment(request, index)
       \/ Finalize

Spec == Init /\ [][Next]_vars

-----------------------------------------------------------------------------
(* Properties *)

Index == 1..Len(storage)
BatchInput == {Input(v) : v \in 1..Inputs} \cup {Batched(k) : k \in Index}
Position == Nat \X (0..(Witnesses - 1))
SourcePlace == {Input(v) : v \in 1..Inputs} \cup {Use(i) : i \in 1..MaxRequests}

TypeOK ==
    /\ script \in Seq(Request(MaxRequests)) /\ Len(script) <= MaxRequests
    /\ answers \in [Pass -> Seq(Index)]
    /\ DOMAIN results = Component
    /\ \A c \in Component :
          /\ DOMAIN results[c] \subseteq BatchInput
          /\ \A i \in DOMAIN results[c] :
                results[c][i] \in [index : Index, assigned : BOOLEAN]
    /\ storage \in Seq(Value) /\ uses \in Seq(Value)
    /\ DOMAIN table \subseteq Position
    /\ \A at \in DOMAIN table : table[at] \in Value
    /\ enabled \subseteq Component \X Nat
    /\ DOMAIN variableMap \subseteq Index
    /\ \A k \in DOMAIN variableMap : variableMap[k] \in DOMAIN table
    /\ nextRow \in Nat /\ finalizedAt \in 0..Len(script)
    /\ finalizations \in 0..MaxFinalizations
    /\ aborted \in BOOLEAN

(* The circuit pass and the assignment pass are answered with the same     *)
(* variable for the same request, whichever of them asked first: otherwise *)
(* the copy constraints would connect cells of other values.               *)
PassesAgree ==
    \A i \in 1..MaxRequests :
        i <= Len(answers["circuit"]) /\ i <= Len(answers["assignment"]) =>
            answers["circuit"][i] = answers["assignment"][i]

(* The value each request stands for: its component's function, applied to *)
(* what its input stands for.                                              *)
Meaning ==
    LET meaning[i \in 1..Len(script)] ==
            Function[script[i].component][
                IF script[i].from.kind = "input" THEN InputValue[script[i].from.at]
                ELSE meaning[script[i].from.at]]
    IN meaning

(* A variable the assignment pass was given holds the value of its request *)
(* from then on, through placeholders of later requests and through        *)
(* finalizations: later components compute with it.                        *)
ResultsMean ==
    \A i \in 1..Len(answers["assignment"]) :
        storage[answers["assignment"][i]] = Meaning[i]

(* When both passes have made the same requests no result is missing at a  *)
(* finalization, so its assertion never stops the program.                 *)
NeverAborts == ~aborted

Settled == finalizations > 0 /\ finalizedAt = Len(script)

ValueAt(place) ==
    IF place.kind = "input" THEN InputValue[place.at]
    ELSE IF place.kind = "use" THEN uses[place.at] ELSE table[place.at]

CellValue(at) == IF at \in DOMAIN table THEN table[at] ELSE Zero

(* After a finalization the circuit is satisfied and complete: no copy     *)
(* constraint names the batch storage, all of them hold, and the gate of a *)
(* batch holds in every slot of every row its selector is enabled in.      *)
CircuitSatisfied ==
    Settled =>
        /\ \A pair \in copies :
              /\ pair[1].kind # "batch" /\ pair[2].kind # "batch"
              /\ ValueAt(pair[1]) = ValueAt(pair[2])
        /\ \A on \in enabled : \A slot \in 0..(Slots(on[1]) - 1) :
              CellValue(<<on[2], slot * Width[on[1]] + 1>>) =
                  Function[on[1]][CellValue(<<on[2], slot * Width[on[1]]>>)]

(* No finalization writes into the rows of an earlier one.                 *)
EarlierRowsKept ==
    [][\A at \in DOMAIN table : table'[at] = table[at]]_vars

(* What the batches promise: a variable once given has one value, which is *)
(* the value of its cell after a finalization.                             *)
Promise == INSTANCE BatchPromise WITH
    Variable <- 1..MaxRequests,
    given <- Index,
    known <- [k \in {results[ci[1]][ci[2]].index :
                       ci \in {d \in AllInputs : results[d[1]][d[2]].assigned}} |-> storage[k]],
    placed <- [k \in DOMAIN variableMap |-> table[variableMap[k]]]

KeepsPromise == Promise!Spec
=============================================================================
