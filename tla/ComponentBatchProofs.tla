------------------------ MODULE ComponentBatchProofs ------------------------
(* Proofs about ComponentBatch for every number of components, inputs and  *)
(* requests, every function and every interleaving of the two passes.      *)
EXTENDS ComponentBatch, FiniteSetTheorems, WellFoundedInduction, TLAPS

(* A request's input comes from the callers or from an earlier request.    *)
Backward(request, i) ==
    /\ request.component \in Component
    /\ \/ request.from.kind = "input"
       \/ request.from.kind = "batch" /\ request.from.at \in 1..(i - 1)

ScriptInv ==
    /\ script \in Seq(Request(MaxRequests))
    /\ \A i \in 1..Len(script) : Backward(script[i], i)

AnswersInv ==
    /\ answers \in [Pass -> Seq(Int)]
    /\ \A p \in Pass : Len(answers[p]) <= Len(script) /\ Len(answers[p]) <= MaxRequests

(* An answer is the index the batch of the component still keeps for the   *)
(* input.  This is what makes agreement inductive: the pass that comes     *)
(* second finds the entry the first one has left.                          *)
KeptInv ==
    /\ DOMAIN results = Component
    /\ \A p \in Pass : \A i \in 1..Len(answers[p]) :
          LET c == script[i].component
              input == InputOf(p, script[i])
          IN  /\ input \in DOMAIN results[c]
              /\ results[c][input].index = answers[p][i]

AgreeInv == ScriptInv /\ AnswersInv /\ KeptInv /\ PassesAgree

(* add_input answers with the index it keeps for the input, and moves no   *)
(* index it has kept before.                                               *)
LEMMA AddInputKeeps ==
    ASSUME NEW pass \in Pass, NEW c \in Component, NEW input, NEW index,
           DOMAIN results = Component,
           AddInputToBatch(pass, c, input, index)
    PROVE  /\ DOMAIN results' = Component
           /\ input \in DOMAIN results'[c] /\ results'[c][input].index = index
           /\ \A d \in Component : \A i \in DOMAIN results[d] :
                 i \in DOMAIN results'[d] /\ results'[d][i].index = results[d][i].index
<1>1. CASE ReuseResult(pass, c, input, index)
  BY <1>1 DEF ReuseResult, Reusable, Found, batchVars
<1>2. ASSUME NEW assigned, Put(c, input, index, assigned),
             input \in DOMAIN results[c] => index = results[c][input].index
      PROVE  /\ DOMAIN results' = Component
             /\ input \in DOMAIN results'[c] /\ results'[c][input].index = index
             /\ \A d \in Component : \A i \in DOMAIN results[d] :
                   i \in DOMAIN results'[d] /\ results'[d][i].index = results[d][i].index
  <2>1. /\ DOMAIN results' = Component
        /\ \A d \in Component : d # c => results'[d] = results[d]
        /\ DOMAIN results'[c] = DOMAIN results[c] \cup {input}
        /\ results'[c][input] = [index |-> index, assigned |-> assigned]
        /\ \A i \in DOMAIN results[c] : i # input => results'[c][i] = results[c][i]
    BY <1>2 DEF Put
  <2>2. QED
    BY <1>2, <2>1
<1>3. CASE PlaceholderResult(pass, c, input, index)
  BY <1>2, <1>3 DEF PlaceholderResult, Found
<1>4. CASE NewResult(pass, c, input, index)
  BY <1>2, <1>4 DEF NewResult, Found
<1>5. CASE FillPlaceholder(pass, c, input, index)
  BY <1>2, <1>5 DEF FillPlaceholder
<1>6. QED
  BY <1>1, <1>3, <1>4, <1>5 DEF AddInputToBatch

(* The next request of a pass is in the script at its place afterwards,    *)
(* and what was in the script stays there.                                 *)
LEMMA NextRequestKeeps ==
    ASSUME NEW pass \in Pass, NEW request, ScriptInv, AnswersInv,
           NextRequest(pass, request)
    PROVE  LET i == Len(answers[pass]) + 1
           IN  /\ ScriptInv'
               /\ i \in 1..Len(script') /\ i <= MaxRequests
               /\ script'[i] = request
               /\ Len(script) <= Len(script')
               /\ \A j \in 1..Len(script) : script'[j] = script[j]
<1> DEFINE i == Len(answers[pass]) + 1
<1>1. i \in Nat /\ i >= 1 /\ i <= Len(script) + 1 /\ i <= MaxRequests
  BY DEF AnswersInv, NextRequest
<1>2. CASE i <= Len(script)
  BY <1>1, <1>2 DEF NextRequest, ScriptInv
<1>3. CASE i > Len(script)
  <2>1. i = Len(script) + 1
    BY <1>1, <1>3 DEF ScriptInv
  <2>2. request \in Request(Len(script)) /\ script' = Append(script, request)
    BY <1>3 DEF NextRequest
  <2>3. Len(script) \in Nat /\ Len(script) <= MaxRequests /\ MaxRequests \in Nat
    BY <1>1, <2>1, SizeAssumption DEF ScriptInv
  <2>4. Request(Len(script)) \subseteq Request(MaxRequests)
    BY <2>3 DEF Request
  <2>5. Backward(request, i)
    BY <2>1, <2>2, <2>3 DEF Request, Backward, Input, Batched
  <2>6. ScriptInv'
    BY <2>1, <2>2, <2>4, <2>5 DEF ScriptInv, Backward
  <2>7. QED
    BY <1>1, <2>1, <2>2, <2>3, <2>6 DEF ScriptInv
<1>4. QED
  BY <1>1, <1>2, <1>3 DEF ScriptInv

(* A call of a pass appends its answer and, if need be, its request; what  *)
(* the requests before it asked for stays.                                 *)
Asked(pass, request, index) ==
    LET n == Len(answers[pass])
    IN  /\ n \in Nat /\ Len(script) \in Nat /\ Len(script') \in Nat
        /\ n + 1 \in 1..Len(script') /\ n + 1 <= MaxRequests
        /\ script'[n + 1] = request
        /\ Len(script) <= Len(script')
        /\ \A j \in 1..Len(script) : script'[j] = script[j]
        /\ Backward(request, n + 1)
        /\ Len(answers'[pass]) = n + 1 /\ answers'[pass][n + 1] = index
        /\ \A j \in 1..n : answers'[pass][j] = answers[pass][j]
        /\ \A q \in Pass : q # pass => answers'[q] = answers[q]
        /\ \A q \in Pass : \A i \in 1..Len(answers[q]) :
              /\ i \in 1..Len(script) /\ script'[i] = script[i]
              /\ i \in 1..Len(answers'[q]) /\ answers'[q][i] = answers[q][i]
              /\ InputOf(q, script[i])' = InputOf(q, script[i])
        /\ InputOf(pass, request)' = InputOf(pass, request)

LEMMA AskEffects ==
    ASSUME NEW pass \in Pass, NEW request, NEW index \in Int, AgreeInv,
           NextRequest(pass, request),
           answers' = [answers EXCEPT ![pass] = Append(@, index)]
    PROVE  ScriptInv' /\ AnswersInv' /\ Asked(pass, request, index)
<1> DEFINE n == Len(answers[pass])
<1>1. /\ ScriptInv'
      /\ n + 1 \in 1..Len(script') /\ n + 1 <= MaxRequests
      /\ script'[n + 1] = request
      /\ Len(script) <= Len(script')
      /\ \A j \in 1..Len(script) : script'[j] = script[j]
  BY NextRequestKeeps DEF AgreeInv
<1>2. n \in Nat /\ Len(script) \in Nat /\ Len(script') \in Nat
  BY <1>1 DEF AgreeInv, AnswersInv, ScriptInv
<1>3. Backward(request, n + 1)
  BY <1>1 DEF ScriptInv, Backward
<1>4. /\ answers' \in [Pass -> Seq(Int)]
      /\ Len(answers'[pass]) = n + 1 /\ answers'[pass][n + 1] = index
      /\ \A j \in 1..n : answers'[pass][j] = answers[pass][j]
      /\ \A q \in Pass : q # pass => answers'[q] = answers[q]
  BY DEF AgreeInv, AnswersInv
<1>5. AnswersInv'
  BY <1>1, <1>2, <1>4 DEF AgreeInv, AnswersInv
<1>6. ASSUME NEW q \in Pass, NEW i \in 1..Len(answers[q])
      PROVE  /\ i \in 1..Len(script) /\ script'[i] = script[i]
             /\ i \in 1..Len(answers'[q]) /\ answers'[q][i] = answers[q][i]
             /\ InputOf(q, script[i])' = InputOf(q, script[i])
  <2>1. i \in 1..Len(script) /\ Len(answers[q]) \in Nat
    BY <1>2 DEF AgreeInv, AnswersInv
  <2>2. script'[i] = script[i]
    BY <1>1, <2>1
  <2>3. /\ \A j \in 1..Len(answers[q]) : answers'[q][j] = answers[q][j]
        /\ i \in 1..Len(answers'[q])
    BY <1>2, <1>4
  <2>4. Backward(script[i], i)
    BY <2>1 DEF AgreeInv, ScriptInv
  <2>5. script[i].from.kind # "input" => script[i].from.at \in 1..Len(answers[q])
    BY <2>1, <2>4 DEF Backward
  <2>6. QED
    BY <2>1, <2>2, <2>3, <2>5 DEF InputOf
<1>7. InputOf(pass, request)' = InputOf(pass, request)
  <2>1. request.from.kind # "input" => request.from.at \in 1..n
    BY <1>2, <1>3 DEF Backward
  <2>2. QED
    BY <1>4, <2>1, <1>1 DEF InputOf
<1>8. QED
  BY <1>1, <1>2, <1>3, <1>4, <1>5, <1>6, <1>7 DEF Asked

(* A call of either pass keeps the invariant.                              *)
LEMMA AskKeepsAgreement ==
    ASSUME NEW pass \in Pass, NEW request, NEW index \in Int, AgreeInv,
           NextRequest(pass, request),
           AddInputToBatch(pass, request.component, InputOf(pass, request), index),
           answers' = [answers EXCEPT ![pass] = Append(@, index)]
    PROVE  AgreeInv'
<1> DEFINE n == Len(answers[pass])
           c == request.component
           input == InputOf(pass, request)
<1>1. ScriptInv' /\ AnswersInv' /\ Asked(pass, request, index)
  BY AskEffects
<1>2. /\ n \in Nat /\ Len(script) \in Nat /\ Len(script') \in Nat
      /\ n + 1 \in 1..Len(script') /\ n + 1 <= MaxRequests
      /\ script'[n + 1] = request
      /\ Len(script) <= Len(script')
      /\ \A j \in 1..Len(script) : script'[j] = script[j]
  BY <1>1 DEF Asked
<1>3. Backward(request, n + 1)
  BY <1>1 DEF Asked
<1>4. c \in Component
  BY <1>3 DEF Backward
<1>5. /\ DOMAIN results' = Component
      /\ input \in DOMAIN results'[c] /\ results'[c][input].index = index
      /\ \A d \in Component : \A i \in DOMAIN results[d] :
            i \in DOMAIN results'[d] /\ results'[d][i].index = results[d][i].index
  BY <1>4, AddInputKeeps DEF AgreeInv, KeptInv
<1>6. /\ Len(answers'[pass]) = n + 1 /\ answers'[pass][n + 1] = index
      /\ \A j \in 1..n : answers'[pass][j] = answers[pass][j]
      /\ \A q \in Pass : q # pass => answers'[q] = answers[q]
  BY <1>1 DEF Asked
<1>7. AnswersInv'
  BY <1>1
<1>8. \A q \in Pass : \A i \in 1..Len(answers[q]) :
         /\ i \in 1..Len(script) /\ script'[i] = script[i]
         /\ answers'[q][i] = answers[q][i]
         /\ InputOf(q, script[i])' = InputOf(q, script[i])
  BY <1>1 DEF Asked
<1>9. InputOf(pass, request)' = input
  BY <1>1 DEF Asked
<1>10. KeptInv'
  <2> SUFFICES ASSUME NEW q \in Pass, NEW i \in 1..Len(answers'[q])
               PROVE  /\ InputOf(q, script[i])' \in DOMAIN results'[script'[i].component]
                      /\ results'[script'[i].component][InputOf(q, script[i])'].index
                            = answers'[q][i]
    BY <1>5 DEF KeptInv
  <2>1. CASE i \in 1..Len(answers[q])
    <3>1. /\ InputOf(q, script[i]) \in DOMAIN results[script[i].component]
          /\ results[script[i].component][InputOf(q, script[i])].index = answers[q][i]
      BY <2>1 DEF AgreeInv, KeptInv
    <3>2. script[i].component \in Component
      BY <1>8, <2>1 DEF AgreeInv, ScriptInv, Backward
    <3>3. QED
      BY <1>5, <1>8, <2>1, <3>1, <3>2
  <2>2. CASE i \notin 1..Len(answers[q])
    <3>1. q = pass /\ i = n + 1
      BY <1>2, <1>6, <2>2
    <3>2. QED
      BY <1>2, <1>5, <1>6, <1>9, <3>1
  <2>3. QED
    BY <2>1, <2>2
<1>11. PassesAgree'
  <2>1. ASSUME NEW q \in Pass, q # pass, n + 1 <= Len(answers[q])
        PROVE  answers[q][n + 1] = index
    <3>1. Len(answers[q]) \in Nat /\ Len(answers[q]) <= Len(script)
      BY DEF AgreeInv, AnswersInv
    <3>2. n + 1 \in 1..Len(answers[q]) /\ script[n + 1] = request
      <4>1. n + 1 \in 1..Len(answers[q]) /\ n + 1 \in 1..Len(script)
        BY <1>2, <2>1, <3>1
      <4>2. QED
        BY <1>2, <4>1
    <3>3. InputOf(q, request) = InputOf(pass, request)
      <4>1. CASE request.from.kind = "input"
        BY <4>1 DEF InputOf
      <4>2. CASE request.from.kind # "input"
        <5>1. request.from.at \in 1..n
          BY <1>2, <1>3, <4>2 DEF Backward
        <5>2. answers[q][request.from.at] = answers[pass][request.from.at]
          <6> DEFINE j == request.from.at
          <6>1. j \in 1..MaxRequests /\ j <= Len(answers[pass]) /\ j <= Len(answers[q])
            BY <1>2, <2>1, <3>1, <5>1, SizeAssumption
          <6>2. answers["circuit"][j] = answers["assignment"][j]
            <7>1. j <= Len(answers["circuit"]) /\ j <= Len(answers["assignment"])
              BY <2>1, <6>1 DEF Pass
            <7>2. PassesAgree
              BY DEF AgreeInv
            <7>3. QED
              BY ONLY <6>1, <7>1, <7>2 DEF PassesAgree
          <6>3. QED
            BY <2>1, <6>2 DEF Pass
        <5>3. QED
          BY <4>2, <5>2 DEF InputOf
      <4>3. QED
        BY <4>1, <4>2
    <3>4. input \in DOMAIN results[c] /\ results[c][input].index = answers[q][n + 1]
      BY <3>2, <3>3 DEF AgreeInv, KeptInv
    <3>5. QED
      BY <1>4, <1>5, <3>4
  <2>2. ASSUME NEW i \in 1..MaxRequests, NEW q \in Pass, q # pass,
               i <= Len(answers'[pass]), i <= Len(answers'[q])
        PROVE  answers'[pass][i] = answers'[q][i]
    <3>1. CASE i = n + 1
      BY <1>6, <2>1, <2>2, <3>1
    <3>2. CASE i # n + 1
      <4>1. i \in 1..n /\ i <= Len(answers[q])
        BY <1>2, <1>6, <2>2, <3>2
      <4>2. answers[pass][i] = answers[q][i]
        BY <1>2, <2>2, <4>1 DEF AgreeInv, PassesAgree, Pass
      <4>3. QED
        BY <1>6, <2>2, <4>1, <4>2
    <3>3. QED
      BY <3>1, <3>2
  <2>3. QED
    BY <2>2 DEF PassesAgree, Pass
<1>12. QED
  BY <1>1, <1>7, <1>10, <1>11 DEF AgreeInv

LEMMA AgreeInvInit == Init => AgreeInv
<1> SUFFICES ASSUME Init PROVE AgreeInv
  OBVIOUS
<1>1. script = <<>> /\ answers = [p \in Pass |-> <<>>]
  BY DEF Init
<1>2. \A p \in Pass : answers[p] = <<>> /\ Len(answers[p]) = 0
  BY <1>1
<1>3. ScriptInv
  BY <1>1 DEF ScriptInv
<1>4. AnswersInv
  BY <1>1, <1>2, SizeAssumption DEF AnswersInv
<1>5. KeptInv
  BY <1>2 DEF KeptInv, Init
<1>6. PassesAgree
  BY <1>2 DEF PassesAgree, Pass
<1>7. QED
  BY <1>3, <1>4, <1>5, <1>6 DEF AgreeInv

LEMMA AgreeInvStep == AgreeInv /\ [Next]_vars => AgreeInv'
<1> SUFFICES ASSUME AgreeInv, [Next]_vars PROVE AgreeInv'
  OBVIOUS
<1>1. ASSUME UNCHANGED <<script, answers, results>> PROVE AgreeInv'
  BY <1>1 DEF AgreeInv, ScriptInv, AnswersInv, KeptInv, PassesAgree, InputOf, Backward
<1>2. ASSUME NEW request, NEW index \in 0..MaxRequests, AskFromCircuit(request, index)
      PROVE  AgreeInv'
  <2>1. /\ NextRequest("circuit", request)
        /\ AddInputToBatch("circuit", request.component, InputOf("circuit", request), index)
        /\ answers' = [answers EXCEPT !["circuit"] = Append(@, index)]
    BY <1>2 DEF AskFromCircuit
  <2>2. "circuit" \in Pass /\ index \in Int
    BY SizeAssumption DEF Pass
  <2>3. QED
    BY <2>1, <2>2, AskKeepsAgreement
<1>3. ASSUME NEW request, NEW index \in 0..MaxRequests, AskFromAssignment(request, index)
      PROVE  AgreeInv'
  <2>1. /\ NextRequest("assignment", request)
        /\ AddInputToBatch("assignment", request.component, InputOf("assignment", request), index)
        /\ answers' = [answers EXCEPT !["assignment"] = Append(@, index)]
    BY <1>3 DEF AskFromAssignment
  <2>2. "assignment" \in Pass /\ index \in Int
    BY SizeAssumption DEF Pass
  <2>3. QED
    BY <2>1, <2>2, AskKeepsAgreement
<1>4. CASE Finalize
  BY <1>1, <1>4 DEF Finalize, FinalizeComponentBatches, AbortFinalization, batchVars
<1>5. CASE UNCHANGED vars
  BY <1>1, <1>5 DEF vars, batchVars
<1>6. QED
  BY <1>2, <1>3, <1>4, <1>5 DEF Next

(* The circuit pass and the assignment pass of every program are answered  *)
(* with the same variable for the same request (component_batch::add_input *)
(* and assignment::add_input_to_batch), however they interleave.           *)
THEOREM BothPassesAgree == Spec => []PassesAgree
<1>1. Init => AgreeInv
  BY AgreeInvInit
<1>2. AgreeInv /\ [Next]_vars => AgreeInv'
  BY AgreeInvStep
<1>3. AgreeInv => PassesAgree
  BY DEF AgreeInv
<1>4. QED
  BY <1>1, <1>2, <1>3, PTL DEF Spec

-----------------------------------------------------------------------------
(* Values *)

Kept(c, i) == c \in Component /\ i \in DOMAIN results[c]

(* Every index of the storage belongs to one input of one component.       *)
EntriesInv ==
    /\ storage \in Seq(Value)
    /\ DOMAIN results = Component
    /\ \A c \in Component : DOMAIN results[c] \subseteq BatchInput
    /\ \A c \in Component : \A i \in DOMAIN results[c] :
          results[c][i] \in [index : Index, assigned : BOOLEAN]
    /\ \A c, d \in Component : \A i \in DOMAIN results[c], j \in DOMAIN results[d] :
          results[c][i].index = results[d][j].index => c = d /\ i = j
    /\ \A k \in Index : \E c \in Component : \E i \in DOMAIN results[c] : results[c][i].index = k

(* The value of the entry has been computed.                               *)
IsKnown(k) ==
    \E c \in Component : \E i \in DOMAIN results[c] :
        results[c][i].index = k /\ results[c][i].assigned

(* What is known was computed from what is known.                          *)
KnownInv ==
    \A c \in Component : \A i \in DOMAIN results[c] : results[c][i].assigned =>
        /\ storage[results[c][i].index] = Computed(c, i)
        /\ i.kind # "input" => IsKnown(i.at)

(* The three ways add_input can go.                                        *)
Reused(pass, c, input, index) ==
    /\ input \in DOMAIN results[c] /\ index = results[c][input].index
    /\ pass = "assignment" => results[c][input].assigned
    /\ UNCHANGED <<results, storage>>

Added(pass, c, input, index) ==
    /\ input \notin DOMAIN results[c]
    /\ index = Len(storage) + 1
    /\ storage' = Append(storage, IF pass = "assignment" THEN Computed(c, input) ELSE Zero)
    /\ IF pass = "assignment" THEN Put(c, input, index, TRUE) ELSE Put(c, input, index, FALSE)

Filled(pass, c, input, index) ==
    /\ pass = "assignment"
    /\ input \in DOMAIN results[c] /\ index = results[c][input].index
    /\ ~results[c][input].assigned
    /\ storage' = [storage EXCEPT ![index] = Computed(c, input)]
    /\ Put(c, input, index, TRUE)

LEMMA AddInputCases ==
    ASSUME EntriesInv, NEW pass \in Pass, NEW c \in Component, NEW input, NEW index,
           AddInputToBatch(pass, c, input, index)
    PROVE  \/ Reused(pass, c, input, index)
           \/ Added(pass, c, input, index)
           \/ Filled(pass, c, input, index)
<1>1. CASE ReuseResult(pass, c, input, index)
  BY <1>1 DEF ReuseResult, Reusable, Found, Reused, batchVars, Pass
<1>2. CASE PlaceholderResult(pass, c, input, index)
  <2>1. storage' = Append(storage, Zero) /\ index = Len(storage')
    BY <1>2 DEF PlaceholderResult, NewIndex
  <2>2. index = Len(storage) + 1
    BY <2>1, ValueAssumption DEF EntriesInv
  <2>3. QED
    BY <1>2, <2>1, <2>2 DEF PlaceholderResult, Found, Added
<1>3. CASE NewResult(pass, c, input, index)
  <2>1. storage' = Append(storage, Computed(c, input)) /\ index = Len(storage')
    BY <1>3 DEF NewResult, NewIndex
  <2>2. index = Len(storage) + 1
    BY <2>1 DEF EntriesInv
  <2>3. QED
    BY <1>3, <2>1, <2>2 DEF NewResult, Found, Added
<1>4. CASE FillPlaceholder(pass, c, input, index)
  BY <1>4 DEF FillPlaceholder, Reusable, Found, Filled
<1>5. QED
  BY <1>1, <1>2, <1>3, <1>4 DEF AddInputToBatch

LEMMA ComputedIsValue ==
    ASSUME EntriesInv, NEW c \in Component, NEW input \in BatchInput
    PROVE  Computed(c, input) \in Value
<1>1. CASE input \in {Input(v) : v \in 1..Inputs}
  BY <1>1, ValueAssumption DEF Computed, InputVarValue, Input
<1>2. CASE input \in {Batched(k) : k \in Index}
  <2>1. PICK k \in Index : input = Batched(k)
    BY <1>2
  <2>2. storage[k] \in Value
    BY <2>1 DEF EntriesInv, Index
  <2>3. InputVarValue(input) = storage[k]
    BY <2>1 DEF InputVarValue, Batched
  <2>4. QED
    BY <2>2, <2>3, ValueAssumption DEF Computed
<1>3. QED
  BY <1>1, <1>2 DEF BatchInput

LEMMA PutEntry ==
    ASSUME DOMAIN results = Component, NEW c \in Component, NEW input, NEW entry,
           results' = [results EXCEPT ![c] =
               [i \in DOMAIN @ \cup {input} |-> IF i = input THEN entry ELSE @[i]]]
    PROVE  /\ DOMAIN results' = Component
           /\ DOMAIN results'[c] = DOMAIN results[c] \cup {input}
           /\ results'[c][input] = entry
           /\ \A d \in Component : \A i : d # c \/ i # input =>
                 /\ i \in DOMAIN results'[d] <=> i \in DOMAIN results[d]
                 /\ i \in DOMAIN results[d] => results'[d][i] = results[d][i]
<1>1. /\ DOMAIN results' = Component
      /\ \A d \in Component : d # c => results'[d] = results[d]
      /\ DOMAIN results'[c] = DOMAIN results[c] \cup {input}
      /\ results'[c][input] = entry
      /\ \A i \in DOMAIN results[c] : i # input => results'[c][i] = results[c][i]
  OBVIOUS
<1>2. QED
  BY <1>1

(* A call of add_input adds at most one entry, moves none, and changes the *)
(* value of none that is known.                                            *)
LEMMA AddInputEntries ==
    ASSUME EntriesInv, NEW pass \in Pass, NEW c \in Component, NEW input \in BatchInput,
           NEW index, AddInputToBatch(pass, c, input, index)
    PROVE  /\ EntriesInv'
           /\ Index \subseteq Index'
           /\ input \in DOMAIN results'[c] /\ results'[c][input].index = index
           /\ pass = "assignment" => results'[c][input].assigned
           /\ \A d \in Component : \A i \in DOMAIN results'[d] :
                 i \in DOMAIN results[d] \/ (d = c /\ i = input)
           /\ \A d \in Component : \A i \in DOMAIN results[d] :
                 /\ i \in DOMAIN results'[d]
                 /\ results'[d][i].index = results[d][i].index
                 /\ results[d][i].assigned => results'[d][i].assigned
           /\ \A k \in Index : IsKnown(k) => IsKnown(k)' /\ storage'[k] = storage[k]
           /\ \A d \in Component : \A i \in DOMAIN results'[d] :
                 results'[d][i].assigned =>
                    \/ i \in DOMAIN results[d] /\ results[d][i].assigned
                    \/ d = c /\ i = input /\ pass = "assignment"
           /\ \/ storage'[index] = Computed(c, input)
              \/ pass = "circuit"
              \/ results[c][input].assigned /\ input \in DOMAIN results[c]
<1>0. /\ DOMAIN results = Component /\ storage \in Seq(Value) /\ Len(storage) \in Nat
      /\ Computed(c, input) \in Value /\ Zero \in Value
      /\ Index = 1..Len(storage) /\ Index' = 1..Len(storage')
  BY ComputedIsValue, ValueAssumption DEF EntriesInv, Index
<1>1. CASE Reused(pass, c, input, index)
  <2>1. UNCHANGED <<results, storage>>
    BY <1>1 DEF Reused
  <2>2. EntriesInv' /\ Index' = Index
    BY <2>1 DEF EntriesInv, Index, BatchInput
  <2>3. \A k \in Index : IsKnown(k) => IsKnown(k)'
    BY <2>1 DEF IsKnown
  <2>4. QED
    BY <1>1, <2>1, <2>2, <2>3 DEF Reused, Pass
<1>2. CASE Added(pass, c, input, index)
  <2>1. /\ storage' \in Seq(Value) /\ Len(storage') = Len(storage) + 1
        /\ \A k \in Index : k \in Index' /\ storage'[k] = storage[k]
        /\ index \in Index' /\ index \notin Index
        /\ \A k \in Index' : k \in Index \/ k = index
        /\ storage'[index] = Computed(c, input) \/ pass = "circuit"
    BY <1>0, <1>2 DEF Added, Pass
  <2>2. BatchInput \subseteq BatchInput'
    BY <2>1 DEF BatchInput
  <2>3. /\ DOMAIN results' = Component
        /\ DOMAIN results'[c] = DOMAIN results[c] \cup {input}
        /\ results'[c][input] \in [index : {index}, assigned : BOOLEAN]
        /\ results'[c][input].assigned <=> pass = "assignment"
        /\ \A d \in Component : \A i : d # c \/ i # input =>
              /\ i \in DOMAIN results'[d] <=> i \in DOMAIN results[d]
              /\ i \in DOMAIN results[d] => results'[d][i] = results[d][i]
    <3>1. CASE pass = "assignment"
      <4>1. results' = [results EXCEPT ![c] =
               [i \in DOMAIN @ \cup {input} |->
                  IF i = input THEN [index |-> index, assigned |-> TRUE] ELSE @[i]]]
        BY <1>2, <3>1 DEF Added, Put
      <4>2. /\ DOMAIN results' = Component
            /\ DOMAIN results'[c] = DOMAIN results[c] \cup {input}
            /\ results'[c][input] = [index |-> index, assigned |-> TRUE]
            /\ \A d \in Component : \A i : d # c \/ i # input =>
                  /\ i \in DOMAIN results'[d] <=> i \in DOMAIN results[d]
                  /\ i \in DOMAIN results[d] => results'[d][i] = results[d][i]
        BY <1>0, <4>1, PutEntry
      <4>3. results'[c][input] \in [index : {index}, assigned : BOOLEAN]
        BY <4>2
      <4>4. results'[c][input].assigned <=> pass = "assignment"
        BY <3>1, <4>2
      <4>5. QED
        BY <4>2, <4>3, <4>4
    <3>2. CASE pass # "assignment"
      <4>1. results' = [results EXCEPT ![c] =
               [i \in DOMAIN @ \cup {input} |->
                  IF i = input THEN [index |-> index, assigned |-> FALSE] ELSE @[i]]]
        BY <1>2, <3>2 DEF Added, Put
      <4>2. /\ DOMAIN results' = Component
            /\ DOMAIN results'[c] = DOMAIN results[c] \cup {input}
            /\ results'[c][input] = [index |-> index, assigned |-> FALSE]
            /\ \A d \in Component : \A i : d # c \/ i # input =>
                  /\ i \in DOMAIN results'[d] <=> i \in DOMAIN results[d]
                  /\ i \in DOMAIN results[d] => results'[d][i] = results[d][i]
        BY <1>0, <4>1, PutEntry
      <4>3. results'[c][input] \in [index : {index}, assigned : BOOLEAN]
        BY <4>2
      <4>4. results'[c][input].assigned <=> pass = "assignment"
        BY <3>2, <4>2
      <4>5. QED
        BY <4>2, <4>3, <4>4
    <3>3. QED
      BY <3>1, <3>2
  <2>4. \A d \in Component : \A i \in DOMAIN results[d] :
           i \in DOMAIN results'[d] /\ results'[d][i] = results[d][i]
    BY <1>2, <2>3 DEF Added
  <2>5. \A d \in Component : \A i \in DOMAIN results'[d] :
           i \in DOMAIN results[d] \/ (d = c /\ i = input)
    BY <2>3
  <2>6. EntriesInv'
    <3>1. \A d \in Component : DOMAIN results'[d] \subseteq BatchInput'
      BY <2>2, <2>5 DEF EntriesInv
    <3>2. \A d \in Component : \A i \in DOMAIN results'[d] :
             results'[d][i] \in [index : Index', assigned : BOOLEAN]
      <4>1. ASSUME NEW d \in Component, NEW i \in DOMAIN results[d]
            PROVE  results'[d][i] \in [index : Index', assigned : BOOLEAN]
        <5>1. results[d][i] \in [index : Index, assigned : BOOLEAN]
          BY DEF EntriesInv
        <5>2. QED
          BY <2>1, <2>4, <5>1
      <4>2. QED
        BY <2>1, <2>3, <2>5, <4>1
    <3>3. ASSUME NEW d \in Component, NEW e \in Component,
                 NEW i \in DOMAIN results'[d], NEW j \in DOMAIN results'[e],
                 results'[d][i].index = results'[e][j].index
          PROVE  d = e /\ i = j
      <4>1. \A f \in Component : \A h \in DOMAIN results[f] :
               results[f][h].index \in Index /\ results'[f][h].index = results[f][h].index
        BY <2>4 DEF EntriesInv
      <4>2. results'[c][input].index = index
        BY <2>3
      <4>3. CASE i \in DOMAIN results[d] /\ j \in DOMAIN results[e]
        BY <3>3, <4>1, <4>3 DEF EntriesInv
      <4>4. CASE i \notin DOMAIN results[d] \/ j \notin DOMAIN results[e]
        BY <2>1, <2>5, <3>3, <4>1, <4>2, <4>4
      <4>5. QED
        BY <4>3, <4>4
    <3>4. ASSUME NEW k \in Index'
          PROVE  \E d \in Component : \E i \in DOMAIN results'[d] : results'[d][i].index = k
      <4>1. CASE k \in Index
        BY <2>4, <4>1 DEF EntriesInv
      <4>2. CASE k = index
        BY <2>3, <4>2
      <4>3. QED
        BY <2>1, <4>1, <4>2
    <3>5. QED
      BY <2>1, <2>3, <3>1, <3>2, <3>3, <3>4 DEF EntriesInv
  <2>7. \A k \in Index : IsKnown(k) => IsKnown(k)'
    BY <2>3, <2>4 DEF IsKnown
  <2>8. \A d \in Component : \A i \in DOMAIN results'[d] :
           results'[d][i].assigned =>
              \/ i \in DOMAIN results[d] /\ results[d][i].assigned
              \/ d = c /\ i = input /\ pass = "assignment"
    BY <2>3, <2>4, <2>5
  <2>9. QED
    BY <2>1, <2>3, <2>4, <2>5, <2>6, <2>7, <2>8
<1>3. CASE Filled(pass, c, input, index)
  <2>1. results[c][input] \in [index : Index, assigned : BOOLEAN]
    BY <1>3 DEF Filled, EntriesInv
  <2>2. /\ storage' \in Seq(Value) /\ Len(storage') = Len(storage)
        /\ storage'[index] = Computed(c, input)
        /\ \A k \in Index : k # index => storage'[k] = storage[k]
        /\ index \in Index
    BY <1>0, <1>3, <2>1 DEF Filled
  <2>3. Index' = Index /\ BatchInput' = BatchInput
    BY <1>0, <2>2 DEF BatchInput
  <2>4. /\ DOMAIN results' = Component
        /\ DOMAIN results'[c] = DOMAIN results[c] \cup {input}
        /\ results'[c][input] = [index |-> index, assigned |-> TRUE]
        /\ \A d \in Component : \A i : d # c \/ i # input =>
              /\ i \in DOMAIN results'[d] <=> i \in DOMAIN results[d]
              /\ i \in DOMAIN results[d] => results'[d][i] = results[d][i]
    <3>1. results' = [results EXCEPT ![c] =
             [i \in DOMAIN @ \cup {input} |->
                IF i = input THEN [index |-> index, assigned |-> TRUE] ELSE @[i]]]
      BY <1>3 DEF Filled, Put
    <3>2. QED
      BY <1>0, <3>1, PutEntry
  <2>5. \A d \in Component : \A i : i \in DOMAIN results'[d] <=> i \in DOMAIN results[d]
    BY <1>3, <2>4 DEF Filled
  <2>6. \A d \in Component : \A i \in DOMAIN results[d] :
           /\ results'[d][i] \in [index : Index, assigned : BOOLEAN]
           /\ results'[d][i].index = results[d][i].index
           /\ results[d][i].assigned => results'[d][i].assigned
           /\ results'[d][i].assigned => results[d][i].assigned \/ (d = c /\ i = input)
    <3> SUFFICES ASSUME NEW d \in Component, NEW i \in DOMAIN results[d]
                 PROVE  /\ results'[d][i] \in [index : Index, assigned : BOOLEAN]
                        /\ results'[d][i].index = results[d][i].index
                        /\ results[d][i].assigned => results'[d][i].assigned
                        /\ results'[d][i].assigned =>
                              results[d][i].assigned \/ (d = c /\ i = input)
      OBVIOUS
    <3>1. CASE d = c /\ i = input
      <4>1. /\ results'[c][input] \in [index : Index, assigned : BOOLEAN]
            /\ results'[c][input].index = index
            /\ results'[c][input].assigned
        BY <2>2, <2>4
      <4>2. results[c][input].index = index
        BY <1>3 DEF Filled
      <4>3. QED
        BY <3>1, <4>1, <4>2
    <3>2. CASE ~(d = c /\ i = input)
      <4>1. results[d][i] \in [index : Index, assigned : BOOLEAN]
        BY DEF EntriesInv
      <4>2. QED
        BY <2>4, <3>2, <4>1
    <3>3. QED
      BY <3>1, <3>2
  <2>7. EntriesInv'
    <3>1. \A d \in Component : DOMAIN results'[d] \subseteq BatchInput'
      BY <2>3, <2>5 DEF EntriesInv
    <3>2. \A d \in Component : \A i \in DOMAIN results'[d] :
             results'[d][i] \in [index : Index', assigned : BOOLEAN]
      BY <2>3, <2>5, <2>6
    <3>3. \A d, e \in Component : \A i \in DOMAIN results'[d], j \in DOMAIN results'[e] :
             results'[d][i].index = results'[e][j].index => d = e /\ i = j
      BY <2>5, <2>6 DEF EntriesInv
    <3>4. \A k \in Index' : \E d \in Component : \E i \in DOMAIN results'[d] :
             results'[d][i].index = k
      BY <2>3, <2>5, <2>6 DEF EntriesInv
    <3>5. QED
      BY <2>2, <2>4, <3>1, <3>2, <3>3, <3>4 DEF EntriesInv
  <2>8. ~IsKnown(index)
    BY <1>3 DEF Filled, IsKnown, EntriesInv
  <2>9. \A k \in Index : IsKnown(k) => IsKnown(k)' /\ storage'[k] = storage[k]
    <3>1. \A k \in Index : IsKnown(k) => IsKnown(k)'
      BY <2>4, <2>5, <2>6 DEF IsKnown
    <3>2. QED
      BY <2>2, <2>8, <3>1
  <2>10. QED
    BY <1>3, <2>2, <2>3, <2>4, <2>5, <2>6, <2>7, <2>9 DEF Filled
<1>4. QED
  BY <1>1, <1>2, <1>3, AddInputCases

(* What becomes known in a call of add_input is computed from what is      *)
(* known, if the input asked with is.                                      *)
LEMMA AddInputKnown ==
    ASSUME EntriesInv, KnownInv, NEW pass \in Pass, NEW c \in Component,
           NEW input \in BatchInput, NEW index, AddInputToBatch(pass, c, input, index),
           pass = "assignment" /\ input.kind # "input" => IsKnown(input.at)
    PROVE  KnownInv'
<1> SUFFICES ASSUME NEW d \in Component, NEW i \in DOMAIN results'[d], results'[d][i].assigned
             PROVE  /\ storage'[results'[d][i].index] = Computed(d, i)'
                    /\ i.kind # "input" => IsKnown(i.at)'
  BY DEF KnownInv
<1>1. /\ input \in DOMAIN results'[c] /\ results'[c][input].index = index
      /\ \A k \in Index : IsKnown(k) => IsKnown(k)' /\ storage'[k] = storage[k]
      /\ \/ i \in DOMAIN results[d] /\ results[d][i].assigned
         \/ d = c /\ i = input /\ pass = "assignment"
      /\ i \in DOMAIN results[d] => results'[d][i].index = results[d][i].index
      /\ \/ storage'[index] = Computed(c, input)
         \/ pass = "circuit"
         \/ results[c][input].assigned /\ input \in DOMAIN results[c]
  BY AddInputEntries
<1>2. \A k : IsKnown(k) => k \in Index
  BY DEF IsKnown, EntriesInv
<1>3. ASSUME i.kind # "input" => IsKnown(i.at)
      PROVE  Computed(d, i)' = Computed(d, i) /\ (i.kind # "input" => IsKnown(i.at)')
  BY <1>1, <1>2, <1>3 DEF Computed, InputVarValue
<1>4. CASE i \in DOMAIN results[d] /\ results[d][i].assigned
  <2>1. /\ storage[results[d][i].index] = Computed(d, i)
        /\ i.kind # "input" => IsKnown(i.at)
    BY <1>4 DEF KnownInv
  <2>2. IsKnown(results[d][i].index)
    BY <1>4 DEF IsKnown
  <2>3. QED
    BY <1>1, <1>2, <1>3, <1>4, <2>1, <2>2
<1>5. CASE /\ d = c /\ i = input /\ pass = "assignment"
           /\ ~(i \in DOMAIN results[d] /\ results[d][i].assigned)
  BY <1>1, <1>3, <1>5
<1>6. QED
  BY <1>1, <1>4, <1>5

(* What the assignment pass was answered with is known, and every entry    *)
(* was asked for by one of the passes.                                     *)
AnsweredInv ==
    \A i \in 1..Len(answers["assignment"]) : IsKnown(answers["assignment"][i])

AskedInv ==
    \A c \in Component : \A input \in DOMAIN results[c] :
        \E p \in Pass : \E i \in 1..Len(answers[p]) :
            script[i].component = c /\ InputOf(p, script[i]) = input

ValuesInv == AgreeInv /\ EntriesInv /\ KnownInv /\ AnsweredInv /\ AskedInv

LEMMA AnswersAreIndices ==
    ASSUME AgreeInv, EntriesInv
    PROVE  \A p \in Pass : \A i \in 1..Len(answers[p]) :
              answers[p][i] \in Index /\ script[i].component \in Component
<1> SUFFICES ASSUME NEW p \in Pass, NEW i \in 1..Len(answers[p])
             PROVE  answers[p][i] \in Index /\ script[i].component \in Component
  OBVIOUS
<1> DEFINE c == script[i].component
           input == InputOf(p, script[i])
<1>1. Len(answers[p]) \in Nat /\ Len(answers[p]) <= Len(script) /\ Len(script) \in Nat
  BY DEF AgreeInv, AnswersInv, ScriptInv
<1>2. Backward(script[i], i)
  BY <1>1 DEF AgreeInv, ScriptInv
<1>3. c \in Component
  BY <1>2 DEF Backward
<1>4. input \in DOMAIN results[c] /\ results[c][input].index = answers[p][i]
  BY DEF AgreeInv, KeptInv
<1>5. results[c][input] \in [index : Index, assigned : BOOLEAN]
  BY <1>3, <1>4 DEF EntriesInv
<1>6. QED
  BY <1>3, <1>4, <1>5

LEMMA InputOfIsBatchInput ==
    ASSUME AgreeInv, EntriesInv, NEW pass \in Pass, NEW request, NEW index \in Int,
           ScriptInv', Asked(pass, request, index)
    PROVE  /\ request.component \in Component
           /\ InputOf(pass, request) \in BatchInput
           /\ InputOf(pass, request).kind # "input" =>
                 \E i \in 1..Len(answers[pass]) : InputOf(pass, request).at = answers[pass][i]
<1> DEFINE n == Len(answers[pass])
<1>1. /\ n + 1 \in 1..Len(script') /\ script'[n + 1] = request
      /\ Backward(request, n + 1) /\ n \in Nat
  BY DEF Asked
<1>2. request \in Request(MaxRequests)
  BY <1>1 DEF ScriptInv
<1>3. CASE request.from \in {Input(v) : v \in 1..Inputs}
  BY <1>1, <1>3 DEF InputOf, Input, BatchInput, Backward
<1>4. CASE request.from \in {Batched(i) : i \in 1..MaxRequests}
  <2>1. request.from.kind = "batch" /\ request.from.at \in 1..n
    BY <1>1, <1>4 DEF Batched, Backward
  <2>2. InputOf(pass, request) = Batched(answers[pass][request.from.at])
    BY <2>1 DEF InputOf
  <2>3. answers[pass][request.from.at] \in Index
    BY <2>1, AnswersAreIndices
  <2>4. QED
    BY <1>1, <2>1, <2>2, <2>3 DEF BatchInput, Batched, Backward
<1>5. QED
  BY <1>2, <1>3, <1>4 DEF Request

(* A call of either pass.                                                  *)
LEMMA AskKeepsValues ==
    ASSUME NEW pass \in Pass, NEW request, NEW index \in Int, ValuesInv,
           NextRequest(pass, request),
           AddInputToBatch(pass, request.component, InputOf(pass, request), index),
           answers' = [answers EXCEPT ![pass] = Append(@, index)]
    PROVE  /\ ValuesInv'
           /\ Asked(pass, request, index)
           /\ request.component \in Component /\ InputOf(pass, request) \in BatchInput
           /\ index \in Index'
           /\ Index \subseteq Index'
           /\ \A k \in Index : IsKnown(k) => storage'[k] = storage[k]
<1> DEFINE n == Len(answers[pass])
           c == request.component
           input == InputOf(pass, request)
<1>1. AgreeInv /\ EntriesInv /\ KnownInv /\ AnsweredInv /\ AskedInv
  BY DEF ValuesInv
<1>2. ScriptInv' /\ Asked(pass, request, index)
  BY <1>1, AskEffects
<1>3. AgreeInv'
  BY <1>1, AskKeepsAgreement
<1>4. /\ c \in Component /\ input \in BatchInput
      /\ input.kind # "input" => \E i \in 1..n : input.at = answers[pass][i]
  BY <1>1, <1>2, InputOfIsBatchInput
<1>5. /\ EntriesInv'
      /\ Index \subseteq Index'
      /\ input \in DOMAIN results'[c] /\ results'[c][input].index = index
      /\ pass = "assignment" => results'[c][input].assigned
      /\ \A d \in Component : \A i \in DOMAIN results'[d] :
            i \in DOMAIN results[d] \/ (d = c /\ i = input)
      /\ \A k \in Index : IsKnown(k) => IsKnown(k)' /\ storage'[k] = storage[k]
  BY <1>1, <1>4, AddInputEntries
<1>6. KnownInv'
  <2>1. pass = "assignment" /\ input.kind # "input" => IsKnown(input.at)
    BY <1>1, <1>4 DEF AnsweredInv
  <2>2. QED
    BY <1>1, <1>4, <2>1, AddInputKnown
<1>7. index \in Index' /\ (pass = "assignment" => IsKnown(index)')
  <2>1. results'[c][input] \in [index : Index', assigned : BOOLEAN]
    BY <1>4, <1>5 DEF EntriesInv
  <2>2. Component' = Component
    BY DEF Component
  <2>3. QED
    BY <1>4, <1>5, <2>1, <2>2 DEF IsKnown
<1>8. AnsweredInv'
  <2> SUFFICES ASSUME NEW i \in 1..Len(answers'["assignment"])
               PROVE  IsKnown(answers["assignment"][i])'
    BY DEF AnsweredInv
  <2>1. "assignment" \in Pass /\ Len(answers["assignment"]) \in Nat
    BY <1>1 DEF Pass, AgreeInv, AnswersInv
  <2>2. CASE i \in 1..Len(answers["assignment"])
    <3>1. /\ answers'["assignment"][i] = answers["assignment"][i]
          /\ answers["assignment"][i] \in Index
          /\ IsKnown(answers["assignment"][i])
      BY <1>1, <1>2, <2>1, <2>2, AnswersAreIndices DEF Asked, AnsweredInv
    <3>2. IsKnown(answers["assignment"][i])'
      <4> DEFINE k == answers["assignment"][i]
      <4>1. PICK j \in Index : j = k
        BY <3>1
      <4>2. IsKnown(j)'
        BY <1>5, <3>1, <4>1
      <4>3. QED
        BY <3>1, <4>1, <4>2 DEF IsKnown
    <3>3. QED
      BY <3>2
  <2>3. CASE i \notin 1..Len(answers["assignment"])
    <3>1. pass = "assignment" /\ i = n + 1 /\ answers'["assignment"][i] = index
      BY <1>2, <2>1, <2>3 DEF Asked
    <3>2. QED
      BY <1>7, <3>1 DEF IsKnown
  <2>4. QED
    BY <2>2, <2>3
<1>9. AskedInv'
  <2> SUFFICES ASSUME NEW d \in Component, NEW i \in DOMAIN results'[d]
               PROVE  \E p \in Pass : \E m \in 1..Len(answers'[p]) :
                         script'[m].component = d /\ InputOf(p, script[m])' = i
    BY DEF AskedInv
  <2>1. CASE i \in DOMAIN results[d]
    <3>1. PICK p \in Pass : \E m \in 1..Len(answers[p]) :
             script[m].component = d /\ InputOf(p, script[m]) = i
      BY <1>1, <2>1 DEF AskedInv
    <3>2. PICK m \in 1..Len(answers[p]) :
             script[m].component = d /\ InputOf(p, script[m]) = i
      BY <3>1
    <3>3. /\ m \in 1..Len(answers'[p]) /\ script'[m] = script[m]
          /\ InputOf(p, script[m])' = InputOf(p, script[m])
      BY <1>2, <3>2 DEF Asked
    <3>4. QED
      BY <3>2, <3>3
  <2>2. CASE d = c /\ i = input
    <3>1. PICK m \in 1..Len(answers'[pass]) : m = n + 1
      BY <1>2 DEF Asked
    <3>2. script'[m] = request /\ InputOf(pass, request)' = input
      BY <1>2, <3>1 DEF Asked
    <3>3. InputOf(pass, script[m])' = InputOf(pass, request)'
      BY <3>2 DEF InputOf
    <3>4. QED
      BY <2>2, <3>1, <3>2, <3>3
  <2>3. QED
    BY <1>5, <2>1, <2>2
<1>10. QED
  BY <1>2, <1>3, <1>4, <1>5, <1>6, <1>7, <1>8, <1>9 DEF ValuesInv

LEMMA ValuesInvInit == Init => ValuesInv
<1> SUFFICES ASSUME Init PROVE ValuesInv
  OBVIOUS
<1>1. AgreeInv
  BY AgreeInvInit
<1>2. /\ storage = <<>> /\ answers = [p \in Pass |-> <<>>]
      /\ results = [c \in Component |-> NoEntries]
  BY DEF Init
<1>3. \A c \in Component : DOMAIN results[c] = {}
  BY <1>2 DEF NoEntries
<1>4. Index = {}
  BY <1>2 DEF Index
<1>5. EntriesInv
  BY <1>2, <1>3, <1>4 DEF EntriesInv
<1>6. KnownInv /\ AskedInv
  BY <1>3 DEF KnownInv, AskedInv
<1>7. AnsweredInv
  BY <1>2 DEF AnsweredInv, Pass
<1>8. QED
  BY <1>1, <1>5, <1>6, <1>7 DEF ValuesInv

LEMMA ValuesInvKept ==
    ASSUME ValuesInv, UNCHANGED <<script, answers, results, storage>>
    PROVE  ValuesInv'
<1>1. AgreeInv'
  BY DEF ValuesInv, AgreeInv, ScriptInv, AnswersInv, KeptInv, PassesAgree, InputOf, Backward
<1>2. EntriesInv'
  BY DEF ValuesInv, EntriesInv, Index, BatchInput
<1>3. KnownInv'
  BY DEF ValuesInv, KnownInv, Computed, InputVarValue, IsKnown
<1>4. AnsweredInv' /\ AskedInv'
  BY DEF ValuesInv, AnsweredInv, AskedInv, IsKnown, InputOf
<1>5. QED
  BY <1>1, <1>2, <1>3, <1>4 DEF ValuesInv

(* When both passes have made all the requests, no result is missing.      *)
LEMMA CompleteIsAssigned ==
    ASSUME ValuesInv, Complete
    PROVE  \A c \in Component : \A i \in DOMAIN results[c] : results[c][i].assigned
<1> SUFFICES ASSUME NEW c \in Component, NEW i \in DOMAIN results[c]
             PROVE  results[c][i].assigned
  OBVIOUS
<1>1. PICK p \in Pass, n \in 1..Len(script) :
         script[n].component = c /\ InputOf(p, script[n]) = i
  BY DEF ValuesInv, AskedInv, Complete
<1>2. \A q \in Pass : Len(answers[q]) = Len(script) /\ Len(script) <= MaxRequests
  BY DEF Complete, ValuesInv, AgreeInv, AnswersInv
<1>3. Len(script) \in Nat
  BY DEF ValuesInv, AgreeInv, ScriptInv
<1>4. \A j \in 1..Len(script) : answers["circuit"][j] = answers["assignment"][j]
  BY <1>2, <1>3, SizeAssumption DEF ValuesInv, AgreeInv, PassesAgree, Pass
<1>5. Backward(script[n], n)
  BY DEF ValuesInv, AgreeInv, ScriptInv
<1>6. InputOf("assignment", script[n]) = i
  <2>1. script[n].from.kind # "input" => script[n].from.at \in 1..Len(script)
    BY <1>3, <1>5 DEF Backward
  <2>2. QED
    BY <1>1, <1>4, <2>1 DEF InputOf, Pass
<1>7. "assignment" \in Pass /\ n \in 1..Len(answers["assignment"])
  BY <1>2 DEF Pass
<1>8. results[c][i].index = answers["assignment"][n]
  BY <1>1, <1>6, <1>7 DEF ValuesInv, AgreeInv, KeptInv
<1>9. PICK d \in Component : \E j \in DOMAIN results[d] :
         results[d][j].index = answers["assignment"][n] /\ results[d][j].assigned
  BY <1>7 DEF ValuesInv, AnsweredInv, IsKnown
<1>10. PICK j \in DOMAIN results[d] :
          results[d][j].index = answers["assignment"][n] /\ results[d][j].assigned
  BY <1>9
<1>11. d = c /\ j = i
  BY <1>8, <1>10 DEF ValuesInv, EntriesInv
<1>12. QED
  BY <1>10, <1>11

LEMMA NoAbort == ValuesInv /\ Complete => ~AbortFinalization
<1> SUFFICES ASSUME ValuesInv, Complete, AbortFinalization PROVE FALSE
  OBVIOUS
<1>1. PICK ci \in AllInputs : ~results[ci[1]][ci[2]].assigned
  BY DEF AbortFinalization
<1>2. ci[1] \in Component /\ ci[2] \in DOMAIN results[ci[1]]
  BY <1>1 DEF AllInputs
<1>3. QED
  BY <1>1, <1>2, CompleteIsAssigned

(* Whatever a step is, it is one of these; the effects of a call are the   *)
(* ones AskKeepsValues lists.                                              *)
LEMMA StepCases ==
    ASSUME ValuesInv, [Next]_vars
    PROVE  \/ \E request : \E index \in 0..MaxRequests : AskFromCircuit(request, index)
           \/ \E request : \E index \in 0..MaxRequests : AskFromAssignment(request, index)
           \/ Complete /\ FinalizeComponentBatches
           \/ UNCHANGED vars
  BY NoAbort DEF Next, Finalize

LEMMA ValuesInvStep == ValuesInv /\ [Next]_vars => ValuesInv'
<1> SUFFICES ASSUME ValuesInv, [Next]_vars PROVE ValuesInv'
  OBVIOUS
<1>1. ASSUME NEW request, NEW index \in 0..MaxRequests, AskFromCircuit(request, index)
      PROVE  ValuesInv'
  <2>1. /\ NextRequest("circuit", request)
        /\ AddInputToBatch("circuit", request.component, InputOf("circuit", request), index)
        /\ answers' = [answers EXCEPT !["circuit"] = Append(@, index)]
    BY <1>1 DEF AskFromCircuit
  <2>2. "circuit" \in Pass /\ index \in Int
    BY SizeAssumption DEF Pass
  <2>3. QED
    BY <2>1, <2>2, AskKeepsValues
<1>2. ASSUME NEW request, NEW index \in 0..MaxRequests, AskFromAssignment(request, index)
      PROVE  ValuesInv'
  <2>1. /\ NextRequest("assignment", request)
        /\ AddInputToBatch("assignment", request.component, InputOf("assignment", request), index)
        /\ answers' = [answers EXCEPT !["assignment"] = Append(@, index)]
    BY <1>2 DEF AskFromAssignment
  <2>2. "assignment" \in Pass /\ index \in Int
    BY SizeAssumption DEF Pass
  <2>3. QED
    BY <2>1, <2>2, AskKeepsValues
<1>3. CASE FinalizeComponentBatches
  BY <1>3, ValuesInvKept DEF FinalizeComponentBatches, batchVars
<1>4. CASE UNCHANGED vars
  BY <1>4, ValuesInvKept DEF vars, batchVars
<1>5. QED
  BY <1>1, <1>2, <1>3, <1>4, StepCases

-----------------------------------------------------------------------------
(* What a request stands for *)

(* A set of natural numbers has a least member.                            *)
LEMMA LeastNatural ==
    ASSUME NEW T \in SUBSET Nat, T # {}
    PROVE  \E m \in T : \A n \in T : m <= n
<1> DEFINE R == OpToRel(<, Nat)
<1>1. T \subseteq Nat
  OBVIOUS
<1>2. IsWellFoundedOn(R, Nat)
  BY NatLessThanWellFounded
<1>3. \A a, b \in Nat : b < a => <<b, a>> \in R
  BY DEF OpToRel
<1> HIDE DEF R
<1>4. PICK x \in T : \A y \in T : ~ (<<y, x>> \in R)
  BY <1>1, <1>2, WFMin
<1>5. \A y \in T : ~(y < x)
  BY <1>1, <1>3, <1>4
<1> QED
  BY <1>1, <1>5

(* The value of request i, given the values of the ones before it.         *)
Applied(f, i) ==
    Function[script[i].component][
        IF script[i].from.kind = "input" THEN InputValue[script[i].from.at]
        ELSE f[script[i].from.at]]

LEMMA AppliedToEarlier ==
    ASSUME NEW i, NEW f, NEW g,
           script[i].from.kind # "input" => f[script[i].from.at] = g[script[i].from.at]
    PROVE  Applied(g, i) = Applied(f, i)
  BY DEF Applied

(* Every request depends on earlier ones only, so that the recursive       *)
(* definition of Meaning has a solution and Meaning is it.                 *)
LEMMA MeaningIs ==
    ASSUME ScriptInv
    PROVE  \A i \in 1..Len(script) : Meaning[i] = Applied(Meaning, i)
<1> DEFINE Solves(f, n) == f = [i \in 1..n |-> Applied(f, i)]
           Unsolved == {n \in Nat : n <= Len(script) /\ ~ \E f : Solves(f, n)}
<1>1. Len(script) \in Nat
  BY DEF ScriptInv
<1>2. Unsolved = {}
  <2> SUFFICES ASSUME Unsolved # {} PROVE FALSE
    OBVIOUS
  <2>1. PICK n \in Unsolved : \A m \in Unsolved : n <= m
    BY LeastNatural
  <2>2. n # 0
    <3>1. ASSUME n = 0 PROVE FALSE
      <4> DEFINE f == [i \in 1..0 |-> 0]
      <4>1. Solves(f, 0)
        OBVIOUS
      <4> HIDE DEF Solves, f
      <4>2. QED
        BY <2>1, <3>1, <4>1
    <3>2. QED
      BY <3>1
  <2>3. n - 1 \in Nat /\ n - 1 <= Len(script) /\ n - 1 \notin Unsolved
    BY <2>1, <2>2, <1>1
  <2>4. PICK f : Solves(f, n - 1)
    BY <2>3
  <2> DEFINE g == [i \in 1..n |-> IF i = n THEN Applied(f, n) ELSE f[i]]
  <2>5. \A i \in 1..n : Applied(g, i) = Applied(f, i)
    <3> SUFFICES ASSUME NEW i \in 1..n PROVE Applied(g, i) = Applied(f, i)
      OBVIOUS
    <3>1. Backward(script[i], i)
      BY <1>1, <2>1 DEF ScriptInv
    <3>2. script[i].from.kind # "input" => script[i].from.at \in 1..(i - 1)
      BY <3>1 DEF Backward
    <3>3. \A j \in 1..(i - 1) : g[j] = f[j]
      BY <2>1
    <3> HIDE DEF g, Solves, Unsolved
    <3>4. QED
      BY <3>2, <3>3, AppliedToEarlier
  <2>6. \A i \in 1..n : g[i] = Applied(f, i)
    BY <2>4
  <2>7. Solves(g, n)
    BY <2>5, <2>6
  <2> HIDE DEF Solves, g
  <2>8. QED
    BY <2>1, <2>7
<1>3. \E f : Solves(f, Len(script))
  BY <1>1, <1>2
<1>4. Meaning = CHOOSE f : Solves(f, Len(script))
  BY DEF Meaning, Applied
<1>5. Solves(Meaning, Len(script))
  BY <1>3, <1>4
<1>6. QED
  BY <1>5

(* An answer of the assignment pass holds the function of its component,   *)
(* applied to the input or to the earlier answer the request names.        *)
LEMMA AnswerIsApplied ==
    ASSUME ValuesInv, NEW i \in 1..Len(answers["assignment"])
    PROVE  /\ i \in 1..Len(script)
           /\ script[i].from.kind # "input" => script[i].from.at \in 1..(i - 1)
           /\ storage[answers["assignment"][i]] =
                Function[script[i].component][
                    IF script[i].from.kind = "input" THEN InputValue[script[i].from.at]
                    ELSE storage[answers["assignment"][script[i].from.at]]]
<1> DEFINE k == answers["assignment"][i]
           c == script[i].component
           input == InputOf("assignment", script[i])
<1>1. "assignment" \in Pass /\ i \in 1..Len(script)
  BY DEF Pass, ValuesInv, AgreeInv, AnswersInv, ScriptInv
<1>2. Backward(script[i], i)
  BY <1>1 DEF ValuesInv, AgreeInv, ScriptInv
<1>3. c \in Component /\ (script[i].from.kind # "input" => script[i].from.at \in 1..(i - 1))
  BY <1>2 DEF Backward
<1>4. input \in DOMAIN results[c] /\ results[c][input].index = k
  BY <1>1 DEF ValuesInv, AgreeInv, KeptInv
<1>5. results[c][input].assigned
  <2>1. PICK d \in Component : \E j \in DOMAIN results[d] :
           results[d][j].index = k /\ results[d][j].assigned
    BY DEF ValuesInv, AnsweredInv, IsKnown
  <2>2. PICK j \in DOMAIN results[d] : results[d][j].index = k /\ results[d][j].assigned
    BY <2>1
  <2>3. d = c /\ j = input
    BY <1>3, <1>4, <2>2 DEF ValuesInv, EntriesInv
  <2>4. QED
    BY <2>2, <2>3
<1>6. storage[k] = Computed(c, input)
  BY <1>3, <1>4, <1>5 DEF ValuesInv, KnownInv
<1>7. CASE script[i].from.kind = "input"
  BY <1>1, <1>3, <1>6, <1>7 DEF Computed, InputVarValue, InputOf
<1>8. CASE script[i].from.kind # "input"
  <2>1. input = Batched(answers["assignment"][script[i].from.at])
    BY <1>8 DEF InputOf
  <2>2. InputVarValue(input) = storage[answers["assignment"][script[i].from.at]]
    BY <2>1 DEF InputVarValue, Batched
  <2>3. QED
    BY <1>1, <1>3, <1>6, <1>8, <2>2 DEF Computed
<1>9. QED
  BY <1>7, <1>8

LEMMA ValuesMean == ValuesInv => ResultsMean
<1> SUFFICES ASSUME ValuesInv PROVE ResultsMean
  OBVIOUS
<1> DEFINE n == Len(answers["assignment"])
           Wrong == {i \in 1..n : storage[answers["assignment"][i]] # Meaning[i]}
<1>1. n \in Nat
  BY DEF Pass, ValuesInv, AgreeInv, AnswersInv
<1>2. Wrong = {}
  <2> SUFFICES ASSUME Wrong # {} PROVE FALSE
    OBVIOUS
  <2>1. Wrong \in SUBSET Nat
    BY <1>1
  <2>2. PICK i \in Wrong : \A m \in Wrong : i <= m
    BY <2>1, LeastNatural
  <2>3. i \in 1..n /\ storage[answers["assignment"][i]] # Meaning[i]
    BY <2>2
  <2>4. \A j \in 1..(i - 1) : storage[answers["assignment"][j]] = Meaning[j]
    <3> SUFFICES ASSUME NEW j \in 1..(i - 1) PROVE j \notin Wrong /\ j \in 1..n
      OBVIOUS
    <3>1. j \in Nat /\ i \in Nat /\ ~(i <= j)
      BY <1>1, <2>3
    <3>2. QED
      BY <1>1, <2>2, <2>3, <3>1
  <2>5. /\ i \in 1..Len(script)
        /\ script[i].from.kind # "input" => script[i].from.at \in 1..(i - 1)
        /\ storage[answers["assignment"][i]] =
             Function[script[i].component][
                 IF script[i].from.kind = "input" THEN InputValue[script[i].from.at]
                 ELSE storage[answers["assignment"][script[i].from.at]]]
    BY <2>3, AnswerIsApplied
  <2>6. Meaning[i] = Applied(Meaning, i)
    BY <2>5, MeaningIs DEF ValuesInv, AgreeInv
  <2>7. Applied(Meaning, i) =
          Function[script[i].component][
              IF script[i].from.kind = "input" THEN InputValue[script[i].from.at]
              ELSE Meaning[script[i].from.at]]
    BY ONLY DEF Applied
  <2> HIDE DEF Wrong, n
  <2>8. QED
    BY <2>3, <2>4, <2>5, <2>6, <2>7
<1>3. QED
  BY <1>2 DEF ResultsMean

(* The finalization's assertion on a missing result never fails, whatever  *)
(* the order of the two passes was.                                        *)
THEOREM FinalizationNeverAborts == Spec => []NeverAborts
<1>1. Init => NeverAborts
  BY DEF Init, NeverAborts
<1>2. ValuesInv /\ NeverAborts /\ [Next]_vars => NeverAborts'
  <2> SUFFICES ASSUME ValuesInv, NeverAborts, [Next]_vars PROVE NeverAborts'
    OBVIOUS
  <2>1. UNCHANGED aborted
    BY StepCases DEF AskFromCircuit, AskFromAssignment, FinalizeComponentBatches,
                     tableVars, vars
  <2>2. QED
    BY <2>1 DEF NeverAborts
<1>3. QED
  BY <1>1, <1>2, ValuesInvInit, ValuesInvStep, PTL DEF Spec

(* Every variable the assignment pass was answered with holds the value    *)
(* its request stands for, through all the requests and finalizations that *)
(* follow.                                                                 *)
THEOREM ResultsKeepTheirMeaning == Spec => []ResultsMean
  BY ValuesInvInit, ValuesInvStep, ValuesMean, PTL DEF Spec

-----------------------------------------------------------------------------
(* Placement *)

(* The rows of the batches are filled up to nextRow, and every slot of a   *)
(* row with an enabled gate holds an input and its function.               *)
TableInv ==
    /\ nextRow \in Nat
    /\ \A at \in DOMAIN table : at[1] \in Nat /\ at[1] < nextRow
    /\ \A on \in enabled :
          /\ on[1] \in Component
          /\ \A slot \in 0..(Slots(on[1]) - 1) :
                /\ <<on[2], slot * Width[on[1]]>> \in DOMAIN table
                /\ <<on[2], slot * Width[on[1]] + 1>> \in DOMAIN table
                /\ table[<<on[2], slot * Width[on[1]] + 1>>] =
                      Function[on[1]][table[<<on[2], slot * Width[on[1]]>>]]

(* A variable that has a cell is known, and the cell holds its value.      *)
PlacedInv ==
    \A k \in DOMAIN variableMap :
        /\ k \in Index /\ IsKnown(k)
        /\ variableMap[k] \in DOMAIN table
        /\ table[variableMap[k]] = storage[k]

UsesInv ==
    /\ uses \in Seq(Value) /\ Len(uses) = Len(answers["assignment"])
    /\ \A i \in 1..Len(uses) : uses[i] = storage[answers["assignment"][i]]

(* A copy constraint: the use of a result that is not placed yet, the use  *)
(* of one that is, an input of a slot.                                     *)
Waiting(pair) ==
    \E i \in 1..Len(answers["circuit"]) :
        /\ finalizedAt < i
        /\ pair[1].kind = "use" /\ pair[1].at = i
        /\ pair[2].kind = "batch" /\ pair[2].at = answers["circuit"][i]

UseHolds(pair) ==
    \E i \in 1..finalizedAt : \E at \in DOMAIN table :
        /\ pair[1].kind = "use" /\ pair[1].at = i
        /\ pair[2].kind = "cell" /\ pair[2].at = at
        /\ IsKnown(answers["circuit"][i])
        /\ table[at] = storage[answers["circuit"][i]]

InputHolds(pair) ==
    \E at \in DOMAIN table :
        /\ pair[1].kind = "cell" /\ pair[1].at = at
        /\ \/ /\ pair[2].kind = "input" /\ pair[2].at \in 1..Inputs
              /\ table[at] = InputValue[pair[2].at]
           \/ /\ pair[2].kind = "cell" /\ pair[2].at \in DOMAIN table
              /\ table[at] = table[pair[2].at]

CopiesInv ==
    /\ finalizedAt \in Nat
    /\ \A p \in Pass : finalizedAt <= Len(answers[p])
    /\ \A pair \in copies : Waiting(pair) \/ UseHolds(pair) \/ InputHolds(pair)

PlacementInv == ValuesInv /\ TableInv /\ PlacedInv /\ UsesInv /\ CopiesInv

-----------------------------------------------------------------------------
(* The places of a finalization *)

LEMMA Division ==
    ASSUME NEW a \in Nat, NEW s \in Nat \ {0}
    PROVE  /\ a \div s \in Nat /\ a % s \in 0..(s - 1)
           /\ a = s * (a \div s) + (a % s)
           /\ \A b \in Nat : a < b * s => a \div s < b
  OBVIOUS

LEMMA DivisionOfSum ==
    ASSUME NEW q \in Nat, NEW s \in Nat \ {0}, NEW m \in 0..(s - 1)
    PROVE  (q * s + m) \div s = q /\ (q * s + m) % s = m
  OBVIOUS

LEMMA RoundingUp ==
    ASSUME NEW a \in Nat, NEW s \in Nat \ {0}
    PROVE  /\ (a + s - 1) \div s \in Nat
           /\ a <= ((a + s - 1) \div s) * s
           /\ a = 0 => (a + s - 1) \div s = 0
  OBVIOUS

LEMMA Multiples == \A m, n, w \in Nat : m < n => m * w + w <= n * w
<1> TAKE m, n, w \in Nat
<1> HAVE m < n
<1>1. PICK k \in Nat : n = m + 1 + k
  <2>1. n - m - 1 \in Nat /\ n = m + 1 + (n - m - 1)
    OBVIOUS
  <2>2. QED
    BY <2>1
<1>2. n * w = m * w + w + k * w
  BY <1>1
<1>3. k * w \in Nat
  OBVIOUS
<1>4. QED
  BY <1>2, <1>3

LEMMA SlotsOf ==
    ASSUME NEW c \in Component
    PROVE  Width[c] \in Nat /\ Width[c] >= 2 /\ Slots(c) \in Nat \ {0}
<1>1. Width[c] \in 2..Witnesses /\ Witnesses \in Nat
  BY WidthAssumption, SizeAssumption
<1>2. Witnesses \div Width[c] \in Nat /\ Witnesses \div Width[c] # 0
  BY <1>1
<1>3. QED
  BY <1>1, <1>2 DEF Slots

LEMMA RowsOf ==
    ASSUME NEW c \in Component, Amount(c) \in Nat
    PROVE  /\ Rows(c) \in Nat /\ Rows(c) * Slots(c) \in Nat
           /\ Amount(c) <= Rows(c) * Slots(c)
           /\ Rows(c) # 0 => Amount(c) # 0
<1>1. Slots(c) \in Nat \ {0}
  BY SlotsOf
<1>2. QED
  BY <1>1, RoundingUp DEF Rows

(* The inputs of a batch are sorted: their ranks are 0 .. Amount(c) - 1.   *)
LEMMA Ranks ==
    ASSUME EntriesInv, NEW c \in Component
    PROVE  /\ Amount(c) \in Nat
           /\ \A i \in DOMAIN results[c] :
                 Rank(c, i) \in 0..(Amount(c) - 1) /\ InputAt(c, Rank(c, i)) = i
           /\ \A r \in 0..(Amount(c) - 1) :
                 InputAt(c, r) \in DOMAIN results[c] /\ Rank(c, InputAt(c, r)) = r
<1> DEFINE D == DOMAIN results[c]
           below(i) == {j \in D : SortKey(j) < SortKey(i)}
<1>1. IsFiniteSet(D)
  <2> DEFINE f == [i \in D |-> results[c][i].index]
  <2>1. f \in Injection(D, Index)
    <3>1. \A i \in D : results[c][i].index \in Index
      BY DEF EntriesInv
    <3>2. \A i, j \in D : results[c][i].index = results[c][j].index => i = j
      BY DEF EntriesInv
    <3>3. QED
      BY <3>1, <3>2 DEF Injection, IsInjective
  <2>2. IsFiniteSet(Index)
    <3>1. Len(storage) \in Int /\ 1 \in Int
      BY DEF EntriesInv
    <3>2. QED
      BY <3>1, FS_Interval DEF Index
  <2> HIDE DEF f, D
  <2>3. QED
    BY <2>1, <2>2, FS_Injection
<1>2. \A i \in D : SortKey(i) \in Int
  <2>1. \A i \in BatchInput : SortKey(i) \in Int
    BY SizeAssumption DEF BatchInput, SortKey, Input, Batched, Index
  <2>2. QED
    BY <2>1 DEF EntriesInv
<1>3. \A i, j \in D : SortKey(i) = SortKey(j) => i = j
  <2>1. \A i, j \in BatchInput : SortKey(i) = SortKey(j) => i = j
    <3> SUFFICES ASSUME NEW i \in BatchInput, NEW j \in BatchInput, SortKey(i) = SortKey(j)
                 PROVE  i = j
      OBVIOUS
    <3>1. CASE i \in {Input(v) : v \in 1..Inputs} /\ j \in {Input(v) : v \in 1..Inputs}
      BY <3>1 DEF SortKey, Input
    <3>2. CASE i \in {Batched(k) : k \in Index} /\ j \in {Batched(k) : k \in Index}
      <4>1. PICK k \in Index, l \in Index : i = Batched(k) /\ j = Batched(l)
        BY <3>2
      <4>2. k \in Int /\ l \in Int /\ Inputs + k = Inputs + l
        BY <4>1 DEF SortKey, Batched, Index
      <4>3. QED
        BY <4>1, <4>2, SizeAssumption
    <3>3. \A v \in 1..Inputs, k \in Index : SortKey(Input(v)) # SortKey(Batched(k))
      BY SizeAssumption DEF SortKey, Input, Batched, Index
    <3>4. QED
      BY <3>1, <3>2, <3>3 DEF BatchInput
  <2>2. QED
    BY <2>1 DEF EntriesInv
<1>4. \A i \in D : below(i) \in SUBSET D /\ IsFiniteSet(below(i))
  <2> HIDE DEF D
  <2>1. \A i \in D : below(i) \in SUBSET D
    OBVIOUS
  <2> HIDE DEF below
  <2>2. QED
    BY <1>1, <2>1, FS_Subset
<1>5. Amount(c) = Cardinality(D) /\ Amount(c) \in Nat
  <2>1. Cardinality(D) \in Nat
    BY <1>1, FS_CardinalityType
  <2>2. QED
    BY <2>1 DEF Amount
<1>6. \A i \in D : Rank(c, i) = Cardinality(below(i)) /\ Rank(c, i) \in Nat
  <2>1. \A i \in D : Cardinality(below(i)) \in Nat
    BY <1>4, FS_CardinalityType
  <2>2. QED
    BY <2>1 DEF Rank
<1>7. \A i \in D : Rank(c, i) \in Nat
  BY <1>6
<1>8. \A i \in D : Rank(c, i) \in 0..(Amount(c) - 1)
  <2> SUFFICES ASSUME NEW i \in D PROVE Rank(c, i) < Amount(c)
    BY <1>5, <1>7
  <2>1. i \notin below(i)
    BY <1>2
  <2> HIDE DEF below, D
  <2>2. Cardinality(below(i)) <= Cardinality(D) /\ Cardinality(below(i)) # Cardinality(D)
    BY <1>1, <1>4, <2>1, FS_Subset
  <2>3. Cardinality(below(i)) \in Nat /\ Cardinality(D) \in Nat
    BY <1>1, <1>4, FS_CardinalityType
  <2>4. QED
    BY <1>5, <1>6, <2>2, <2>3
<1>9. ASSUME NEW i \in D, NEW j \in D, SortKey(i) < SortKey(j)
      PROVE  Rank(c, i) < Rank(c, j)
  <2>1. i \notin below(i) /\ i \in below(j)
    BY <1>2, <1>9
  <2>2. below(i) \in SUBSET below(j)
    BY <1>2, <1>9
  <2> HIDE DEF below, D
  <2>3. below(i) # below(j)
    BY <2>1
  <2>4. /\ Cardinality(below(i)) <= Cardinality(below(j))
        /\ Cardinality(below(i)) # Cardinality(below(j))
    BY <1>4, <2>2, <2>3, FS_Subset
  <2>5. Cardinality(below(i)) \in Nat /\ Cardinality(below(j)) \in Nat
    BY <1>4, FS_CardinalityType
  <2>6. QED
    BY <1>6, <2>4, <2>5
<1>10. \A i, j \in D : Rank(c, i) = Rank(c, j) => i = j
  <2> SUFFICES ASSUME NEW i \in D, NEW j \in D, Rank(c, i) = Rank(c, j) PROVE i = j
    OBVIOUS
  <2>1. ~(SortKey(i) < SortKey(j)) /\ ~(SortKey(j) < SortKey(i))
    BY <1>7, <1>9
  <2>2. SortKey(i) = SortKey(j)
    BY <1>2, <2>1
  <2>3. QED
    BY <1>3, <2>2
<1>11. \A r \in 0..(Amount(c) - 1) : \E i \in D : Rank(c, i) = r
  <2> DEFINE T == 0..(Amount(c) - 1)
             f == [i \in D |-> Rank(c, i)]
  <2>1. f \in Injection(D, T)
    BY <1>8, <1>10 DEF Injection, IsInjective
  <2>2. IsFiniteSet(T) /\ Cardinality(T) = Cardinality(D)
    <3>1. 0 \in Int /\ Amount(c) - 1 \in Int
      BY <1>5
    <3>2. IsFiniteSet(T) /\ Cardinality(T) = IF 0 > Amount(c) - 1 THEN 0 ELSE Amount(c) - 1 - 0 + 1
      BY <3>1, FS_Interval
    <3>3. QED
      BY <1>5, <3>2
  <2> HIDE DEF f, T
  <2>3. f \in Surjection(D, T)
    BY <2>1, <2>2, FS_Injection
  <2>4. \A r \in T : \E i \in D : f[i] = r
    BY <2>3 DEF Surjection
  <2>5. QED
    BY <2>4 DEF f, T
<1> HIDE DEF below
<1>12. \A r \in 0..(Amount(c) - 1) : InputAt(c, r) \in D /\ Rank(c, InputAt(c, r)) = r
  BY <1>11 DEF InputAt
<1>13. \A i \in D : InputAt(c, Rank(c, i)) = i
  BY <1>8, <1>10, <1>12
<1>14. QED
  BY <1>5, <1>8, <1>12, <1>13

(* The row of a batch comes after the rows of the batches before it.       *)
LEMMA FirstRowIs ==
    ASSUME nextRow \in Nat, \A c \in Component : Rows(c) \in Nat
    PROVE  /\ FirstRow[1] = nextRow
           /\ \A c \in Component : FirstRow[c + 1] = FirstRow[c] + Rows(c)
<1> DEFINE Next1(f, c) == IF c = 1 THEN nextRow ELSE f[c - 1] + Rows(c - 1)
           Solves(f, n) == f = [c \in 1..n |-> Next1(f, c)]
           Unsolved == {n \in Nat : n <= Components + 1 /\ ~ \E f : Solves(f, n)}
<1>1. Components + 1 \in Nat
  BY SizeAssumption
<1>2. Unsolved = {}
  <2> SUFFICES ASSUME Unsolved # {} PROVE FALSE
    OBVIOUS
  <2>1. PICK n \in Unsolved : \A m \in Unsolved : n <= m
    BY LeastNatural
  <2>2. n # 0
    <3>1. ASSUME n = 0 PROVE FALSE
      <4> DEFINE f == [c \in 1..0 |-> 0]
      <4>1. Solves(f, 0)
        OBVIOUS
      <4> HIDE DEF Solves, f
      <4>2. QED
        BY <2>1, <3>1, <4>1
    <3>2. QED
      BY <3>1
  <2>3. n - 1 \in Nat /\ n - 1 <= Components + 1 /\ n - 1 \notin Unsolved
    BY <2>1, <2>2, <1>1
  <2>4. PICK f : Solves(f, n - 1)
    BY <2>3
  <2> DEFINE g == [c \in 1..n |-> IF c = n THEN Next1(f, n) ELSE f[c]]
  <2>5. \A c \in 1..n : Next1(g, c) = Next1(f, c)
    <3> SUFFICES ASSUME NEW c \in 1..n PROVE Next1(g, c) = Next1(f, c)
      OBVIOUS
    <3>1. c # 1 => c - 1 \in 1..n /\ c - 1 # n
      BY <2>1
    <3>2. c # 1 => g[c - 1] = f[c - 1]
      BY <3>1
    <3> HIDE DEF g
    <3>3. QED
      BY <3>2
  <2>6. \A c \in 1..n : g[c] = Next1(f, c)
    BY <2>4
  <2>7. Solves(g, n)
    BY <2>5, <2>6
  <2> HIDE DEF Solves, g
  <2>8. QED
    BY <2>1, <2>7
<1>3. \E f : Solves(f, Components + 1)
  BY <1>1, <1>2
<1>4. FirstRow = CHOOSE f : Solves(f, Components + 1)
  BY DEF FirstRow, RowsReturned
<1>5. Solves(FirstRow, Components + 1)
  BY <1>3, <1>4
<1>6. \A c \in 1..(Components + 1) : FirstRow[c] = Next1(FirstRow, c)
  BY <1>5
<1>7. 1 \in 1..(Components + 1)
  BY SizeAssumption
<1>8. \A c \in Component :
         c + 1 \in 1..(Components + 1) /\ c + 1 # 1 /\ (c + 1) - 1 = c
  BY SizeAssumption DEF Component
<1> HIDE DEF Solves, Unsolved
<1>9. QED
  BY <1>6, <1>7, <1>8

LEMMA FirstRowsInOrder ==
    ASSUME nextRow \in Nat, \A c \in Component : Rows(c) \in Nat
    PROVE  /\ \A c \in 1..(Components + 1) : FirstRow[c] \in Nat /\ nextRow <= FirstRow[c]
           /\ \A d \in 1..(Components + 1) : \A c \in 1..(d - 1) :
                 FirstRow[c] + Rows(c) <= FirstRow[d]
<1>1. /\ FirstRow[1] = nextRow
      /\ \A c \in Component : FirstRow[c + 1] = FirstRow[c] + Rows(c)
  BY FirstRowIs
<1>2. Components \in Nat /\ Component = 1..Components
  BY SizeAssumption DEF Component
<1>3. ASSUME NEW d \in 1..(Components + 1), d # 1
      PROVE  d - 1 \in Component /\ FirstRow[d] = FirstRow[d - 1] + Rows(d - 1)
  <2>1. d - 1 \in Component /\ (d - 1) + 1 = d
    BY <1>2, <1>3
  <2>2. FirstRow[(d - 1) + 1] = FirstRow[d - 1] + Rows(d - 1)
    BY <1>1, <2>1
  <2>3. QED
    BY <2>1, <2>2
<1>4. \A c \in 1..(Components + 1) : FirstRow[c] \in Nat /\ nextRow <= FirstRow[c]
  <2> DEFINE Wrong == {c \in 1..(Components + 1) :
                         ~(FirstRow[c] \in Nat /\ nextRow <= FirstRow[c])}
  <2> SUFFICES ASSUME Wrong # {} PROVE FALSE
    OBVIOUS
  <2>1. Wrong \in SUBSET Nat
    BY <1>2
  <2>2. PICK c \in Wrong : \A m \in Wrong : c <= m
    BY <2>1, LeastNatural
  <2>3. c \in 1..(Components + 1) /\ ~(FirstRow[c] \in Nat /\ nextRow <= FirstRow[c])
    BY <2>2
  <2>4. c # 1
    BY <1>1, <2>3
  <2>5. c - 1 \in Component /\ FirstRow[c] = FirstRow[c - 1] + Rows(c - 1)
    BY <1>3, <2>3, <2>4
  <2>6. c - 1 \notin Wrong /\ c - 1 \in 1..(Components + 1)
    BY <1>2, <2>2, <2>3, <2>4
  <2>7. FirstRow[c - 1] \in Nat /\ nextRow <= FirstRow[c - 1]
    BY <2>6
  <2>8. Rows(c - 1) \in Nat
    BY <2>5
  <2>9. QED
    BY <2>3, <2>5, <2>7, <2>8
<1>5. \A d \in 1..(Components + 1) : \A c \in 1..(d - 1) :
         FirstRow[c] + Rows(c) <= FirstRow[d]
  <2> DEFINE Wrong == {d \in 1..(Components + 1) :
                         \E c \in 1..(d - 1) : ~(FirstRow[c] + Rows(c) <= FirstRow[d])}
  <2> SUFFICES ASSUME Wrong # {} PROVE FALSE
    OBVIOUS
  <2>1. Wrong \in SUBSET Nat
    BY <1>2
  <2>2. PICK d \in Wrong : \A m \in Wrong : d <= m
    BY <2>1, LeastNatural
  <2>3. PICK c \in 1..(d - 1) : ~(FirstRow[c] + Rows(c) <= FirstRow[d])
    BY <2>2
  <2>4. d \in 1..(Components + 1) /\ d # 1 /\ c \in Component /\ d - 1 \in Nat
    BY <1>2, <2>2, <2>3
  <2>5. d - 1 \in Component /\ FirstRow[d] = FirstRow[d - 1] + Rows(d - 1)
    BY <1>3, <2>4
  <2>6. FirstRow[c] \in Nat /\ Rows(c) \in Nat /\ FirstRow[d - 1] \in Nat /\ Rows(d - 1) \in Nat
    <3>1. c \in 1..(Components + 1) /\ d - 1 \in 1..(Components + 1)
      BY <1>2, <2>4, <2>5
    <3>2. FirstRow[c] \in Nat /\ FirstRow[d - 1] \in Nat
      BY <1>4, <3>1
    <3>3. Rows(c) \in Nat /\ Rows(d - 1) \in Nat
      BY <2>4, <2>5
    <3>4. QED
      BY <3>2, <3>3
  <2>7. c # d - 1
    BY <2>3, <2>5, <2>6
  <2>8. c \in 1..((d - 1) - 1)
    BY <2>3, <2>4, <2>7
  <2>9. d - 1 \notin Wrong /\ d - 1 \in 1..(Components + 1)
    BY <1>2, <2>2, <2>4, <2>5
  <2>10. FirstRow[c] + Rows(c) <= FirstRow[d - 1]
    BY <2>8, <2>9
  <2>11. QED
    BY <2>3, <2>5, <2>6, <2>10
<1>6. QED
  BY <1>4, <1>5

(* The places of a slot, and the input in it.                              *)
InputPlace(c, rank) ==
    <<FirstRow[c] + rank \div Slots(c), (rank % Slots(c)) * Width[c]>>
OutputPlace(c, rank) ==
    <<FirstRow[c] + rank \div Slots(c), (rank % Slots(c)) * Width[c] + 1>>
RanksOf(c) == 0..(Rows(c) * Slots(c) - 1)
InSlot(c, rank) == InputAt(c, IF rank < Amount(c) THEN rank ELSE 0)

(* No two slots share a cell, all of them are in the rows of this          *)
(* finalization.                                                           *)
LEMMA PlacesDistinct ==
    ASSUME EntriesInv, nextRow \in Nat,
           NEW c \in Component, NEW r \in RanksOf(c), NEW d \in Component, NEW s \in RanksOf(d)
    PROVE  /\ InputPlace(c, r)[1] \in nextRow..(FirstRow[Components + 1] - 1)
           /\ InputPlace(c, r)[1] \in FirstRow[c]..(FirstRow[c] + Rows(c) - 1)
           /\ InputPlace(c, r) # OutputPlace(d, s)
           /\ InputPlace(c, r) = InputPlace(d, s) => c = d /\ r = s
           /\ OutputPlace(c, r) = OutputPlace(d, s) => c = d /\ r = s
<1>1. \A e \in Component : /\ Amount(e) \in Nat /\ Rows(e) \in Nat
                           /\ Rows(e) * Slots(e) \in Nat /\ Slots(e) \in Nat \ {0}
                           /\ Width[e] \in Nat /\ Width[e] >= 2
  BY Ranks, RowsOf, SlotsOf
<1>2. /\ \A e \in 1..(Components + 1) : FirstRow[e] \in Nat /\ nextRow <= FirstRow[e]
      /\ \A e \in 1..(Components + 1) : \A f \in 1..(e - 1) :
            FirstRow[f] + Rows(f) <= FirstRow[e]
  BY <1>1, FirstRowsInOrder
<1>3. Components \in Nat /\ Component = 1..Components
  BY SizeAssumption DEF Component
<1>4. ASSUME NEW e \in Component, NEW q \in RanksOf(e)
      PROVE  /\ q \in Nat /\ q \div Slots(e) \in Nat /\ q \div Slots(e) < Rows(e)
             /\ q % Slots(e) \in Nat
             /\ q = Slots(e) * (q \div Slots(e)) + (q % Slots(e))
  <2>1. q \in Nat /\ q < Rows(e) * Slots(e)
    BY <1>1 DEF RanksOf
  <2>2. PICK sl \in Nat \ {0} : sl = Slots(e)
    BY <1>1
  <2>3. PICK rows \in Nat : rows = Rows(e)
    BY <1>1
  <2>4. q < rows * sl
    BY <2>1, <2>2, <2>3
  <2>5. /\ q \div sl \in Nat /\ q % sl \in 0..(sl - 1)
        /\ q = sl * (q \div sl) + (q % sl)
        /\ q \div sl < rows
    BY ONLY <2>1, <2>2, <2>3, <2>4, Division
  <2>6. q % sl \in Nat
    BY <2>5
  <2>7. QED
    BY <2>1, <2>2, <2>3, <2>5, <2>6
<1>5. FirstRow[c] + Rows(c) <= FirstRow[Components + 1]
  BY <1>2, <1>3
<1> DEFINE a == r \div Slots(c)
           b == s \div Slots(d)
           m == r % Slots(c)
           n == s % Slots(d)
<1>6. /\ a \in Nat /\ a < Rows(c) /\ m \in Nat /\ r = Slots(c) * a + m
      /\ b \in Nat /\ b < Rows(d) /\ n \in Nat /\ s = Slots(d) * b + n
  BY <1>4
<1>7. /\ InputPlace(c, r) = <<FirstRow[c] + a, m * Width[c]>>
      /\ OutputPlace(c, r) = <<FirstRow[c] + a, m * Width[c] + 1>>
      /\ InputPlace(d, s) = <<FirstRow[d] + b, n * Width[d]>>
      /\ OutputPlace(d, s) = <<FirstRow[d] + b, n * Width[d] + 1>>
  BY DEF InputPlace, OutputPlace
<1>8. /\ FirstRow[c] \in Nat /\ FirstRow[d] \in Nat /\ FirstRow[Components + 1] \in Nat
      /\ nextRow <= FirstRow[c] /\ Rows(c) \in Nat /\ Rows(d) \in Nat
  <2>1. /\ c \in 1..(Components + 1) /\ d \in 1..(Components + 1)
        /\ Components + 1 \in 1..(Components + 1)
    BY <1>3
  <2>2. FirstRow[c] \in Nat /\ FirstRow[d] \in Nat /\ nextRow <= FirstRow[c]
    BY <1>2, <2>1
  <2>3. FirstRow[Components + 1] \in Nat
    BY <1>2, <2>1
  <2>4. QED
    BY <1>1, <2>2, <2>3
<1> HIDE DEF a, b, m, n
<1>9. /\ FirstRow[c] + a \in nextRow..(FirstRow[Components + 1] - 1)
      /\ FirstRow[c] + a \in FirstRow[c]..(FirstRow[c] + Rows(c) - 1)
  BY <1>5, <1>6, <1>8
<1>10. ASSUME FirstRow[c] + a = FirstRow[d] + b PROVE c = d /\ a = b
  <2>1. c < d => FirstRow[c] + Rows(c) <= FirstRow[d]
    BY <1>2, <1>3
  <2>2. d < c => FirstRow[d] + Rows(d) <= FirstRow[c]
    BY <1>2, <1>3
  <2>3. ~(c < d) /\ ~(d < c)
    BY <1>6, <1>8, <1>10, <2>1, <2>2
  <2>4. c = d
    BY <1>3, <2>3
  <2>5. QED
    BY <1>6, <1>8, <1>10, <2>4
<1>11. ASSUME NEW e \in 0..1, NEW f \in 0..1, c = d, a = b,
              m * Width[c] + e = n * Width[d] + f
       PROVE  r = s /\ e = f
  <2>1. PICK w \in Nat : w = Width[c]
    BY <1>1
  <2>2. w >= 2 /\ m * w + e = n * w + f
    BY <1>1, <1>11, <2>1
  <2>3. m = n /\ e = f
    <3>1. PICK mm \in Nat, nn \in Nat : mm = m /\ nn = n
      BY <1>6
    <3>2. w >= 2 /\ mm * w + e = nn * w + f
      BY <2>2, <3>1
    <3>3. /\ mm \in Nat /\ nn \in Nat /\ w \in Nat
          /\ e \in {0, 1} /\ f \in {0, 1}
          /\ (mm < nn => mm * w + w <= nn * w) /\ (nn < mm => nn * w + w <= mm * w)
          /\ mm * w \in Nat /\ nn * w \in Nat
      BY Multiples
    <3>4. mm = nn /\ e = f
      BY ONLY <3>2, <3>3
    <3>5. QED
      BY <3>1, <3>4
  <2>4. r = Slots(c) * a + m /\ s = Slots(c) * a + m
    BY <1>6, <1>11, <2>3
  <2>5. QED
    BY <2>3, <2>4
<1>12. PICK cm \in Nat, cn \in Nat : cm = m * Width[c] /\ cn = n * Width[d]
  <2>1. /\ m \in Nat /\ Width[c] \in Nat
        /\ n \in Nat /\ Width[d] \in Nat
    BY <1>1, <1>6
  <2>2. QED
    BY ONLY <2>1
<1>13. PICK x \in Nat, y \in Nat :
          /\ x = FirstRow[c] + a /\ y = FirstRow[d] + b
          /\ InputPlace(c, r) = <<x, cm>> /\ OutputPlace(c, r) = <<x, cm + 1>>
          /\ InputPlace(d, s) = <<y, cn>> /\ OutputPlace(d, s) = <<y, cn + 1>>
  BY <1>6, <1>7, <1>8, <1>12
<1>14. ASSUME NEW e \in 0..1, NEW f \in 0..1,
              FirstRow[c] + a = FirstRow[d] + b, cm + e = cn + f
       PROVE  c = d /\ r = s /\ e = f
  <2>1. c = d /\ a = b
    BY <1>10, <1>14
  <2>2. m * Width[c] + e = n * Width[d] + f
    BY <1>12, <1>14
  <2>3. QED
    BY <1>11, <2>1, <2>2
<1>15. InputPlace(c, r) # OutputPlace(d, s)
  <2> SUFFICES ASSUME InputPlace(c, r) = OutputPlace(d, s) PROVE FALSE
    OBVIOUS
  <2>1. x = y /\ cm = cn + 1
    <3>1. <<x, cm>> = <<y, cn + 1>>
      BY <1>13
    <3>2. QED
      BY ONLY <3>1
  <2>2. cm + 0 = cn + 1
    BY <2>1
  <2>3. QED
    BY <1>13, <1>14, <2>1, <2>2
<1>16. InputPlace(c, r) = InputPlace(d, s) => c = d /\ r = s
  <2> SUFFICES ASSUME InputPlace(c, r) = InputPlace(d, s) PROVE c = d /\ r = s
    OBVIOUS
  <2>1. x = y /\ cm + 0 = cn + 0
    <3>1. <<x, cm>> = <<y, cn>>
      BY <1>13
    <3>2. QED
      BY ONLY <3>1
  <2>2. QED
    BY <1>13, <1>14, <2>1
<1>17. OutputPlace(c, r) = OutputPlace(d, s) => c = d /\ r = s
  <2> SUFFICES ASSUME OutputPlace(c, r) = OutputPlace(d, s) PROVE c = d /\ r = s
    OBVIOUS
  <2>1. x = y /\ cm + 1 = cn + 1
    <3>1. <<x, cm + 1>> = <<y, cn + 1>>
      BY <1>13
    <3>2. QED
      BY ONLY <3>1
  <2>2. QED
    BY <1>13, <1>14, <2>1
<1>18. QED
  BY <1>9, <1>13, <1>15, <1>16, <1>17

(* What a finalization writes: the input and the output of every slot.     *)
InputEntry(c, r) == [at |-> InputPlace(c, r), value |-> InputVarValue(InSlot(c, r))]
OutputEntry(c, r) == [at |-> OutputPlace(c, r), value |-> Computed(c, InSlot(c, r))]

LEMMA WrittenAre ==
    /\ \A c \in Component : \A r \in RanksOf(c) :
          InputEntry(c, r) \in Written /\ OutputEntry(c, r) \in Written
    /\ \A w \in Written : \E c \in Component : \E r \in RanksOf(c) :
          w = InputEntry(c, r) \/ w = OutputEntry(c, r)
<1> DEFINE Both(c, r) == {InputEntry(c, r), OutputEntry(c, r)}
           OfBatch(c) == UNION {Both(c, r) : r \in RanksOf(c)}
<1>1. Written = UNION {OfBatch(c) : c \in Component}
  <2>1. \A c, r : UNION {{[at |-> InputPlace(c, r), value |-> InputVarValue(input)],
                          [at |-> OutputPlace(c, r), value |-> Computed(c, input)]}
                         : input \in Occupant(c, r)} = Both(c, r)
    BY DEF Occupant, InSlot, InputEntry, OutputEntry
  <2>2. Written = UNION {UNION {UNION {{[at |-> InputPlace(c, r), value |-> InputVarValue(input)],
                          [at |-> OutputPlace(c, r), value |-> Computed(c, input)]}
                         : input \in Occupant(c, r)} : r \in RanksOf(c)} : c \in Component}
    BY DEF Written, RanksOf, InputPlace, OutputPlace
  <2> HIDE DEF Both
  <2>3. QED
    BY ONLY <2>1, <2>2
<1> HIDE DEF Both
<1>2. \A w : w \in Written <=> \E c \in Component : w \in OfBatch(c)
  <2> HIDE DEF OfBatch
  <2>1. QED
    BY <1>1
<1>3. \A c, w : w \in OfBatch(c) <=> \E r \in RanksOf(c) : w \in Both(c, r)
  OBVIOUS
<1> HIDE DEF OfBatch
<1>4. \A c, r, w : w \in Both(c, r) <=> w = InputEntry(c, r) \/ w = OutputEntry(c, r)
  BY DEF Both
<1>5. QED
  BY <1>2, <1>3, <1>4

LEMMA WrittenOnce ==
    ASSUME EntriesInv, nextRow \in Nat
    PROVE  /\ \A v, w \in Written : v.at = w.at => v = w
           /\ \A w \in Written : w.at[1] \in nextRow..(FirstRow[Components + 1] - 1)
<1>1. ASSUME NEW c \in Component, NEW r \in RanksOf(c)
      PROVE  /\ InputEntry(c, r).at = InputPlace(c, r)
             /\ OutputEntry(c, r).at = OutputPlace(c, r)
             /\ OutputPlace(c, r)[1] = InputPlace(c, r)[1]
             /\ InputPlace(c, r)[1] \in nextRow..(FirstRow[Components + 1] - 1)
  <2>1. InputPlace(c, r)[1] \in nextRow..(FirstRow[Components + 1] - 1)
    BY PlacesDistinct
  <2>2. OutputPlace(c, r)[1] = InputPlace(c, r)[1]
    BY DEF InputPlace, OutputPlace
  <2>3. QED
    BY <2>1, <2>2 DEF InputEntry, OutputEntry
<1>2. ASSUME NEW c \in Component, NEW r \in RanksOf(c), NEW d \in Component, NEW s \in RanksOf(d)
      PROVE  /\ InputPlace(c, r) # OutputPlace(d, s)
             /\ InputPlace(c, r) = InputPlace(d, s) => c = d /\ r = s
             /\ OutputPlace(c, r) = OutputPlace(d, s) => c = d /\ r = s
  BY PlacesDistinct
<1>3. \A w \in Written : w.at[1] \in nextRow..(FirstRow[Components + 1] - 1)
  BY <1>1, WrittenAre
<1>4. ASSUME NEW v \in Written, NEW w \in Written, v.at = w.at PROVE v = w
  <2>1. PICK c \in Component : \E r \in RanksOf(c) : v = InputEntry(c, r) \/ v = OutputEntry(c, r)
    BY WrittenAre
  <2>2. PICK r \in RanksOf(c) : v = InputEntry(c, r) \/ v = OutputEntry(c, r)
    BY <2>1
  <2>3. PICK d \in Component : \E s \in RanksOf(d) : w = InputEntry(d, s) \/ w = OutputEntry(d, s)
    BY WrittenAre
  <2>4. PICK s \in RanksOf(d) : w = InputEntry(d, s) \/ w = OutputEntry(d, s)
    BY <2>3
  <2>5. CASE v = InputEntry(c, r) /\ w = InputEntry(d, s)
    BY <1>1, <1>2, <1>4, <2>5
  <2>6. CASE v = OutputEntry(c, r) /\ w = OutputEntry(d, s)
    BY <1>1, <1>2, <1>4, <2>6
  <2>7. CASE v = InputEntry(c, r) /\ w = OutputEntry(d, s)
    BY <1>1, <1>2, <1>4, <2>7
  <2>8. CASE v = OutputEntry(c, r) /\ w = InputEntry(d, s)
    BY <1>1, <1>2, <1>4, <2>8
  <2>9. QED
    BY <2>2, <2>4, <2>5, <2>6, <2>7, <2>8
<1>5. QED
  BY <1>3, <1>4

(* The table after a finalization: every slot filled, every earlier cell   *)
(* as it was.                                                              *)
LEMMA TableAfter ==
    ASSUME EntriesInv, TableInv, FinalizeComponentBatches
    PROVE  /\ \A c \in Component : \A r \in RanksOf(c) :
                 /\ InputPlace(c, r) \in DOMAIN table'
                 /\ table'[InputPlace(c, r)] = InputVarValue(InSlot(c, r))
                 /\ OutputPlace(c, r) \in DOMAIN table'
                 /\ table'[OutputPlace(c, r)] = Computed(c, InSlot(c, r))
           /\ \A at \in DOMAIN table : at \in DOMAIN table' /\ table'[at] = table[at]
           /\ \A at \in DOMAIN table' : at[1] \in Nat /\ at[1] < nextRow'
           /\ nextRow' \in Nat /\ nextRow <= nextRow'
<1> DEFINE At(at) == CHOOSE w \in Written : w.at = at
<1>0. /\ nextRow \in Nat /\ \A at \in DOMAIN table : at[1] \in Nat /\ at[1] < nextRow
      /\ nextRow' = FirstRow[Components + 1]
  BY DEF TableInv, FinalizeComponentBatches
<1>1. table' = [at \in DOMAIN table \cup {w.at : w \in Written} |->
                  IF \E w \in Written : w.at = at THEN At(at).value ELSE table[at]]
  BY DEF FinalizeComponentBatches
<1>2. /\ \A v, w \in Written : v.at = w.at => v = w
      /\ \A w \in Written : w.at[1] \in nextRow..(FirstRow[Components + 1] - 1)
  BY <1>0, WrittenOnce
<1>3. \A w \in Written : At(w.at) = w
  BY <1>2
<1> HIDE DEF At
<1>4. \A w \in Written : w.at \in DOMAIN table' /\ table'[w.at] = w.value
  BY <1>1, <1>3
<1>5. ASSUME NEW c \in Component, NEW r \in RanksOf(c)
      PROVE  /\ InputPlace(c, r) \in DOMAIN table'
             /\ table'[InputPlace(c, r)] = InputVarValue(InSlot(c, r))
             /\ OutputPlace(c, r) \in DOMAIN table'
             /\ table'[OutputPlace(c, r)] = Computed(c, InSlot(c, r))
  <2>1. InputEntry(c, r) \in Written /\ OutputEntry(c, r) \in Written
    BY WrittenAre
  <2>2. /\ InputEntry(c, r).at = InputPlace(c, r)
        /\ InputEntry(c, r).value = InputVarValue(InSlot(c, r))
        /\ OutputEntry(c, r).at = OutputPlace(c, r)
        /\ OutputEntry(c, r).value = Computed(c, InSlot(c, r))
    BY DEF InputEntry, OutputEntry
  <2>3. QED
    BY <1>4, <2>1, <2>2
<1>6. nextRow' \in Nat /\ nextRow <= nextRow'
  <2>1. \A c \in Component : Rows(c) \in Nat
    BY Ranks, RowsOf
  <2>2. Components + 1 \in 1..(Components + 1)
    BY SizeAssumption
  <2>3. QED
    BY <1>0, <2>1, <2>2, FirstRowsInOrder
<1>7. ASSUME NEW at \in DOMAIN table
      PROVE  at \in DOMAIN table' /\ table'[at] = table[at]
  <2>1. at[1] \in Nat /\ at[1] < nextRow
    BY <1>0
  <2>2. ~ \E w \in Written : w.at = at
    <3> SUFFICES ASSUME NEW w \in Written, w.at = at PROVE FALSE
      OBVIOUS
    <3>1. at[1] \in nextRow..(FirstRow[Components + 1] - 1)
      BY <1>2
    <3>2. QED
      BY <1>0, <1>6, <2>1, <3>1
  <2>3. QED
    BY <1>1, <2>2
<1>8. ASSUME NEW at \in DOMAIN table' PROVE at[1] \in Nat /\ at[1] < nextRow'
  <2>1. at \in DOMAIN table \/ \E w \in Written : w.at = at
    BY <1>1
  <2>2. CASE at \in DOMAIN table
    <3>1. at[1] \in Nat /\ at[1] < nextRow
      BY <1>0, <2>2
    <3>2. QED
      BY <1>0, <1>6, <3>1
  <2>3. CASE \E w \in Written : w.at = at
    <3>1. at[1] \in nextRow..(FirstRow[Components + 1] - 1)
      BY <1>2, <2>3
    <3>2. QED
      BY <1>0, <1>6, <3>1
  <2>4. QED
    BY <2>1, <2>2, <2>3
<1>9. QED
  BY <1>5, <1>6, <1>7, <1>8

(* The slots of a row.                                                     *)
LEMMA SlotPlace ==
    ASSUME EntriesInv, nextRow \in Nat, NEW c \in Component,
           NEW row \in FirstRow[c]..(FirstRow[c] + Rows(c) - 1), NEW slot \in 0..(Slots(c) - 1)
    PROVE  \E r \in RanksOf(c) : /\ InputPlace(c, r) = <<row, slot * Width[c]>>
                                 /\ OutputPlace(c, r) = <<row, slot * Width[c] + 1>>
<1>1. \A e \in Component : Rows(e) \in Nat
  BY Ranks, RowsOf
<1>2. PICK s \in Nat \ {0} : s = Slots(c)
  BY SlotsOf
<1>3. FirstRow[c] \in Nat
  BY <1>1, FirstRowsInOrder, SizeAssumption DEF Component
<1>4. PICK rows \in Nat : rows = Rows(c)
  BY <1>1
<1>5. PICK q \in 0..(rows - 1) : row = FirstRow[c] + q
  <2>1. row - FirstRow[c] \in 0..(rows - 1) /\ row = FirstRow[c] + (row - FirstRow[c])
    BY <1>3, <1>4
  <2>2. QED
    BY <2>1
<1>6. PICK r : r = q * s + slot
  OBVIOUS
<1>7. q \in Nat /\ slot \in 0..(s - 1)
  BY <1>2, <1>4, <1>5
<1>8. r \div s = q /\ r % s = slot
  <2>1. (q * s + slot) \div s = q /\ (q * s + slot) % s = slot
    BY ONLY <1>2, <1>7, DivisionOfSum
  <2>2. QED
    BY <1>6, <2>1
<1>9. r \in 0..(rows * s - 1)
  <2>1. q < rows => q * s + s <= rows * s
    BY <1>2, <1>4, <1>7, Multiples
  <2>2. q * s \in Nat /\ rows * s \in Nat /\ q < rows
    <3>1. q * s \in Nat
      BY ONLY <1>2, <1>7
    <3>2. rows * s \in Nat
      BY ONLY <1>2, <1>4
    <3>3. QED
      BY <1>4, <1>5, <3>1, <3>2
  <2>3. PICK x \in Nat, y \in Nat : x = q * s /\ y = rows * s
    BY <2>2
  <2>4. x + s <= y /\ r = x + slot
    BY <1>6, <2>1, <2>2, <2>3
  <2>5. r \in 0..(y - 1)
    BY <1>2, <1>7, <2>4
  <2>6. QED
    BY <2>3, <2>5
<1>10. r \in RanksOf(c)
  BY <1>2, <1>4, <1>9 DEF RanksOf
<1>11. /\ InputPlace(c, r) = <<row, slot * Width[c]>>
       /\ OutputPlace(c, r) = <<row, slot * Width[c] + 1>>
  BY <1>2, <1>5, <1>8 DEF InputPlace, OutputPlace
<1>12. QED
  BY <1>10, <1>11

(* The gate of a batch holds in every slot of the rows of a finalization,  *)
(* and goes on holding in the rows of the earlier ones.                    *)
LEMMA FinalizeKeepsTable ==
    ASSUME EntriesInv, TableInv, FinalizeComponentBatches
    PROVE  TableInv'
<1>1. /\ \A c \in Component : \A r \in RanksOf(c) :
            /\ InputPlace(c, r) \in DOMAIN table'
            /\ table'[InputPlace(c, r)] = InputVarValue(InSlot(c, r))
            /\ OutputPlace(c, r) \in DOMAIN table'
            /\ table'[OutputPlace(c, r)] = Computed(c, InSlot(c, r))
      /\ \A at \in DOMAIN table : at \in DOMAIN table' /\ table'[at] = table[at]
      /\ \A at \in DOMAIN table' : at[1] \in Nat /\ at[1] < nextRow'
      /\ nextRow' \in Nat
  BY TableAfter
<1>2. enabled' = enabled \cup
         UNION {{<<c, row>> : row \in FirstRow[c]..(FirstRow[c] + Rows(c) - 1)} : c \in Component}
  BY DEF FinalizeComponentBatches
<1>3. nextRow \in Nat
  BY DEF TableInv
<1> SUFFICES ASSUME NEW on \in enabled'
             PROVE  /\ on[1] \in Component
                    /\ \A slot \in 0..(Slots(on[1]) - 1) :
                          /\ <<on[2], slot * Width[on[1]]>> \in DOMAIN table'
                          /\ <<on[2], slot * Width[on[1]] + 1>> \in DOMAIN table'
                          /\ table'[<<on[2], slot * Width[on[1]] + 1>>] =
                                Function[on[1]][table'[<<on[2], slot * Width[on[1]]>>]]
  BY <1>1 DEF TableInv, Slots
<1>4. CASE on \in enabled
  BY <1>1, <1>4 DEF TableInv
<1>5. ASSUME NEW c \in Component, NEW row \in FirstRow[c]..(FirstRow[c] + Rows(c) - 1),
             on = <<c, row>>, NEW slot \in 0..(Slots(c) - 1)
      PROVE  /\ <<row, slot * Width[c]>> \in DOMAIN table'
             /\ <<row, slot * Width[c] + 1>> \in DOMAIN table'
             /\ table'[<<row, slot * Width[c] + 1>>] =
                   Function[c][table'[<<row, slot * Width[c]>>]]
  <2>1. PICK r \in RanksOf(c) : /\ InputPlace(c, r) = <<row, slot * Width[c]>>
                                /\ OutputPlace(c, r) = <<row, slot * Width[c] + 1>>
    BY <1>3, SlotPlace
  <2>2. Computed(c, InSlot(c, r)) = Function[c][InputVarValue(InSlot(c, r))]
    BY DEF Computed
  <2>3. QED
    BY <1>1, <2>1, <2>2
<1>6. CASE on \notin enabled
  <2>1. PICK c \in Component : on \in {<<c, row>> : row \in FirstRow[c]..(FirstRow[c] + Rows(c) - 1)}
    BY <1>2, <1>6
  <2>2. PICK row \in FirstRow[c]..(FirstRow[c] + Rows(c) - 1) : on = <<c, row>>
    BY <2>1
  <2>3. on[1] = c /\ on[2] = row
    BY <2>2
  <2>4. QED
    BY <1>5, <2>2, <2>3
<1>7. QED
  BY <1>4, <1>6

(* Every variable of the storage has a cell after a finalization, and the  *)
(* cell holds its value; so do the cells the inputs are copied to.         *)
LEMMA PlacesAfter ==
    ASSUME ValuesInv, TableInv, Complete, FinalizeComponentBatches
    PROVE  /\ \A k : k \in DOMAIN variableMap' => k \in Index \/ k \in DOMAIN variableMap
           /\ \A k \in Index : /\ k \in DOMAIN variableMap' /\ IsKnown(k)
                               /\ variableMap'[k] \in DOMAIN table'
                               /\ table'[variableMap'[k]] = storage[k]
           /\ \A c \in Component : \A i \in DOMAIN results[c] :
                 /\ InputCell(c, i) \in DOMAIN table'
                 /\ table'[InputCell(c, i)] = InputVarValue(i)
<1> DEFINE Holder(k) == CHOOSE ci \in AllInputs : results[ci[1]][ci[2]].index = k
           indices == {results[ci[1]][ci[2]].index : ci \in AllInputs}
<1>1. \A c \in Component : \A r \in RanksOf(c) :
         /\ InputPlace(c, r) \in DOMAIN table'
         /\ table'[InputPlace(c, r)] = InputVarValue(InSlot(c, r))
         /\ OutputPlace(c, r) \in DOMAIN table'
         /\ table'[OutputPlace(c, r)] = Computed(c, InSlot(c, r))
  BY TableAfter DEF ValuesInv
<1>2. variableMap' = [k \in DOMAIN variableMap \cup indices |->
                        IF k \in indices THEN OutputCell(Holder(k)[1], Holder(k)[2])
                        ELSE variableMap[k]]
  BY DEF FinalizeComponentBatches
<1>3. \A ci : ci \in AllInputs <=>
         \E c \in Component : \E i \in DOMAIN results[c] : ci = <<c, i>>
  BY DEF AllInputs
<1>4. ASSUME NEW c \in Component, NEW i \in DOMAIN results[c]
      PROVE  /\ InputCell(c, i) \in DOMAIN table'
             /\ table'[InputCell(c, i)] = InputVarValue(i)
             /\ OutputCell(c, i) \in DOMAIN table'
             /\ table'[OutputCell(c, i)] = Computed(c, i)
  <2>1. PICK r : r = Rank(c, i)
    OBVIOUS
  <2>2. r \in 0..(Amount(c) - 1) /\ InputAt(c, r) = i /\ Amount(c) \in Nat
    BY <2>1, Ranks DEF ValuesInv
  <2>3. Amount(c) <= Rows(c) * Slots(c) /\ Rows(c) * Slots(c) \in Nat
    BY <2>2, RowsOf
  <2>4. r \in RanksOf(c)
    <3>1. PICK x \in Nat : x = Rows(c) * Slots(c)
      BY <2>3
    <3>2. r \in 0..(x - 1)
      BY <2>2, <2>3, <3>1
    <3>3. QED
      BY <3>1, <3>2 DEF RanksOf
  <2>5. InSlot(c, r) = i
    BY <2>2 DEF InSlot
  <2>6. InputCell(c, i) = InputPlace(c, r) /\ OutputCell(c, i) = OutputPlace(c, r)
    BY <2>1 DEF InputCell, OutputCell, InputPlace, OutputPlace
  <2>7. QED
    BY <1>1, <2>4, <2>5, <2>6
<1>5. ASSUME NEW c \in Component, NEW i \in DOMAIN results[c]
      PROVE  /\ results[c][i].index \in indices
             /\ Holder(results[c][i].index) = <<c, i>>
             /\ results[c][i].assigned
             /\ storage[results[c][i].index] = Computed(c, i)
  <2>1. <<c, i>> \in AllInputs
    BY <1>3
  <2>2. ASSUME NEW ci \in AllInputs, results[ci[1]][ci[2]].index = results[c][i].index
        PROVE  ci = <<c, i>>
    <3>1. PICK d \in Component : \E j \in DOMAIN results[d] : ci = <<d, j>>
      BY <1>3
    <3>2. PICK j \in DOMAIN results[d] : ci = <<d, j>>
      BY <3>1
    <3>3. results[d][j].index = results[c][i].index
      BY <2>2, <3>2
    <3>4. d = c /\ j = i
      BY <3>3 DEF ValuesInv, EntriesInv
    <3>5. QED
      BY <3>2, <3>4
  <2>3. results[c][i].index \in indices
    BY <2>1
  <2>4. Holder(results[c][i].index) = <<c, i>>
    <3>1. results[<<c, i>>[1]][<<c, i>>[2]].index = results[c][i].index
      OBVIOUS
    <3>2. QED
      BY <2>1, <2>2, <3>1
  <2>5. results[c][i].assigned
    BY CompleteIsAssigned
  <2>6. storage[results[c][i].index] = Computed(c, i)
    BY <2>5 DEF ValuesInv, KnownInv
  <2>7. QED
    BY <2>3, <2>4, <2>5, <2>6
<1> HIDE DEF Holder
<1>6. \A k : k \in indices => k \in Index
  <2> SUFFICES ASSUME NEW ci \in AllInputs PROVE results[ci[1]][ci[2]].index \in Index
    OBVIOUS
  <2>1. PICK c \in Component : \E i \in DOMAIN results[c] : ci = <<c, i>>
    BY <1>3
  <2>2. PICK i \in DOMAIN results[c] : ci = <<c, i>>
    BY <2>1
  <2>3. results[c][i].index \in Index
    BY DEF ValuesInv, EntriesInv
  <2>4. QED
    BY <2>2, <2>3
<1> HIDE DEF indices
<1>7. ASSUME NEW k \in Index
      PROVE  /\ k \in DOMAIN variableMap' /\ IsKnown(k)
             /\ variableMap'[k] \in DOMAIN table'
             /\ table'[variableMap'[k]] = storage[k]
  <2>1. PICK c \in Component : \E i \in DOMAIN results[c] : results[c][i].index = k
    BY DEF ValuesInv, EntriesInv
  <2>2. PICK i \in DOMAIN results[c] : results[c][i].index = k
    BY <2>1
  <2>3. /\ k \in indices /\ Holder(k) = <<c, i>> /\ results[c][i].assigned
        /\ storage[k] = Computed(c, i)
    BY <1>5, <2>2
  <2>4. IsKnown(k)
    BY <2>2, <2>3 DEF IsKnown
  <2>5. k \in DOMAIN variableMap' /\ variableMap'[k] = OutputCell(c, i)
    BY <1>2, <2>3
  <2>6. QED
    BY <1>4, <2>3, <2>4, <2>5
<1>8. \A k : k \in DOMAIN variableMap' => k \in Index \/ k \in DOMAIN variableMap
  BY <1>2, <1>6
<1>9. QED
  BY <1>4, <1>7, <1>8

(* A finalization replaces the batch variables of all copy constraints by  *)
(* cells that hold their values.                                           *)
LEMMA FinalizeKeepsCopies ==
    ASSUME PlacementInv, Complete, FinalizeComponentBatches
    PROVE  CopiesInv'
<1> DEFINE inputCopies == {<<Cell(InputCell(ci[1], ci[2])), ci[2]>> : ci \in AllInputs}
<1>0. ValuesInv /\ TableInv /\ EntriesInv /\ AgreeInv /\ CopiesInv
  BY DEF PlacementInv, ValuesInv
<1>1. /\ \A k \in Index : /\ k \in DOMAIN variableMap' /\ IsKnown(k)
                          /\ variableMap'[k] \in DOMAIN table'
                          /\ table'[variableMap'[k]] = storage[k]
      /\ \A c \in Component : \A i \in DOMAIN results[c] :
            /\ InputCell(c, i) \in DOMAIN table'
            /\ table'[InputCell(c, i)] = InputVarValue(i)
  BY <1>0, PlacesAfter
<1>2. \A at \in DOMAIN table : at \in DOMAIN table' /\ table'[at] = table[at]
  BY <1>0, TableAfter
<1>3. /\ copies' = {Resolved(pair) : pair \in copies \cup inputCopies}
      /\ finalizedAt' = Len(script)
      /\ UNCHANGED <<script, answers, results, storage>>
  BY DEF FinalizeComponentBatches, batchVars
<1>4. \A k : IsKnown(k) => IsKnown(k)'
  BY <1>3 DEF IsKnown
<1>5. /\ Len(script) \in Nat /\ \A p \in Pass : Len(answers[p]) = Len(script)
      /\ "circuit" \in Pass
  BY <1>0 DEF Complete, AgreeInv, ScriptInv, Pass
<1>6. ASSUME NEW pair,
             \A n \in 1..2 : pair[n].kind = "batch" => pair[n].at \in DOMAIN variableMap'
      PROVE  \A n \in 1..2 : Resolved(pair)[n] =
                IF pair[n].kind = "batch" THEN Cell(variableMap'[pair[n].at]) ELSE pair[n]
  BY <1>6 DEF Resolved
<1>7. ASSUME NEW pair \in copies, Waiting(pair), NEW new, new = Resolved(pair)
      PROVE  UseHolds(new)'
  <2>1. PICK i \in 1..Len(answers["circuit"]) :
           /\ pair[1].kind = "use" /\ pair[1].at = i
           /\ pair[2].kind = "batch" /\ pair[2].at = answers["circuit"][i]
    BY <1>7 DEF Waiting
  <2>2. PICK k \in Index : k = answers["circuit"][i]
    BY <1>0, <1>5, <2>1, AnswersAreIndices
  <2>3. new[1] = pair[1] /\ new[2] = Cell(variableMap'[k])
    BY <1>1, <1>6, <1>7, <2>1, <2>2
  <2>4. Cell(variableMap'[k]).kind = "cell" /\ Cell(variableMap'[k]).at = variableMap'[k]
    BY DEF Cell
  <2>5. /\ variableMap'[k] \in DOMAIN table' /\ table'[variableMap'[k]] = storage'[k]
        /\ IsKnown(k)'
    BY <1>1, <1>3, <1>4
  <2>6. i \in 1..finalizedAt' /\ answers'["circuit"][i] = k
    BY <1>3, <1>5, <2>1, <2>2
  <2>7. IsKnown(answers["circuit"][i])'
    BY <2>5, <2>6 DEF IsKnown
  <2>8. QED
    BY <2>1, <2>3, <2>4, <2>5, <2>6, <2>7 DEF UseHolds
<1>8. ASSUME NEW pair \in copies, UseHolds(pair), NEW new, new = Resolved(pair)
      PROVE  UseHolds(new)'
  <2>1. PICK i \in 1..finalizedAt : \E at \in DOMAIN table :
           /\ pair[1].kind = "use" /\ pair[1].at = i
           /\ pair[2].kind = "cell" /\ pair[2].at = at
           /\ IsKnown(answers["circuit"][i])
           /\ table[at] = storage[answers["circuit"][i]]
    BY <1>8 DEF UseHolds
  <2>2. PICK at \in DOMAIN table :
           /\ pair[1].kind = "use" /\ pair[1].at = i
           /\ pair[2].kind = "cell" /\ pair[2].at = at
           /\ IsKnown(answers["circuit"][i])
           /\ table[at] = storage[answers["circuit"][i]]
    BY <2>1
  <2>3. new[1] = pair[1] /\ new[2] = pair[2]
    BY <1>6, <1>8, <2>2
  <2>4. i \in 1..finalizedAt'
    BY <1>0, <1>3, <1>5 DEF CopiesInv
  <2>5. at \in DOMAIN table' /\ table'[at] = storage'[answers'["circuit"][i]]
    BY <1>2, <1>3, <2>2
  <2>6. IsKnown(answers["circuit"][i])'
    BY <1>3, <2>2 DEF IsKnown
  <2>7. QED
    BY <2>2, <2>3, <2>4, <2>5, <2>6 DEF UseHolds
<1>9. ASSUME NEW pair \in copies, InputHolds(pair), NEW new, new = Resolved(pair)
      PROVE  InputHolds(new)'
  <2>1. PICK at \in DOMAIN table :
           /\ pair[1].kind = "cell" /\ pair[1].at = at
           /\ \/ /\ pair[2].kind = "input" /\ pair[2].at \in 1..Inputs
                 /\ table[at] = InputValue[pair[2].at]
              \/ /\ pair[2].kind = "cell" /\ pair[2].at \in DOMAIN table
                 /\ table[at] = table[pair[2].at]
    BY <1>9 DEF InputHolds
  <2>2. new[1] = pair[1] /\ new[2] = pair[2]
    BY <1>6, <1>9, <2>1
  <2>3. QED
    BY <1>2, <2>1, <2>2 DEF InputHolds
<1>10. ASSUME NEW pair \in inputCopies, NEW new, new = Resolved(pair)
       PROVE  InputHolds(new)'
  <2>1. PICK ci \in AllInputs : pair = <<Cell(InputCell(ci[1], ci[2])), ci[2]>>
    OBVIOUS
  <2>2. PICK c \in Component : \E i \in DOMAIN results[c] : ci = <<c, i>>
    BY DEF AllInputs
  <2>3. PICK i \in DOMAIN results[c] : ci = <<c, i>>
    BY <2>2
  <2>4. pair[1] = Cell(InputCell(c, i)) /\ pair[2] = i
    BY <2>1, <2>3
  <2>5. PICK at \in DOMAIN table' : at = InputCell(c, i) /\ table'[at] = InputVarValue(i)
    BY <1>1
  <2>6. Cell(at).kind = "cell" /\ Cell(at).at = at
    BY DEF Cell
  <2>7. i \in BatchInput
    BY <1>0 DEF EntriesInv
  <2>8. CASE i \in {Input(v) : v \in 1..Inputs}
    <3>1. i.kind = "input" /\ i.at \in 1..Inputs /\ InputVarValue(i) = InputValue[i.at]
      BY <2>8 DEF Input, InputVarValue
    <3>2. new[1] = pair[1] /\ new[2] = pair[2]
      BY <1>6, <1>10, <2>4, <2>5, <2>6, <3>1
    <3>3. QED
      BY <2>4, <2>5, <2>6, <3>1, <3>2 DEF InputHolds
  <2>9. CASE i \in {Batched(k) : k \in Index}
    <3>1. PICK k \in Index : i = Batched(k)
      BY <2>9
    <3>2. i.kind = "batch" /\ i.at = k /\ InputVarValue(i) = storage[k]
      BY <3>1 DEF Batched, InputVarValue
    <3>3. k \in DOMAIN variableMap' /\ variableMap'[k] \in DOMAIN table'
          /\ table'[variableMap'[k]] = storage[k]
      BY <1>1
    <3>4. new[1] = pair[1] /\ new[2] = Cell(variableMap'[k])
      BY <1>6, <1>10, <2>4, <2>5, <2>6, <3>2, <3>3
    <3>5. Cell(variableMap'[k]).kind = "cell" /\ Cell(variableMap'[k]).at = variableMap'[k]
      BY DEF Cell
    <3>6. QED
      BY <2>4, <2>5, <2>6, <3>2, <3>3, <3>4, <3>5 DEF InputHolds
  <2>10. QED
    BY <2>7, <2>8, <2>9 DEF BatchInput
<1>11. ASSUME NEW pair \in copies'
       PROVE  UseHolds(pair)' \/ InputHolds(pair)'
  <2>1. PICK old \in copies \cup inputCopies : pair = Resolved(old)
    BY <1>3
  <2>2. CASE old \in copies
    <3>1. Waiting(old) \/ UseHolds(old) \/ InputHolds(old)
      BY <1>0, <2>2 DEF CopiesInv
    <3>2. QED
      BY <1>7, <1>8, <1>9, <2>1, <2>2, <3>1
  <2>3. CASE old \in inputCopies
    BY <1>10, <2>1, <2>3
  <2>4. QED
    BY <2>1, <2>2, <2>3
<1>12. finalizedAt' \in Nat /\ \A p \in Pass : finalizedAt' <= Len(answers'[p])
  BY <1>3, <1>5
<1>13. QED
  BY <1>11, <1>12 DEF CopiesInv

(* A call changes no value a cell, a use or a copy constraint relies on.   *)
LEMMA AskKeepsPlacement ==
    ASSUME PlacementInv, NEW pass \in Pass, NEW request, NEW index \in Int,
           NextRequest(pass, request),
           AddInputToBatch(pass, request.component, InputOf(pass, request), index),
           answers' = [answers EXCEPT ![pass] = Append(@, index)],
           UNCHANGED tableVars,
           \/ /\ pass = "circuit" /\ uses' = uses
              /\ copies' = copies \cup {<<Use(Len(answers'["circuit"])), Batched(index)>>}
           \/ /\ pass = "assignment" /\ copies' = copies
              /\ uses' = Append(uses, storage'[index])
    PROVE  PlacementInv'
<1> DEFINE c == request.component
           input == InputOf(pass, request)
<1>1. ValuesInv /\ AgreeInv /\ EntriesInv /\ TableInv /\ PlacedInv /\ UsesInv /\ CopiesInv
  BY DEF PlacementInv, ValuesInv
<1>2. Asked(pass, request, index)
  BY <1>1, AskEffects
<1>3. ValuesInv'
  BY <1>1, AskKeepsValues
<1>4. c \in Component /\ input \in BatchInput
  BY <1>1, AskKeepsValues
<1>5. /\ Index \subseteq Index'
      /\ \A k \in Index : IsKnown(k) => IsKnown(k)' /\ storage'[k] = storage[k]
      /\ input \in DOMAIN results'[c] /\ results'[c][input].index = index
  BY <1>1, <1>4, AddInputEntries
<1>6. \A k : IsKnown(k) => k \in Index
  BY <1>1 DEF IsKnown, EntriesInv
<1>7. TableInv'
  <2>1. UNCHANGED <<table, nextRow, enabled>>
    BY DEF tableVars
  <2>2. QED
    BY <1>1, <2>1 DEF TableInv, Slots
<1>8. PlacedInv'
  <2>1. UNCHANGED <<table, variableMap>>
    BY DEF tableVars
  <2>2. ASSUME NEW k \in DOMAIN variableMap'
        PROVE  /\ k \in Index' /\ IsKnown(k)'
               /\ variableMap'[k] \in DOMAIN table'
               /\ table'[variableMap'[k]] = storage'[k]
    BY <1>1, <1>5, <2>1, <2>2 DEF PlacedInv
  <2>3. QED
    BY <2>2 DEF PlacedInv
<1>9. /\ Len(answers["assignment"]) \in Nat /\ Len(answers["circuit"]) \in Nat
      /\ "assignment" \in Pass /\ "circuit" \in Pass
  BY <1>1 DEF AgreeInv, AnswersInv, Pass
<1>10. /\ \A i \in 1..Len(answers["assignment"]) :
             /\ answers'["assignment"][i] = answers["assignment"][i]
             /\ storage'[answers["assignment"][i]] = storage[answers["assignment"][i]]
       /\ \A i \in 1..Len(answers["circuit"]) :
             /\ answers'["circuit"][i] = answers["circuit"][i]
             /\ i \in 1..Len(answers'["circuit"])
  <2>1. \A i \in 1..Len(answers["assignment"]) :
           storage'[answers["assignment"][i]] = storage[answers["assignment"][i]]
    BY <1>1, <1>5, <1>6 DEF ValuesInv, AnsweredInv
  <2>2. QED
    BY <1>2, <1>9, <2>1 DEF Asked
<1>11. UsesInv'
  <2>1. CASE pass = "circuit"
    <3>1. uses' = uses /\ Len(answers'["assignment"]) = Len(answers["assignment"])
      BY <1>2, <1>9, <2>1 DEF Asked
    <3>2. QED
      BY <1>1, <1>9, <1>10, <3>1 DEF UsesInv
  <2>2. CASE pass = "assignment"
    <3>1. /\ uses' = Append(uses, storage'[index])
          /\ Len(answers'["assignment"]) = Len(answers["assignment"]) + 1
          /\ answers'["assignment"][Len(answers["assignment"]) + 1] = index
      BY <1>2, <2>2 DEF Asked
    <3>2. index \in Index'
      BY <1>3, <1>4, <1>5 DEF ValuesInv, EntriesInv
    <3>3. storage'[index] \in Value
      BY <1>3, <3>2 DEF ValuesInv, EntriesInv, Index
    <3>4. uses \in Seq(Value) /\ Len(uses) = Len(answers["assignment"])
      BY <1>1 DEF UsesInv
    <3>5. /\ uses' \in Seq(Value) /\ Len(uses') = Len(uses) + 1
          /\ uses'[Len(uses) + 1] = storage'[index]
          /\ \A i \in 1..Len(uses) : uses'[i] = uses[i]
      BY <3>1, <3>3, <3>4
    <3>6. ASSUME NEW i \in 1..Len(uses')
          PROVE  uses'[i] = storage'[answers'["assignment"][i]]
      <4>1. CASE i = Len(uses) + 1
        BY <3>1, <3>4, <3>5, <4>1
      <4>2. CASE i \in 1..Len(uses)
        BY <1>1, <1>10, <3>4, <3>5, <4>2 DEF UsesInv
      <4>3. QED
        BY <1>9, <3>4, <3>5, <4>1, <4>2
    <3>7. QED
      BY <3>1, <3>4, <3>5, <3>6 DEF UsesInv
  <2>3. QED
    BY <2>1, <2>2 DEF Pass
<1>12. finalizedAt' = finalizedAt /\ table' = table
  BY DEF tableVars
<1>13. ASSUME NEW pair \in copies
       PROVE  (Waiting(pair) \/ UseHolds(pair) \/ InputHolds(pair))'
  <2>1. CASE Waiting(pair)
    <3>1. PICK i \in 1..Len(answers["circuit"]) :
             /\ finalizedAt < i
             /\ pair[1].kind = "use" /\ pair[1].at = i
             /\ pair[2].kind = "batch" /\ pair[2].at = answers["circuit"][i]
      BY <2>1 DEF Waiting
    <3>2. QED
      BY <1>10, <1>12, <3>1 DEF Waiting
  <2>2. CASE UseHolds(pair)
    <3>1. PICK i \in 1..finalizedAt : \E at \in DOMAIN table :
             /\ pair[1].kind = "use" /\ pair[1].at = i
             /\ pair[2].kind = "cell" /\ pair[2].at = at
             /\ IsKnown(answers["circuit"][i])
             /\ table[at] = storage[answers["circuit"][i]]
      BY <2>2 DEF UseHolds
    <3>2. PICK k \in Index : k = answers["circuit"][i]
      BY <1>6, <3>1
    <3>3. IsKnown(k)' /\ storage'[k] = storage[k]
      BY <1>5, <3>1, <3>2
    <3>4. answers'["circuit"][i] = k
      BY <1>1, <1>9, <1>10, <3>2 DEF CopiesInv
    <3>5. IsKnown(answers["circuit"][i])'
      BY <3>3, <3>4 DEF IsKnown
    <3>6. QED
      BY <1>12, <3>1, <3>2, <3>3, <3>4, <3>5 DEF UseHolds
  <2>3. CASE InputHolds(pair)
    BY <1>12, <2>3 DEF InputHolds
  <2>4. QED
    BY <1>1, <2>1, <2>2, <2>3 DEF CopiesInv
<1>14. ASSUME NEW pair \in copies', pair \notin copies PROVE Waiting(pair)'
  <2>1. pass = "circuit" /\ pair = <<Use(Len(answers'["circuit"])), Batched(index)>>
    BY <1>14
  <2>2. PICK i \in 1..Len(answers'["circuit"]) :
           /\ i = Len(answers["circuit"]) + 1 /\ i = Len(answers'["circuit"])
           /\ answers'["circuit"][i] = index
    BY <1>2, <1>9, <2>1 DEF Asked
  <2>3. finalizedAt < i
    BY <1>1, <1>9, <2>2 DEF CopiesInv
  <2>4. /\ pair[1].kind = "use" /\ pair[1].at = i
        /\ pair[2].kind = "batch" /\ pair[2].at = index
    BY <2>1, <2>2 DEF Use, Batched
  <2>5. QED
    BY <1>12, <2>2, <2>3, <2>4 DEF Waiting
<1>15. CopiesInv'
  <2>1. ASSUME NEW p \in Pass PROVE finalizedAt' <= Len(answers'[p])
    <3>1. Len(answers[p]) \in Nat /\ Len(answers[pass]) \in Nat
      BY <1>1 DEF AgreeInv, AnswersInv
    <3>2. Len(answers'[p]) = Len(answers[p]) \/ Len(answers'[p]) = Len(answers[p]) + 1
      BY <1>2 DEF Asked
    <3>3. finalizedAt <= Len(answers[p]) /\ finalizedAt \in Nat
      BY <1>1 DEF CopiesInv
    <3>4. QED
      BY <1>12, <3>1, <3>2, <3>3
  <2>2. finalizedAt' \in Nat
    BY <1>1, <1>12 DEF CopiesInv
  <2>3. QED
    BY <1>13, <1>14, <2>1, <2>2 DEF CopiesInv
<1>16. QED
  BY <1>3, <1>7, <1>8, <1>11, <1>15 DEF PlacementInv

LEMMA PlacementInvInit == Init => PlacementInv
<1> SUFFICES ASSUME Init PROVE PlacementInv
  OBVIOUS
<1>1. ValuesInv
  BY ValuesInvInit
<1>2. TableInv /\ PlacedInv
  BY DEF Init, TableInv, PlacedInv, NoEntries
<1>3. answers = [p \in Pass |-> <<>>] /\ uses = <<>> /\ copies = {} /\ finalizedAt = 0
  BY DEF Init
<1>4. \A p \in Pass : Len(answers[p]) = 0
  BY <1>3
<1>5. UsesInv
  BY <1>3, <1>4 DEF UsesInv, Pass
<1>6. CopiesInv
  BY <1>3, <1>4 DEF CopiesInv
<1>7. QED
  BY <1>1, <1>2, <1>5, <1>6 DEF PlacementInv

LEMMA PlacementInvStep == PlacementInv /\ [Next]_vars => PlacementInv'
<1> SUFFICES ASSUME PlacementInv, [Next]_vars PROVE PlacementInv'
  OBVIOUS
<1>0. ValuesInv /\ TableInv /\ PlacedInv /\ UsesInv /\ CopiesInv
  BY DEF PlacementInv
<1>1. ASSUME NEW request, NEW index \in 0..MaxRequests, AskFromCircuit(request, index)
      PROVE  PlacementInv'
  <2>1. "circuit" \in Pass /\ index \in Int
    BY SizeAssumption DEF Pass
  <2>2. QED
    BY <1>1, <2>1, AskKeepsPlacement DEF AskFromCircuit
<1>2. ASSUME NEW request, NEW index \in 0..MaxRequests, AskFromAssignment(request, index)
      PROVE  PlacementInv'
  <2>1. "assignment" \in Pass /\ index \in Int
    BY SizeAssumption DEF Pass
  <2>2. QED
    BY <1>2, <2>1, AskKeepsPlacement DEF AskFromAssignment
<1>3. ASSUME Complete, FinalizeComponentBatches PROVE PlacementInv'
  <2>1. UNCHANGED <<script, answers, results, storage, uses>>
    BY <1>3 DEF FinalizeComponentBatches, batchVars
  <2>2. ValuesInv'
    BY <1>0, <2>1, ValuesInvKept
  <2>3. TableInv'
    BY <1>0, <1>3, FinalizeKeepsTable DEF ValuesInv
  <2>4. PlacedInv'
    <3>1. /\ \A k : k \in DOMAIN variableMap' => k \in Index \/ k \in DOMAIN variableMap
          /\ \A k \in Index : /\ k \in DOMAIN variableMap' /\ IsKnown(k)
                              /\ variableMap'[k] \in DOMAIN table'
                              /\ table'[variableMap'[k]] = storage[k]
      BY <1>0, <1>3, PlacesAfter
    <3>2. Index' = Index /\ \A k : IsKnown(k) => IsKnown(k)'
      BY <2>1 DEF Index, IsKnown
    <3>3. ASSUME NEW k \in DOMAIN variableMap'
          PROVE  /\ k \in Index' /\ IsKnown(k)'
                 /\ variableMap'[k] \in DOMAIN table'
                 /\ table'[variableMap'[k]] = storage'[k]
      BY <1>0, <2>1, <3>1, <3>2 DEF PlacedInv
    <3>4. QED
      BY <3>3 DEF PlacedInv
  <2>5. UsesInv'
    BY <1>0, <2>1 DEF UsesInv
  <2>6. CopiesInv'
    BY <1>3, FinalizeKeepsCopies
  <2>7. QED
    BY <2>2, <2>3, <2>4, <2>5, <2>6 DEF PlacementInv
<1>4. CASE UNCHANGED vars
  <2>1. UNCHANGED <<script, answers, results, storage, uses, copies, table, enabled,
                    variableMap, nextRow, finalizedAt>>
    BY <1>4 DEF vars, batchVars, tableVars
  <2>2. ValuesInv'
    BY <1>0, <2>1, ValuesInvKept
  <2>3. TableInv' /\ UsesInv'
    BY <1>0, <2>1 DEF TableInv, UsesInv, Slots
  <2>4. PlacedInv'
    BY <1>0, <2>1 DEF PlacedInv, Index, IsKnown
  <2>5. CopiesInv'
    BY <1>0, <2>1 DEF CopiesInv, Waiting, UseHolds, InputHolds, IsKnown
  <2>6. QED
    BY <2>2, <2>3, <2>4, <2>5 DEF PlacementInv
<1>5. QED
  BY <1>0, <1>1, <1>2, <1>3, <1>4, StepCases

LEMMA PlacementSatisfies == PlacementInv => CircuitSatisfied
<1> SUFFICES ASSUME PlacementInv, Settled PROVE CircuitSatisfied
  BY DEF CircuitSatisfied
<1>0. ValuesInv /\ AgreeInv /\ TableInv /\ UsesInv /\ CopiesInv
  BY DEF PlacementInv, ValuesInv
<1>1. /\ finalizedAt = Len(script) /\ Len(script) \in Nat
      /\ "circuit" \in Pass /\ "assignment" \in Pass
      /\ \A p \in Pass : /\ Len(answers[p]) \in Nat /\ Len(answers[p]) <= Len(script)
                         /\ Len(answers[p]) <= MaxRequests
                         /\ finalizedAt <= Len(answers[p])
  BY <1>0 DEF Settled, AgreeInv, ScriptInv, AnswersInv, Pass, CopiesInv
<1>2. ASSUME NEW pair \in copies
      PROVE  /\ pair[1].kind # "batch" /\ pair[2].kind # "batch"
             /\ ValueAt(pair[1]) = ValueAt(pair[2])
  <2>1. ~Waiting(pair)
    BY <1>1 DEF Waiting
  <2>2. CASE UseHolds(pair)
    <3>1. PICK i \in 1..finalizedAt : \E at \in DOMAIN table :
             /\ pair[1].kind = "use" /\ pair[1].at = i
             /\ pair[2].kind = "cell" /\ pair[2].at = at
             /\ table[at] = storage[answers["circuit"][i]]
      BY <2>2 DEF UseHolds
    <3>2. i \in 1..MaxRequests /\ i <= Len(answers["circuit"]) /\ i <= Len(answers["assignment"])
      BY <1>1, SizeAssumption
    <3>3. answers["circuit"][i] = answers["assignment"][i]
      BY <1>0, <3>2 DEF AgreeInv, PassesAgree
    <3>4. uses[i] = storage[answers["assignment"][i]]
      BY <1>0, <1>1, <3>2 DEF UsesInv
    <3>5. QED
      BY <3>1, <3>3, <3>4 DEF ValueAt
  <2>3. CASE InputHolds(pair)
    BY <2>3 DEF InputHolds, ValueAt
  <2>4. QED
    BY <1>0, <2>1, <2>2, <2>3 DEF CopiesInv
<1>3. ASSUME NEW on \in enabled, NEW slot \in 0..(Slots(on[1]) - 1)
      PROVE  CellValue(<<on[2], slot * Width[on[1]] + 1>>) =
                 Function[on[1]][CellValue(<<on[2], slot * Width[on[1]]>>)]
  BY <1>0 DEF TableInv, CellValue
<1>4. QED
  BY <1>2, <1>3 DEF CircuitSatisfied

(* After a finalization that follows both complete passes, all copy        *)
(* constraints and all gates of the batches hold, for every number of      *)
(* requests and every way the two passes interleave.                       *)
THEOREM FinalizationSatisfies == Spec => []CircuitSatisfied
  BY PlacementInvInit, PlacementInvStep, PlacementSatisfies, PTL DEF Spec

(* A finalization writes no cell an earlier one has written.               *)
THEOREM FinalizationKeepsRows == Spec => EarlierRowsKept
<1>1. PlacementInv /\ [Next]_vars => \A at \in DOMAIN table : table'[at] = table[at]
  <2> SUFFICES ASSUME PlacementInv, [Next]_vars
               PROVE  \A at \in DOMAIN table : table'[at] = table[at]
    OBVIOUS
  <2>1. ValuesInv /\ TableInv /\ EntriesInv
    BY DEF PlacementInv, ValuesInv
  <2>2. UNCHANGED table \/ FinalizeComponentBatches
    BY <2>1, StepCases DEF AskFromCircuit, AskFromAssignment, tableVars, vars
  <2>3. QED
    BY <2>1, <2>2, TableAfter
<1>2. QED
  BY <1>1, PlacementInvInit, PlacementInvStep, PTL DEF Spec, EarlierRowsKept

-----------------------------------------------------------------------------
(* The promise *)

KnownVariables ==
    {results[ci[1]][ci[2]].index : ci \in {d \in AllInputs : results[d[1]][d[2]].assigned}}
KnownValues == [k \in KnownVariables |-> storage[k]]
PlacedValues == [k \in DOMAIN variableMap |-> table[variableMap[k]]]

LEMMA KnownVariablesAre == \A k : k \in KnownVariables <=> IsKnown(k)
<1> TAKE k
<1>1. ASSUME k \in KnownVariables PROVE IsKnown(k)
  <2>1. PICK ci \in AllInputs : results[ci[1]][ci[2]].assigned /\ results[ci[1]][ci[2]].index = k
    BY <1>1 DEF KnownVariables
  <2>2. ci[1] \in Component /\ ci[2] \in DOMAIN results[ci[1]]
    BY <2>1 DEF AllInputs
  <2>3. QED
    BY <2>1, <2>2 DEF IsKnown
<1>2. ASSUME IsKnown(k) PROVE k \in KnownVariables
  <2>1. PICK c \in Component : \E i \in DOMAIN results[c] :
           results[c][i].index = k /\ results[c][i].assigned
    BY <1>2 DEF IsKnown
  <2>2. PICK i \in DOMAIN results[c] : results[c][i].index = k /\ results[c][i].assigned
    BY <2>1
  <2>3. PICK ci : ci = <<c, i>>
    OBVIOUS
  <2>4. ci \in AllInputs /\ ci[1] = c /\ ci[2] = i
    BY <2>3 DEF AllInputs
  <2>5. QED
    BY <2>2, <2>4 DEF KnownVariables
<1>3. QED
  BY <1>1, <1>2

(* The storage grows by the index of a new entry only.                     *)
LEMMA AddInputIndex ==
    ASSUME EntriesInv, NEW pass \in Pass, NEW c \in Component, NEW input, NEW index,
           AddInputToBatch(pass, c, input, index)
    PROVE  Index' = Index \cup {index}
<1>0. Len(storage) \in Nat /\ storage \in Seq(Value)
  BY DEF EntriesInv
<1>1. CASE Reused(pass, c, input, index)
  <2>1. index \in Index
    BY <1>1 DEF Reused, EntriesInv
  <2>2. QED
    BY <1>1, <2>1 DEF Reused, Index
<1>2. CASE Added(pass, c, input, index)
  BY <1>0, <1>2 DEF Added, Index
<1>3. CASE Filled(pass, c, input, index)
  <2>1. index \in Index
    BY <1>3 DEF Filled, EntriesInv
  <2>2. Len(storage') = Len(storage)
    BY <1>0, <1>3 DEF Filled
  <2>3. QED
    BY <2>1, <2>2 DEF Index
<1>4. QED
  BY <1>1, <1>2, <1>3, AddInputCases

(* A call gives out a new variable, learns the value of one given out, or  *)
(* changes nothing a caller can tell.                                      *)
LEMMA AskIsPromised ==
    ASSUME PlacementInv, NEW pass \in Pass, NEW request, NEW index \in 0..MaxRequests,
           NextRequest(pass, request),
           AddInputToBatch(pass, request.component, InputOf(pass, request), index),
           answers' = [answers EXCEPT ![pass] = Append(@, index)],
           UNCHANGED tableVars
    PROVE  [Promise!Next]_(Promise!vars)
<1> DEFINE c == request.component
           input == InputOf(pass, request)
<1>1. ValuesInv /\ EntriesInv /\ index \in Int
  BY SizeAssumption DEF PlacementInv, ValuesInv
<1>2. /\ c \in Component /\ input \in BatchInput /\ ValuesInv'
  BY <1>1, AskKeepsValues
<1>3. /\ EntriesInv'
      /\ input \in DOMAIN results'[c] /\ results'[c][input].index = index
      /\ pass = "assignment" => results'[c][input].assigned
      /\ \A d \in Component : \A i \in DOMAIN results'[d] :
            i \in DOMAIN results[d] \/ (d = c /\ i = input)
      /\ \A d \in Component : \A i \in DOMAIN results[d] :
            results'[d][i].index = results[d][i].index
      /\ \A k \in Index : IsKnown(k) => IsKnown(k)' /\ storage'[k] = storage[k]
      /\ \A d \in Component : \A i \in DOMAIN results'[d] :
            results'[d][i].assigned =>
               \/ i \in DOMAIN results[d] /\ results[d][i].assigned
               \/ d = c /\ i = input /\ pass = "assignment"
  BY <1>1, <1>2, AddInputEntries
<1>4. Index' = Index \cup {index}
  BY <1>1, <1>2, AddInputIndex
<1>5. \A k : IsKnown(k) => k \in Index
  BY <1>1 DEF IsKnown, EntriesInv
<1>6. (\A k : k \in KnownVariables <=> IsKnown(k))'
  BY KnownVariablesAre, PTL
<1>7. \A k : IsKnown(k)' <=> IsKnown(k) \/ (k = index /\ pass = "assignment")
  <2> SUFFICES ASSUME NEW k
               PROVE  IsKnown(k)' <=> IsKnown(k) \/ (k = index /\ pass = "assignment")
    OBVIOUS
  <2>1. IsKnown(k) => IsKnown(k)'
    BY <1>3, <1>5
  <2>2. pass = "assignment" => IsKnown(index)'
    BY <1>2, <1>3 DEF IsKnown
  <2>3. ASSUME IsKnown(k)', ~IsKnown(k) PROVE k = index /\ pass = "assignment"
    <3>1. PICK d \in Component : \E i \in DOMAIN results'[d] :
             results'[d][i].index = k /\ results'[d][i].assigned
      BY <2>3 DEF IsKnown
    <3>2. PICK i \in DOMAIN results'[d] : results'[d][i].index = k /\ results'[d][i].assigned
      BY <3>1
    <3>3. CASE i \in DOMAIN results[d] /\ results[d][i].assigned
      <4>1. results[d][i].index = k
        BY <1>3, <3>2, <3>3
      <4>2. QED
        BY <2>3, <3>3, <4>1 DEF IsKnown
    <3>4. CASE d = c /\ i = input /\ pass = "assignment"
      BY <1>3, <3>2, <3>4
    <3>5. QED
      BY <1>3, <3>2, <3>3, <3>4
  <2>4. k = index /\ pass = "assignment" => IsKnown(k)'
    BY <2>2 DEF IsKnown
  <2>5. QED
    BY <2>1, <2>3, <2>4
<1>8. PlacedValues' = PlacedValues
  BY DEF PlacedValues, tableVars
<1>9. KnownValues' = [k \in KnownVariables' |-> storage'[k]]
  BY DEF KnownValues
<1>10. \A k \in KnownVariables : storage'[k] = storage[k]
  BY <1>3, <1>5, KnownVariablesAre
<1>11. CASE pass = "assignment" => IsKnown(index)
  <2>1. KnownVariables' = KnownVariables
    BY <1>6, <1>7, <1>11, KnownVariablesAre
  <2>2. KnownValues' = KnownValues
    BY <1>9, <1>10, <2>1 DEF KnownValues
  <2>3. CASE index \in Index
    <3>1. Index' = Index
      BY <1>4, <2>3
    <3>2. QED
      BY <1>8, <2>2, <3>1 DEF Promise!vars, KnownValues, KnownVariables, PlacedValues
  <2>4. CASE index \notin Index
    <3>1. index \in 1..MaxRequests
      BY <1>2, <1>3, <1>4 DEF EntriesInv, Index
    <3>2. Promise!Give(index)
      BY <1>4, <1>8, <2>2, <2>4
         DEF Promise!Give, KnownValues, KnownVariables, PlacedValues
    <3>3. QED
      BY <3>1, <3>2 DEF Promise!Next
  <2>5. QED
    BY <2>3, <2>4
<1>12. CASE pass = "assignment" /\ ~IsKnown(index)
  <2>1. KnownVariables' = KnownVariables \cup {index} /\ index \notin KnownVariables
    BY <1>6, <1>7, <1>12, KnownVariablesAre
  <2>2. index \in Index' /\ storage'[index] \in Value
    BY <1>3, <1>4 DEF EntriesInv, Index
  <2>3. KnownValues' = [j \in KnownVariables \cup {index} |->
                          IF j = index THEN storage'[index] ELSE KnownValues[j]]
    BY <1>9, <1>10, <2>1 DEF KnownValues
  <2>4. KnownValues' = Promise!With(KnownValues, index, storage'[index])
    BY <2>3 DEF Promise!With, KnownValues
  <2>5. \E v \in Value : KnownValues' = Promise!With(KnownValues, index, v)
    BY <2>2, <2>4
  <2>6. CASE index \in Index
    <3>1. Index' = Index
      BY <1>4, <2>6
    <3>2. index \in Index \ DOMAIN KnownValues
      BY <2>1, <2>6 DEF KnownValues
    <3>3. Promise!Learn(index)
      BY <1>8, <2>5, <3>1, <3>2
         DEF Promise!Learn, KnownValues, KnownVariables, PlacedValues
    <3>4. QED
      BY <2>6, <3>3 DEF Promise!Next
  <2>7. CASE index \notin Index
    <3>1. index \in 1..MaxRequests
      BY <1>2, <1>3, <1>4 DEF EntriesInv, Index
    <3>2. Promise!Give(index)
      BY <1>4, <1>8, <2>5, <2>7
         DEF Promise!Give, KnownValues, KnownVariables, PlacedValues
    <3>3. QED
      BY <3>1, <3>2 DEF Promise!Next
  <2>8. QED
    BY <2>6, <2>7
<1>13. QED
  BY <1>11, <1>12

(* A finalization places every variable given out, with its value.         *)
LEMMA FinalizeIsPromised ==
    ASSUME PlacementInv, Complete, FinalizeComponentBatches
    PROVE  Promise!Place
<1>0. ValuesInv /\ TableInv /\ PlacedInv
  BY DEF PlacementInv
<1>1. UNCHANGED <<results, storage>>
  BY DEF FinalizeComponentBatches, batchVars
<1>2. /\ \A k : k \in DOMAIN variableMap' => k \in Index \/ k \in DOMAIN variableMap
      /\ \A k \in Index : /\ k \in DOMAIN variableMap' /\ IsKnown(k)
                          /\ table'[variableMap'[k]] = storage[k]
  BY <1>0, PlacesAfter
<1>3. DOMAIN variableMap' = Index
  BY <1>0, <1>2 DEF PlacedInv
<1>4. KnownVariables = Index
  <2>1. \A k : IsKnown(k) => k \in Index
    BY <1>0 DEF IsKnown, ValuesInv, EntriesInv
  <2>2. \A k : k \in KnownVariables <=> k \in Index
    BY <1>2, <2>1, KnownVariablesAre
  <2>3. QED
    BY <2>2
<1>5. Index' = Index /\ KnownValues' = KnownValues /\ DOMAIN KnownValues = Index
  BY <1>1, <1>4 DEF Index, KnownValues, KnownVariables, AllInputs
<1>6. PlacedValues' = KnownValues
  BY <1>2, <1>3, <1>4 DEF PlacedValues, KnownValues
<1>7. QED
  BY <1>5, <1>6 DEF Promise!Place, KnownValues, KnownVariables, PlacedValues

(* The batches keep what BatchPromise promises: a variable is given out    *)
(* once, its value becomes known once and never changes, and a             *)
(* finalization places every variable that was given out.                  *)
THEOREM BatchesKeepPromise == Spec => KeepsPromise
<1>1. Init => Promise!Init
  <2> SUFFICES ASSUME Init PROVE Promise!Init
    OBVIOUS
  <2>1. storage = <<>> /\ results = [c \in Component |-> NoEntries] /\ variableMap = NoEntries
    BY DEF Init
  <2>2. Index = {}
    BY <2>1 DEF Index
  <2>3. \A c \in Component : DOMAIN results[c] = {}
    BY <2>1 DEF NoEntries
  <2>4. \A k : ~IsKnown(k)
    BY <2>3 DEF IsKnown
  <2>5. KnownVariables = {}
    BY <2>4, KnownVariablesAre
  <2>6. KnownValues = [k \in {} |-> 0]
    BY <2>5 DEF KnownValues
  <2>7. PlacedValues = [k \in {} |-> 0]
    BY <2>1 DEF PlacedValues, NoEntries
  <2>8. QED
    BY <2>2, <2>6, <2>7 DEF Promise!Init, KnownValues, KnownVariables, PlacedValues
<1>2. PlacementInv /\ [Next]_vars => [Promise!Next]_(Promise!vars)
  <2> SUFFICES ASSUME PlacementInv, [Next]_vars PROVE [Promise!Next]_(Promise!vars)
    OBVIOUS
  <2>1. ASSUME NEW request, NEW index \in 0..MaxRequests, AskFromCircuit(request, index)
        PROVE  [Promise!Next]_(Promise!vars)
    <3>1. "circuit" \in Pass
      BY DEF Pass
    <3>2. QED
      BY <2>1, <3>1, AskIsPromised DEF AskFromCircuit
  <2>2. ASSUME NEW request, NEW index \in 0..MaxRequests, AskFromAssignment(request, index)
        PROVE  [Promise!Next]_(Promise!vars)
    <3>1. "assignment" \in Pass
      BY DEF Pass
    <3>2. QED
      BY <2>2, <3>1, AskIsPromised DEF AskFromAssignment
  <2>3. CASE Complete /\ FinalizeComponentBatches
    BY <2>3, FinalizeIsPromised DEF Promise!Next
  <2>4. CASE UNCHANGED vars
    <3>1. UNCHANGED <<results, storage, table, variableMap>>
      BY <2>4 DEF vars, batchVars, tableVars
    <3>2. QED
      BY <3>1 DEF Promise!vars, Index, AllInputs
  <2>5. QED
    BY <2>1, <2>2, <2>3, <2>4, StepCases DEF PlacementInv
<1>3. QED
  BY <1>1, <1>2, PlacementInvInit, PlacementInvStep, PTL DEF Spec, KeepsPromise, Promise!Spec
=============================================================================
