------------------------------- MODULE MCZkevm -------------------------------
(* The zkEVM circuit, its bytecode table and its opcodes, one at a time:   *)
(* they share no state here.  The circuit's opcodes have one, three, three *)
(* and four rows (ISZERO, ADD, SUB and DIV in the source) and one is not   *)
(* implemented; the bytecode has opcodes that push nothing and two bytes   *)
(* and a byte that is none; words have seven chunks of one bit, or four    *)
(* limbs of three values.                                                  *)
EXTENDS ZkevmCircuit, ZkevmBytecode, ZkevmOperations

VARIABLE part

MCHeight == [op \in 1..4 |-> CASE op = 1 -> 1 [] op = 4 -> 4 [] OTHER -> 3]
MCGateRow == [op \in 1..4 |-> CASE op = 1 -> {0} [] op = 4 -> {2, 1} [] OTHER -> {1}]
MCPush == [b \in {0, 2} |-> b]

ZkevmInit ==
    /\ part \in {"circuit", "bytecode", "operations"}
    /\ Init /\ BytecodeInit /\ OperationsInit
    /\ part # "circuit" => author = "circuit"
    /\ part # "bytecode" => writer = "component"
    /\ part # "operations" => stack = <<0, 0>>

ElseThanCircuit == UNCHANGED <<part, bytecodeVars, operationVars>>

ZkevmNext ==
    \/ \E op \in Implemented : part = "circuit" /\ AssignOpcode(op) /\ ElseThanCircuit
    \/ \E tried \in RowTried : part = "circuit" /\ AnyRow(tried) /\ ElseThanCircuit
    \/ \E count \in Field :
          part = "circuit" /\ Finalize([EmptyRow EXCEPT !.count = count]) /\ ElseThanCircuit
    \/ part = "bytecode" /\ BytecodeNext /\ UNCHANGED <<part, vars, operationVars>>
    \/ part = "operations" /\ OperationsNext /\ UNCHANGED <<part, vars, bytecodeVars>>

ZkevmSpec == ZkevmInit /\ [][ZkevmNext]_<<part, vars, bytecodeVars, operationVars>>

-----------------------------------------------------------------------------
(* The tables and rows that the zkEVM code writes itself satisfy the       *)
(* constraints it puts on them: any sequence of opcodes in the circuit,    *)
(* any contracts in the bytecode table, any operands of an opcode.         *)
WhatIsWrittenIsAccepted == HonestAccepted /\ AssignedAccepted /\ OperationsAccepted
=============================================================================
