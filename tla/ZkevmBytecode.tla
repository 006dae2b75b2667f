----------------------------- MODULE ZkevmBytecode -----------------------------
(***************************************************************************)
(* The table of contract bytecodes (include/nil/blueprint/zkevm/           *)
(* bytecode.hpp): the dynamic table zkevm_bytecode with its header and     *)
(* byte rows, and the columns zkevm_bytecode adds to constrain it.         *)
(*                                                                         *)
(* The table is written by generate_assignments, contract by contract, or  *)
(* by anyone, row by row, as long as the constraints and lookups accept    *)
(* it.  Both halves of the hash are one value.  Bytes are opcodes with the *)
(* number of data bytes they push; a byte in no table is no opcode.        *)
(***************************************************************************)
EXTENDS Integers, Sequences, FiniteSets

CONSTANTS
    Modulus,   \* the size of the field
    Byte,      \* the values of byte_range_table
    PushSize,  \* the opcodes of zkevm_opcodes, with their push size
    Hash,      \* hashes that are tried
    Challenge, \* values of rlc_challenge that are tried
    MaxHeader, \* bound on the headers of a table anyone writes
    MaxCode,   \* bound on the bytes of a contract
    MaxTable   \* bound on the rows

Element == 0..(Modulus - 1)

ASSUME ModulusAssumption ==
    /\ Modulus \in Nat /\ Modulus > 2
    /\ \A x \in Element \ {0} : \E y \in Element : (x * y) % Modulus = 1
ASSUME TableAssumption == MaxTable \in 1..Modulus
ASSUME ByteAssumption ==
    /\ 0 \in Byte /\ Byte \subseteq Element
    /\ DOMAIN PushSize \subseteq Byte /\ \A b \in DOMAIN PushSize : PushSize[b] \in Element
    /\ Hash \subseteq Element /\ Challenge \subseteq Element

VARIABLES
    table,  \* the rows of the table
    writer  \* "component" when generate_assignments writes, else "anyone"

bytecodeVars == <<table, writer>>

M(x) == x % Modulus

(* A row that nobody writes.                                               *)
Unused == [tag |-> 0, index |-> 0, value |-> 0, isOpcode |-> 0, pushSize |-> 0,
           lengthLeft |-> 0, hash |-> 0, rlc |-> 0, challenge |-> 0]

Before(t, r) == IF r = 1 THEN Unused ELSE t[r - 1]
After(t, r) == IF r = Len(t) THEN Unused ELSE t[r + 1]

-----------------------------------------------------------------------------
(* The constraints, by column: those on a row and the one before it,       *)

TagHolds(row) == M(row.tag * (row.tag - 1)) = 0
IndexHolds(row) == M((row.tag - 1) * row.index) = 0
LengthHolds(row) == M((row.tag - 1) * (row.lengthLeft - row.value)) = 0
OpcodeHolds(row) ==
    M(row.isOpcode * (row.isOpcode - 1)) = 0 /\ M((row.tag - 1) * row.isOpcode) = 0
RlcHolds(prev, row) ==
    /\ M((row.tag - 1) * row.rlc) = 0
    /\ M(row.tag * (row.rlc - prev.rlc * row.challenge - row.value)) = 0
    /\ M(row.tag * (row.challenge - prev.challenge)) = 0

(* and those that read the next row.                                       *)

IndexFollows(row, next) ==
    /\ M((row.tag - 1) * next.index) = 0
    /\ M(row.tag * next.tag * (next.index - row.index - 1)) = 0

(* Mutant: a contract may end before its length is used up.                *)
LengthFollowsOpenEnded(row, next) ==
    M(next.tag * (row.lengthLeft - next.lengthLeft - 1)) = 0

LengthFollows(row, next) ==
    /\ M(next.tag * (row.lengthLeft - next.lengthLeft - 1)) = 0
    /\ M(row.tag * (next.tag - 1) * row.lengthLeft) = 0

OpcodeFollows(row, next) ==
    /\ M((row.tag - 1) * next.tag * (next.isOpcode - 1)) = 0
    /\ M(next.isOpcode * row.pushSize) = 0
    /\ M(next.tag * (next.isOpcode - 1) * (row.pushSize - next.pushSize - 1)) = 0

HashFollows(row, next) == M(next.tag * (row.hash - next.hash)) = 0

RlcFollows(prev, row, next) ==
    M((row.tag - 1) * prev.tag * next.tag * (row.challenge - prev.challenge)) = 0

(* The lookups: the byte of a byte row is in range, an opcode is in the    *)
(* table of opcodes with its push size; the last row of that table is the  *)
(* one of rows that have no opcode.                                        *)
LookupsHold(row) ==
    /\ M(row.tag * row.value) \in Byte
    /\ <<M(row.value * row.isOpcode), M(row.pushSize * row.isOpcode), row.isOpcode>> \in
          {<<b, PushSize[b], 1>> : b \in DOMAIN PushSize} \cup {<<0, 0, 0>>}

RowAccepted(prev, row, next) ==
    /\ TagHolds(row) /\ IndexHolds(row) /\ LengthHolds(row) /\ OpcodeHolds(row)
    /\ RlcHolds(prev, row) /\ LookupsHold(row)
    /\ IndexFollows(row, next) /\ LengthFollows(row, next) /\ OpcodeFollows(row, next)
    /\ HashFollows(row, next) /\ RlcFollows(prev, row, next)

TableAccepted(t) == \A r \in DOMAIN t : RowAccepted(Before(t, r), t[r], After(t, r))

-----------------------------------------------------------------------------
(* The assignments *)

(* How many bytes of data are still to come after byte j of the code, and  *)
(* whether it is an opcode: byte 0 is the header.                          *)
PushesOf(b) == IF b \in DOMAIN PushSize THEN PushSize[b] ELSE 0
PushLeft(code) ==
    LET left[j \in 0..Len(code)] ==
          IF j = 0 THEN 0
          ELSE IF left[j - 1] = 0 THEN PushesOf(code[j]) ELSE left[j - 1] - 1
    IN left
IsOpcode(code, j) == j > 0 /\ PushLeft(code)[j - 1] = 0
Rlc(code, challenge) ==
    LET rlc[j \in 0..Len(code)] ==
          IF j = 0 THEN 0 ELSE M(rlc[j - 1] * challenge + code[j])
    IN rlc

(* The rows of one contract: the header carries the length.                *)
ContractRows(code, hash, challenge) ==
    [i \in 1..(Len(code) + 1) |-> LET j == i - 1 IN
        [tag |-> IF j = 0 THEN 0 ELSE 1, index |-> IF j = 0 THEN 0 ELSE j - 1,
         value |-> IF j = 0 THEN Len(code) ELSE code[j],
         isOpcode |-> IF IsOpcode(code, j) THEN 1 ELSE 0,
         pushSize |-> PushLeft(code)[j], lengthLeft |-> Len(code) - j,
         hash |-> hash, rlc |-> Rlc(code, challenge)[j], challenge |-> challenge]]

BytecodeInit == table = <<>> /\ writer \in {"component", "anyone"}

(* generate_assignments, for one contract of the input.                    *)
AssignContract(code, hash, challenge) ==
    /\ writer = "component"
    /\ Len(table) + Len(code) + 1 <= MaxTable
    /\ \A r \in DOMAIN table : table[r].challenge = challenge
    /\ table' = table \o ContractRows(code, hash, challenge)
    /\ UNCHANGED writer

Try(rs, f, S) == {[row EXCEPT ![f] = x] : row \in rs, x \in S}

(* Any row, so long as it is accepted after the rows before it; the        *)
(* columns are filled one by one.  A table that begins within a contract   *)
(* has no contract there, so the first row is a header.                    *)
AnyTableRow ==
    /\ writer = "anyone" /\ Len(table) < MaxTable
    /\ LET first == table = <<>>
           last == IF first THEN Unused ELSE table[Len(table)]
           before == IF Len(table) < 2 THEN Unused ELSE table[Len(table) - 1]
           headers == Cardinality({r \in DOMAIN table : table[r].tag = 0})
           tags == {r \in Try({Unused}, "tag", IF first THEN {0} ELSE Element) :
                      TagHolds(r) /\ (r.tag = 0 => headers < MaxHeader)}
           indices == {r \in Try(tags, "index", Element) :
                         IndexHolds(r) /\ (first \/ IndexFollows(last, r))}
           values == {r \in Try(indices, "value", Element) : M(r.tag * r.value) \in Byte}
           lengths == {r \in Try(values, "lengthLeft", Element) :
                         LengthHolds(r) /\ (first \/ LengthFollows(last, r))}
           opcodes == {r \in Try(Try(lengths, "isOpcode", Element), "pushSize", Element) :
                         OpcodeHolds(r) /\ LookupsHold(r) /\ (first \/ OpcodeFollows(last, r))}
           hashes == {r \in Try(opcodes, "hash", Hash) : first \/ HashFollows(last, r)}
       IN \E r \in Try(Try(hashes, "challenge", Challenge), "rlc", Element) :
             /\ RlcHolds(last, r)
             /\ first \/ RlcFollows(before, last, r)
             /\ table' = Append(table, r)
    /\ UNCHANGED writer

Codes == UNION {[1..n -> Byte] : n \in 0..MaxCode}

BytecodeNext ==
    \/ \E code \in Codes, hash \in Hash, challenge \in Challenge :
          AssignContract(code, hash, challenge)
    \/ AnyTableRow

BytecodeSpec == BytecodeInit /\ [][BytecodeNext]_bytecodeVars

-----------------------------------------------------------------------------
(* Properties *)

Header(r) == table[r].tag = 0

(* Contracts of the table: a header and all the bytes up to the next one,  *)
(* when that header is there and the rows but the last are checked.        *)
Contracts ==
    {c \in (DOMAIN table) \X (DOMAIN table) :
        /\ c[1] + 1 < c[2] /\ Header(c[1]) /\ Header(c[2])
        /\ \A r \in (c[1] + 1)..(c[2] - 1) : ~Header(r)}

CodeOf(c) == [j \in 1..(c[2] - c[1] - 1) |-> table[c[1] + j].value]

(* A byte taken for data although no push has data left.                   *)
OutOfPush(r) == r > 1 /\ table[r].tag = 1 /\ table[r].isOpcode = 0 /\ table[r - 1].pushSize = 0

(* What anyone can write as a contract is what generate_assignments writes *)
(* for its bytes: positions, which bytes are opcodes, how much push data   *)
(* is left, the length of the header, one hash, one challenge and the      *)
(* random linear combination of the bytes.  But the constraints let a byte *)
(* be data when no push has data left: from there on the contract has no   *)
(* opcodes, and the rest is as written.                                    *)
ContractsAreAssigned ==
    \A c \in Contracts :
        LET header == table[c[1]]
            rows == ContractRows(CodeOf(c), header.hash, header.challenge)
        IN \A i \in DOMAIN rows : LET r == c[1] + i - 1 IN
              IF \E k \in (c[1] + 1)..r : OutOfPush(k)
              THEN /\ table[r].isOpcode = 0
                   /\ \A f \in DOMAIN rows[i] \ {"isOpcode", "pushSize"} : table[r][f] = rows[i][f]
              ELSE table[r] = rows[i]

(* The component's own tables are accepted exactly when every byte that is *)
(* decoded as an opcode is in the table of opcodes.                        *)
AssignedAccepted ==
    writer = "component" =>
        (TableAccepted(table) <=>
            \A r \in DOMAIN table : table[r].isOpcode = 1 => table[r].value \in DOMAIN PushSize)
=============================================================================
