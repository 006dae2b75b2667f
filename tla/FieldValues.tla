------------------------------ MODULE FieldValues ------------------------------
(* Arithmetic of the field a circuit is over, and of tables of its values: *)
(* functions from pairs of a row and a column, both from zero.             *)
EXTENDS Integers, Sequences, FiniteSets

CONSTANT Prime \* the field's modulus

E(x) == x % Prime

(* power; inversed, and zero for zero as the components that allow it use. *)
Raise(x, n) ==
    LET p[i \in 0..n] ==
            IF i = 0 THEN 1
            ELSE LET h == p[i \div 2] IN E(E(h * h) * (IF i % 2 = 1 THEN E(x) ELSE 1))
    IN p[n]
Inverted(x) == IF E(x) = 0 THEN 0 ELSE Raise(x, Prime - 2)

(* What many components compute step by step: a polynomial in x whose      *)
(* coefficients come highest first, a number whose digits do; a sum.        *)
Horner(x, s) ==
    LET h[i \in 0..Len(s)] == IF i = 0 THEN 0 ELSE E(h[i - 1] * x + s[i]) IN h[Len(s)]
SumOf(s) == LET sum[i \in 0..Len(s)] == IF i = 0 THEN 0 ELSE sum[i - 1] + s[i] IN sum[Len(s)]
Exp(base, n) == LET power[i \in 0..n] == IF i = 0 THEN 1 ELSE base * power[i - 1] IN power[n]
DigitsOf(n, base, amount) == [i \in 1..amount |-> (n \div Exp(base, amount - i)) % base]

Ceil(a, b) == (a + b - 1) \div b
Positions(rows, width) == (0..(rows - 1)) \X (0..(width - 1))
Cells(t, r, first, last) == [i \in 1..(last - first + 1) |-> t[<<r, first + i - 1>>]]

(* The table of some rows; a table that begins at row r of another one, and *)
(* its rows there.                                                          *)
Grid(rows, width) ==
    [p \in Positions(Len(rows), width) |->
        IF p[2] < Len(rows[p[1] + 1]) THEN rows[p[1] + 1][p[2] + 1] ELSE 0]
Below(r, t) == [p \in {<<q[1] + r, q[2]>> : q \in DOMAIN t} |-> t[<<p[1] - r, p[2]>>]]
From(r, rows, width, t) == [p \in Positions(rows, width) |-> t[<<p[1] + r, p[2]>>]]
=============================================================================
