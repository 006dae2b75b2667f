------------------------------- MODULE Manifest -------------------------------
(***************************************************************************)
(* What a component demands of the table it is put into                    *)
(* (include/nil/blueprint/manifest.hpp): how many witness columns it can   *)
(* be laid out on, as a manifest_param, and whether it needs a constant    *)
(* column.  A component that uses others merges their manifests into its   *)
(* own; compiler_manifest then intersects the result with what the table   *)
(* has, component_batch takes the largest amount that is left, and the     *)
(* constructor of the component checks the amount it is given.             *)
(* Integers are small enough not to overflow.                              *)
(***************************************************************************)
EXTENDS Integers, FiniteSets, FiniteSetsExt

CONSTANTS
    Declared,  \* the manifests components declare
    Offer,     \* what a table can give: a manifest_param
    Removable, \* sets of amounts that subtract is called with
    MaxParts,  \* bound on the manifests merged into one
    MaxAmount  \* amounts are 0..MaxAmount

Amount == 0..MaxAmount

VARIABLES
    manifest, \* the manifest: its witness_amount and constant_required
    parts,    \* the manifests merged into it
    removed,  \* the amounts subtracted from it
    fit       \* "open", or the intersection with a table and what it gave

manifestVars == <<manifest, parts, removed, fit>>

-----------------------------------------------------------------------------
(* manifest_param and its four classes *)

Unsat == [type |-> "unsat"]
Single(v) == [type |-> "single", value |-> v]
RangeOf(s, f, d) == [type |-> "range", start |-> s, finish |-> f, step |-> d]
SetOf(S) == [type |-> "set", set |-> S]
SetOrUnsat(S) == IF S = {} THEN Unsat ELSE SetOf(S)

(* What the constructors of the classes are given.                         *)
WellFormed(p) ==
    \/ p.type = "unsat"
    \/ p.type = "single" /\ p.value \in Nat
    \/ p.type = "range" /\ p.start \in Nat /\ p.finish \in Nat /\ p.step \in Nat \ {0}
    \/ p.type = "set" /\ p.set \subseteq Nat /\ IsFiniteSet(p.set)

(* The amounts a parameter stands for, in the order its iterator gives     *)
(* them.                                                                   *)
Values(p) ==
    CASE p.type = "unsat" -> {}
      [] p.type = "single" -> {p.value}
      [] p.type = "range" -> {v \in p.start..(p.finish - 1) : (v - p.start) % p.step = 0}
      [] p.type = "set" -> p.set

(* A component can be laid out on some amount, and a table offers any      *)
(* parameter.                                                              *)
ASSUME DeclaredAssumption ==
    \A d \in Declared :
        /\ WellFormed(d.witness) /\ Values(d.witness) # {}
        /\ d.constant \in {"NONE", "REQUIRED"}
ASSUME OfferAssumption == \A offer \in Offer : WellFormed(offer)
ASSUME MaxAmountAssumption == MaxAmount \in Nat

(* The first amount of a range is a multiple of its step.  The library has *)
(* a few ranges that start elsewhere (9 by 5 in colinear_checks), of       *)
(* components whose manifest is merged with none and whose amount nobody   *)
(* looks for.                                                              *)
Aligned(p) == p.type = "range" => p.start % p.step = 0

ASSUME AlignedAssumption ==
    \A p \in {d.witness : d \in Declared} \cup Offer : Aligned(p)

(* is_satisfiable                                                          *)
Satisfiable(p) ==
    CASE p.type = "unsat" -> FALSE
      [] p.type = "single" -> TRUE
      [] p.type = "range" -> p.start < p.finish /\ p.finish - p.start >= (p.start % p.step)
      [] p.type = "set" -> p.set # {}

(* check_manifest_param; when it is not strict the amount may be larger    *)
(* than needed.                                                            *)
CheckParam(p, v, strict) ==
    IF strict THEN v \in Values(p)
    ELSE CASE p.type = "unsat" -> FALSE
           [] p.type = "single" -> p.value <= v
           [] p.type = "range" -> v >= p.start /\ Satisfiable(p)
           [] p.type = "set" -> \E w \in p.set : w >= v

(* max_value_if_sat                                                        *)
MaxValue(p) ==
    CASE p.type = "single" -> p.value
      [] p.type = "range" ->
            p.finish - (IF (p.finish % p.step) # 0 THEN p.finish % p.step ELSE p.step)
      [] p.type = "set" -> Max(p.set)

Larger(a, b) == IF a > b THEN a ELSE b
Smaller(a, b) == IF a < b THEN a ELSE b
RoundedUp(v, step) == v + ((step - (v % step)) % step)

(* boost::integer::extended_euclidean: gcd(a, b) = m * a + n * b.          *)
Gcd(a, b) == Max({d \in 1..Smaller(a, b) : a % d = 0 /\ b % d = 0})
Bezout(a, b) == CHOOSE mn \in (-b..b) \X (-a..a) : mn[1] * a + mn[2] * b = Gcd(a, b)

Narrowed(start, finish, step) ==
    IF start >= finish THEN Unsat
    ELSE IF start = finish - 1 THEN Single(start)
    ELSE RangeOf(start, finish, step)

(* Two ranges that are not equally dense meet on the amounts the Chinese   *)
(* remainder theorem gives.                                                *)
SparserRange(a, b) ==
    LET gcd == Gcd(a.step, b.step)
        mn == Bezout(a.step, b.step)
        step == a.step * (b.step \div gcd)
        residue == ((b.start * a.step * mn[1] + a.start * b.step * mn[2]) \div gcd) % step
        start == Larger(a.start, b.start)
    IN IF a.start % gcd # b.start % gcd THEN Unsat
       ELSE Narrowed(start + ((residue - start) % step), Smaller(a.finish, b.finish), step)

IntersectRanges(a, b) ==
    IF ~Satisfiable(a) \/ ~Satisfiable(b) THEN Unsat
    ELSE IF a.step = b.step
         THEN Narrowed(Larger(a.start, b.start), Smaller(a.finish, b.finish), a.step)
         ELSE SparserRange(a, b)

(* Mutant: the step of the narrower range is lost.                         *)
IntersectWithStepLost(a, b) ==
    CASE a.type = "unsat" \/ b.type = "unsat" -> Unsat
      [] a.type = "single" \/ (b.type = "single" /\ a.type # "unsat") ->
            LET v == IF a.type = "single" THEN a.value ELSE b.value IN
            IF v \in Values(a) \cap Values(b) THEN Single(v) ELSE Unsat
      [] a.type = "range" /\ b.type = "range" ->
            Narrowed(Larger(a.start, b.start), Smaller(a.finish, b.finish), b.step)
      [] OTHER -> SetOf({v \in Values(a) : CheckParam(b, v, TRUE)})

(* intersect                                                               *)
Intersect(a, b) ==
    CASE a.type = "unsat" \/ b.type = "unsat" -> Unsat
      [] a.type = "single" -> IF CheckParam(b, a.value, TRUE) THEN Single(a.value) ELSE Unsat
      [] a.type # "single" /\ b.type = "single" ->
            IF CheckParam(a, b.value, TRUE) THEN b ELSE Unsat
      [] a.type = "range" /\ b.type = "range" -> IntersectRanges(a, b)
      [] a.type = "range" /\ b.type = "set" -> SetOf({v \in b.set : CheckParam(a, v, TRUE)})
      [] a.type = "set" /\ b.type \in {"range", "set"} ->
            SetOrUnsat({v \in a.set : CheckParam(b, v, TRUE)})

(* Mutant: amounts below the single value stay.                            *)
MergedSingleKeepsSmaller(v, b) ==
    CASE b.type = "single" -> Single(Larger(v, b.value))
      [] b.type = "set" -> SetOf(b.set \cup {v})
      [] b.type = "range" -> RangeOf(b.start, b.finish, b.step)

(* merge_with, when one of the two is a single value,                      *)
MergedSingle(v, b) ==
    CASE b.type = "single" -> Single(Larger(v, b.value))
      [] b.type = "set" ->
            LET above == {w \in b.set : w >= v} IN SetOf(IF above = {} THEN {v} ELSE above)
      [] b.type = "range" ->
            LET start == Larger(RoundedUp(v, b.step), b.start) IN
            IF start < b.finish THEN RangeOf(start, b.finish, b.step) ELSE Single(v)

(* two sets,                                                               *)
MergedSets(S, T) ==
    IF S = {} \/ T = {} THEN Unsat
    ELSE SetOf({v \in S \cup T : v >= Larger(Min(S), Min(T))})

(* a set and a range, where lower_bound may be past the end of the set:    *)
(* what is then read is any amount,                                        *)
MergedSetRanges(S, r) ==
    LET above == {v \in S : v >= r.start}
        starts == IF above = {} THEN {Larger(v, r.start) : v \in Amount} ELSE {Min(above)}
    IN {SetOf({s} \cup {v \in S : v >= s}
              \cup {v \in RoundedUp(s, r.step)..(r.finish - 1) : v % r.step = 0}) :
            s \in starts}

(* two ranges,                                                             *)
MergedRanges(a, b) ==
    LET start == Larger(a.start, b.start) IN
    IF a.step = b.step
    THEN LET finish == Larger(a.finish, b.finish) IN
         IF start < finish THEN RangeOf(start, finish, a.step) ELSE Single(start)
    ELSE IF start >= b.finish THEN a
    ELSE IF start >= a.finish THEN b
    ELSE SetOf({start} \cup {v \in Values(a) \cup Values(b) : v > start})

(* and any two parameters: the results merge_with can have.                *)
Merged(a, b) ==
    CASE a.type = "unsat" \/ b.type = "unsat" -> {Unsat}
      [] a.type = "single" /\ b.type # "unsat" -> {MergedSingle(a.value, b)}
      [] a.type \in {"set", "range"} /\ b.type = "single" -> {MergedSingle(b.value, a)}
      [] a.type = "set" /\ b.type = "set" -> {MergedSets(a.set, b.set)}
      [] a.type = "set" /\ b.type = "range" -> MergedSetRanges(a.set, b)
      [] a.type = "range" /\ b.type = "set" -> MergedSetRanges(b.set, a)
      [] a.type = "range" /\ b.type = "range" -> {MergedRanges(a, b)}

(* subtract on a range: amounts at its beginning or at its end shorten it, *)
(* others turn it into a set.  The end is looked for at a multiple of the  *)
(* step, and the amount before it is left out too.                         *)
SubtractedRange(r, S) ==
    LET cut == S \cap Values(r)
        n == Cardinality(cut)
        after == r.start + n * r.step
        last == r.finish - (r.finish % r.step)
        before == last - n * r.step
        left == Values(r) \ cut
    IN IF cut = {} THEN r
       ELSE IF cut = {r.start + i * r.step : i \in 0..(n - 1)}
       THEN IF after < r.finish THEN RangeOf(after, r.finish, r.step) ELSE Unsat
       ELSE IF cut = {last - i * r.step : i \in 0..(n - 1)}
       THEN IF before > r.start THEN RangeOf(r.start, before, r.step)
            ELSE IF before = r.start THEN Single(r.start) ELSE Unsat
       ELSE IF left = {} THEN Unsat
       ELSE IF Cardinality(left) = 1 THEN Single(Min(left)) ELSE SetOf(left)

(* subtract                                                                *)
Subtracted(p, S) ==
    CASE p.type = "unsat" -> Unsat
      [] p.type = "single" -> IF p.value \in S THEN Unsat ELSE p
      [] p.type = "range" -> SubtractedRange(p, S)
      [] p.type = "set" -> SetOrUnsat(p.set \ S)

-----------------------------------------------------------------------------
(* manifest_constant_type *)

MergedConstant(s, t) ==
    IF "UNSAT" \in {s, t} THEN "UNSAT"
    ELSE IF "REQUIRED" \in {s, t} THEN "REQUIRED" ELSE "NONE"

FittedConstant(t, has) ==
    IF t = "UNSAT" \/ (t = "REQUIRED" /\ ~has) THEN "UNSAT" ELSE t

-----------------------------------------------------------------------------
(* plonk_component_manifest *)

ManifestInit ==
    /\ manifest \in Declared
    /\ parts = {manifest}
    /\ removed = {}
    /\ fit = [done |-> FALSE]

(* A component that uses another one: merge_with.                          *)
MergeWith(other) ==
    /\ ~fit.done /\ removed = {} /\ Cardinality(parts) < MaxParts
    /\ \E witness \in Merged(manifest.witness, other.witness) :
          manifest' = [witness |-> witness,
                       constant |-> MergedConstant(manifest.constant, other.constant)]
    /\ parts' = parts \cup {other}
    /\ UNCHANGED <<removed, fit>>

Subtract(S) ==
    /\ ~fit.done /\ removed = {} /\ S # {}
    /\ manifest' = [manifest EXCEPT !.witness = Subtracted(@, S)]
    /\ removed' = S
    /\ UNCHANGED <<parts, fit>>

(* compiler_manifest::intersect, and max_value_if_sat when it is_satisfiable. *)
Fit(offer, has) ==
    /\ ~fit.done
    /\ LET witness == Intersect(manifest.witness, offer)
           constant == FittedConstant(manifest.constant, has)
           sat == Satisfiable(witness) /\ constant # "UNSAT"
       IN fit' = [done |-> TRUE, offer |-> offer, has |-> has, witness |-> witness,
                  constant |-> constant, sat |-> sat,
                  amount |-> IF sat THEN MaxValue(witness) ELSE 0]
    /\ UNCHANGED <<manifest, parts, removed>>

ManifestNext ==
    \/ \E other \in Declared : MergeWith(other)
    \/ \E S \in Removable : Subtract(S)
    \/ \E offer \in Offer, has \in BOOLEAN : Fit(offer, has)

ManifestSpec == ManifestInit /\ [][ManifestNext]_manifestVars

-----------------------------------------------------------------------------
(* Properties *)

(* However many manifests were merged, in whatever order and of whatever   *)
(* classes, the result has an amount, lets no amount through that is below *)
(* the least one of some part, and asks for a constant column iff one of   *)
(* the parts does; and no amount that was subtracted comes back.           *)
MergeNeedsEveryPart ==
    /\ \A part \in parts : \A v \in Values(manifest.witness) :
          v >= Min(Values(part.witness))
    /\ removed = {} => Values(manifest.witness) # {}
    /\ manifest.constant = "REQUIRED" <=> \E part \in parts : part.constant = "REQUIRED"
    /\ Values(manifest.witness) \cap removed = {}

(* Intersecting with what a table has leaves exactly the amounts that suit *)
(* both, whatever the classes, the bounds and the steps; it is satisfiable *)
(* iff there is one and a constant column where one is needed; and the     *)
(* amount component_batch then takes is the largest of them, which the     *)
(* check in the component's constructor, strict or not, lets through.      *)
FitExact ==
    fit.done =>
        /\ Values(fit.witness) = Values(manifest.witness) \cap Values(fit.offer)
        /\ fit.sat <=> /\ Values(manifest.witness) \cap Values(fit.offer) # {}
                       /\ manifest.constant = "REQUIRED" => fit.has
        /\ fit.sat => /\ fit.amount = Max(Values(fit.witness))
                      /\ \A strict \in BOOLEAN : CheckParam(manifest.witness, fit.amount, strict)
=============================================================================
