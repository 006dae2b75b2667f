------------------------------ MODULE MCAlgorithms ------------------------------
(***************************************************************************)
(* Manifest, Connectedness and Gadgets on small instances, one after the   *)
(* other: part says which is running.                                      *)
(***************************************************************************)
EXTENDS Gadgets, Connectedness, Manifest

VARIABLE part

algorithmsVars == <<part, manifestVars, connectednessVars, gadgetVars>>

-----------------------------------------------------------------------------
(* Manifests like the library's: single amounts, ranges with and without   *)
(* a step, and sets.                                                       *)

MCDeclared ==
    {[witness |-> w, constant |-> IF w.type = "range" THEN "REQUIRED" ELSE "NONE"] :
        w \in {Single(2), Single(5), Single(8), RangeOf(3, 13, 3), RangeOf(2, 7, 1),
               RangeOf(4, 11, 2), RangeOf(6, 19, 6), SetOf({2, 7, 11}), SetOf({4, 12})}}
MCOffer ==
    {RangeOf(0, m, 1) : m \in {1, 4, 5, 9, 12, 20}} \cup {d.witness : d \in MCDeclared}
MCRemovable == {{2}, {5}, {3, 6}, {8, 9}, {12}}

-----------------------------------------------------------------------------
(* Two witness and two constant columns, a block of the rows 4 and 5 *)

Witness(c, r) == <<"witness", c, r>>
Constant(c, r) == <<"constant", c, r>>
Public(r) == <<"public", 0, r>>

MCGateChoices ==
    {{Witness(0, 0), Witness(1, 1), Constant(0, 0)}, {Witness(1, -1), Constant(1, 0)},
     {Witness(0, 0), Witness(1, 0)}}
MCCopyChoices ==
    {<<Public(0), Witness(0, 4)>>, <<Public(1), Witness(1, 4)>>,
     <<Witness(1, 4), Witness(0, 5)>>, <<Constant(0, 5), Witness(1, 5)>>}
MCIOChoices ==
    {<<<<Public(0), Public(1)>>, <<Witness(1, 5)>>>>,
     <<<<Public(0), Public(1)>>, <<Witness(1, 4), Constant(1, 5)>>>>,
     <<<<Witness(0, 4), Public(0)>>, <<Witness(1, 5), Public(0)>>>>}

-----------------------------------------------------------------------------
(* Components and their columns *)

MCRowKinds ==
    {[kind |-> "flag", inequality |-> b] : b \in BOOLEAN}
    \cup {[kind |-> k] : k \in {"division", "division_or_zero", "linear", "quadratic", "swap", "line", "unified"}}
    \cup {[kind |-> "and", width |-> w] : w \in 2..5}
    \cup {[kind |-> "or", width |-> w] : w \in {2, 3, 6}}

Modes == {"FLAG", "LESS_THAN", "LESS_EQUAL", "GREATER_THAN", "GREATER_EQUAL"}

MCTiny == [prime |-> 7, b |-> 3, order |-> 13, generator |-> <<1, 2>>]
MCVesta == [prime |-> 163, b |-> 2, order |-> 139, generator |-> <<2, 70>>]
MCPallas == [prime |-> 139, b |-> 2, order |-> 163, generator |-> <<3, 53>>]

MCKimchi ==
    LET of(kind) == [kind |-> kind, seeds |-> {1, 2, 3}]
        sized(kind, n) == [kind |-> kind, n |-> n, seeds |-> {1, 2, 3}]
    IN {of(k) : k \in {"zkpm", "vanishes", "zk_w3", "permutation", "generic", "combined_evals"}}
       \cup {sized("lagrange_basis", i) : i \in {-2, 0, 3}}
       \cup {sized(k, n) : k \in {"denominators", "b_poly", "b_coefficients"}, n \in 1..4}
       \cup {sized("powers", n) : n \in 2..5}
       \cup {sized("challenge_evals", n) : n \in {4, 6, 8}}
       \cup {sized("public_evals", n) : n \in 1..2}
       \cup {sized("ft_eval", n) : n \in 0..1}
       \cup {[kind |-> "prepared", larger |-> b, seeds |-> {1, 2}] : b \in BOOLEAN}
       \cup {sized("random", n) : n \in 1..3}
       \cup {sized("rpn", n) : n \in 1..3}
       \cup {[kind |-> k, n |-> n, previous |-> i, seeds |-> {1, 2}] :
                k \in {"oracles_cip", "oracles", "prepared_batch"}, n \in 2..3, i \in 0..1}

(* Every point of the curve, or zero, a point of order two and another one. *)
MCEdwards ==
    LET few == {<<0, 1>>, <<0, 60>>, <<3, 8>>} IN
    {[kind |-> "edwards_double", points |-> Edwards!Points]}
    \cup {[kind |-> k, points |-> few] : k \in {"edwards_add", "edwards_bit", "edwards_mul"}}

MCVerifier ==
    LET tableOf(columns, options) == [columns |-> columns, options |-> options]
        lookupOf(inputs, gate) == [inputs |-> inputs, gate |-> gate]
    IN {[kind |-> "constraints_verifier", width |-> w, sizes |-> s, seeds |-> {1, 2}] :
            w \in {4, 5, 7}, s \in {<<1>>, <<4>>, <<1, 1>>, <<2, 1, 3>>, <<1, 2, 2, 1>>}}
       \cup {[kind |-> "lookup_verifier", width |-> w, tables |-> c[1], lookups |-> c[2], seeds |-> {1, 2}] :
                w \in {4, 5, 6, 7, 9},
                c \in {<<<<tableOf(1, 1)>>, <<lookupOf(1, 1)>>>>,
                       <<<<tableOf(2, 2), tableOf(1, 1)>>, <<lookupOf(2, 1), lookupOf(1, 1), lookupOf(1, 2)>>>>}}
       \cup {[kind |-> "lookup_verifier", width |-> 15, tables |-> <<tableOf(1, 2)>>,
               lookups |-> <<lookupOf(1, 1), lookupOf(1, 1)>>, seeds |-> {1, 2}]}
       \cup {[kind |-> "expression", n |-> n, seeds |-> {1, 2}] : n \in 1..6}
       \cup {[kind |-> "final_polynomial", power |-> p, lambda |-> 2, seeds |-> {1, 2}] : p \in {1, 3}}
       \cup {[kind |-> "flexible_verifier", width |-> 15, init |-> 2, r |-> r, lambda |-> 2,
               batches |-> <<1, 2, 1, 1>>, seeds |-> {1}] : r \in 1..3}

(* A message of test/hashes/plonk/sha256.cpp and its hash.                 *)
Message ==
    <<<<\hf5a5, \hfd42>>, <<\hd16a, \h2030>>, <<\h2798, \hef6e>>, <<\hd309, \h979b>>,
      <<\h4300, \h3d23>>, <<\h20d9, \hf0e8>>, <<\hea98, \h31a9>>, <<\h2759, \hfb4b>>,
      <<\hdb56, \h114e>>, <<\h00fd, \hd4c1>>, <<\hf85c, \h892b>>, <<\hf35a, \hc9a8>>,
      <<\h9289, \haaec>>, <<\hb1eb, \hd0a9>>, <<\h6cde, \h606a>>, <<\h748b, \h5d71>>>>
Digest ==
    <<<<\h42b0, \h5254>>, <<\h1dce, \h4555>>, <<\h7d83, \hd346>>, <<\h34a4, \h5a56>>,
      <<\hd216, \hd437>>, <<\h5e5a, \h9584>>, <<\hf644, \h5ce4>>, <<\he633, \h24af>>>>

MCSha ==
    {[kind |-> k, version |-> v, seeds |-> {1}] : k \in {"sha_step", "sha_round"}, v \in {256, 512}}
    \cup {[kind |-> "sha_process", version |-> v, steps |-> 17, rounds |-> 3, seeds |-> {1}] : v \in {256, 512}}
    \cup {[kind |-> "sha_decomposition", seeds |-> {1, 2}], [kind |-> "sha512_words", seeds |-> {1}],
          [kind |-> "sha512", version |-> 512, steps |-> 16, rounds |-> 2],
          [kind |-> "sha256", version |-> 256, steps |-> 17, rounds |-> 3, message |-> <<>>, digest |-> <<>>],
          [kind |-> "sha256", version |-> 256, steps |-> 48, rounds |-> 64, message |-> Message, digest |-> Digest]}

MCArithmetic ==
    {[kind |-> k] : k \in {"native_add", "native_sub", "native_mul", "mul_by_constant", "sqrt", "endo_scalar",
                           "from_limbs", "to_limbs"}}
    \cup {[kind |-> "poseidon", rounds |-> r] : r \in {5, 10}}
    \cup {[kind |-> "flexible_poseidon", width |-> w, rounds |-> r, before |-> 0] :
              w \in {3, 6, 9, 15, 33, 36}, r \in {10, 11}}
    \cup {[kind |-> "flexible_poseidon", width |-> w, rounds |-> 55, before |-> 0] : w \in {42, 168}}
    \cup {[kind |-> "colinear", width |-> w, r |-> r] : w \in {9, 14, 19, 24}, r \in 1..4}

MCInstances ==
    MCArithmetic \cup MCSha \cup MCKimchi \cup MCEdwards \cup MCVerifier \cup
    {[kind |-> k, bits |-> 8, low |-> 6] : k \in {"vesta_mul", "pallas_mul"}}
    \cup {[kind |-> k, width |-> 9] :
              k \in {"foreign_range", "foreign_add", "foreign_sub", "foreign_mul", "reduction", "scalar_range", "bool_scalar"}} \cup
    {[kind |-> "range", width |-> w, bits |-> 3] : w \in 2..4}
    \cup {[kind |-> "range", width |-> 3, bits |-> 4]}
    \cup {[kind |-> "exponentiation", width |-> w, size |-> 4] : w \in {5, 8, 9}}
    \cup {[kind |-> "pow_factor", width |-> 5, power |-> p] : p \in 1..6}
    \cup {[kind |-> "pow_factor", width |-> 8, power |-> p] : p \in {4, 7}}
    \cup {[kind |-> "constant_pow", width |-> w, power |-> p] :
              w \in 3..5, p \in {2, 3, 6, 11, 17, 23, 50}}
    \cup {[kind |-> "x_index", width |-> w, n |-> 3, omega |-> 27] : w \in {5, 6, 7, 9}}
    \cup {[kind |-> k, width |-> w, n |-> n] :
              k \in {"additions", "multiplications"}, w \in {3, 6, 7}, n \in 1..3}
    \cup {[kind |-> "array_swap", width |-> w, n |-> n] : w \in {5, 9}, n \in 1..3}
    \cup {[kind |-> "gate", width |-> w, d |-> d] : w \in 3..8, d \in {1, 2, 3, 4, 5, 7, 8}}
    \cup {[kind |-> "f3_loop", width |-> w, m |-> m] : w \in 4..9, m \in 1..6}
    \cup {[kind |-> "permutation_argument", width |-> 6, m |-> m] : m \in 2..5}
    \cup {[kind |-> "cosets", width |-> w, n |-> n, omega |-> 5] : <<w, n>> \in {<<9, 3>>, <<9, 4>>, <<18, 3>>, <<18, 4>>, <<18, 5>>, <<27, 2>>, <<27, 4>>}}
    \cup {[kind |-> "f1_loop", width |-> w, m |-> m] : w \in 4..9, m \in 1..9}
    \cup {[kind |-> "decomposition", width |-> w, bits |-> b, check |-> TRUE, msb |-> FALSE] :
              w \in {3, 4}, b \in {1, 6, 8}}
    \cup {[kind |-> "composition", width |-> 3, bits |-> b, check |-> c, msb |-> ~c] :
              b \in {1, 3, 8}, c \in BOOLEAN}
    \cup {[kind |-> "composition", width |-> 3, bits |-> 9, check |-> FALSE, msb |-> FALSE]}
    \cup {[kind |-> "shift", width |-> 3, bits |-> b, shift |-> b \div 2, left |-> l,
           check |-> TRUE, msb |-> TRUE] : b \in {4, 8}, l \in BOOLEAN}
    \cup {[kind |-> "comparison", width |-> 3, bits |-> 3, mode |-> m] : m \in Modes}
    \cup {[kind |-> "comparison", width |-> w, bits |-> b, mode |-> "FLAG"] :
              w \in {4, 5, 6}, b \in {1, 2, 3}}
    \cup {[kind |-> "comparison", width |-> 4, bits |-> 4, mode |-> "FLAG"]}
    \cup {[kind |-> "checked", width |-> w, bits |-> b, mode |-> m] :
              <<w, b>> \in {<<3, 3>>, <<4, 4>>}, m \in Modes \ {"FLAG"}}
    \cup {[kind |-> "checked", width |-> 3, bits |-> 5, mode |-> "LESS_THAN"],
          [kind |-> "checked", width |-> 5, bits |-> 5, mode |-> "GREATER_EQUAL"]}
    \cup {[kind |-> "unchecked", width |-> w, bits |-> b, mode |-> m] :
              w \in {3, 5}, b \in {3, 4}, m \in Modes \ {"FLAG"}}
    \cup {[kind |-> "remainder", width |-> w, bits |-> b, check |-> c] :
              <<w, b>> \in {<<4, 3>>, <<5, 3>>, <<4, 4>>}, c \in BOOLEAN}
    \cup {[kind |-> "logic", width |-> 4, op |-> op, lookup |-> FALSE] :
              op \in {"not", "and", "or", "xor", "nand", "nor", "select"}}
    \cup {[kind |-> "logic", width |-> 3, op |-> op, lookup |-> TRUE] : op \in {"and", "xor"}}

-----------------------------------------------------------------------------

AlgorithmsInit ==
    /\ part \in {"manifest", "connectedness", "gadgets"}
    /\ ManifestInit /\ (part = "manifest" \/ manifest = CHOOSE m \in MCDeclared : TRUE)
    /\ IF part = "connectedness" THEN ConnectednessInit
       ELSE gates = <<>> /\ enabled = {} /\ copies = <<>> /\ io = <<>> /\ answers = <<>>
    /\ IF part = "gadgets" THEN GadgetsInit
       ELSE gadget = [kind |-> "none"] /\ chosen = <<>> /\ table = <<>> /\ by = "nobody"

ManifestStep ==
    /\ part = "manifest"
    /\ ManifestNext
    /\ UNCHANGED <<part, connectednessVars, gadgetVars>>
ConnectednessStep ==
    /\ part = "connectedness"
    /\ ConnectednessNext
    /\ UNCHANGED <<part, manifestVars, gadgetVars>>
GadgetsStep ==
    /\ part = "gadgets"
    /\ GadgetsNext
    /\ UNCHANGED <<part, manifestVars, connectednessVars>>

AlgorithmsNext == ManifestStep \/ ConnectednessStep \/ GadgetsStep

AlgorithmsSpec == AlgorithmsInit /\ [][AlgorithmsNext]_algorithmsVars
=============================================================================
