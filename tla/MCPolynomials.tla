---------------------------- MODULE MCPolynomials ----------------------------
(* Polynomials up to degree 9, the first one that takes four products.     *)
EXTENDS Polynomials

MCCeilLog2 ==
    [n \in 1 .. MaxDegree |-> CHOOSE k \in 0 .. n : /\ n =< 2 ^ k
                                                    /\ k > 0 => 2 ^ (k - 1) < n]

MCHighestPowerOfTwo ==
    [n \in 1 .. MaxDegree |->
        CHOOSE h \in {2 ^ k : k \in 0 .. n} : h =< n /\ n < 2 * h]

(* 1/2 and 2 as doubles; -1 and a multiple of IntModulus as integers. *)
Coefficient(number) ==
    IF number = "double" THEN {0, 1, 4} ELSE {0, -2, 2 * IntModulus}

(* All coefficients are the same, but for one and the constant. *)
Coefficients(number, degree) ==
    {[n \in 0 .. degree |-> IF n \in {0, place} THEN a ELSE b] :
        place \in 1 .. degree, a \in Coefficient(number), b \in Coefficient(number)}

Kind == {"power", "chebyshev"}
Number == {"int64_t", "double"}

Calls(operation, number, coefficients, size, level, key) ==
    {[operation |-> operation, kind |-> kind, number |-> number,
      degree |-> Cardinality(DOMAIN c) - 1, coefficients |-> c,
      size |-> size, key |-> key, level |-> level] :
        kind \in Kind, c \in coefficients}

AllAt(l) == [p \in 1 .. MaxDegree |-> l]

Need(number, degree) == MCCeilLog2[degree] + IF number = "double" THEN 1 ELSE 0

(* Every coefficient with the levels that the degree needs. *)
Evaluations ==
    UNION {Calls("evaluate", number, Coefficients(number, degree), 1,
                 AllAt(Need(number, degree)), Need(number, degree)) :
             number \in Number, degree \in 1 .. MaxDegree}

(* Levels and keys around those, one or two units, and bases alone. *)
Twos(degree) == {[n \in 0 .. degree |-> 2]}

AtOtherLevels ==
    UNION {UNION {Calls(operation, number, Twos(degree), size, AllAt(l),
                        IF l > below THEN l - below ELSE 0) :
                    number \in Number, l \in 0 .. 5, size \in {1, 2}} :
             operation \in {"evaluate", "make_basis"}, degree \in 0 .. MaxDegree,
             below \in {0, 1, 2}}

(* A basis as it is made, a worn one, and one with a text of level 0. *)
BasisLevels ==
    {[p \in 1 .. MaxDegree |-> 5 - MCCeilLog2[p]],
     [p \in 1 .. MaxDegree |-> 1 + ((5 * p) % 3)],
     [p \in 1 .. MaxDegree |-> p % 2]}

Sums ==
    UNION {Calls("weighted_sum", number, Coefficients(number, degree), 1, levels, 0) :
             number \in Number, degree \in 1 .. 4, levels \in BasisLevels}
    \cup
    UNION {Calls("weighted_sum", number, Twos(degree), 2, levels, 0) :
             number \in Number, degree \in {0, 2, MaxDegree}, levels \in BasisLevels}

MCRequest == Evaluations \cup AtOtherLevels \cup Sums
==============================================================================
