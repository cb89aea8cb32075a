----------------------------- MODULE Polynomials -----------------------------
(***************************************************************************)
(* Polynomials of ciphertexts (the first part of ckks/engine_advanced.cpp): *)
(* make_power_basis, make_chebyshev_basis, weighted_sum, and the functions  *)
(* that evaluate a polynomial, which are one after the other.               *)
(*                                                                         *)
(* A call works on the units of its ciphertext one after the other (the     *)
(* overloads for a UnitCiphertext are those with one unit).  An action is   *)
(* one iteration of a loop.  A text is its level and its slots: functions   *)
(* of the engine that the loops call are taken with what Engine establishes *)
(* of them, the level they need and the level of what they return.          *)
(*                                                                         *)
(* Coefficients are counted in halves: a double is any of them, an integer  *)
(* an even one.  A weighted sum is counted in halves as well.               *)
(***************************************************************************)
EXTENDS Integers, Sequences, FiniteSets, Functions

CONSTANTS
    MaxDegree,              \* bound: the degree of a polynomial
    ceil_log2,              \* std::ceil(std::log2(n))
    highest_power_of_two,   \* 1 << std::floor(std::log2(n))
    Prime,                  \* bound: the numbers in slots are counted modulo it
    IntModulus,             \* a 64 bit integer keeps this residue as an int
    Request                 \* the calls that callers make

ASSUME DegreeAssumption == {MaxDegree, Prime, IntModulus} \subseteq Nat \ {0}

ASSUME Log2Assumption ==
    /\ ceil_log2 \in [1 .. MaxDegree -> Nat]
    /\ ceil_log2[1] = 0
    /\ \A n \in 2 .. MaxDegree : ceil_log2[n] = ceil_log2[(n + 1) \div 2] + 1
    /\ highest_power_of_two \in [1 .. MaxDegree -> 1 .. MaxDegree]
    /\ highest_power_of_two[1] = 1
    /\ \A n \in 2 .. MaxDegree :
          highest_power_of_two[n] = 2 * highest_power_of_two[n \div 2]

(***************************************************************************)
(* A call: the function, the kind of basis and of coefficients, the         *)
(* coefficients (which make a basis only by their number), the number of    *)
(* units, the level of the text, or of the texts from the first power on,   *)
(* and that of the relinearization key.                                     *)
(***************************************************************************)
ASSUME RequestAssumption ==
    \A r \in Request :
        /\ r.operation \in {"make_basis", "weighted_sum", "evaluate"}
        /\ r.kind \in {"power", "chebyshev"} /\ r.number \in {"int64_t", "double"}
        /\ r.degree \in 0 .. MaxDegree /\ r.coefficients \in [0 .. r.degree -> Int]
        /\ r.size \in Nat \ {0} /\ r.key \in Nat
        /\ r.level \in [1 .. MaxDegree -> Nat]

VARIABLES
    pc,         \* the loop that runs
    request,    \* the call in progress
    unit,       \* the unit it has reached
    basis,      \* power_basis or chebyshev_basis
    current,    \* the last power of two
    power,      \* the variable of the loop
    sum,        \* result of weighted_sum_, NoText while it is a nullptr
    results,    \* what the call has for each unit
    live,       \* the texts that exist
    made        \* the number of texts made so far

vars == <<pc, request, unit, basis, current, power, sum, results, live, made>>

-----------------------------------------------------------------------------
(***************************************************************************)
(* What a text holds: its slots, modulo a prime.  Slots of different units  *)
(* hold different numbers, enough of them to tell two polynomials apart.    *)
(***************************************************************************)
Slot == 0 .. MaxDegree

Plus(f, g) == [s \in Slot |-> (f[s] + g[s]) % Prime]

Times(f, g) == [s \in Slot |-> (f[s] * g[s]) % Prime]

Constant(c) == [s \in Slot |-> c % Prime]

Scaled(c, f) == Times(Constant(c), f)

Input(u, s) == (u * (MaxDegree + 1) + s) % Prime

-----------------------------------------------------------------------------
(***************************************************************************)
(* The functions of the engine.  A text is DUO, INTT and NOT_RESCALED, and  *)
(* has the scale of its level, all along: what they require is a level.     *)
(***************************************************************************)
NoText == [id |-> 0, level |-> 0, slots |-> <<>>]

Text(id, level, slots) == [id |-> id, level |-> level, slots |-> slots]

Lower(text1, text2) == IF text1.level < text2.level THEN text1.level
                                                    ELSE text2.level

(* A key may be one level below a text that is multiplied. *)
is_key_compatible(text, key) == text.level - 1 =< key

CanMultiply(text1, text2) ==
    \A text \in {text1, text2} :
        text.level > 0 /\ is_key_compatible(text, request.key)

multiply(text1, text2, id) ==
    Text(id, Lower(text1, text2) - 1, Times(text1.slots, text2.slots))

(* multiply by a number: a double takes a level. *)
multiply_number(text, weight, id) ==
    Text(id, IF request.number = "double" THEN text.level - 1 ELSE text.level,
         Scaled(weight, text.slots))

add(text1, text2, id) ==
    Text(id, Lower(text1, text2), Plus(text1.slots, text2.slots))

add_number(text, c, id) ==
    Text(id, text.level, Plus(text.slots, Constant(c)))

subtract(text1, text2, id) ==
    Text(id, Lower(text1, text2), Plus(text1.slots, Scaled(-1, text2.slots)))

(* add_inplace of a text to itself *)
Doubled(text) == [text EXCEPT !.slots = Plus(@, @)]

-----------------------------------------------------------------------------
(* What is required of a call. *)

Truncated(halves) == IF halves < 0 THEN -((-halves) \div 2) ELSE halves \div 2

(* The number that a lambda with an int parameter sees. *)
AsInt(halves) == Truncated(halves) % IntModulus

(***************************************************************************)
(* All coefficients but the first are 0.  The checks take each of them as   *)
(* an int, except for the weights and the power basis of doubles.           *)
(***************************************************************************)
zero_degree(r) ==
    \A n \in 1 .. r.degree :
        IF r.number = "double" /\ (r.operation = "weighted_sum" \/ r.kind = "power")
          THEN r.coefficients[n] = 0
          ELSE AsInt(r.coefficients[n]) = 0

(* Mutant: doubles need no level of their own. *)
required_level_of_basis(r) == ceil_log2[r.degree]

required_level(r) ==
    ceil_log2[r.degree]
      + IF r.operation = "evaluate" /\ r.number = "double" THEN 1 ELSE 0

(* The texts of the caller, of one power or, for a weighted sum, of all. *)
Powers(r) == IF r.operation = "weighted_sum" THEN 1 .. MaxDegree ELSE {1}

Fits(r) ==
    IF r.operation = "weighted_sum"
      THEN r.number = "double" => \A p \in Powers(r) : r.level[p] > 0
      ELSE r.level[1] >= required_level(r) /\ r.level[1] - 1 =< r.key

Accepted(r) ==
    /\ r.degree >= 1
    /\ r.operation # "make_basis" => ~zero_degree(r)
    /\ Fits(r)

-----------------------------------------------------------------------------
(* The basis that a caller asks for, by the recurrences that define it. *)
BasisPolynomial(kind, p, x) ==
    LET step[n \in 0 .. MaxDegree] ==  \* the n-th polynomial, and the next one
          IF n = 0
            THEN <<1, x>>
            ELSE LET last == step[n - 1]
                     next == IF kind = "power" THEN x * last[2]
                                               ELSE 2 * x * last[2] - last[1]
                 IN  <<last[2], next % Prime>>
    IN  step[p][1]

Expected(kind, u, p) == [s \in Slot |-> BasisPolynomial(kind, p, Input(u, s))]

(* The texts of the caller come first: unit by unit, power by power. *)
GivenId(r, u, p) ==
    IF r.operation = "weighted_sum" THEN (u - 1) * MaxDegree + p ELSE u

Given(r, u, p) == Text(GivenId(r, u, p), r.level[p], Expected(r.kind, u, p))

GivenIds(r) == {GivenId(r, u, p) : u \in 1 .. r.size, p \in Powers(r)}

-----------------------------------------------------------------------------
NoRequest == [operation |-> "none"]

NoBasis == <<>>

Init ==
    /\ pc = "idle" /\ request = NoRequest /\ unit = 0
    /\ basis = NoBasis /\ current = NoText /\ power = 0 /\ sum = NoText
    /\ results = <<>> /\ live = {} /\ made = 0

(* The function of the next unit is entered. *)
EnterSum(r, u, ciphertexts) ==
    /\ pc' = "sum" /\ basis' = ciphertexts
    /\ power' = r.degree /\ sum' = NoText

EnterBasis(r, u, copy) ==
    /\ pc' = "squares" /\ power' = 2 /\ sum' = NoText
    /\ basis' = [p \in 0 .. r.degree |-> IF p = 1 THEN copy ELSE NoText]

EnterUnit(r, u, texts, count) ==
    LET given == Given(r, u, 1)
        copy == [given EXCEPT !.id = count + 1]
    IN  /\ unit' = u
        /\ \/ /\ r.operation = "weighted_sum"
              /\ EnterSum(r, u, [p \in 0 .. MaxDegree - 1 |-> Given(r, u, p + 1)])
              /\ current' = NoText /\ live' = texts /\ made' = count
           \/ /\ r.operation # "weighted_sum"
              /\ EnterBasis(r, u, copy)
              /\ current' = given
              /\ live' = texts \cup {copy.id} /\ made' = count + 1

Call(r) ==
    /\ pc = "idle" /\ Accepted(r)
    /\ request' = r /\ results' = <<>>
    /\ EnterUnit(r, 1, GivenIds(r), r.size * MaxDegree)

Refuse(r) ==
    /\ pc = "idle" /\ ~Accepted(r)
    /\ UNCHANGED vars

(* The powers of two, each the square of the one before it. *)
SquarePower ==
    /\ pc = "squares" /\ power =< request.degree
    /\ LET squared == multiply(current, current, made + 1)
           text == IF request.kind = "power"
                     THEN squared
                     ELSE add_number(Doubled(squared), -1, made + 2)
           deleted == {squared.id} \ {text.id}
       IN  /\ basis' = [basis EXCEPT ![power] = text]
           /\ current' = text
           /\ live' = (live \cup {squared.id, text.id}) \ deleted
           /\ made' = text.id
    /\ power' = 2 * power
    /\ UNCHANGED <<pc, request, unit, sum, results>>

EndSquares ==
    /\ pc = "squares" /\ power > request.degree
    /\ pc' = "products" /\ power' = 2
    /\ UNCHANGED <<request, unit, basis, current, sum, results, live, made>>

SkipPower ==
    /\ pc = "products" /\ power =< request.degree /\ basis[power] # NoText
    /\ power' = power + 1
    /\ UNCHANGED <<pc, request, unit, basis, current, sum, results, live, made>>

(* Mutant: the smaller factor is subtracted. *)
SubtractedFactor(highest, p) == p - highest

(* T(a + b) = 2 T(a) T(b) - T(a - b) *)
Subtracted(highest, p) == 2 * highest - p

(* The other powers, each a product of two that are there. *)
MultiplyPower ==
    /\ pc = "products" /\ power =< request.degree /\ basis[power] = NoText
    /\ LET highest == highest_power_of_two[power]
           product == multiply(basis[highest], basis[power - highest], made + 1)
           text == IF request.kind = "power"
                     THEN product
                     ELSE subtract(Doubled(product), basis[Subtracted(highest, power)],
                                   made + 2)
           deleted == {product.id} \ {text.id}
       IN  /\ basis' = [basis EXCEPT ![power] = text]
           /\ live' = (live \cup {product.id, text.id}) \ deleted
           /\ made' = text.id
    /\ power' = power + 1
    /\ UNCHANGED <<pc, request, unit, current, sum, results>>

(* power_basis.erase(power_basis.begin()) *)
Erased == [p \in 0 .. request.degree - 1 |-> basis[p + 1]]

ReturnUnit(texts, alive, count) ==
    /\ results' = Append(results, texts)
    /\ request' = request
    /\ \/ /\ unit < request.size
          /\ EnterUnit(request, unit + 1, alive, count)
       \/ /\ unit = request.size
          /\ pc' = "returned" /\ live' = alive /\ made' = count
          /\ basis' = NoBasis /\ current' = NoText /\ sum' = NoText
          /\ UNCHANGED <<unit, power>>

ReturnBasis ==
    /\ pc = "products" /\ power > request.degree
    /\ request.operation = "make_basis"
    /\ ReturnUnit(Erased, live, made)

SumBasis ==
    /\ pc = "products" /\ power > request.degree
    /\ request.operation = "evaluate"
    /\ EnterSum(request, unit, Erased)
    /\ UNCHANGED <<request, unit, current, results, live, made>>

SkipWeight ==
    /\ pc = "sum" /\ power > 0 /\ request.coefficients[power] = 0
    /\ power' = power - 1
    /\ UNCHANGED <<pc, request, unit, basis, current, sum, results, live, made>>

(* Mutant: only the sum that was replaced is deleted. *)
DeletedBySumOnly(product) == {sum.id}

(* Deleted after the sum was added to a product. *)
DeletedBySum(product) == {sum.id, product.id}

(* weighted_sum_, from the highest power down. *)
Weigh ==
    /\ pc = "sum" /\ power > 0 /\ request.coefficients[power] # 0
    /\ LET product == multiply_number(basis[power - 1],
                                      request.coefficients[power], made + 1)
       IN  /\ sum' = IF sum = NoText THEN product ELSE add(sum, product, made + 2)
           /\ live' = ((live \cup {product.id}) \ DeletedBySum(product)) \cup {sum'.id}
           /\ made' = sum'.id
    /\ power' = power - 1
    /\ UNCHANGED <<pc, request, unit, basis, current, results>>

(* The constant is added to the sum, and the basis of an evaluation deleted. *)
ReturnSum ==
    /\ pc = "sum" /\ power = 0
    /\ LET c == request.coefficients[0]
           text == IF c = 0 THEN sum ELSE add_number(sum, c, made + 1)
           used == IF request.operation = "evaluate"
                     THEN {basis[p].id : p \in DOMAIN basis} ELSE {}
       IN  ReturnUnit(<<text>>, (live \ (used \cup {sum.id})) \cup {text.id},
                      IF c = 0 THEN made ELSE made + 1)

(* The caller deletes all and goes on. *)
Forget ==
    /\ pc = "returned"
    /\ pc' = "idle" /\ request' = NoRequest /\ unit' = 0 /\ power' = 0
    /\ results' = <<>> /\ live' = {} /\ made' = 0
    /\ UNCHANGED <<basis, current, sum>>

Next ==
    \/ \E r \in Request : Call(r) \/ Refuse(r)
    \/ SquarePower \/ EndSquares \/ SkipPower \/ MultiplyPower
    \/ ReturnBasis \/ SumBasis
    \/ SkipWeight \/ Weigh \/ ReturnSum \/ Forget

Spec == Init /\ [][Next]_vars

-----------------------------------------------------------------------------
(* Properties. *)

(* The terms of a polynomial from a power on, and their sum. *)
Terms(r, u, low) ==
    [p \in low .. r.degree |-> Scaled(r.coefficients[p], Expected(r.kind, u, p))]

SumFrom(r, u, low) == FoldFunction(Plus, Constant(0), Terms(r, u, low))

(***************************************************************************)
(* What the functions promise: each unit gets its own basis, or its own     *)
(* value of the polynomial, although the vector of the basis is filled out  *)
(* of order and shifted by one, and no power costs more levels than the     *)
(* depth of a product tree of its degree.                                   *)
(***************************************************************************)
BasisPromised(r, u, texts) ==
    \A p \in 1 .. r.degree :
        /\ texts[p - 1].slots = Expected(r.kind, u, p)
        /\ texts[p - 1].level = r.level[1] - ceil_log2[p]

SumPromised(r, u, texts) ==
    /\ texts[1].slots = SumFrom(r, u, 0)
    /\ texts[1].level >= 0
    /\ r.operation = "evaluate" => texts[1].level >= r.level[1] - required_level(r)

Promised(r, u, texts) ==
    IF r.operation = "make_basis" THEN BasisPromised(r, u, texts)
                                  ELSE SumPromised(r, u, texts)

EvaluatesPolynomial ==
    pc = "returned" => \A u \in 1 .. request.size : Promised(request, u, results[u])

(***************************************************************************)
(* A call that was accepted is not refused half way, when it would throw    *)
(* with a basis on the heap: the level and the key that are checked at its  *)
(* beginning are enough for every product of the loops.                     *)
(***************************************************************************)
InnerCallsAccepted ==
    /\ pc = "squares" /\ power =< request.degree => CanMultiply(current, current)
    /\ pc = "products" /\ power =< request.degree /\ basis[power] = NoText =>
         LET highest == highest_power_of_two[power]
         IN  CanMultiply(basis[highest], basis[power - highest])
    /\ pc = "sum" =>
         /\ 0 .. request.degree - 1 \subseteq DOMAIN basis
         /\ request.number = "double" => \A p \in DOMAIN basis : basis[p].level > 0

(***************************************************************************)
(* A call leaves the texts of the caller and what it returns, each a text   *)
(* of its own, and nothing else; and what a loop has yet to read exists.    *)
(***************************************************************************)
Returned == UNION {{results[u][p].id : p \in DOMAIN results[u]} : u \in DOMAIN results}

HeapSound ==
    /\ pc = "returned" =>
         /\ live = GivenIds(request) \cup Returned
         /\ Returned \cap GivenIds(request) = {}
    /\ pc \in {"squares", "products", "sum"} =>
         {text.id : text \in {basis[p] : p \in DOMAIN basis} \cup {current, sum}}
           \subseteq live \cup {NoText.id}

-----------------------------------------------------------------------------
(***************************************************************************)
(* The inductive invariant behind InnerCallsAccepted: the p-th text of a    *)
(* basis is ceil_log2[p] levels below the text of the caller, which texts   *)
(* are there when a loop needs them, and what weighted_sum can count on.    *)
(***************************************************************************)
Degree == 1 .. MaxDegree

IsPowerOfTwo(n) == highest_power_of_two[n] = n

BasisInv ==
    pc \in {"squares", "products"} =>
        /\ request.operation # "weighted_sum"
        /\ basis = [p \in 0 .. request.degree |-> basis[p]]
        /\ \A p \in 1 .. request.degree :
              basis[p] # NoText => basis[p].level = request.level[1] - ceil_log2[p]

SquaresInv ==
    pc = "squares" =>
        \E h \in 1 .. request.degree :
            /\ IsPowerOfTwo(h) /\ power = 2 * h
            /\ current.level = request.level[1] - ceil_log2[h]
            /\ \A p \in 1 .. request.degree :
                  IsPowerOfTwo(p) /\ p =< h => basis[p] # NoText

ProductsInv ==
    pc = "products" =>
        /\ power \in 2 .. request.degree + 1
        /\ \A p \in 1 .. request.degree :
              IsPowerOfTwo(p) \/ p < power => basis[p] # NoText

SumInv ==
    pc = "sum" =>
        /\ 0 .. request.degree - 1 \subseteq DOMAIN basis
        /\ request.number = "double" => \A p \in DOMAIN basis : basis[p].level > 0

Made == made \in Nat /\ (pc # "idle" => request \in Request /\ Accepted(request))

LevelInv == Made /\ BasisInv /\ SquaresInv /\ ProductsInv /\ SumInv

(***************************************************************************)
(* The inductive invariant behind HeapSound: what exists are the texts of   *)
(* the caller, those that wait to be returned, and those that the unit has  *)
(* made and still holds, three sets that have no text in common.            *)
(***************************************************************************)
Held ==
    ({sum.id} \cup (IF request.operation = "weighted_sum"
                      THEN {} ELSE {basis[p].id : p \in DOMAIN basis})) \ {NoText.id}

LiveInv ==
    pc # "idle" =>
        /\ unit \in 1 .. request.size /\ results \in Seq(Range(results))
        /\ live = GivenIds(request) \cup Returned \cup Held
        /\ request.size * MaxDegree =< made
        /\ Returned \cup Held \subseteq request.size * MaxDegree + 1 .. made
        /\ Returned \cap Held = {}

(* What the loops read.  No text of a basis is replaced.                    *)
ReadInv ==
    pc \in {"squares", "products", "sum"} =>
        /\ current.id \in GivenIds(request) \cup Held \cup {NoText.id}
        /\ request.operation = "weighted_sum" =>
             \A p \in DOMAIN basis : basis[p].id \in GivenIds(request)

BuiltInv ==
    pc \in {"squares", "products"} =>
        /\ sum = NoText /\ basis[0] = NoText
        /\ \A p \in 1 .. request.degree : basis[p] # NoText =>
             basis[p].id # NoText.id /\ (pc = "squares" => p < power)

(* A sum that has not begun will: some weight is not zero.                  *)
WeighedInv ==
    pc = "sum" =>
        /\ request.operation # "make_basis" /\ power \in 0 .. request.degree
        /\ sum = NoText => \E n \in 1 .. power : request.coefficients[n] # 0
        /\ sum # NoText => /\ sum.id \notin {NoText.id, current.id}
                           /\ \A p \in DOMAIN basis : basis[p].id # sum.id

DoneInv == pc = "returned" => Held = {}

HeapInv == LiveInv /\ ReadInv /\ BuiltInv /\ WeighedInv /\ DoneInv

(***************************************************************************)
(* The inductive invariant behind EvaluatesPolynomial: the texts of a       *)
(* basis hold their powers, the sum holds all terms that the loop has left  *)
(* behind, and each unit that was returned holds what was promised.         *)
(***************************************************************************)
BasisValues ==
    pc \in {"squares", "products"} =>
        /\ \A p \in 1 .. request.degree :
              basis[p] # NoText => basis[p].slots = Expected(request.kind, unit, p)
        /\ pc = "squares" =>
              current.slots = Expected(request.kind, unit, power \div 2)

Weighable(r, u, p, text) ==
    /\ text.slots = Expected(r.kind, u, p) /\ text.level \in Nat
    /\ r.operation = "evaluate" => text.level >= r.level[1] - ceil_log2[r.degree]

Weighed(r, u, low, text) ==
    /\ text.slots = SumFrom(r, u, low) /\ text.level \in Nat
    /\ r.operation = "evaluate" => text.level >= r.level[1] - required_level(r)

SumValues ==
    pc = "sum" =>
        /\ \A p \in 1 .. request.degree : Weighable(request, unit, p, basis[p - 1])
        /\ IF sum = NoText
             THEN SumFrom(request, unit, power + 1) = Constant(0)
             ELSE Weighed(request, unit, power + 1, sum)

ResultValues ==
    pc # "idle" =>
        /\ Len(results) = IF pc = "returned" THEN request.size ELSE unit - 1
        /\ \A u \in 1 .. Len(results) : Promised(request, u, results[u])

ValueInv == BasisValues /\ SumValues /\ ResultValues
=============================================================================
