------------------------- MODULE PolynomialsProofs -------------------------
(***************************************************************************)
(* Proofs that an evaluation that is accepted never runs out of levels or  *)
(* of the levels of its key, that it leaves no text behind and reads none  *)
(* that it has deleted, and that it returns the powers or the value of the *)
(* polynomial, for every degree, level and request.                        *)
(*                                                                         *)
(* The argument for the first is that the basis is a product tree of the   *)
(* least depth: the p-th text is ceil_log2[p] levels below the caller's.   *)
(* It rests on what the two logarithms have to do with each other, which   *)
(* is proved from the halving recurrences by least counterexamples.        *)
(*                                                                         *)
(* The argument for the second is that the heap falls into three parts     *)
(* that have no text in common, the texts of the caller, the results, and  *)
(* what the unit holds, and that each step moves texts between the last    *)
(* two.  The first proof is needed for it: a basis is returned or erased   *)
(* as a whole because every power of it is there.                          *)
(*                                                                         *)
(* The argument for the third is that a product of two powers is the power *)
(* that the loop stores it as, and that a sum from the highest power down  *)
(* is the sum over all of them.  The polynomials of a basis and the sum    *)
(* are defined by recursion: that the recursive functions exist, and what  *)
(* they satisfy, is proved by least counterexamples as well.               *)
(***************************************************************************)
EXTENDS Polynomials, FiniteSetTheorems, WellFoundedInduction, TLAPS

(* Every nonempty set of natural numbers has a least element. *)
LEMMA LeastOfNaturals ==
    ASSUME NEW S \in SUBSET Nat, S # {}
    PROVE  \E m \in S : \A k \in S : m =< k
<1> DEFINE Less == {pair \in Nat \X Nat : pair[1] < pair[2]}
<1>1. IsWellFoundedOn(Less, Nat)
  BY NatLessThanWellFounded DEF OpToRel
<1> HIDE DEF Less
<1>2. PICK m \in S : \A k \in S : ~(<<k, m>> \in Less)
  BY <1>1, WFMin
<1>3. \A k \in S : ~(k < m)
  BY <1>2 DEF Less
<1> QED
  BY <1>3

LEMMA Typed ==
    /\ MaxDegree \in Nat \ {0}
    /\ \A n \in Degree : /\ ceil_log2[n] \in Nat
                         /\ highest_power_of_two[n] \in Degree
    /\ ceil_log2[1] = 0 /\ highest_power_of_two[1] = 1
BY DegreeAssumption, Log2Assumption DEF Degree

LEMMA Halves ==
    ASSUME NEW n \in Degree, n >= 2
    PROVE  /\ n \div 2 \in Degree /\ n \div 2 < n
           /\ (n + 1) \div 2 \in Degree /\ (n + 1) \div 2 < n
           /\ ceil_log2[n] = ceil_log2[(n + 1) \div 2] + 1
           /\ highest_power_of_two[n] = 2 * highest_power_of_two[n \div 2]
BY Log2Assumption, Typed DEF Degree

(* Half of a power of two is one. *)
LEMMA HalfOfPower ==
    ASSUME NEW h \in Degree, IsPowerOfTwo(h), h >= 2
    PROVE  /\ h \div 2 \in Degree /\ IsPowerOfTwo(h \div 2)
           /\ h = 2 * (h \div 2) /\ (h \div 2) < h
<1>1. h = 2 * highest_power_of_two[h \div 2] /\ h \div 2 \in Degree /\ h \div 2 < h
  BY Halves DEF IsPowerOfTwo
<1>2. highest_power_of_two[h \div 2] \in Degree
  BY <1>1, Typed
<1>3. h \div 2 = highest_power_of_two[h \div 2]
  BY <1>1, <1>2 DEF Degree
<1> QED
  BY <1>1, <1>3 DEF IsPowerOfTwo

(* A power of two is the highest one below its successors. *)
LEMMA HighestInRange ==
    ASSUME NEW h \in Degree, IsPowerOfTwo(h), NEW p \in Degree, h =< p, p < 2 * h
    PROVE  highest_power_of_two[p] = h
<1> DEFINE Wrong == {k \in Degree : IsPowerOfTwo(k) /\
                       \E n \in Degree : /\ k =< n /\ n < 2 * k
                                         /\ highest_power_of_two[n] # k}
<1>1. SUFFICES ASSUME Wrong # {} PROVE FALSE
  BY <1>1
<1>2. Wrong \in SUBSET Nat
  BY Typed DEF Degree
<1>3. PICK k \in Wrong : \A j \in Wrong : k =< j
  BY <1>1, <1>2, LeastOfNaturals
<1>4. PICK n \in Degree : k =< n /\ n < 2 * k /\ highest_power_of_two[n] # k
  BY <1>3
<1>5. k \in Degree /\ IsPowerOfTwo(k)
  BY <1>3
<1>6. CASE k = 1
  <2>1. n = 1
    BY <1>4, <1>6 DEF Degree
  <2> QED
    BY <2>1, <1>4, <1>6, Typed
<1>7. CASE k # 1
  <2>1. k >= 2 /\ n >= 2 /\ k \in Nat /\ n \in Nat
    BY <1>4, <1>5, <1>7 DEF Degree
  <2> DEFINE j == k \div 2
  <2>2. j \in Degree /\ IsPowerOfTwo(j) /\ k = 2 * j /\ j < k
    BY <1>5, <2>1, HalfOfPower
  <2>3. n \div 2 \in Degree /\ highest_power_of_two[n] = 2 * highest_power_of_two[n \div 2]
    BY <2>1, Halves
  <2> HIDE DEF j
  <2>4. j =< n \div 2 /\ n \div 2 < 2 * j
    BY <1>4, <2>1, <2>2 DEF Degree
  <2>5. highest_power_of_two[n \div 2] = j
    <3>1. j \notin Wrong
      BY <1>3, <2>2, <1>5 DEF Degree
    <3> QED
      BY <3>1, <2>2, <2>3, <2>4
  <2> QED
    BY <1>4, <2>2, <2>3, <2>5
<1> QED
  BY <1>6, <1>7

(* What the loop computes with std::floor(std::log2(p)). *)
LEMMA HighestBelow ==
    ASSUME NEW p \in Degree
    PROVE  LET h == highest_power_of_two[p]
           IN  h \in Degree /\ h =< p /\ p < 2 * h /\ IsPowerOfTwo(h)
<1> DEFINE Right(n) == LET h == highest_power_of_two[n]
                       IN  h \in Degree /\ h =< n /\ n < 2 * h /\ IsPowerOfTwo(h)
           Wrong == {n \in Degree : ~Right(n)}
<1>1. SUFFICES ASSUME Wrong # {} PROVE FALSE
  BY <1>1
<1>2. Wrong \in SUBSET Nat
  BY Typed DEF Degree
<1>3. PICK n \in Wrong : \A j \in Wrong : n =< j
  BY <1>1, <1>2, LeastOfNaturals
<1>4. n \in Degree /\ n \in Nat
  BY <1>3 DEF Degree
<1>5. CASE n = 1
  BY <1>3, <1>5, Typed DEF IsPowerOfTwo, Degree
<1>6. CASE n # 1
  <2>1. n >= 2
    BY <1>4, <1>6 DEF Degree
  <2> DEFINE half == n \div 2
             k == highest_power_of_two[half]
  <2>2. half \in Degree /\ half < n /\ highest_power_of_two[n] = 2 * k
    BY <1>4, <2>1, Halves
  <2>3. half \in Nat /\ (n = 2 * half \/ n = 2 * half + 1)
    BY <1>4
  <2>4. Right(half)
    BY <1>3, <1>4, <2>2, <2>3
  <2>5. k \in Degree /\ k =< half /\ half < 2 * k /\ IsPowerOfTwo(k)
    BY <2>4
  <2> HIDE DEF half, k
  <2>6. 2 * k =< n /\ n < 2 * (2 * k) /\ 2 * k \in Degree
    BY <1>4, <2>3, <2>5, Typed DEF Degree
  <2>7. IsPowerOfTwo(2 * k)
    <3>1. (2 * k) \div 2 = k /\ 2 * k >= 2
      BY <2>5 DEF Degree
    <3>2. highest_power_of_two[2 * k] = 2 * highest_power_of_two[k]
      BY <2>6, <3>1, Halves
    <3> QED
      BY <3>2, <2>5 DEF IsPowerOfTwo
  <2> QED
    BY <1>3, <2>2, <2>6, <2>7
<1> QED
  BY <1>5, <1>6

(* A higher power is no less deep. *)
LEMMA DepthMonotone ==
    ASSUME NEW p \in Degree, NEW n \in Degree, p =< n
    PROVE  ceil_log2[p] =< ceil_log2[n]
<1> DEFINE Wrong == {m \in Degree : \E q \in Degree : /\ q =< m
                                                      /\ ceil_log2[q] > ceil_log2[m]}
<1>1. SUFFICES ASSUME Wrong # {} PROVE FALSE
  BY <1>1, Typed
<1>2. Wrong \in SUBSET Nat
  BY Typed DEF Degree
<1>3. PICK m \in Wrong : \A j \in Wrong : m =< j
  BY <1>1, <1>2, LeastOfNaturals
<1>4. PICK q \in Degree : q =< m /\ ceil_log2[q] > ceil_log2[m]
  BY <1>3
<1>5. m \in Degree /\ m \in Nat /\ q \in Nat /\ ceil_log2[q] \in Nat /\ ceil_log2[m] \in Nat
  BY <1>3, <1>4, Typed DEF Degree
<1>6. q >= 2 /\ m >= 2
  <2>1. q # 1
    BY <1>4, <1>5, Typed
  <2> QED
    BY <1>4, <1>5, <2>1 DEF Degree
<1> DEFINE r(n_) == (n_ + 1) \div 2
<1>7. /\ r(m) \in Degree /\ r(m) < m /\ ceil_log2[m] = ceil_log2[r(m)] + 1
      /\ r(q) \in Degree /\ ceil_log2[q] = ceil_log2[r(q)] + 1
  BY <1>4, <1>5, <1>6, Halves
<1>8. r(q) =< r(m)
  BY <1>4, <1>5
<1>9. r(m) \notin Wrong
  BY <1>3, <1>5, <1>7 DEF Degree
<1>10. ceil_log2[r(q)] =< ceil_log2[r(m)]
  BY <1>7, <1>8, <1>9, Typed
<1> QED
  BY <1>4, <1>5, <1>7, <1>10, Typed

(* Above a power of two, and up to the next one, a power is one deeper. *)
LEMMA DepthAbove ==
    ASSUME NEW h \in Degree, IsPowerOfTwo(h), NEW p \in Degree, h < p, p =< 2 * h
    PROVE  ceil_log2[p] = ceil_log2[h] + 1
<1> DEFINE Wrong == {k \in Degree : IsPowerOfTwo(k) /\
                       \E n \in Degree : /\ k < n /\ n =< 2 * k
                                         /\ ceil_log2[n] # ceil_log2[k] + 1}
<1>1. SUFFICES ASSUME Wrong # {} PROVE FALSE
  BY <1>1
<1>2. Wrong \in SUBSET Nat
  BY Typed DEF Degree
<1>3. PICK k \in Wrong : \A j \in Wrong : k =< j
  BY <1>1, <1>2, LeastOfNaturals
<1>4. PICK n \in Degree : k < n /\ n =< 2 * k /\ ceil_log2[n] # ceil_log2[k] + 1
  BY <1>3
<1>5. k \in Degree /\ IsPowerOfTwo(k) /\ k \in Nat /\ n \in Nat /\ k >= 1
  BY <1>3, <1>4 DEF Degree
<1> DEFINE up == (n + 1) \div 2
<1>6. up \in Degree /\ ceil_log2[n] = ceil_log2[up] + 1
  BY <1>4, <1>5, Halves
<1>7. up =< k /\ 2 * up >= n /\ up \in Nat
  BY <1>4, <1>5
<1> HIDE DEF up
<1>8. CASE k = 1
  <2>1. up = k
    BY <1>4, <1>5, <1>7, <1>8
  <2> QED
    BY <2>1, <1>4, <1>6
<1>9. CASE k # 1
  <2> DEFINE j == k \div 2
  <2>1. j \in Degree /\ IsPowerOfTwo(j) /\ k = 2 * j /\ j < k
    BY <1>5, <1>9, HalfOfPower
  <2> HIDE DEF j
  <2>2. j < up /\ up =< 2 * j
    BY <1>4, <1>5, <1>7, <2>1 DEF Degree
  <2>3. j \notin Wrong
    BY <1>3, <1>5, <2>1 DEF Degree
  <2>4. ceil_log2[up] = ceil_log2[j] + 1
    BY <2>1, <2>2, <2>3, <1>6
  <2>5. ceil_log2[k] = ceil_log2[j] + 1
    <3>1. j < k /\ k =< 2 * j
      BY <1>5, <2>1 DEF Degree
    <3> QED
      BY <1>5, <2>1, <2>3, <3>1
  <2> QED
    BY <1>4, <1>6, <2>4, <2>5
<1> QED
  BY <1>8, <1>9

-----------------------------------------------------------------------------
(* What an accepted call that makes a basis brings with it. *)
LEMMA AcceptedFacts ==
    ASSUME NEW r \in Request, Accepted(r)
    PROVE  /\ r.degree \in Degree /\ r.key \in Nat
           /\ \A p \in Degree : r.level[p] \in Nat
           /\ r.operation # "weighted_sum" =>
                /\ ceil_log2[r.degree] =< r.level[1]
                /\ r.operation = "evaluate" /\ r.number = "double" =>
                     ceil_log2[r.degree] < r.level[1]
                /\ r.level[1] - 1 =< r.key
           /\ r.operation = "weighted_sum" /\ r.number = "double" =>
                \A p \in Degree : r.level[p] > 0
<1>1. r.degree \in Degree /\ r.key \in Nat /\ \A p \in Degree : r.level[p] \in Nat
  <2>1. /\ r.degree \in 0 .. MaxDegree /\ r.key \in Nat
        /\ r.level \in [1 .. MaxDegree -> Nat]
    BY RequestAssumption
  <2>2. r.degree >= 1
    BY DEF Accepted
  <2> QED
    BY <2>1, <2>2, Typed DEF Degree
<1>2. 1 \in Degree /\ ceil_log2[r.degree] \in Nat
  BY <1>1, Typed DEF Degree
<1> QED
  BY <1>1, <1>2 DEF Accepted, Fits, required_level, Powers, Degree

(* The next unit starts with what the first one started with. *)
LEMMA EnterKeepsLevels ==
    ASSUME NEW r \in Request, Accepted(r), NEW u, NEW texts, NEW count \in Nat,
           request' = r, EnterUnit(r, u, texts, count)
    PROVE  LevelInv'
<1>1. /\ r.degree \in Degree /\ \A p \in Degree : r.level[p] \in Nat
      /\ r.operation = "weighted_sum" /\ r.number = "double" =>
           \A p \in Degree : r.level[p] > 0
  BY AcceptedFacts
<1>2. CASE r.operation = "weighted_sum"
  <2>1. /\ pc' = "sum" /\ made' = count
        /\ basis' = [p \in 0 .. MaxDegree - 1 |-> Given(r, u, p + 1)]
    BY <1>2 DEF EnterUnit, EnterSum
  <2>2. \A p \in 0 .. MaxDegree - 1 : basis'[p].level = r.level[p + 1]
    BY <2>1 DEF Given, Text
  <2>3. 0 .. r.degree - 1 \subseteq DOMAIN basis'
    BY <1>1, <2>1, Typed DEF Degree
  <2>4. r.number = "double" => \A p \in DOMAIN basis' : basis'[p].level > 0
    BY <1>1, <1>2, <2>1, <2>2, Typed DEF Degree
  <2> QED
    BY <2>1, <2>3, <2>4 DEF LevelInv, Made, BasisInv, SquaresInv, ProductsInv, SumInv
<1>3. CASE r.operation # "weighted_sum"
  <2> DEFINE given == Given(r, u, 1)
             copy == [given EXCEPT !.id = count + 1]
  <2>1. /\ pc' = "squares" /\ power' = 2 /\ made' = count + 1 /\ current' = given
        /\ basis' = [p \in 0 .. r.degree |-> IF p = 1 THEN copy ELSE NoText]
    BY <1>3 DEF EnterUnit, EnterBasis
  <2>2. given.level = r.level[1] /\ copy.level = r.level[1] /\ copy # NoText
    <3>1. copy.id = count + 1
      BY DEF Given, Text
    <3>2. NoText.id = 0
      BY DEF NoText
    <3> QED
      BY <3>1, <3>2 DEF Given, Text
  <2> HIDE DEF given, copy
  <2>3. 1 \in Degree /\ ceil_log2[1] = 0 /\ IsPowerOfTwo(1) /\ r.level[1] \in Nat
    BY <1>1, Typed DEF Degree, IsPowerOfTwo
  <2>4. BasisInv'
    BY <1>1, <1>3, <2>1, <2>2, <2>3 DEF BasisInv, Degree
  <2>5. SquaresInv'
    <3>1. \A p \in Degree : p =< 1 => p = 1
      BY DEF Degree
    <3>2. current'.level = r.level[1] - ceil_log2[1] /\ basis'[1] # NoText
      BY <1>1, <2>1, <2>2, <2>3 DEF Degree
    <3> QED
      BY <1>1, <2>1, <2>3, <3>1, <3>2 DEF SquaresInv, Degree
  <2> QED
    BY <2>1, <2>4, <2>5 DEF LevelInv, Made, ProductsInv, SumInv
<1> QED
  BY <1>2, <1>3

(* LevelInv holds initially. *)
LEMMA LevelInit == Init => LevelInv
BY DEF Init, LevelInv, Made, BasisInv, SquaresInv, ProductsInv, SumInv

(* A square has the depth of its power, and the levels for it are there. *)
LEMMA SquareFacts ==
    ASSUME LevelInv, pc = "squares", power =< request.degree
    PROVE  /\ power \in 2 .. request.degree /\ IsPowerOfTwo(power)
           /\ current.level \in Nat /\ current.level > 0
           /\ current.level - 1 =< request.key
           /\ current.level - 1 = request.level[1] - ceil_log2[power]
           /\ \A p \in 1 .. request.degree :
                 IsPowerOfTwo(p) /\ p =< power => p = power \/ basis[p] # NoText
<1>1. request \in Request /\ Accepted(request) /\ request.operation # "weighted_sum"
  BY DEF LevelInv, Made, BasisInv
<1>2. /\ request.degree \in Degree /\ request.key \in Nat /\ request.level[1] \in Nat
      /\ ceil_log2[request.degree] =< request.level[1]
      /\ request.level[1] - 1 =< request.key
  BY <1>1, AcceptedFacts, Typed DEF Degree
<1>3. PICK h \in 1 .. request.degree :
            /\ IsPowerOfTwo(h) /\ power = 2 * h
            /\ current.level = request.level[1] - ceil_log2[h]
            /\ \A p \in 1 .. request.degree :
                  IsPowerOfTwo(p) /\ p =< h => basis[p] # NoText
  BY DEF LevelInv, SquaresInv
<1>4. /\ h \in Degree /\ power \in Degree /\ h < power /\ power =< 2 * h
      /\ ceil_log2[h] \in Nat /\ h \in Nat /\ power >= 2
  BY <1>2, <1>3, Typed DEF Degree
<1>5. ceil_log2[power] = ceil_log2[h] + 1
  BY <1>3, <1>4, DepthAbove
<1>6. ceil_log2[power] =< ceil_log2[request.degree]
  BY <1>2, <1>4, DepthMonotone
<1>7. IsPowerOfTwo(power)
  <2>1. power \div 2 = h
    BY <1>3, <1>4
  <2>2. highest_power_of_two[power] = 2 * highest_power_of_two[h]
    BY <1>4, <2>1, Halves
  <2> QED
    BY <1>3, <2>2 DEF IsPowerOfTwo
<1>8. ASSUME NEW p \in 1 .. request.degree, IsPowerOfTwo(p), p =< power, p # power
      PROVE  p =< h
  <2>1. p \in Degree /\ p < 2 * h
    BY <1>2, <1>3, <1>4, <1>8, Typed DEF Degree
  <2>2. p > h => highest_power_of_two[p] = h
    BY <1>3, <1>4, <2>1, HighestInRange DEF Degree
  <2> QED
    BY <1>4, <1>8, <2>1, <2>2 DEF IsPowerOfTwo, Degree
<1>9. current.level \in Nat /\ current.level > 0
  <2>1. ceil_log2[request.degree] \in Nat
    BY <1>2, Typed
  <2> QED
    BY <1>2, <1>3, <1>4, <1>5, <1>6, <2>1
<1> QED
  BY <1>2, <1>3, <1>4, <1>5, <1>7, <1>8, <1>9

(* The two factors of any other power are there, with levels to spare. *)
LEMMA ProductFacts ==
    ASSUME LevelInv, pc = "products", power =< request.degree,
           basis[power] = NoText,
           NEW h, h = highest_power_of_two[power]
    PROVE  /\ power \in 2 .. request.degree /\ power \in Degree
           /\ h \in Degree /\ power - h \in Degree /\ 2 * h - power \in Degree
           /\ basis[h].level = request.level[1] - ceil_log2[h]
           /\ basis[power - h].level = request.level[1] - ceil_log2[power - h]
           /\ basis[2 * h - power].level =
                 request.level[1] - ceil_log2[2 * h - power]
           /\ ceil_log2[power - h] =< ceil_log2[h]
           /\ ceil_log2[2 * h - power] =< ceil_log2[h]
           /\ ceil_log2[power] = ceil_log2[h] + 1
           /\ ceil_log2[power] =< request.level[1]
           /\ request.level[1] \in Nat /\ request.key \in Nat
           /\ request.level[1] - 1 =< request.key
<1>1. request \in Request /\ Accepted(request) /\ request.operation # "weighted_sum"
  BY DEF LevelInv, Made, BasisInv
<1>2. /\ request.degree \in Degree /\ request.key \in Nat /\ request.level[1] \in Nat
      /\ ceil_log2[request.degree] =< request.level[1]
      /\ request.level[1] - 1 =< request.key
  BY <1>1, AcceptedFacts, Typed DEF Degree
<1>3. power \in 2 .. request.degree /\ power \in Degree
  <2>1. power \in 2 .. request.degree + 1
    BY DEF LevelInv, ProductsInv
  <2> QED
    BY <1>2, <2>1, Typed DEF Degree
<1>4. h \in Degree /\ h =< power /\ power < 2 * h /\ IsPowerOfTwo(h)
  BY <1>3, HighestBelow
<1>5. h # power
  BY <1>3, <1>4 DEF LevelInv, ProductsInv
<1>6. /\ power - h \in Degree /\ power - h < h /\ power - h < power /\ h < power
      /\ 2 * h - power \in Degree /\ 2 * h - power < h /\ 2 * h - power < power
      /\ {h, power - h, 2 * h - power} \subseteq 1 .. request.degree
  BY <1>2, <1>3, <1>4, <1>5, Typed DEF Degree
<1>7. /\ basis[h].level = request.level[1] - ceil_log2[h]
      /\ basis[power - h].level = request.level[1] - ceil_log2[power - h]
      /\ basis[2 * h - power].level = request.level[1] - ceil_log2[2 * h - power]
  BY <1>6 DEF LevelInv, ProductsInv, BasisInv
<1>8. /\ ceil_log2[power - h] =< ceil_log2[h]
      /\ ceil_log2[2 * h - power] =< ceil_log2[h]
      /\ ceil_log2[power] =< ceil_log2[request.degree]
  <2>1. power - h =< h /\ 2 * h - power =< h /\ power =< request.degree
    BY <1>3, <1>4, <1>6 DEF Degree
  <2> QED
    BY <1>2, <1>3, <1>4, <1>6, <2>1, DepthMonotone
<1>9. ceil_log2[power] = ceil_log2[h] + 1
  <2>1. power =< 2 * h
    BY <1>3, <1>4 DEF Degree
  <2> QED
    BY <1>3, <1>4, <1>6, <2>1, DepthAbove
<1>10. ceil_log2[power] =< request.level[1]
  <2>1. ceil_log2[power] \in Nat /\ ceil_log2[request.degree] \in Nat
    BY <1>2, <1>3, Typed
  <2> QED
    BY <1>2, <1>8, <2>1
<1> QED
  BY <1>2, <1>3, <1>4, <1>6, <1>7, <1>8, <1>9, <1>10

-----------------------------------------------------------------------------
(* Every step keeps LevelInv. *)
LEMMA SquareKeepsLevels == LevelInv /\ SquarePower => LevelInv'
<1> SUFFICES ASSUME LevelInv, SquarePower PROVE LevelInv'
  OBVIOUS
<1>1. /\ power \in 2 .. request.degree /\ IsPowerOfTwo(power)
      /\ current.level \in Nat
      /\ current.level - 1 = request.level[1] - ceil_log2[power]
      /\ \A p \in 1 .. request.degree :
            IsPowerOfTwo(p) /\ p =< power => p = power \/ basis[p] # NoText
  BY SquareFacts DEF SquarePower
<1>2. /\ request \in Request /\ Accepted(request) /\ made \in Nat
      /\ request.operation # "weighted_sum" /\ pc = "squares"
      /\ basis = [p \in 0 .. request.degree |-> basis[p]]
      /\ \A p \in 1 .. request.degree :
            basis[p] # NoText => basis[p].level = request.level[1] - ceil_log2[p]
  BY DEF SquarePower, LevelInv, Made, BasisInv
<1> DEFINE squared == multiply(current, current, made + 1)
           text == IF request.kind = "power"
                     THEN squared
                     ELSE add_number(Doubled(squared), -1, made + 2)
<1>3. text.level = current.level - 1 /\ text.id \in {made + 1, made + 2}
  <2>1. squared.level = current.level - 1 /\ squared.id = made + 1
    BY <1>1 DEF multiply, Text, Lower
  <2>2. Doubled(squared).level = squared.level
    BY DEF Doubled, multiply, Text
  <2> QED
    BY <2>1, <2>2 DEF add_number, Text
<1>4. /\ basis' = [basis EXCEPT ![power] = text] /\ current' = text
      /\ made' = text.id /\ power' = 2 * power
      /\ pc' = pc /\ request' = request
  BY DEF SquarePower
<1> HIDE DEF squared, text
<1>5. text # NoText
  <2>1. text.id # 0
    BY <1>2, <1>3
  <2> QED
    BY <2>1 DEF NoText
<1>6. \A p \in 1 .. request.degree :
         basis'[p] = IF p = power THEN text ELSE basis[p]
  BY <1>2, <1>4
<1>7. BasisInv'
  <2>1. basis' = [p \in 0 .. request.degree |-> basis'[p]]
    BY <1>2, <1>4
  <2>2. \A p \in 1 .. request.degree :
          basis'[p] # NoText => basis'[p].level = request.level[1] - ceil_log2[p]
    BY <1>1, <1>2, <1>3, <1>6
  <2> QED
    BY <1>2, <1>4, <2>1, <2>2 DEF BasisInv
<1>8. SquaresInv'
  <2>1. power \in 1 .. request.degree
    BY <1>1
  <2>2. \A p \in 1 .. request.degree :
          IsPowerOfTwo(p) /\ p =< power => basis'[p] # NoText
    BY <1>1, <1>5, <1>6
  <2>3. current'.level = request.level[1] - ceil_log2[power]
    BY <1>1, <1>3, <1>4
  <2> QED
    BY <1>1, <1>4, <2>1, <2>2, <2>3 DEF SquaresInv
<1>9. made' \in Nat
  BY <1>2, <1>3, <1>4
<1> QED
  BY <1>2, <1>4, <1>7, <1>8, <1>9 DEF LevelInv, Made, ProductsInv, SumInv

LEMMA EndSquaresKeepsLevels == LevelInv /\ EndSquares => LevelInv'
<1> SUFFICES ASSUME LevelInv, EndSquares PROVE LevelInv'
  OBVIOUS
<1>1. /\ pc = "squares" /\ power > request.degree
      /\ pc' = "products" /\ power' = 2
      /\ request' = request /\ basis' = basis /\ made' = made
  BY DEF EndSquares
<1>2. request \in Request /\ Accepted(request) /\ made \in Nat
  BY <1>1 DEF LevelInv, Made
<1>3. request.degree \in Degree
  BY <1>2, AcceptedFacts
<1>4. PICK h \in 1 .. request.degree :
            /\ IsPowerOfTwo(h) /\ power = 2 * h
            /\ \A p \in 1 .. request.degree :
                  IsPowerOfTwo(p) /\ p =< h => basis[p] # NoText
  BY <1>1 DEF LevelInv, SquaresInv
<1>5. ASSUME NEW p \in 1 .. request.degree, IsPowerOfTwo(p) PROVE basis[p] # NoText
  <2>1. p \in Degree /\ h \in Degree /\ p < 2 * h
    BY <1>1, <1>3, <1>4, Typed DEF Degree
  <2>2. p > h => highest_power_of_two[p] = h
    BY <1>4, <2>1, HighestInRange DEF Degree
  <2>3. p =< h
    BY <1>5, <2>1, <2>2 DEF IsPowerOfTwo, Degree
  <2> QED
    BY <1>4, <1>5, <2>3
<1>6. \A p \in 1 .. request.degree : p < 2 => IsPowerOfTwo(p)
  <2>1. \A p \in 1 .. request.degree : p < 2 => p = 1
    BY <1>3, Typed DEF Degree
  <2> QED
    BY <2>1, Typed DEF IsPowerOfTwo
<1>7. ProductsInv'
  <2>1. power' \in 2 .. request.degree + 1
    BY <1>1, <1>3, Typed DEF Degree
  <2> QED
    BY <1>1, <1>5, <1>6, <2>1 DEF ProductsInv
<1>8. BasisInv'
  BY <1>1 DEF LevelInv, BasisInv
<1> QED
  BY <1>1, <1>2, <1>7, <1>8 DEF LevelInv, Made, SquaresInv, SumInv

LEMMA SkipKeepsLevels == LevelInv /\ SkipPower => LevelInv'
<1> SUFFICES ASSUME LevelInv, SkipPower PROVE LevelInv'
  OBVIOUS
<1>1. /\ pc = "products" /\ power =< request.degree /\ basis[power] # NoText
      /\ power' = power + 1 /\ pc' = pc /\ request' = request
      /\ basis' = basis /\ made' = made
  BY DEF SkipPower
<1>2. request.degree \in Nat
  BY <1>1, AcceptedFacts, Typed DEF LevelInv, Made, Degree
<1>3. ProductsInv'
  <2>1. power \in 2 .. request.degree + 1
    BY <1>1 DEF LevelInv, ProductsInv
  <2>2. power' \in 2 .. request.degree + 1
    BY <1>1, <1>2, <2>1
  <2>3. \A p \in 1 .. request.degree : p < power' => p < power \/ p = power
    BY <1>1, <1>2, <2>1
  <2> QED
    BY <1>1, <2>2, <2>3 DEF LevelInv, ProductsInv
<1> QED
  BY <1>1, <1>3 DEF LevelInv, Made, BasisInv, SquaresInv, SumInv

LEMMA MultiplyKeepsLevels == LevelInv /\ MultiplyPower => LevelInv'
<1> SUFFICES ASSUME LevelInv, MultiplyPower PROVE LevelInv'
  OBVIOUS
<1> DEFINE highest == highest_power_of_two[power]
           product == multiply(basis[highest], basis[power - highest], made + 1)
           text == IF request.kind = "power"
                     THEN product
                     ELSE subtract(Doubled(product),
                                   basis[Subtracted(highest, power)], made + 2)
<1>1. /\ pc = "products" /\ power =< request.degree /\ basis[power] = NoText
      /\ basis' = [basis EXCEPT ![power] = text]
      /\ made' = text.id /\ power' = power + 1
      /\ pc' = pc /\ request' = request
  BY DEF MultiplyPower
<1> HIDE DEF highest
<1>2. /\ power \in 2 .. request.degree /\ power \in Degree
      /\ highest \in Degree /\ power - highest \in Degree
      /\ 2 * highest - power \in Degree
      /\ basis[highest].level = request.level[1] - ceil_log2[highest]
      /\ basis[power - highest].level =
            request.level[1] - ceil_log2[power - highest]
      /\ basis[2 * highest - power].level =
            request.level[1] - ceil_log2[2 * highest - power]
      /\ ceil_log2[power - highest] =< ceil_log2[highest]
      /\ ceil_log2[2 * highest - power] =< ceil_log2[highest]
      /\ ceil_log2[power] = ceil_log2[highest] + 1
      /\ request.level[1] \in Nat
  BY <1>1, ProductFacts DEF highest
<1>3. /\ ceil_log2[highest] \in Nat /\ ceil_log2[power - highest] \in Nat
      /\ ceil_log2[2 * highest - power] \in Nat
  BY <1>2, Typed
<1>4. /\ request \in Request /\ Accepted(request) /\ made \in Nat
      /\ request.operation # "weighted_sum"
      /\ basis = [p \in 0 .. request.degree |-> basis[p]]
      /\ \A p \in 1 .. request.degree :
            basis[p] # NoText => basis[p].level = request.level[1] - ceil_log2[p]
  BY <1>1 DEF LevelInv, Made, BasisInv
<1>5. product.level = request.level[1] - ceil_log2[power] /\ product.id = made + 1
  BY <1>2, <1>3 DEF multiply, Text, Lower
<1>6. Doubled(product).level = product.level
  BY DEF Doubled, multiply, Text
<1>7. /\ text.level = request.level[1] - ceil_log2[power]
      /\ text.id \in {made + 1, made + 2}
  <2>1. CASE request.kind = "power"
    BY <2>1, <1>5
  <2>2. CASE request.kind # "power"
    <3> DEFINE other == basis[2 * highest - power]
    <3>1. text = subtract(Doubled(product), other, made + 2)
      BY <2>2 DEF Subtracted
    <3>2. Doubled(product).level < other.level
      BY <1>2, <1>3, <1>5, <1>6
    <3> HIDE DEF product
    <3>3. text.level = Doubled(product).level /\ text.id = made + 2
      BY <3>1, <3>2 DEF subtract, Text, Lower
    <3> QED
      BY <1>5, <1>6, <3>3
  <2> QED
    BY <2>1, <2>2
<1> HIDE DEF product, text
<1>8. text # NoText
  <2>1. text.id # 0
    BY <1>4, <1>7
  <2> QED
    BY <2>1 DEF NoText
<1>9. \A p \in 1 .. request.degree :
         basis'[p] = IF p = power THEN text ELSE basis[p]
  BY <1>1, <1>4
<1>10. BasisInv'
  <2>1. basis' = [p \in 0 .. request.degree |-> basis'[p]]
    BY <1>1, <1>4
  <2>2. \A p \in 1 .. request.degree :
          basis'[p] # NoText => basis'[p].level = request.level[1] - ceil_log2[p]
    BY <1>4, <1>7, <1>9
  <2> QED
    BY <1>1, <1>4, <2>1, <2>2 DEF BasisInv
<1>11. ProductsInv'
  <2>1. power' \in 2 .. request.degree + 1
    <3>1. request.degree \in Nat
      BY <1>4, AcceptedFacts, Typed DEF Degree
    <3> QED
      BY <1>1, <1>2, <3>1
  <2>2. \A p \in 1 .. request.degree : p < power' => p < power \/ p = power
    BY <1>1, <1>2
  <2> QED
    BY <1>1, <1>8, <1>9, <2>1, <2>2 DEF LevelInv, ProductsInv
<1> QED
  BY <1>1, <1>4, <1>7, <1>10, <1>11 DEF LevelInv, Made, SquaresInv, SumInv

LEMMA ReturnKeepsLevels ==
    ASSUME LevelInv, pc # "idle", NEW texts, NEW alive, NEW count \in Nat,
           ReturnUnit(texts, alive, count)
    PROVE  LevelInv'
<1>1. request \in Request /\ Accepted(request) /\ request' = request
  BY DEF LevelInv, Made, ReturnUnit
<1>2. CASE EnterUnit(request, unit + 1, alive, count)
  BY <1>1, <1>2, EnterKeepsLevels
<1>3. CASE pc' = "returned" /\ made' = count
  BY <1>1, <1>3 DEF LevelInv, Made, BasisInv, SquaresInv, ProductsInv, SumInv
<1> QED
  BY <1>2, <1>3 DEF ReturnUnit

(* When the products end, all powers are there, with levels for a sum. *)
LEMMA SumBasisKeepsLevels == LevelInv /\ SumBasis => LevelInv'
<1> SUFFICES ASSUME LevelInv, SumBasis PROVE LevelInv'
  OBVIOUS
<1>1. /\ pc = "products" /\ power > request.degree
      /\ request.operation = "evaluate"
      /\ pc' = "sum" /\ basis' = [p \in 0 .. request.degree - 1 |-> basis[p + 1]]
      /\ request' = request /\ made' = made
  BY DEF SumBasis, EnterSum, Erased
<1>2. request \in Request /\ Accepted(request) /\ made \in Nat
  BY <1>1 DEF LevelInv, Made
<1>3. /\ request.degree \in Degree /\ request.level[1] \in Nat
      /\ request.number = "double" => ceil_log2[request.degree] < request.level[1]
  BY <1>1, <1>2, AcceptedFacts, Typed DEF Degree
<1>4. ASSUME request.number = "double", NEW p \in 0 .. request.degree - 1
      PROVE  basis'[p].level > 0
  <2>1. p + 1 \in 1 .. request.degree /\ p + 1 \in Degree /\ p + 1 =< request.degree
    BY <1>3, Typed DEF Degree
  <2>2. basis[p + 1] # NoText
    <3>1. power \in Int /\ p + 1 < power
      BY <1>1, <1>3, <2>1, Typed DEF LevelInv, ProductsInv, Degree
    <3> QED
      BY <1>1, <2>1, <3>1 DEF LevelInv, ProductsInv
  <2>3. basis[p + 1].level = request.level[1] - ceil_log2[p + 1]
    BY <1>1, <2>1, <2>2 DEF LevelInv, BasisInv
  <2>4. ceil_log2[p + 1] =< ceil_log2[request.degree]
    BY <1>3, <2>1, DepthMonotone
  <2>5. ceil_log2[p + 1] \in Nat /\ ceil_log2[request.degree] \in Nat
    BY <1>3, <2>1, Typed
  <2>6. basis[p + 1].level > 0
    BY <1>3, <1>4, <2>3, <2>4, <2>5
  <2> QED
    BY <1>1, <2>6
<1>5. DOMAIN basis' = 0 .. request.degree - 1
  BY <1>1
<1>6. SumInv'
  BY <1>1, <1>4, <1>5 DEF SumInv
<1> QED
  BY <1>1, <1>2, <1>6 DEF LevelInv, Made, BasisInv, SquaresInv, ProductsInv

(* Weighing and skipping leave the basis alone. *)
LEMMA WeighKeepsLevels == LevelInv /\ (Weigh \/ SkipWeight) => LevelInv'
<1> SUFFICES ASSUME LevelInv, Weigh \/ SkipWeight PROVE LevelInv'
  OBVIOUS
<1>1. /\ pc = "sum" /\ pc' = pc /\ request' = request /\ basis' = basis
  BY DEF Weigh, SkipWeight
<1>2. made \in Nat
  BY DEF LevelInv, Made
<1>3. made' \in Nat
  <2>1. CASE SkipWeight
    BY <1>2, <2>1 DEF SkipWeight
  <2>2. CASE Weigh
    <3> DEFINE product == multiply_number(basis[power - 1],
                                          request.coefficients[power], made + 1)
    <3>1. /\ made' = sum'.id
          /\ sum' = IF sum = NoText THEN product ELSE add(sum, product, made + 2)
      BY <2>2 DEF Weigh
    <3>2. product.id = made + 1 /\ add(sum, product, made + 2).id = made + 2
      BY DEF multiply_number, add, Text
    <3> HIDE DEF product
    <3>3. sum'.id \in {made + 1, made + 2}
      BY <3>1, <3>2
    <3> QED
      BY <1>2, <3>1, <3>3
  <2> QED
    BY <2>1, <2>2
<1> QED
  BY <1>1, <1>3 DEF LevelInv, Made, BasisInv, SquaresInv, ProductsInv, SumInv

(***************************************************************************)
(* The level of every text of a basis is known at every step of a call.    *)
(***************************************************************************)
THEOREM LevelsKept == Spec => []LevelInv
<1>1. LevelInv /\ [Next]_vars => LevelInv'
  <2> SUFFICES ASSUME LevelInv, [Next]_vars PROVE LevelInv'
    OBVIOUS
  <2>1. ASSUME NEW r \in Request, Call(r) PROVE LevelInv'
    <3>1. /\ Accepted(r) /\ request' = r
          /\ EnterUnit(r, 1, GivenIds(r), r.size * MaxDegree)
      BY <2>1 DEF Call
    <3>2. r.size * MaxDegree \in Nat
      <4>1. r.size \in Nat /\ MaxDegree \in Nat
        BY RequestAssumption, Typed
      <4> QED
        BY <4>1
    <3> QED
      BY <3>1, <3>2, EnterKeepsLevels
  <2>2. ASSUME NEW r \in Request, Refuse(r) PROVE LevelInv'
    BY <2>2 DEF Refuse, vars, LevelInv, Made, BasisInv, SquaresInv, ProductsInv, SumInv
  <2>3. CASE SquarePower
    BY <2>3, SquareKeepsLevels
  <2>4. CASE EndSquares
    BY <2>4, EndSquaresKeepsLevels
  <2>5. CASE SkipPower
    BY <2>5, SkipKeepsLevels
  <2>6. CASE MultiplyPower
    BY <2>6, MultiplyKeepsLevels
  <2>7. CASE ReturnBasis
    <3>1. pc # "idle" /\ made \in Nat /\ ReturnUnit(Erased, live, made)
      BY <2>7 DEF ReturnBasis, LevelInv, Made
    <3> QED
      BY <3>1, ReturnKeepsLevels
  <2>8. CASE SumBasis
    BY <2>8, SumBasisKeepsLevels
  <2>9. CASE Weigh \/ SkipWeight
    BY <2>9, WeighKeepsLevels
  <2>10. CASE ReturnSum
    <3> DEFINE count == IF request.coefficients[0] = 0 THEN made ELSE made + 1
    <3>1. PICK texts, alive : ReturnUnit(texts, alive, count)
      BY <2>10 DEF ReturnSum
    <3>2. pc # "idle" /\ count \in Nat
      BY <2>10 DEF ReturnSum, LevelInv, Made
    <3> HIDE DEF count
    <3> QED
      BY <3>1, <3>2, ReturnKeepsLevels
  <2>11. CASE Forget
    BY <2>11 DEF Forget, LevelInv, Made, BasisInv, SquaresInv, ProductsInv, SumInv
  <2>12. CASE UNCHANGED vars
    BY <2>12 DEF vars, LevelInv, Made, BasisInv, SquaresInv, ProductsInv, SumInv
  <2> QED
    BY <2>1, <2>2, <2>3, <2>4, <2>5, <2>6, <2>7, <2>8, <2>9, <2>10, <2>11, <2>12
       DEF Next
<1> QED
  BY <1>1, LevelInit, PTL DEF Spec

(***************************************************************************)
(* The check at the beginning of make_power_basis, make_chebyshev_basis    *)
(* and the evaluations is enough for every product and sum they call, for  *)
(* every degree: a call never throws with a basis on the heap.             *)
(***************************************************************************)
THEOREM NeverRefusedMidway == Spec => []InnerCallsAccepted
<1>1. LevelInv => InnerCallsAccepted
  <2> SUFFICES ASSUME LevelInv PROVE InnerCallsAccepted
    OBVIOUS
  <2>1. ASSUME pc = "squares", power =< request.degree
        PROVE  CanMultiply(current, current)
    BY <2>1, SquareFacts DEF CanMultiply, is_key_compatible
  <2>2. ASSUME pc = "products", power =< request.degree, basis[power] = NoText
        PROVE  LET highest == highest_power_of_two[power]
               IN  CanMultiply(basis[highest], basis[power - highest])
    <3> DEFINE highest == highest_power_of_two[power]
    <3>1. /\ highest \in Degree /\ power - highest \in Degree
          /\ basis[highest].level = request.level[1] - ceil_log2[highest]
          /\ basis[power - highest].level =
                request.level[1] - ceil_log2[power - highest]
          /\ ceil_log2[power - highest] =< ceil_log2[highest]
          /\ ceil_log2[highest] + 1 =< request.level[1]
          /\ request.level[1] \in Nat /\ request.key \in Nat
          /\ request.level[1] - 1 =< request.key
      BY <2>2, ProductFacts
    <3> HIDE DEF highest
    <3>2. ceil_log2[highest] \in Nat /\ ceil_log2[power - highest] \in Nat
      BY <3>1, Typed
    <3> DEFINE fits(text) == text.level > 0 /\ is_key_compatible(text, request.key)
    <3>3. fits(basis[highest]) /\ fits(basis[power - highest])
      BY <3>1, <3>2 DEF is_key_compatible
    <3> QED
      BY <3>3 DEF CanMultiply, highest
  <2>3. ASSUME pc = "sum"
        PROVE  /\ 0 .. request.degree - 1 \subseteq DOMAIN basis
               /\ request.number = "double" =>
                    \A p \in DOMAIN basis : basis[p].level > 0
    BY <2>3 DEF LevelInv, SumInv
  <2> QED
    BY <2>1, <2>2, <2>3 DEF InnerCallsAccepted
<1> QED
  BY <1>1, LevelsKept, PTL

-----------------------------------------------------------------------------
(* The heap.  First what the texts of a caller, and those that a call makes, *)
(* have for numbers.                                                         *)

LEMMA RequestTyped ==
    ASSUME NEW r \in Request
    PROVE  /\ r.size \in Nat /\ r.size > 0 /\ r.size * MaxDegree \in Nat
           /\ r.size =< r.size * MaxDegree
<1>1. r.size \in Nat /\ r.size > 0 /\ MaxDegree \in Nat /\ MaxDegree >= 1
  BY RequestAssumption, Typed
<1>2. r.size * MaxDegree \in Nat
  BY <1>1
<1>3. r.size * 1 =< r.size * MaxDegree
  BY <1>1
<1> QED
  BY <1>1, <1>2, <1>3

LEMMA GivenBounded ==
    ASSUME NEW r \in Request
    PROVE  /\ GivenIds(r) \subseteq 1 .. r.size * MaxDegree
           /\ \A u \in 1 .. r.size, p \in Powers(r) : GivenId(r, u, p) \in GivenIds(r)
<1>1. /\ r.size \in Nat /\ r.size > 0 /\ r.size * MaxDegree \in Nat
      /\ r.size =< r.size * MaxDegree
  BY RequestTyped
<1>2. ASSUME NEW u \in 1 .. r.size, NEW p \in Powers(r)
      PROVE  GivenId(r, u, p) \in 1 .. r.size * MaxDegree
  <2>1. CASE r.operation # "weighted_sum"
    BY <1>1, <2>1 DEF GivenId
  <2>2. CASE r.operation = "weighted_sum"
    <3> DEFINE M == MaxDegree
               before == (u - 1) * M
               after == (r.size - u) * M
    <3>1. M \in Nat /\ M >= 1 /\ p \in 1 .. M /\ u \in Nat /\ u >= 1 /\ u =< r.size
      BY <1>1, <2>2, Typed DEF Powers
    <3> HIDE DEF M
    <3>2. before \in Nat /\ after \in Nat
      <4>1. u - 1 \in Nat /\ r.size - u \in Nat
        BY <1>1, <3>1
      <4> QED
        BY <3>1, <4>1
    <3>3. r.size * M = (before + M) + after
      <4>1. r.size = ((u - 1) + 1) + (r.size - u)
        BY <1>1, <3>1
      <4> QED
        BY <1>1, <3>1, <4>1
    <3>4. GivenId(r, u, p) = before + p
      BY <2>2 DEF GivenId, M
    <3> HIDE DEF before, after
    <3>5. GivenId(r, u, p) \in 1 .. r.size * M
      BY <1>1, <3>1, <3>2, <3>3, <3>4
    <3> QED
      BY <3>5 DEF M
  <2> QED
    BY <2>1, <2>2
<1> QED
  BY <1>2 DEF GivenIds

(* A text is added to the result of a call. *)
LEMMA Appended ==
    ASSUME NEW s, s \in Seq(Range(s)), NEW e
    PROVE  LET t == Append(s, e)
           IN  /\ t \in Seq(Range(t))
               /\ (UNION {{t[u][p].id : p \in DOMAIN t[u]} : u \in DOMAIN t}) =
                    (UNION {{s[u][p].id : p \in DOMAIN s[u]} : u \in DOMAIN s})
                      \cup {e[p].id : p \in DOMAIN e}
<1> DEFINE S == Range(s) \cup {e}
           t == Append(s, e)
           Ids(texts) == {texts[p].id : p \in DOMAIN texts}
<1>1. s \in Seq(S)
  <2>1. Range(s) \subseteq S
    OBVIOUS
  <2> HIDE DEF S
  <2> QED
    BY <2>1
<1> HIDE DEF S
<1>2. /\ t \in Seq(S) /\ Len(t) = Len(s) + 1 /\ Len(s) \in Nat
      /\ DOMAIN s = 1 .. Len(s) /\ DOMAIN t = 1 .. Len(t)
      /\ \A u \in 1 .. Len(s) : t[u] = s[u]
      /\ t[Len(s) + 1] = e
  BY <1>1 DEF S
<1> HIDE DEF t
<1>3. t \in Seq(Range(t))
  <2>1. \A u \in 1 .. Len(t) : t[u] \in Range(t)
    BY <1>2 DEF Range
  <2>2. t = [u \in 1 .. Len(t) |-> t[u]] /\ Len(t) \in Nat
    BY <1>2
  <2> QED
    BY <2>1, <2>2
<1> HIDE DEF Ids
<1>4. (UNION {Ids(t[u]) : u \in DOMAIN t}) =
        (UNION {Ids(s[u]) : u \in DOMAIN s}) \cup Ids(e)
  <2>1. DOMAIN t = DOMAIN s \cup {Len(s) + 1}
    BY <1>2
  <2>2. \A u \in DOMAIN s : Ids(t[u]) = Ids(s[u])
    BY <1>2
  <2>3. Ids(t[Len(s) + 1]) = Ids(e)
    BY <1>2
  <2> QED
    BY <2>1, <2>2, <2>3
<1> QED
  BY <1>3, <1>4 DEF Ids, t

(* A step of a unit that replaces some of the texts that it holds by one. *)
LEMMA LiveReplaced ==
    ASSUME LevelInv, LiveInv, pc # "idle", pc' # "idle", request' = request, unit' = unit,
           results' = results, made' \in Nat, made < made', NEW D,
           D \cap (GivenIds(request) \cup Returned) = {},
           live' = (live \ D) \cup {made'}, Held' = (Held \ D) \cup {made'}
    PROVE  LiveInv'
<1> DEFINE N == request.size * MaxDegree
<1>1. /\ unit \in 1 .. request.size /\ results \in Seq(Range(results))
      /\ live = GivenIds(request) \cup Returned \cup Held
      /\ N =< made /\ Returned \cup Held \subseteq N + 1 .. made
      /\ Returned \cap Held = {}
  BY DEF LiveInv
<1>2. N \in Nat /\ made \in Nat
  BY RequestTyped DEF LevelInv, Made
<1>3. Returned' = Returned /\ GivenIds(request)' = GivenIds(request) /\ N' = N
  BY DEF Returned, GivenIds, GivenId, Powers
<1> HIDE DEF N
<1>4. Returned' \cup Held' \subseteq N + 1 .. made'
  BY <1>1, <1>2, <1>3
<1>5. made' \notin Returned
  BY <1>1, <1>2
<1>6. Returned' \cap Held' = {}
  BY <1>1, <1>3, <1>5
<1>7. live' = GivenIds(request)' \cup Returned' \cup Held'
  BY <1>1, <1>3
<1>8. N' =< made'
  BY <1>1, <1>2, <1>3
<1>9. unit' \in 1 .. request'.size /\ results' \in Seq(Range(results'))
  BY <1>1
<1> QED
  BY <1>3, <1>4, <1>6, <1>7, <1>8, <1>9 DEF LiveInv, N

(* A step that changes nothing that is held. *)
LEMMA LiveSame ==
    ASSUME LiveInv, pc # "idle", pc' # "idle",
           UNCHANGED <<request, unit, results, live, made>>, Held' = Held
    PROVE  LiveInv'
<1>1. Returned' = Returned /\ GivenIds(request)' = GivenIds(request)
  BY DEF Returned, GivenIds, GivenId, Powers
<1> QED
  BY <1>1 DEF LiveInv

(* An accepted polynomial has a coefficient that is not zero, although the   *)
(* checks see only a part of each.                                           *)
LEMMA NonzeroWeight ==
    ASSUME NEW r \in Request, Accepted(r), r.operation # "make_basis"
    PROVE  \E n \in 1 .. r.degree : r.coefficients[n] # 0
<1>1. ~zero_degree(r)
  BY DEF Accepted
<1>2. AsInt(0) = 0
  <2>1. Truncated(0) = 0
    BY DEF Truncated
  <2>2. IntModulus \in Nat /\ IntModulus > 0
    BY DegreeAssumption
  <2>3. \A m \in Nat : m > 0 => 0 % m = 0
    OBVIOUS
  <2> QED
    BY <2>1, <2>2, <2>3 DEF AsInt
<1> QED
  BY <1>1, <1>2 DEF zero_degree

(* A unit starts with nothing held but the copy that begins its basis. *)
LEMMA EnterKeepsHeap ==
    ASSUME NEW r \in Request, Accepted(r), NEW u \in 1 .. r.size, NEW texts,
           NEW count \in Nat, request' = r, EnterUnit(r, u, texts, count),
           results' \in Seq(Range(results')), texts = GivenIds(r) \cup Returned',
           Returned' \subseteq r.size * MaxDegree + 1 .. count,
           r.size * MaxDegree =< count
    PROVE  HeapInv'
<1> DEFINE N == r.size * MaxDegree
<1>1. /\ N \in Nat /\ GivenIds(r) \subseteq 1 .. N
      /\ \A p \in Powers(r) : GivenId(r, u, p) \in GivenIds(r)
      /\ r.degree \in Degree /\ r.degree \in Nat /\ r.degree >= 1
      /\ MaxDegree \in Nat /\ MaxDegree >= 1
  BY RequestTyped, GivenBounded, AcceptedFacts, Typed DEF Degree
<1>2. /\ request' = r /\ unit' = u /\ GivenIds(request)' = GivenIds(r)
      /\ NoText.id = 0
  BY DEF EnterUnit, GivenIds, GivenId, Powers, NoText
<1>3. \A p : Given(r, u, p).id = GivenId(r, u, p)
  BY DEF Given, Text
<1>4. CASE r.operation = "weighted_sum"
  <2>1. /\ pc' = "sum" /\ made' = count /\ live' = texts /\ power' = r.degree
        /\ sum' = NoText /\ current' = NoText
        /\ basis' = [p \in 0 .. MaxDegree - 1 |-> Given(r, u, p + 1)]
    BY <1>4 DEF EnterUnit, EnterSum
  <2>2. Held' = {}
    BY <1>2, <1>4, <2>1 DEF Held
  <2>3. LiveInv'
    <3> HIDE DEF N
    <3> QED
      BY <1>1, <1>2, <2>1, <2>2 DEF LiveInv
  <2>4. \A p \in DOMAIN basis' : basis'[p].id \in GivenIds(r)
    <3> SUFFICES ASSUME NEW p \in 0 .. MaxDegree - 1 PROVE basis'[p].id \in GivenIds(r)
      BY <2>1
    <3>1. p + 1 \in Powers(r)
      BY <1>1, <1>4 DEF Powers
    <3>2. basis'[p].id = GivenId(r, u, p + 1)
      BY <1>3, <2>1
    <3> QED
      BY <1>1, <3>1, <3>2
  <2>5. ReadInv'
    BY <1>2, <2>1, <2>4 DEF ReadInv
  <2>6. WeighedInv'
    <3>1. \E n \in 1 .. r.degree : r.coefficients[n] # 0
      BY <1>4, NonzeroWeight
    <3> QED
      BY <1>1, <1>2, <1>4, <2>1, <3>1 DEF WeighedInv
  <2> QED
    BY <2>1, <2>3, <2>5, <2>6 DEF HeapInv, BuiltInv, DoneInv
<1>5. CASE r.operation # "weighted_sum"
  <2> DEFINE given == Given(r, u, 1)
             copy == [given EXCEPT !.id = count + 1]
  <2>1. /\ pc' = "squares" /\ power' = 2 /\ made' = count + 1 /\ current' = given
        /\ live' = texts \cup {copy.id} /\ sum' = NoText
        /\ basis' = [p \in 0 .. r.degree |-> IF p = 1 THEN copy ELSE NoText]
    BY <1>5 DEF EnterUnit, EnterBasis
  <2>2. copy.id = count + 1
    BY DEF Given, Text
  <2>3. given.id \in GivenIds(r)
    <3>1. 1 \in Powers(r)
      BY <1>1, <1>5 DEF Powers
    <3> QED
      BY <1>1, <1>3, <3>1
  <2> HIDE DEF given, copy
  <2>4. Held' = {count + 1}
    <3>1. {basis'[p].id : p \in DOMAIN basis'} = {count + 1, 0}
      <4>1. DOMAIN basis' = 0 .. r.degree /\ 1 \in 0 .. r.degree /\ 0 \in 0 .. r.degree
        BY <1>1, <2>1
      <4>2. basis'[1] = copy /\ \A p \in 0 .. r.degree : p # 1 => basis'[p] = NoText
        BY <2>1, <4>1
      <4> QED
        BY <1>2, <2>2, <4>1, <4>2
    <3>2. count + 1 # 0
      OBVIOUS
    <3> QED
      BY <1>2, <1>5, <2>1, <3>1, <3>2 DEF Held
  <2>5. LiveInv'
    <3>1. Returned' \cap {count + 1} = {}
      BY <1>1
    <3> HIDE DEF N
    <3>2. Returned' \cup Held' \subseteq N + 1 .. made'
      BY <1>1, <2>1, <2>4 DEF N
    <3>3. N =< made'
      BY <1>1, <2>1 DEF N
    <3>4. live' = GivenIds(r) \cup Returned' \cup Held'
      BY <2>1, <2>2, <2>4
    <3> QED
      BY <1>2, <2>1, <2>4, <3>1, <3>2, <3>3, <3>4 DEF LiveInv, N
  <2>6. ReadInv'
    BY <1>2, <1>5, <2>1, <2>3 DEF ReadInv
  <2>7. BuiltInv'
    <3>1. basis'[0] = NoText
      BY <1>1, <2>1
    <3>2. \A p \in 1 .. r.degree : basis'[p] # NoText => p = 1 /\ basis'[p].id = count + 1
      BY <1>1, <2>1, <2>2
    <3>3. \A p \in 1 .. r.degree : basis'[p] # NoText => p < 2 /\ basis'[p].id # 0
      BY <3>2
    <3> QED
      BY <1>2, <2>1, <3>1, <3>3 DEF BuiltInv
  <2> QED
    BY <2>1, <2>5, <2>6, <2>7 DEF HeapInv, WeighedInv, DoneInv
<1> QED
  BY <1>4, <1>5

(* What exists has numbers that were given out, and no text has number 0. *)
LEMMA LiveBounded ==
    ASSUME LevelInv, LiveInv, pc # "idle"
    PROVE  /\ made \in Nat /\ live \subseteq 1 .. made /\ Held \subseteq live
           /\ GivenIds(request) \subseteq live /\ Returned \subseteq live
           /\ Held \cap (GivenIds(request) \cup Returned) = {}
<1> DEFINE N == request.size * MaxDegree
<1>1. /\ live = GivenIds(request) \cup Returned \cup Held
      /\ N =< made /\ Returned \cup Held \subseteq N + 1 .. made
      /\ Returned \cap Held = {}
  BY DEF LiveInv
<1>2. N \in Nat /\ made \in Nat /\ GivenIds(request) \subseteq 1 .. N
  BY RequestTyped, GivenBounded DEF LevelInv, Made
<1> HIDE DEF N
<1>3. /\ GivenIds(request) \subseteq 1 .. made /\ Returned \cup Held \subseteq 1 .. made
      /\ Held \cap GivenIds(request) = {}
  BY <1>1, <1>2
<1> QED
  BY <1>1, <1>2, <1>3

(* A power that is not there yet joins what the unit holds. *)
LEMMA PowerJoins ==
    ASSUME LevelInv, HeapInv, pc \in {"squares", "products"},
           power \in 1 .. request.degree, basis[power] = NoText,
           NEW text, text.id \in {made + 1, made + 2},
           DOMAIN basis' = 0 .. request.degree,
           \A p \in 0 .. request.degree :
              basis'[p] = IF p = power THEN text ELSE basis[p],
           live' = live \cup {text.id}, made' = text.id, pc' = pc,
           request' = request, unit' = unit, sum' = sum, results' = results
    PROVE  /\ LiveInv' /\ Held' = Held \cup {text.id}
           /\ sum' = NoText /\ basis'[0] = NoText /\ request.operation # "weighted_sum"
           /\ text.id # NoText.id
           /\ \A p \in 1 .. request.degree :
                 basis'[p] = IF p = power THEN text ELSE basis[p]
<1>1. /\ request.operation # "weighted_sum" /\ pc # "idle"
      /\ basis = [p \in 0 .. request.degree |-> basis[p]]
  BY DEF LevelInv, BasisInv
<1>2. sum = NoText /\ basis[0] = NoText /\ NoText.id = 0
  BY DEF HeapInv, BuiltInv, NoText
<1>3. request \in Request /\ made \in Nat /\ request.degree \in Nat
  BY <1>1, AcceptedFacts, Typed DEF LevelInv, Made, Degree
<1>4. made < text.id /\ text.id \in Nat /\ text.id # 0
  BY <1>3
<1>5. /\ power # 0 /\ power \in 0 .. request.degree /\ 0 \in 0 .. request.degree
      /\ DOMAIN basis = 0 .. request.degree
  <2>1. power # 0 /\ power \in 0 .. request.degree /\ 0 \in 0 .. request.degree
    BY <1>3
  <2>2. DOMAIN basis = 0 .. request.degree
    BY <1>1
  <2> QED
    BY <2>1, <2>2
<1>6. Held' = Held \cup {text.id}
  <2>1. Held = {basis[p].id : p \in 0 .. request.degree} \ {0}
    BY <1>1, <1>2, <1>5 DEF Held
  <2>2. Held' = {basis'[p].id : p \in 0 .. request.degree} \ {0}
    <3>1. Held' = ({sum'.id} \cup {basis'[p].id : p \in DOMAIN basis'}) \ {0}
      BY <1>1, <1>2 DEF Held
    <3>2. 0 \in 0 .. request.degree /\ basis'[0].id = 0 /\ sum'.id = 0
      BY <1>2, <1>5
    <3> QED
      BY <1>5, <3>1, <3>2
  <2>3. {basis'[p].id : p \in 0 .. request.degree} \ {0} =
          ({basis[p].id : p \in 0 .. request.degree} \ {0}) \cup {text.id}
    <3>1. basis[power].id = 0
      BY <1>2
    <3> QED
      BY <1>4, <1>5, <3>1
  <2> QED
    BY <2>1, <2>2, <2>3
<1>7. LiveInv'
  <2> DEFINE D == {}
  <2>1. D \cap (GivenIds(request) \cup Returned) = {} /\ live' = (live \ D) \cup {made'}
    OBVIOUS
  <2>2. Held' = (Held \ D) \cup {made'}
    BY <1>6
  <2>3. pc' # "idle" /\ request' = request /\ unit' = unit /\ results' = results
    OBVIOUS
  <2>4. LiveInv
    BY DEF HeapInv
  <2> HIDE DEF D
  <2>5. made' \in Nat /\ made < made'
    BY <1>4
  <2> QED
    BY <1>1, <2>1, <2>2, <2>3, <2>4, <2>5, LiveReplaced
<1> QED
  BY <1>1, <1>2, <1>4, <1>5, <1>6, <1>7

LEMMA SquareKeepsHeap == LevelInv /\ HeapInv /\ SquarePower => HeapInv'
<1> SUFFICES ASSUME LevelInv, HeapInv, SquarePower PROVE HeapInv'
  OBVIOUS
<1> DEFINE squared == multiply(current, current, made + 1)
           text == IF request.kind = "power"
                     THEN squared
                     ELSE add_number(Doubled(squared), -1, made + 2)
           deleted == {squared.id} \ {text.id}
<1>1. /\ pc = "squares" /\ power =< request.degree /\ pc' = "squares"
      /\ basis' = [basis EXCEPT ![power] = text]
      /\ current' = text /\ live' = (live \cup {squared.id, text.id}) \ deleted
      /\ made' = text.id /\ power' = 2 * power
      /\ UNCHANGED <<pc, request, unit, sum, results>>
  BY DEF SquarePower
<1>2. squared.id = made + 1 /\ text.id \in {made + 1, made + 2}
  BY DEF multiply, Doubled, add_number, Text
<1> HIDE DEF squared, text
<1>3. power \in 2 .. request.degree /\ power \in 1 .. request.degree
  BY <1>1, SquareFacts
<1>4. basis[power] = NoText
  BY <1>1, <1>3 DEF HeapInv, BuiltInv
<1>5. made \in Nat /\ live \subseteq 1 .. made
  BY <1>1, LiveBounded DEF HeapInv
<1>6. live' = live \cup {text.id}
  <2>1. squared.id \notin live /\ text.id \notin live
    BY <1>2, <1>5
  <2> QED
    BY <1>1, <2>1
<1>7. /\ LiveInv' /\ Held' = Held \cup {text.id}
      /\ sum' = NoText /\ basis'[0] = NoText /\ request.operation # "weighted_sum"
      /\ text.id # NoText.id
      /\ \A p \in 1 .. request.degree :
            basis'[p] = IF p = power THEN text ELSE basis[p]
  <2>1. /\ pc \in {"squares", "products"} /\ power \in 1 .. request.degree
        /\ basis[power] = NoText /\ text.id \in {made + 1, made + 2}
        /\ live' = live \cup {text.id} /\ made' = text.id
    BY <1>1, <1>2, <1>3, <1>4, <1>6
  <2>2. /\ pc' = pc /\ request' = request /\ unit' = unit /\ sum' = sum
        /\ results' = results
    BY <1>1
  <2>3. /\ DOMAIN basis' = 0 .. request.degree
        /\ \A p \in 0 .. request.degree :
              basis'[p] = IF p = power THEN text ELSE basis[p]
    <3>1. basis = [p \in 0 .. request.degree |-> basis[p]]
      BY <1>1 DEF LevelInv, BasisInv
    <3> QED
      BY <1>1, <3>1
  <2> QED
    BY <2>1, <2>2, <2>3, PowerJoins
<1>8. ReadInv'
  BY <1>1, <1>7 DEF ReadInv
<1>9. BuiltInv'
  <2>1. \A p \in 1 .. request.degree :
          basis[p] # NoText => basis[p].id # NoText.id /\ p < power
    BY <1>1 DEF HeapInv, BuiltInv
  <2>2. \A p \in 1 .. request.degree : p < power \/ p = power => p < 2 * power
    BY <1>3
  <2>3. \A p \in 1 .. request.degree :
          basis'[p] # NoText => basis'[p].id # NoText.id /\ p < power'
    BY <1>1, <1>7, <2>1, <2>2
  <2> QED
    BY <1>1, <1>7, <2>3 DEF BuiltInv, NoText
<1> QED
  BY <1>1, <1>7, <1>8, <1>9 DEF HeapInv, WeighedInv, DoneInv

LEMMA MultiplyKeepsHeap == LevelInv /\ HeapInv /\ MultiplyPower => HeapInv'
<1> SUFFICES ASSUME LevelInv, HeapInv, MultiplyPower PROVE HeapInv'
  OBVIOUS
<1> DEFINE highest == highest_power_of_two[power]
           product == multiply(basis[highest], basis[power - highest], made + 1)
           text == IF request.kind = "power"
                     THEN product
                     ELSE subtract(Doubled(product),
                                   basis[Subtracted(highest, power)], made + 2)
           deleted == {product.id} \ {text.id}
<1>1. /\ pc = "products" /\ power =< request.degree /\ basis[power] = NoText
      /\ basis' = [basis EXCEPT ![power] = text] /\ pc' = "products"
      /\ live' = (live \cup {product.id, text.id}) \ deleted
      /\ made' = text.id /\ power' = power + 1
      /\ UNCHANGED <<pc, request, unit, current, sum, results>>
  BY DEF MultiplyPower
<1>2. product.id = made + 1 /\ text.id \in {made + 1, made + 2}
  BY DEF multiply, Doubled, subtract, Text
<1> HIDE DEF highest, product, text
<1>3. power \in 1 .. request.degree
  <2>1. power \in 2 .. request.degree
    BY <1>1, ProductFacts
  <2> QED
    BY <2>1
<1>5. made \in Nat /\ live \subseteq 1 .. made
  BY <1>1, LiveBounded DEF HeapInv
<1>6. live' = live \cup {text.id}
  <2>1. product.id \notin live /\ text.id \notin live
    BY <1>2, <1>5
  <2> QED
    BY <1>1, <2>1
<1>7. /\ LiveInv' /\ Held' = Held \cup {text.id}
      /\ sum' = NoText /\ basis'[0] = NoText /\ request.operation # "weighted_sum"
      /\ text.id # NoText.id
      /\ \A p \in 1 .. request.degree :
            basis'[p] = IF p = power THEN text ELSE basis[p]
  <2>1. /\ pc \in {"squares", "products"} /\ power \in 1 .. request.degree
        /\ basis[power] = NoText /\ text.id \in {made + 1, made + 2}
        /\ live' = live \cup {text.id} /\ made' = text.id
    BY <1>1, <1>2, <1>3, <1>6
  <2>2. /\ pc' = pc /\ request' = request /\ unit' = unit /\ sum' = sum
        /\ results' = results
    BY <1>1
  <2>3. /\ DOMAIN basis' = 0 .. request.degree
        /\ \A p \in 0 .. request.degree :
              basis'[p] = IF p = power THEN text ELSE basis[p]
    <3>1. basis = [p \in 0 .. request.degree |-> basis[p]]
      BY <1>1 DEF LevelInv, BasisInv
    <3> QED
      BY <1>1, <3>1
  <2> QED
    BY <2>1, <2>2, <2>3, PowerJoins
<1>8. ReadInv'
  <2>1. current.id \in GivenIds(request) \cup Held \cup {NoText.id}
    BY <1>1 DEF HeapInv, ReadInv
  <2>2. GivenIds(request)' = GivenIds(request)
    BY <1>1 DEF GivenIds, GivenId, Powers
  <2>3. current'.id \in GivenIds(request)' \cup Held' \cup {NoText.id}
    BY <1>1, <1>7, <2>1, <2>2
  <2> QED
    BY <1>1, <1>7, <2>3 DEF ReadInv, NoText
<1>9. BuiltInv'
  <2>1. \A p \in 1 .. request.degree : basis[p] # NoText => basis[p].id # NoText.id
    BY <1>1 DEF HeapInv, BuiltInv
  <2>3. \A p \in 1 .. request.degree : basis'[p] # NoText => basis'[p].id # NoText.id
    BY <1>7, <2>1
  <2> QED
    BY <1>1, <1>7, <2>3 DEF BuiltInv, NoText
<1> QED
  BY <1>1, <1>7, <1>8, <1>9 DEF HeapInv, WeighedInv, DoneInv

(* A step of the loops of a basis that only counts. *)
LEMMA CountKeepsHeap ==
    LevelInv /\ HeapInv /\ (EndSquares \/ SkipPower \/ SkipWeight) => HeapInv'
<1> SUFFICES ASSUME LevelInv, HeapInv, EndSquares \/ SkipPower \/ SkipWeight
             PROVE  HeapInv'
  OBVIOUS
<1>1. /\ pc \in {"squares", "products", "sum"} /\ pc' \in {"products", "sum"}
      /\ pc' = "products" <=> pc \in {"squares", "products"}
      /\ UNCHANGED <<request, unit, basis, current, sum, results, live, made>>
  BY DEF EndSquares, SkipPower, SkipWeight
<1>2. Held' = Held /\ GivenIds(request)' = GivenIds(request)
  BY <1>1 DEF Held, NoText, GivenIds, GivenId, Powers
<1>3. LiveInv'
  BY <1>1, <1>2, LiveSame DEF HeapInv
<1>4. ReadInv'
  BY <1>1, <1>2 DEF HeapInv, ReadInv, NoText
<1>5. BuiltInv'
  BY <1>1 DEF HeapInv, BuiltInv, NoText
<1>6. WeighedInv'
  <2>1. CASE pc' # "sum"
    BY <2>1 DEF WeighedInv
  <2>2. CASE SkipWeight
    <3>1. /\ pc = "sum" /\ power > 0 /\ request.coefficients[power] = 0
          /\ power' = power - 1
      BY <2>2 DEF SkipWeight
    <3>2. /\ request.operation # "make_basis" /\ power \in 0 .. request.degree
          /\ sum = NoText => \E n \in 1 .. power : request.coefficients[n] # 0
          /\ sum # NoText => /\ sum.id \notin {NoText.id, current.id}
                             /\ \A p \in DOMAIN basis : basis[p].id # sum.id
      BY <3>1 DEF HeapInv, WeighedInv
    <3>3. request.degree \in Nat /\ power \in Nat
      BY <3>1, <3>2, AcceptedFacts, Typed DEF LevelInv, Made, Degree
    <3>4. power' \in 0 .. request.degree
      BY <3>1, <3>2, <3>3
    <3>5. ASSUME sum = NoText PROVE \E n \in 1 .. power' : request.coefficients[n] # 0
      <4>1. PICK n \in 1 .. power : request.coefficients[n] # 0
        BY <3>2, <3>5
      <4>2. n # power
        BY <3>1, <4>1
      <4>3. n \in 1 .. power'
        BY <3>1, <3>3, <4>2
      <4> QED
        BY <4>1, <4>3
    <3> QED
      BY <1>1, <3>2, <3>4, <3>5 DEF WeighedInv, NoText
  <2> QED
    BY <1>1, <2>1, <2>2 DEF EndSquares, SkipPower
<1> QED
  BY <1>1, <1>3, <1>4, <1>5, <1>6 DEF HeapInv, DoneInv

(* A unit returns all that it still holds. *)
LEMMA ReturnKeepsHeap ==
    ASSUME LevelInv, HeapInv, pc # "idle", NEW texts, NEW alive, NEW count \in Nat,
           ReturnUnit(texts, alive, count), made =< count, NEW ids,
           ids = {texts[p].id : p \in DOMAIN texts},
           ids \subseteq request.size * MaxDegree + 1 .. count,
           alive = GivenIds(request) \cup Returned \cup ids
    PROVE  HeapInv'
<1> DEFINE N == request.size * MaxDegree
<1>1. request \in Request /\ Accepted(request) /\ made \in Nat
  BY DEF LevelInv, Made
<1>2. /\ unit \in 1 .. request.size /\ results \in Seq(Range(results))
      /\ N =< made /\ Returned \subseteq N + 1 .. made
  BY DEF HeapInv, LiveInv
<1>3. request.size \in Nat /\ N \in Nat
  BY <1>1, RequestTyped
<1>4. results' = Append(results, texts) /\ request' = request
  BY DEF ReturnUnit
<1>5. results' \in Seq(Range(results')) /\ Returned' = Returned \cup ids
  BY <1>2, <1>4, Appended DEF Returned
<1>6. GivenIds(request)' = GivenIds(request)
  BY <1>4 DEF GivenIds, GivenId, Powers
<1>7. Returned' \subseteq N + 1 .. count /\ N =< count
  <2>1. ids \subseteq N + 1 .. count
    OBVIOUS
  <2> HIDE DEF N
  <2>2. N =< count
    BY <1>1, <1>2, <1>3
  <2>3. \A x \in Returned : x \in N + 1 .. count
    BY <1>1, <1>2, <1>3
  <2> QED
    BY <1>5, <2>1, <2>2, <2>3
<1> HIDE DEF N
<1>8. alive = GivenIds(request) \cup Returned'
  BY <1>5
<1>9. CASE unit < request.size /\ EnterUnit(request, unit + 1, alive, count)
  <2>1. unit + 1 \in 1 .. request.size
    BY <1>2, <1>3, <1>9
  <2> QED
    BY <1>1, <1>4, <1>5, <1>7, <1>8, <1>9, <2>1, EnterKeepsHeap DEF N
<1>10. CASE /\ pc' = "returned" /\ live' = alive /\ made' = count
            /\ basis' = NoBasis /\ sum' = NoText /\ unit' = unit
  <2>1. Held' = {}
    <3>1. {basis'[p].id : p \in DOMAIN basis'} = {}
      <4>1. DOMAIN basis' = {}
        BY <1>10 DEF NoBasis
      <4> QED
        BY <4>1
    <3>2. sum'.id = NoText.id
      BY <1>10
    <3> QED
      BY <3>1, <3>2 DEF Held, NoText
  <2>2. LiveInv'
    BY <1>2, <1>4, <1>5, <1>6, <1>7, <1>8, <1>10, <2>1 DEF LiveInv, N
  <2> QED
    BY <1>10, <2>1, <2>2 DEF HeapInv, ReadInv, BuiltInv, WeighedInv, DoneInv
<1> QED
  BY <1>9, <1>10 DEF ReturnUnit

(* What a unit holds of a basis, from the first power on. *)
LEMMA BasisHeld ==
    ASSUME LevelInv, HeapInv, pc = "products", power > request.degree
    PROVE  /\ {Erased[p].id : p \in DOMAIN Erased} = Held
           /\ request \in Request /\ Accepted(request) /\ sum = NoText
           /\ request.operation # "weighted_sum" /\ request.degree \in Nat
<1>1. /\ request \in Request /\ Accepted(request)
      /\ request.operation # "weighted_sum"
      /\ basis = [p \in 0 .. request.degree |-> basis[p]]
  BY DEF LevelInv, Made, BasisInv
<1>2. request.degree \in Nat
  BY <1>1, AcceptedFacts, Typed DEF Degree
<1>3. sum = NoText /\ basis[0] = NoText /\ NoText.id = 0
  BY DEF HeapInv, BuiltInv, NoText
<1>4. ASSUME NEW p \in 1 .. request.degree PROVE basis[p].id # 0
  <2>1. power \in 2 .. request.degree + 1
    BY DEF LevelInv, ProductsInv
  <2>2. p < power
    BY <1>2, <2>1
  <2>3. basis[p] # NoText
    BY <2>2 DEF LevelInv, ProductsInv
  <2> QED
    BY <1>3, <2>3 DEF HeapInv, BuiltInv
<1>5. Held = {basis[p].id : p \in 1 .. request.degree}
  <2>1. DOMAIN basis = 0 .. request.degree
    BY <1>1
  <2>2. Held = ({0} \cup {basis[p].id : p \in 0 .. request.degree}) \ {0}
    BY <1>1, <1>3, <2>1 DEF Held
  <2>3. \A p \in 0 .. request.degree : p = 0 \/ p \in 1 .. request.degree
    BY <1>2
  <2>4. \A p \in 1 .. request.degree : p \in 0 .. request.degree
    BY <1>2
  <2> QED
    BY <1>3, <1>4, <2>2, <2>3, <2>4
<1>6. {Erased[p].id : p \in DOMAIN Erased} = {basis[p].id : p \in 1 .. request.degree}
  <2>1. /\ DOMAIN Erased = 0 .. request.degree - 1
        /\ \A p \in 0 .. request.degree - 1 : Erased[p] = basis[p + 1]
    BY DEF Erased
  <2>2. \A p \in 0 .. request.degree - 1 : p + 1 \in 1 .. request.degree
    BY <1>2
  <2>3. \A p \in 1 .. request.degree :
          p - 1 \in 0 .. request.degree - 1 /\ (p - 1) + 1 = p
    BY <1>2
  <2> QED
    BY <2>1, <2>2, <2>3
<1> QED
  BY <1>1, <1>2, <1>3, <1>5, <1>6

LEMMA ReturnBasisKeepsHeap == LevelInv /\ HeapInv /\ ReturnBasis => HeapInv'
<1> SUFFICES ASSUME LevelInv, HeapInv, ReturnBasis PROVE HeapInv'
  OBVIOUS
<1>1. /\ pc = "products" /\ power > request.degree
      /\ ReturnUnit(Erased, live, made)
  BY DEF ReturnBasis
<1>2. {Erased[p].id : p \in DOMAIN Erased} = Held /\ request \in Request
  BY <1>1, BasisHeld
<1>3. /\ made \in Nat /\ made =< made /\ live = GivenIds(request) \cup Returned \cup Held
      /\ Held \subseteq request.size * MaxDegree + 1 .. made
  BY <1>1 DEF LevelInv, Made, HeapInv, LiveInv
<1>4. PICK texts, alive, count, ids : texts = Erased /\ alive = live /\ count = made
                                     /\ ids = Held
  OBVIOUS
<1>5. /\ ReturnUnit(texts, alive, count) /\ count \in Nat /\ made =< count
      /\ ids = {texts[p].id : p \in DOMAIN texts}
      /\ ids \subseteq request.size * MaxDegree + 1 .. count
      /\ alive = GivenIds(request) \cup Returned \cup ids
  BY <1>1, <1>2, <1>3, <1>4
<1> QED
  BY <1>1, <1>5, ReturnKeepsHeap

LEMMA SumBasisKeepsHeap == LevelInv /\ HeapInv /\ SumBasis => HeapInv'
<1> SUFFICES ASSUME LevelInv, HeapInv, SumBasis PROVE HeapInv'
  OBVIOUS
<1>1. /\ pc = "products" /\ power > request.degree /\ request.operation = "evaluate"
      /\ pc' = "sum" /\ basis' = Erased /\ power' = request.degree /\ sum' = NoText
      /\ UNCHANGED <<request, unit, current, results, live, made>>
  BY DEF SumBasis, EnterSum
<1>2. /\ {Erased[p].id : p \in DOMAIN Erased} = Held
      /\ request \in Request /\ Accepted(request) /\ sum = NoText
      /\ request.degree \in Nat
  BY <1>1, BasisHeld
<1>3. Held' = Held
  <2>1. Held' = ({NoText.id} \cup {Erased[p].id : p \in DOMAIN Erased}) \ {NoText.id}
    BY <1>1 DEF Held, NoText
  <2>2. NoText.id \notin Held
    BY DEF Held
  <2> QED
    BY <1>2, <2>1, <2>2
<1>4. LiveInv'
  BY <1>1, <1>3, LiveSame DEF HeapInv
<1>5. ReadInv'
  <2>1. GivenIds(request)' = GivenIds(request)
    BY <1>1 DEF GivenIds, GivenId, Powers
  <2>2. current.id \in GivenIds(request) \cup Held \cup {NoText.id}
    BY <1>1 DEF HeapInv, ReadInv
  <2>3. current'.id \in GivenIds(request)' \cup Held' \cup {NoText.id}
    BY <1>1, <1>3, <2>1, <2>2
  <2> QED
    BY <1>1, <2>3 DEF ReadInv, NoText
<1>6. WeighedInv'
  <2>1. \E n \in 1 .. request.degree : request.coefficients[n] # 0
    BY <1>1, <1>2, NonzeroWeight
  <2>2. power' \in 0 .. request'.degree
    BY <1>1, <1>2
  <2> QED
    BY <1>1, <2>1, <2>2 DEF WeighedInv, NoText
<1> QED
  BY <1>1, <1>4, <1>5, <1>6 DEF HeapInv, BuiltInv, DoneInv

(* The texts that a sum is made of exist, and are not the sum. *)
LEMMA SumRead ==
    ASSUME LevelInv, HeapInv, pc = "sum"
    PROVE  /\ made \in Nat /\ live \subseteq 1 .. made
           /\ current.id \in live \cup {0}
           /\ \A p \in DOMAIN basis : basis[p].id \in live \cup {0}
           /\ request.operation # "make_basis" /\ power \in Nat
           /\ power \in 0 .. request.degree
           /\ sum # NoText => sum.id \in Held /\ sum.id # 0
<1>1. /\ made \in Nat /\ live \subseteq 1 .. made /\ Held \subseteq live
      /\ GivenIds(request) \subseteq live /\ NoText.id = 0
  BY LiveBounded DEF HeapInv, NoText
<1>2. current.id \in live \cup {0}
  BY <1>1 DEF HeapInv, ReadInv
<1>3. ASSUME NEW p \in DOMAIN basis PROVE basis[p].id \in live \cup {0}
  <2>1. CASE request.operation = "weighted_sum"
    BY <1>1, <2>1 DEF HeapInv, ReadInv
  <2>2. CASE request.operation # "weighted_sum"
    BY <1>1, <2>2 DEF Held
  <2> QED
    BY <2>1, <2>2
<1>4. /\ request.operation # "make_basis" /\ power \in 0 .. request.degree
      /\ sum # NoText => sum.id # 0
  BY <1>1 DEF HeapInv, WeighedInv
<1>5. sum # NoText => sum.id \in Held
  BY <1>1, <1>4 DEF Held
<1>6. power \in Nat
  BY <1>4
<1> QED
  BY <1>1, <1>2, <1>3, <1>4, <1>5, <1>6

LEMMA WeighKeepsHeap == LevelInv /\ HeapInv /\ Weigh => HeapInv'
<1> SUFFICES ASSUME LevelInv, HeapInv, Weigh PROVE HeapInv'
  OBVIOUS
<1> DEFINE product == multiply_number(basis[power - 1],
                                      request.coefficients[power], made + 1)
<1>1. /\ pc = "sum" /\ pc' = "sum" /\ power > 0 /\ power' = power - 1
      /\ sum' = IF sum = NoText THEN product ELSE add(sum, product, made + 2)
      /\ live' = ((live \cup {product.id}) \ DeletedBySum(product)) \cup {sum'.id}
      /\ made' = sum'.id
      /\ UNCHANGED <<pc, request, unit, basis, current, results>>
  BY DEF Weigh
<1>2. /\ product.id = made + 1 /\ add(sum, product, made + 2).id = made + 2
      /\ DeletedBySum(product) = {sum.id, product.id} /\ NoText.id = 0
  BY DEF multiply_number, add, Text, DeletedBySum, NoText
<1> HIDE DEF product
<1>3. /\ made \in Nat /\ live \subseteq 1 .. made
      /\ current.id \in live \cup {0}
      /\ \A p \in DOMAIN basis : basis[p].id \in live \cup {0}
      /\ request.operation # "make_basis" /\ power \in Nat
      /\ power \in 0 .. request.degree
      /\ sum # NoText => sum.id \in Held /\ sum.id # 0
  BY <1>1, SumRead
<1>4. sum'.id \in {made + 1, made + 2} /\ sum'.id \in Nat /\ made < sum'.id /\ sum'.id # 0
  BY <1>1, <1>2, <1>3
<1>5. PICK D : D = IF sum = NoText THEN {} ELSE {sum.id}
  OBVIOUS
<1>6. live' = (live \ D) \cup {made'}
  <2>1. 0 \notin live /\ product.id \notin live
    BY <1>2, <1>3
  <2>2. CASE sum = NoText
    BY <1>1, <1>2, <1>5, <2>1, <2>2
  <2>3. CASE sum # NoText
    BY <1>1, <1>2, <1>5, <2>1, <2>3
  <2> QED
    BY <2>2, <2>3
<1>7. Held' = (Held \ D) \cup {made'}
  <2> DEFINE B == IF request.operation = "weighted_sum"
                    THEN {} ELSE {basis[p].id : p \in DOMAIN basis}
  <2>1. Held = ({sum.id} \cup B) \ {0}
    BY <1>2 DEF Held
  <2>2. Held' = ({sum'.id} \cup B) \ {0}
    BY <1>1, <1>2 DEF Held, NoText
  <2>3. sum # NoText => sum.id \notin B
    BY <1>1 DEF HeapInv, WeighedInv
  <2> HIDE DEF B
  <2>4. CASE sum = NoText
    BY <1>1, <1>2, <1>4, <1>5, <2>1, <2>2, <2>4
  <2>5. CASE sum # NoText
    BY <1>1, <1>2, <1>4, <1>5, <2>1, <2>2, <2>3, <2>5
  <2> QED
    BY <2>4, <2>5
<1>8. D \cap (GivenIds(request) \cup Returned) = {}
  <2>1. Held \cap (GivenIds(request) \cup Returned) = {}
    BY <1>1, LiveBounded DEF HeapInv
  <2> QED
    BY <1>3, <1>5, <2>1
<1>9. LiveInv'
  BY <1>1, <1>4, <1>6, <1>7, <1>8, LiveReplaced DEF HeapInv
<1>10. ReadInv'
  <2>1. GivenIds(request)' = GivenIds(request)
    BY <1>1 DEF GivenIds, GivenId, Powers
  <2>2. current.id \in GivenIds(request) \cup Held \cup {0}
    BY <1>1, <1>2 DEF HeapInv, ReadInv
  <2>3. current.id \notin D
    BY <1>1, <1>5 DEF HeapInv, WeighedInv
  <2>4. current'.id \in GivenIds(request)' \cup Held' \cup {0}
    BY <1>1, <1>7, <2>1, <2>2, <2>3
  <2>5. request.operation = "weighted_sum" =>
          \A p \in DOMAIN basis : basis[p].id \in GivenIds(request)
    BY <1>1 DEF HeapInv, ReadInv
  <2> QED
    BY <1>1, <1>2, <2>1, <2>4, <2>5 DEF ReadInv, NoText
<1>11. WeighedInv'
  <2>1. sum'.id \notin live
    BY <1>3, <1>4
  <2>2. sum'.id \notin {0, current.id} /\ \A p \in DOMAIN basis : basis[p].id # sum'.id
    BY <1>3, <1>4, <2>1
  <2>3. sum' # NoText
    BY <1>2, <1>4
  <2>4. power' \in 0 .. request.degree
    <3>1. request.degree \in Nat
      BY <1>1, AcceptedFacts, Typed DEF LevelInv, Made, Degree
    <3> QED
      BY <1>1, <1>3, <3>1
  <2> QED
    BY <1>1, <1>2, <1>3, <2>2, <2>3, <2>4 DEF WeighedInv, NoText
<1> QED
  BY <1>1, <1>9, <1>10, <1>11 DEF HeapInv, BuiltInv, DoneInv

LEMMA ReturnSumKeepsHeap == LevelInv /\ HeapInv /\ ReturnSum => HeapInv'
<1> SUFFICES ASSUME LevelInv, HeapInv, ReturnSum PROVE HeapInv'
  OBVIOUS
<1> DEFINE c == request.coefficients[0]
           text == IF c = 0 THEN sum ELSE add_number(sum, c, made + 1)
           used == IF request.operation = "evaluate"
                     THEN {basis[p].id : p \in DOMAIN basis} ELSE {}
           last == IF c = 0 THEN made ELSE made + 1
           N == request.size * MaxDegree
<1>1. /\ pc = "sum" /\ power = 0
      /\ ReturnUnit(<<text>>, (live \ (used \cup {sum.id})) \cup {text.id}, last)
  BY DEF ReturnSum
<1>2. /\ made \in Nat /\ live \subseteq 1 .. made
      /\ request.operation # "make_basis"
      /\ sum # NoText => sum.id \in Held /\ sum.id # 0
  BY <1>1, SumRead
<1>3. sum # NoText
  BY <1>1 DEF HeapInv, WeighedInv
<1>4. request \in Request
  BY <1>1 DEF LevelInv, Made
<1>5. request.operation \in {"evaluate", "weighted_sum"}
  BY <1>2, <1>4, RequestAssumption
<1>6. Held = ({sum.id} \cup used) \ {0}
  BY <1>5 DEF Held, NoText
<1>7. (text.id = sum.id /\ last = made) \/ (text.id = made + 1 /\ last = made + 1)
  BY DEF add_number, Text
<1> HIDE DEF text, used, last, c
<1>8. /\ live = GivenIds(request) \cup Returned \cup Held
      /\ Held \cap (GivenIds(request) \cup Returned) = {}
      /\ Held \subseteq N + 1 .. made /\ N =< made
  <2>1. Held \cap (GivenIds(request) \cup Returned) = {}
    BY <1>1, LiveBounded DEF HeapInv
  <2> QED
    BY <1>1, <2>1 DEF HeapInv, LiveInv
<1>9. N \in Nat
  BY <1>4, RequestTyped
<1> HIDE DEF N
<1>10. live \ (used \cup {sum.id}) = GivenIds(request) \cup Returned
  <2>1. 0 \notin live
    BY <1>2
  <2> QED
    BY <1>6, <1>8, <2>1
<1>11. text.id \in N + 1 .. last /\ last \in Nat /\ made =< last
  <2>1. sum.id \in N + 1 .. made
    BY <1>2, <1>3, <1>8
  <2> QED
    BY <1>2, <1>7, <1>8, <1>9, <2>1
<1>12. PICK texts, alive, count, ids :
          /\ texts = <<text>> /\ count = last /\ ids = {text.id}
          /\ alive = (live \ (used \cup {sum.id})) \cup {text.id}
  OBVIOUS
<1>13. ids = {texts[p].id : p \in DOMAIN texts}
  <2>1. DOMAIN texts = {1} /\ texts[1] = text
    BY <1>12
  <2> QED
    BY <1>12, <2>1
<1>14. /\ ReturnUnit(texts, alive, count) /\ count \in Nat /\ made =< count
       /\ ids \subseteq request.size * MaxDegree + 1 .. count
       /\ alive = GivenIds(request) \cup Returned \cup ids
  BY <1>1, <1>10, <1>11, <1>12 DEF N
<1> QED
  BY <1>1, <1>13, <1>14, ReturnKeepsHeap

LEMMA CallKeepsHeap == \A r \in Request : Call(r) => HeapInv'
<1> SUFFICES ASSUME NEW r \in Request, Call(r) PROVE HeapInv'
  OBVIOUS
<1> DEFINE N == r.size * MaxDegree
<1>1. /\ Accepted(r) /\ request' = r /\ results' = <<>>
      /\ EnterUnit(r, 1, GivenIds(r), N)
  BY DEF Call
<1>2. N \in Nat /\ 1 \in 1 .. r.size
  BY RequestTyped
<1>3. results' \in Seq(Range(results')) /\ Returned' = {}
  BY <1>1 DEF Returned
<1>4. PICK texts, count : texts = GivenIds(r) /\ count = N
  OBVIOUS
<1>5. /\ EnterUnit(r, 1, texts, count) /\ count \in Nat
      /\ texts = GivenIds(r) \cup Returned'
      /\ Returned' \subseteq r.size * MaxDegree + 1 .. count
      /\ r.size * MaxDegree =< count
  BY <1>1, <1>2, <1>3, <1>4
<1> QED
  BY <1>1, <1>2, <1>3, <1>5, EnterKeepsHeap

(***************************************************************************)
(* What exists is known at every step of a call: nothing is lost, and       *)
(* nothing that a loop, the caller or a result still has is deleted.        *)
(***************************************************************************)
THEOREM HeapKept == Spec => []HeapInv
<1>1. Init => HeapInv
  BY DEF Init, HeapInv, LiveInv, ReadInv, BuiltInv, WeighedInv, DoneInv
<1>2. LevelInv /\ HeapInv /\ [Next]_vars => HeapInv'
  <2> SUFFICES ASSUME LevelInv, HeapInv, [Next]_vars PROVE HeapInv'
    OBVIOUS
  <2>1. CASE UNCHANGED vars
    <3>1. /\ pc' = pc /\ GivenIds(request)' = GivenIds(request) /\ Returned' = Returned
          /\ Held' = Held
      BY <2>1 DEF vars, GivenIds, GivenId, Powers, Returned, Held, NoText
    <3> QED
      BY <2>1, <3>1
         DEF vars, HeapInv, LiveInv, ReadInv, BuiltInv, WeighedInv, DoneInv, NoText
  <2>2. CASE \E r \in Request : Call(r)
    BY <2>2, CallKeepsHeap
  <2>3. CASE \E r \in Request : Refuse(r)
    BY <2>1, <2>3 DEF Refuse
  <2>4. CASE SquarePower
    BY <2>4, SquareKeepsHeap
  <2>5. CASE MultiplyPower
    BY <2>5, MultiplyKeepsHeap
  <2>6. CASE EndSquares \/ SkipPower \/ SkipWeight
    BY <2>6, CountKeepsHeap
  <2>7. CASE ReturnBasis
    BY <2>7, ReturnBasisKeepsHeap
  <2>8. CASE SumBasis
    BY <2>8, SumBasisKeepsHeap
  <2>9. CASE Weigh
    BY <2>9, WeighKeepsHeap
  <2>10. CASE ReturnSum
    BY <2>10, ReturnSumKeepsHeap
  <2>11. CASE Forget
    BY <2>11 DEF Forget, HeapInv, LiveInv, ReadInv, BuiltInv, WeighedInv, DoneInv
  <2> QED
    BY <2>1, <2>2, <2>3, <2>4, <2>5, <2>6, <2>7, <2>8, <2>9, <2>10, <2>11 DEF Next
<1> QED
  BY <1>1, <1>2, LevelsKept, PTL DEF Spec

(***************************************************************************)
(* An evaluation returns with the texts of the caller and its results, each *)
(* a text of its own, and has deleted all the others; and no loop reads a   *)
(* text of a basis, or the sum, after it was deleted.                       *)
(***************************************************************************)
THEOREM HeapAlwaysSound == Spec => []HeapSound
<1>1. LevelInv /\ HeapInv => HeapSound
  <2> SUFFICES ASSUME LevelInv, HeapInv PROVE HeapSound
    OBVIOUS
  <2>1. ASSUME pc = "returned"
        PROVE  /\ live = GivenIds(request) \cup Returned
               /\ Returned \cap GivenIds(request) = {}
    <3> DEFINE N == request.size * MaxDegree
    <3>1. Held = {} /\ live = GivenIds(request) \cup Returned \cup Held
      BY <2>1 DEF HeapInv, DoneInv, LiveInv
    <3>2. Returned \subseteq N + 1 .. made /\ request \in Request /\ made \in Nat
      BY <2>1 DEF HeapInv, LiveInv, LevelInv, Made
    <3>3. GivenIds(request) \subseteq 1 .. N /\ N \in Nat
      BY <3>2, GivenBounded, RequestTyped
    <3> HIDE DEF N
    <3> QED
      BY <3>1, <3>2, <3>3
  <2>2. ASSUME pc \in {"squares", "products", "sum"}
        PROVE  {text.id : text \in {basis[p] : p \in DOMAIN basis} \cup {current, sum}}
                 \subseteq live \cup {NoText.id}
    <3>1. Held \subseteq live /\ GivenIds(request) \subseteq live
      BY <2>2, LiveBounded DEF HeapInv
    <3>2. current.id \in live \cup {NoText.id}
      BY <2>2, <3>1 DEF HeapInv, ReadInv
    <3>3. sum.id \in live \cup {NoText.id}
      BY <3>1 DEF Held
    <3>4. ASSUME NEW p \in DOMAIN basis PROVE basis[p].id \in live \cup {NoText.id}
      <4>1. CASE request.operation = "weighted_sum"
        BY <2>2, <3>1, <4>1 DEF HeapInv, ReadInv
      <4>2. CASE request.operation # "weighted_sum"
        BY <3>1, <4>2 DEF Held
      <4> QED
        BY <4>1, <4>2
    <3> QED
      BY <3>2, <3>3, <3>4
  <2> QED
    BY <2>1, <2>2 DEF HeapSound
<1> QED
  BY <1>1, LevelsKept, HeapKept, PTL

-----------------------------------------------------------------------------
(* The values.  First numbers modulo the prime.                              *)

LEMMA Divided ==
    ASSUME NEW b \in Nat \ {0}, NEW a \in Int
    PROVE  /\ a \div b \in Int /\ a % b \in 0 .. b - 1
           /\ a = (b * (a \div b)) + (a % b)
           /\ a \in 0 .. b - 1 => a % b = a
BY SMT

LEMMA DividedUnique ==
    ASSUME NEW b \in Nat \ {0}, NEW w \in Int, NEW r \in 0 .. b - 1
    PROVE  ((b * w) + r) % b = r
BY SMT

(* Numbers whose difference is a multiple have the same remainder. *)
LEMMA MultipleDropped ==
    ASSUME NEW b \in Nat \ {0}, NEW a \in Int, NEW w \in Int
    PROVE  (a + (b * w)) % b = a % b
<1>1. /\ a \div b \in Int /\ a % b \in 0 .. b - 1
      /\ a = (b * (a \div b)) + (a % b)
  BY Divided
<1>2. b * ((a \div b) + w) = (b * (a \div b)) + (b * w)
  BY <1>1
<1>3. /\ (a \div b) + w \in Int /\ b * (a \div b) \in Int /\ b * w \in Int
      /\ a % b \in Int
  BY <1>1
<1>4. a + (b * w) = (b * ((a \div b) + w)) + (a % b)
  BY <1>1, <1>2, <1>3
<1> QED
  BY <1>1, <1>3, <1>4, DividedUnique

(* The same number, as far as slots can tell. *)
Same(a, b) == a % Prime = b % Prime

LEMMA Remainder ==
    ASSUME NEW a \in Int
    PROVE  /\ a % Prime \in 0 .. Prime - 1 /\ a % Prime \in Int
           /\ Same(a % Prime, a)
           /\ a \in 0 .. Prime - 1 => a % Prime = a
<1>1. Prime \in Nat \ {0}
  BY DegreeAssumption
<1>2. /\ a % Prime \in 0 .. Prime - 1
      /\ \A c \in Int : c \in 0 .. Prime - 1 => c % Prime = c
  BY <1>1, Divided
<1>3. a % Prime \in Int
  BY <1>1, <1>2
<1> QED
  BY <1>2, <1>3 DEF Same

LEMMA SameMultiple ==
    ASSUME NEW a \in Int, NEW b \in Int
    PROVE  Same(a, b) <=> \E w \in Int : a = b + (Prime * w)
<1>1. Prime \in Nat \ {0}
  BY DegreeAssumption
<1>2. ASSUME Same(a, b) PROVE \E w \in Int : a = b + (Prime * w)
  <2> DEFINE q == a \div Prime
             r == b \div Prime
  <2>1. /\ q \in Int /\ r \in Int /\ a % Prime \in Int
        /\ a = (Prime * q) + (a % Prime) /\ b = (Prime * r) + (b % Prime)
    BY <1>1, Divided
  <2>2. a % Prime = b % Prime
    BY <1>2 DEF Same
  <2> HIDE DEF q, r
  <2>3. Prime * (q - r) = (Prime * q) - (Prime * r) /\ q - r \in Int
        /\ Prime * q \in Int /\ Prime * r \in Int
    BY <1>1, <2>1
  <2>4. a = b + (Prime * (q - r))
    BY <2>1, <2>2, <2>3
  <2> QED
    BY <2>3, <2>4
<1>3. ASSUME NEW w \in Int, a = b + (Prime * w) PROVE Same(a, b)
  BY <1>1, <1>3, MultipleDropped DEF Same
<1> QED
  BY <1>2, <1>3

LEMMA SameSum ==
    ASSUME NEW a \in Int, NEW b \in Int, NEW c \in Int, NEW d \in Int,
           Same(a, b), Same(c, d)
    PROVE  Same(a + c, b + d) /\ Same(a - c, b - d)
<1>1. Prime \in Int
  BY DegreeAssumption
<1>2. PICK w \in Int : a = b + (Prime * w)
  BY SameMultiple
<1>3. PICK z \in Int : c = d + (Prime * z)
  BY SameMultiple
<1>4. /\ Prime * (w + z) = (Prime * w) + (Prime * z) /\ w + z \in Int
      /\ Prime * (w - z) = (Prime * w) - (Prime * z) /\ w - z \in Int
      /\ Prime * w \in Int /\ Prime * z \in Int
  BY <1>1
<1>5. a + c = (b + d) + (Prime * (w + z)) /\ a - c = (b - d) + (Prime * (w - z))
  BY <1>2, <1>3, <1>4
<1>6. a + c \in Int /\ b + d \in Int /\ a - c \in Int /\ b - d \in Int
  OBVIOUS
<1> QED
  BY <1>4, <1>5, <1>6, SameMultiple

LEMMA SameScaled ==
    ASSUME NEW a \in Int, NEW b \in Int, NEW c \in Int, Same(a, b)
    PROVE  Same(c * a, c * b) /\ c * a \in Int /\ c * b \in Int
<1>1. Prime \in Int
  BY DegreeAssumption
<1>2. PICK w \in Int : a = b + (Prime * w)
  BY SameMultiple
<1>3. c * (b + (Prime * w)) = (c * b) + (Prime * (c * w))
  BY <1>1
<1>4. c * w \in Int /\ c * a \in Int /\ c * b \in Int
  OBVIOUS
<1> QED
  BY <1>2, <1>3, <1>4, SameMultiple

LEMMA SameProduct ==
    ASSUME NEW a \in Int, NEW b \in Int, NEW c \in Int, NEW d \in Int,
           Same(a, b), Same(c, d)
    PROVE  Same(a * c, b * d)
<1>1. Same(c * a, c * b) /\ Same(b * c, b * d)
  BY SameScaled
<1>2. c * a = a * c /\ c * b = b * c
  OBVIOUS
<1> QED
  BY <1>1, <1>2 DEF Same

-----------------------------------------------------------------------------
(* The polynomials of a basis. *)

(* The polynomial that follows a pair of successive ones. *)
Successor(kind, x, last) ==
    (IF kind = "power" THEN x * last[2] ELSE 2 * x * last[2] - last[1]) % Prime

(* BasisPolynomial is computed by its recurrence. *)
LEMMA StepsExist ==
    ASSUME NEW kind, NEW x
    PROVE  \E step :
             /\ step = [n \in 0 .. MaxDegree |->
                          IF n = 0 THEN <<1, x>>
                          ELSE <<step[n - 1][2], Successor(kind, x, step[n - 1])>>]
             /\ \A p : BasisPolynomial(kind, p, x) = step[p][1]
<1> DEFINE Body(g, n) == IF n = 0 THEN <<1, x>>
                         ELSE <<g[n - 1][2], Successor(kind, x, g[n - 1])>>
           Powers0 == 0 .. MaxDegree
           Right(g, m) == \A n \in Powers0 : n =< m => g[n] = Body(g, n)
           Wrong == {m \in Nat : ~ \E g : Right(g, m)}
<1>1. MaxDegree \in Nat
  BY Typed
<1>2. \A g, h : Body(g, 0) = Body(h, 0)
  OBVIOUS
<1>3. \A g, h : \A n \in Powers0 : n # 0 /\ g[n - 1] = h[n - 1] => Body(g, n) = Body(h, n)
  OBVIOUS
<1>4. Wrong = {}
  <2> SUFFICES ASSUME Wrong # {} PROVE FALSE
    OBVIOUS
  <2>1. Wrong \in SUBSET Nat
    OBVIOUS
  <2>2. PICK m \in Wrong : \A k \in Wrong : m =< k
    BY <2>1, LeastOfNaturals
  <2>3. PICK g : m = 0 \/ Right(g, m - 1)
    <3> HIDE DEF Right
    <3>1. m # 0 => m - 1 \in Nat /\ ~(m =< m - 1)
      BY <2>2
    <3> QED
      BY <2>2, <3>1
  <2> DEFINE h == [n \in Powers0 |-> Body(g, n)]
  <2>4. Right(h, m)
    <3> SUFFICES ASSUME NEW n \in Powers0, n =< m PROVE h[n] = Body(h, n)
      OBVIOUS
    <3> HIDE DEF Body
    <3>1. h[n] = Body(g, n)
      OBVIOUS
    <3>2. CASE n = 0
      BY <1>2, <3>1, <3>2
    <3>3. CASE n # 0
      <4>1. n - 1 \in Powers0 /\ n - 1 =< m - 1 /\ m # 0 /\ m \in Nat
        BY <1>1, <2>2, <3>3
      <4>2. g[n - 1] = Body(g, n - 1)
        BY <2>3, <4>1
      <4>3. h[n - 1] = Body(g, n - 1)
        BY <4>1
      <4>4. g[n - 1] = h[n - 1]
        BY <4>2, <4>3
      <4> HIDE DEF h
      <4> QED
        BY <1>3, <3>1, <3>3, <4>4
    <3> QED
      BY <3>2, <3>3
  <2> QED
    BY <2>2, <2>4
<1>5. PICK g : Right(g, MaxDegree)
  BY <1>1, <1>4
<1> DEFINE h == [n \in Powers0 |-> g[n]]
<1>6. h = [n \in Powers0 |-> Body(h, n)]
  <2> SUFFICES ASSUME NEW n \in Powers0 PROVE g[n] = Body(h, n)
    OBVIOUS
  <2> HIDE DEF Body
  <2>1. g[n] = Body(g, n)
    BY <1>1, <1>5
  <2>2. CASE n = 0
    BY <1>2, <2>1, <2>2
  <2>3. CASE n # 0
    <3>1. n - 1 \in Powers0
      BY <1>1, <2>3
    <3>2. g[n - 1] = h[n - 1]
      BY <3>1
    <3> HIDE DEF h
    <3> QED
      BY <1>3, <2>1, <2>3, <3>2
  <2> QED
    BY <2>2, <2>3
<1> DEFINE step == CHOOSE s : s = [n \in Powers0 |-> Body(s, n)]
<1>7. step = [n \in Powers0 |-> Body(step, n)]
  <2>1. \E s : s = [n \in Powers0 |-> Body(s, n)]
    BY <1>6
  <2> HIDE DEF Body
  <2> QED
    BY <2>1
<1>8. \A p : BasisPolynomial(kind, p, x) = step[p][1]
  BY DEF BasisPolynomial, Successor
<1> QED
  BY <1>7, <1>8

(* The recurrences. *)
LEMMA BasisRecurrence ==
    ASSUME NEW kind, NEW x \in 0 .. Prime - 1
    PROVE  LET B(p) == BasisPolynomial(kind, p, x)
           IN  /\ B(0) = 1 /\ B(1) = x
               /\ \A p \in Degree : B(p) \in 0 .. Prime - 1
               /\ \A p \in 0 .. MaxDegree : B(p) \in Int
               /\ \A p \in Nat : p + 2 =< MaxDegree =>
                    B(p + 2) = (IF kind = "power" THEN x * B(p + 1)
                                ELSE 2 * x * B(p + 1) - B(p)) % Prime
<1> DEFINE B(p) == BasisPolynomial(kind, p, x)
<1>1. PICK step :
         /\ step = [n \in 0 .. MaxDegree |->
                      IF n = 0 THEN <<1, x>>
                      ELSE <<step[n - 1][2], Successor(kind, x, step[n - 1])>>]
         /\ \A p : BasisPolynomial(kind, p, x) = step[p][1]
  BY StepsExist
<1>2. MaxDegree \in Nat /\ MaxDegree >= 1 /\ Prime \in Nat /\ Prime >= 1 /\ x \in Int
  BY Typed, DegreeAssumption
<1>3. \A n \in 0 .. MaxDegree :
        step[n] = IF n = 0 THEN <<1, x>>
                  ELSE <<step[n - 1][2], Successor(kind, x, step[n - 1])>>
  BY <1>1, Zenon
<1>4. \A p : B(p) = step[p][1]
  BY <1>1
<1> HIDE DEF B
<1>5. step[0] = <<1, x>>
  <2>1. 0 \in 0 .. MaxDegree
    BY <1>2
  <2> QED
    BY <1>3, <2>1, Zenon
<1>6. ASSUME NEW n \in 1 .. MaxDegree
      PROVE  /\ n \in 0 .. MaxDegree /\ n - 1 \in 0 .. MaxDegree
             /\ step[n] = <<step[n - 1][2], Successor(kind, x, step[n - 1])>>
             /\ B(n) = step[n - 1][2]
  <2>1. n \in 0 .. MaxDegree /\ n # 0 /\ n - 1 \in 0 .. MaxDegree
    BY <1>2
  <2>2. step[n] = <<step[n - 1][2], Successor(kind, x, step[n - 1])>>
    BY <1>3, <2>1
  <2> QED
    BY <1>4, <2>1, <2>2
<1>7. B(0) = 1 /\ B(1) = x
  <2>1. 1 \in 1 .. MaxDegree /\ 1 - 1 = 0
    BY <1>2
  <2>2. B(1) = step[0][2]
    BY <1>6, <2>1
  <2> QED
    BY <1>4, <1>5, <2>2
<1>8. ASSUME NEW p \in Nat, p + 2 =< MaxDegree
      PROVE  B(p + 2) = Successor(kind, x, <<B(p), B(p + 1)>>)
  <2>1. /\ p + 2 \in 1 .. MaxDegree /\ (p + 2) - 1 = p + 1 /\ p + 1 \in 1 .. MaxDegree
        /\ (p + 1) - 1 = p /\ p \in 0 .. MaxDegree
    BY <1>2, <1>8
  <2>2. B(p + 2) = step[p + 1][2]
    BY <1>6, <2>1
  <2>3. step[p + 1] = <<step[p][2], Successor(kind, x, step[p])>>
    BY <1>6, <2>1
  <2>4. B(p + 1) = step[p][2] /\ B(p) = step[p][1]
    BY <1>4, <1>6, <2>1
  <2>5. Successor(kind, x, step[p]) = Successor(kind, x, <<B(p), B(p + 1)>>)
    BY <2>4 DEF Successor
  <2> QED
    BY <2>2, <2>3, <2>5
<1>9. ASSUME NEW p \in Nat, p + 2 =< MaxDegree
      PROVE  B(p + 2) = (IF kind = "power" THEN x * B(p + 1)
                         ELSE 2 * x * B(p + 1) - B(p)) % Prime
  BY <1>8, <1>9 DEF Successor
<1>10. \A p \in 0 .. MaxDegree : B(p) \in Int /\ (p >= 1 => B(p) \in 0 .. Prime - 1)
  <2> DEFINE Wrong == {p \in 0 .. MaxDegree :
                         ~(B(p) \in Int /\ (p >= 1 => B(p) \in 0 .. Prime - 1))}
  <2> SUFFICES ASSUME Wrong # {} PROVE FALSE
    OBVIOUS
  <2>1. Wrong \in SUBSET Nat
    OBVIOUS
  <2>2. PICK m \in Wrong : \A k \in Wrong : m =< k
    BY <2>1, LeastOfNaturals
  <2>3. m \in 0 .. MaxDegree /\ m \in Nat /\ m # 0 /\ m # 1
    BY <1>2, <1>7, <2>2
  <2>4. m - 2 \in Nat /\ (m - 2) + 2 = m /\ (m - 2) + 1 = m - 1
    BY <2>3
  <2>5. B(m - 1) \in Int /\ B(m - 2) \in Int
    <3>1. m - 1 \in 0 .. MaxDegree /\ m - 2 \in 0 .. MaxDegree
          /\ ~(m =< m - 1) /\ ~(m =< m - 2)
      BY <1>2, <2>3, <2>4
    <3> QED
      BY <2>2, <3>1
  <2>6. B(m) = (IF kind = "power" THEN x * B(m - 1)
                ELSE 2 * x * B(m - 1) - B(m - 2)) % Prime
    BY <1>2, <1>9, <2>3, <2>4
  <2>7. (IF kind = "power" THEN x * B(m - 1) ELSE 2 * x * B(m - 1) - B(m - 2)) \in Int
    BY <1>2, <2>5
  <2>8. B(m) \in Int /\ B(m) \in 0 .. Prime - 1
    BY <2>6, <2>7, Remainder
  <2> QED
    BY <2>2, <2>8
<1>11. \A p \in Degree : B(p) \in 0 .. Prime - 1
  BY <1>2, <1>10 DEF Degree
<1> QED
  BY <1>7, <1>9, <1>10, <1>11 DEF B

(* A power of x is the product of two lower ones. *)
LEMMA PowersMultiply ==
    ASSUME NEW x \in 0 .. Prime - 1, NEW a \in Nat, NEW b \in Nat, a + b =< MaxDegree
    PROVE  LET B(p) == BasisPolynomial("power", p, x)
           IN  Same(B(a + b), B(a) * B(b))
<1> DEFINE B(p) == BasisPolynomial("power", p, x)
           Wrong == {n \in Nat : n + b =< MaxDegree /\ ~Same(B(n + b), B(n) * B(b))}
<1>1. /\ B(0) = 1 /\ B(1) = x /\ \A p \in 0 .. MaxDegree : B(p) \in Int
      /\ \A p \in Nat : p + 2 =< MaxDegree => B(p + 2) = (x * B(p + 1)) % Prime
  BY BasisRecurrence
<1>2. MaxDegree \in Nat /\ x \in Int
  BY Typed, DegreeAssumption
<1> HIDE DEF B
<1>3. ASSUME NEW p \in Nat, p + 1 =< MaxDegree
      PROVE  Same(B(p + 1), x * B(p)) /\ B(p) \in Int /\ B(p + 1) \in Int
  <2>1. B(p) \in Int /\ B(p + 1) \in Int
    BY <1>1, <1>2, <1>3
  <2>2. CASE p = 0
    <3>1. B(p + 1) = x * B(p)
      BY <1>1, <1>2, <2>2
    <3> QED
      BY <2>1, <3>1 DEF Same
  <2>3. CASE p # 0
    <3>1. p - 1 \in Nat /\ (p - 1) + 2 = p + 1 /\ (p - 1) + 1 = p
      BY <2>3
    <3>2. B(p + 1) = (x * B(p)) % Prime
      BY <1>1, <1>3, <3>1
    <3>3. x * B(p) \in Int
      BY <1>2, <2>1
    <3> QED
      BY <2>1, <3>2, <3>3, Remainder
  <2> QED
    BY <2>1, <2>2, <2>3
<1>4. SUFFICES ASSUME Wrong # {} PROVE FALSE
  BY DEF B
<1>5. Wrong \in SUBSET Nat
  OBVIOUS
<1>6. PICK m \in Wrong : \A k \in Wrong : m =< k
  BY <1>4, <1>5, LeastOfNaturals
<1>7. m \in Nat /\ m + b =< MaxDegree /\ b \in 0 .. MaxDegree /\ B(b) \in Int
  BY <1>1, <1>2, <1>6
<1>8. CASE m = 0
  <2>1. B(m + b) = B(m) * B(b)
    BY <1>1, <1>7, <1>8
  <2> QED
    BY <1>6, <2>1 DEF Same
<1>9. CASE m # 0
  <2> DEFINE n == m - 1
  <2>1. /\ n \in Nat /\ n + 1 = m /\ n + b \in Nat /\ (n + b) + 1 = m + b
        /\ n + b =< MaxDegree /\ (n + b) + 1 =< MaxDegree /\ n + 1 =< MaxDegree
        /\ ~(m =< n)
    BY <1>2, <1>7, <1>9
  <2> HIDE DEF n
  <2>2. Same(B(n + b), B(n) * B(b))
    BY <1>6, <2>1
  <2>3. /\ Same(B(m + b), x * B(n + b)) /\ B(n + b) \in Int /\ B(m + b) \in Int
        /\ Same(B(m), x * B(n)) /\ B(n) \in Int /\ B(m) \in Int
    <3>1. Same(B((n + b) + 1), x * B(n + b)) /\ B(n + b) \in Int /\ B((n + b) + 1) \in Int
      BY <1>3, <2>1
    <3>2. Same(B(n + 1), x * B(n)) /\ B(n) \in Int /\ B(n + 1) \in Int
      BY <1>3, <2>1
    <3> QED
      BY <2>1, <3>1, <3>2
  <2>4. B(n) * B(b) \in Int /\ x * B(n) \in Int
    BY <1>2, <1>7, <2>3
  <2>5. Same(x * B(n + b), x * (B(n) * B(b)))
    BY <1>2, <2>2, <2>3, <2>4, SameScaled
  <2>6. Same(B(m) * B(b), (x * B(n)) * B(b))
    <3>1. Same(B(b), B(b))
      BY DEF Same
    <3> QED
      BY <1>7, <2>3, <2>4, <3>1, SameProduct
  <2>7. x * (B(n) * B(b)) = (x * B(n)) * B(b)
    BY <1>2, <1>7, <2>3
  <2>8. Same(B(m + b), B(m) * B(b))
    BY <2>3, <2>5, <2>6, <2>7 DEF Same
  <2> QED
    BY <1>6, <2>8
<1> QED
  BY <1>8, <1>9

LEMMA ChebyshevIdentity ==
    ASSUME NEW x \in Int, NEW A \in Int, NEW U \in Int, NEW V \in Int,
           NEW D0 \in Int, NEW D1 \in Int
    PROVE  (2 * x) * ((2 * A) * U - D1) - ((2 * A) * V - ((2 * x) * D1 - D0)) =
             (2 * A) * ((2 * x) * U - V) - D0
BY SMT

(* T(a + b) = 2 T(a) T(b) - T(a - b) *)
LEMMA ChebyshevProduct ==
    ASSUME NEW kind, kind # "power", NEW x \in 0 .. Prime - 1,
           NEW a \in Nat, NEW b \in Nat, b =< a, a + b =< MaxDegree
    PROVE  LET B(p) == BasisPolynomial(kind, p, x)
           IN  Same(B(a + b), (2 * B(a)) * B(b) - B(a - b))
<1> DEFINE B(p) == BasisPolynomial(kind, p, x)
           Right(n) == Same(B(a + n), (2 * B(a)) * B(n) - B(a - n))
           Wrong == {n \in Nat : n =< a /\ a + n =< MaxDegree /\ ~Right(n)}
<1>1. /\ B(0) = 1 /\ B(1) = x /\ \A p \in 0 .. MaxDegree : B(p) \in Int
      /\ \A p \in Nat : p + 2 =< MaxDegree =>
           B(p + 2) = ((2 * x) * B(p + 1) - B(p)) % Prime
  BY BasisRecurrence
<1>2. MaxDegree \in Nat /\ x \in Int /\ 2 * x \in Int
  BY Typed, DegreeAssumption
<1> HIDE DEF B
<1>3. ASSUME NEW p \in Nat, p + 2 =< MaxDegree
      PROVE  /\ Same(B(p + 2), (2 * x) * B(p + 1) - B(p))
             /\ B(p) \in Int /\ B(p + 1) \in Int /\ B(p + 2) \in Int
             /\ (2 * x) * B(p + 1) \in Int
  <2>1. B(p) \in Int /\ B(p + 1) \in Int /\ B(p + 2) \in Int
    BY <1>1, <1>2, <1>3
  <2>2. (2 * x) * B(p + 1) \in Int
    BY <1>2, <2>1
  <2>3. (2 * x) * B(p + 1) - B(p) \in Int
    BY <2>1, <2>2
  <2> QED
    BY <1>1, <1>3, <2>1, <2>2, <2>3, Remainder
<1>4. SUFFICES ASSUME Wrong # {} PROVE FALSE
  BY DEF B
<1>5. Wrong \in SUBSET Nat
  OBVIOUS
<1>6. PICK m \in Wrong : \A k \in Wrong : m =< k
  BY <1>4, <1>5, LeastOfNaturals
<1>7. /\ m \in Nat /\ m =< a /\ a + m =< MaxDegree /\ ~Right(m)
      /\ a \in 0 .. MaxDegree /\ B(a) \in Int
  BY <1>1, <1>2, <1>6
<1>8. CASE m = 0
  <2>1. a + m = a /\ a - m = a /\ B(m) = 1
    BY <1>1, <1>8
  <2>2. (2 * B(a)) * 1 - B(a) = B(a)
    BY <1>7
  <2> QED
    BY <1>7, <2>1, <2>2 DEF Same
<1>9. CASE m = 1
  <2> DEFINE p == a - 1
  <2>1. p \in Nat /\ p + 2 = a + m /\ p + 1 = a /\ a - m = p /\ B(m) = x
    BY <1>1, <1>7, <1>9
  <2> HIDE DEF p
  <2>2. Same(B(a + m), (2 * x) * B(a) - B(p))
    BY <1>3, <1>7, <2>1
  <2>3. (2 * x) * B(a) = (2 * B(a)) * x
    BY <1>2, <1>7
  <2> QED
    BY <1>7, <2>1, <2>2, <2>3
<1>10. CASE m # 0 /\ m # 1
  <2> DEFINE n == m - 2
             s == a + n
             d == a - m
  <2>1. /\ n \in Nat /\ s \in Nat /\ d \in Nat
        /\ n + 2 = m /\ s + 2 = a + m /\ d + 2 = a - n
        /\ n + 1 =< a /\ a + (n + 1) = s + 1 /\ a - (n + 1) = d + 1
        /\ n =< a /\ a + n = s /\ n + 1 \in Nat
        /\ ~(m =< n) /\ ~(m =< n + 1) /\ s + 1 =< MaxDegree /\ s =< MaxDegree
        /\ n + 2 =< MaxDegree /\ s + 2 =< MaxDegree /\ d + 2 =< MaxDegree
    BY <1>2, <1>7, <1>10
  <2> HIDE DEF n, s, d
  <2>2. /\ Same(B(s + 1), (2 * B(a)) * B(n + 1) - B(d + 1))
        /\ Same(B(s), (2 * B(a)) * B(n) - B(d + 2))
    <3>1. Right(n) /\ Right(n + 1)
      <4> HIDE DEF Right
      <4> QED
        BY <1>6, <2>1
    <3> QED
      BY <2>1, <3>1
  <2>3. /\ Same(B(s + 2), (2 * x) * B(s + 1) - B(s))
        /\ Same(B(n + 2), (2 * x) * B(n + 1) - B(n))
        /\ Same(B(d + 2), (2 * x) * B(d + 1) - B(d))
    BY <1>3, <2>1
  <2>4. /\ B(s) \in Int /\ B(s + 1) \in Int /\ B(s + 2) \in Int
        /\ B(n) \in Int /\ B(n + 1) \in Int /\ B(n + 2) \in Int
        /\ B(d) \in Int /\ B(d + 1) \in Int /\ B(d + 2) \in Int
    BY <1>3, <2>1
  <2> DEFINE A == B(a)   X == 2 * x   Y == 2 * A
             S0 == B(s)  S1 == B(s + 1)  U == B(n + 1)  V == B(n)  N == B(n + 2)
             D0 == B(d)  D1 == B(d + 1)  D2 == B(d + 2)
  <2>5. /\ A \in Int /\ X \in Int /\ Y \in Int /\ S0 \in Int /\ S1 \in Int /\ U \in Int
        /\ V \in Int /\ N \in Int /\ D0 \in Int /\ D1 \in Int /\ D2 \in Int
    BY <1>2, <1>7, <2>4
  <2>6. /\ Same(S1, Y * U - D1) /\ Same(S0, Y * V - D2)
        /\ Same(N, X * U - V) /\ Same(D2, X * D1 - D0)
        /\ Same(B(s + 2), X * S1 - S0)
    BY <2>2, <2>3
  <2>7. X * (Y * U - D1) - (Y * V - (X * D1 - D0)) = Y * (X * U - V) - D0
    BY <1>2, <2>5, ChebyshevIdentity
  <2> HIDE DEF A, X, Y, S0, S1, U, V, N, D0, D1, D2
  <2>8. /\ Y * U - D1 \in Int /\ Y * V \in Int /\ Y * V - D2 \in Int
        /\ X * U - V \in Int /\ X * D1 - D0 \in Int /\ Y * N \in Int
    BY <2>5
  <2>9. /\ Same(X * S1, X * (Y * U - D1)) /\ X * S1 \in Int /\ X * (Y * U - D1) \in Int
        /\ Same(Y * N, Y * (X * U - V)) /\ Y * (X * U - V) \in Int
    BY <2>5, <2>6, <2>8, SameScaled
  <2>10. Same(Y * V - D2, Y * V - (X * D1 - D0)) /\ Y * V - (X * D1 - D0) \in Int
    <3>1. Same(Y * V, Y * V)
      BY DEF Same
    <3> QED
      BY <2>5, <2>6, <2>8, <3>1, SameSum
  <2>11. Same(S0, Y * V - (X * D1 - D0))
    BY <2>6, <2>10 DEF Same
  <2>12. Same(X * S1 - S0, X * (Y * U - D1) - (Y * V - (X * D1 - D0)))
    BY <2>5, <2>9, <2>10, <2>11, SameSum
  <2>13. Same(Y * N - D0, Y * (X * U - V) - D0)
    <3>1. Same(D0, D0)
      BY DEF Same
    <3> QED
      BY <2>5, <2>8, <2>9, <3>1, SameSum
  <2>14. Same(B(s + 2), Y * N - D0)
    BY <2>6, <2>7, <2>12, <2>13 DEF Same
  <2>15. Right(m)
    <3>1. B(s + 2) = B(a + m) /\ D0 = B(a - m) /\ N = B(m)
      BY <2>1 DEF D0, N, d
    <3> QED
      BY <2>14, <3>1 DEF Y, A
  <2> QED
    BY <1>7, <2>15
<1> QED
  BY <1>8, <1>9, <1>10

-----------------------------------------------------------------------------
(* Sums of slots.  A fold takes the terms in an order that is not known, and *)
(* gives the same in any order.                                              *)

Residues == [Slot -> 0 .. Prime - 1]

LEMMA PlusResidues ==
    ASSUME NEW f \in [Slot -> Int], NEW g \in [Slot -> Int]
    PROVE  /\ Plus(f, g) \in Residues
           /\ Plus(f, g) = Plus(g, f)
           /\ \A s \in Slot : Plus(f, g)[s] = (f[s] + g[s]) % Prime
           /\ f \in Residues => Plus(f, Constant(0)) = f /\ Plus(Constant(0), f) = f
<1>1. \A s \in Slot : Plus(f, g)[s] = (f[s] + g[s]) % Prime
  BY DEF Plus
<1>2. Plus(f, g) \in Residues
  <2>1. ASSUME NEW s \in Slot PROVE (f[s] + g[s]) % Prime \in 0 .. Prime - 1
    <3>1. f[s] + g[s] \in Int
      OBVIOUS
    <3> QED
      BY <3>1, Remainder
  <2> QED
    BY <2>1 DEF Plus, Residues
<1>3. Plus(f, g) = Plus(g, f)
  <2>1. \A s \in Slot : f[s] + g[s] = g[s] + f[s]
    OBVIOUS
  <2> QED
    BY <2>1 DEF Plus
<1>4. ASSUME f \in Residues PROVE Plus(f, Constant(0)) = f /\ Plus(Constant(0), f) = f
  <2>1. 0 % Prime = 0
    <3>1. 0 \in 0 .. Prime - 1
      BY DegreeAssumption
    <3> QED
      BY <3>1, Remainder
  <2>2. ASSUME NEW s \in Slot PROVE (f[s] + 0) % Prime = f[s] /\ (0 + f[s]) % Prime = f[s]
    <3>1. f[s] \in 0 .. Prime - 1 /\ f[s] \in Int /\ f[s] + 0 = f[s] /\ 0 + f[s] = f[s]
      BY <1>4 DEF Residues
    <3> QED
      BY <3>1, Remainder
  <2>3. f = [s \in Slot |-> f[s]]
    OBVIOUS
  <2>4. \A s \in Slot : Constant(0)[s] = 0
    BY <2>1 DEF Constant
  <2>5. Plus(f, Constant(0)) = [s \in Slot |-> f[s]]
    BY <2>2, <2>4 DEF Plus
  <2>6. Plus(Constant(0), f) = [s \in Slot |-> f[s]]
    BY <2>2, <2>4 DEF Plus
  <2> QED
    BY <2>3, <2>5, <2>6
<1> QED
  BY <1>1, <1>2, <1>3, <1>4

LEMMA PlusExchange ==
    ASSUME NEW f \in Residues, NEW g \in Residues, NEW h \in Residues
    PROVE  Plus(f, Plus(g, h)) = Plus(g, Plus(f, h))
<1>1. ASSUME NEW s \in Slot
      PROVE  (f[s] + ((g[s] + h[s]) % Prime)) % Prime =
               (g[s] + ((f[s] + h[s]) % Prime)) % Prime
  <2>1. f[s] \in Int /\ g[s] \in Int /\ h[s] \in Int
    <3>1. 0 .. Prime - 1 \subseteq Int
      OBVIOUS
    <3> QED
      BY <3>1 DEF Residues
  <2> DEFINE a == f[s]  b == g[s]  c == h[s]
  <2>2. a \in Int /\ b \in Int /\ c \in Int
    BY <2>1
  <2> HIDE DEF a, b, c
  <2>3. /\ Same((b + c) % Prime, b + c) /\ (b + c) % Prime \in Int /\ b + c \in Int
        /\ Same((a + c) % Prime, a + c) /\ (a + c) % Prime \in Int /\ a + c \in Int
    BY <2>2, Remainder
  <2>4. Same(a, a) /\ Same(b, b)
    BY DEF Same
  <2>5. /\ Same(a + ((b + c) % Prime), a + (b + c))
        /\ Same(b + ((a + c) % Prime), b + (a + c))
    BY <2>2, <2>3, <2>4, SameSum
  <2>6. a + (b + c) = b + (a + c)
    BY <2>2
  <2>7. (a + ((b + c) % Prime)) % Prime = (b + ((a + c) % Prime)) % Prime
    BY <2>5, <2>6 DEF Same
  <2> QED
    BY <2>7 DEF a, b, c
<1> QED
  BY <1>1 DEF Plus

Any(S) == CHOOSE x \in S : TRUE

(* The function by which a fold computes its result. *)
IsFold(iter, G) ==
    iter = [S \in SUBSET DOMAIN G |->
              IF S = {} THEN Constant(0) ELSE Plus(G[Any(S)], iter[S \ {Any(S)}])]

LEMMA Smaller ==
    ASSUME NEW S, IsFiniteSet(S), NEW x \in S
    PROVE  /\ Cardinality(S) \in Nat /\ Cardinality(S \ {x}) \in Nat
           /\ IsFiniteSet(S \ {x}) /\ Cardinality(S \ {x}) < Cardinality(S)
           /\ Any(S) \in S
<1>1. /\ IsFiniteSet(S \ {x})
      /\ Cardinality(S \ {x}) = Cardinality(S) - 1
  BY FS_RemoveElement
<1>2. Cardinality(S) \in Nat /\ Cardinality(S \ {x}) \in Nat
  BY <1>1, FS_CardinalityType
<1>3. Any(S) \in S
  BY DEF Any
<1> QED
  BY <1>1, <1>2, <1>3

LEMMA FoldExists ==
    ASSUME NEW G, IsFiniteSet(DOMAIN G)
    PROVE  \E iter : /\ IsFold(iter, G)
                     /\ FoldFunction(Plus, Constant(0), G) = iter[DOMAIN G]
<1> DEFINE All == SUBSET DOMAIN G
           Body(g, S) == IF S = {} THEN Constant(0)
                         ELSE Plus(G[Any(S)], g[S \ {Any(S)}])
           Right(g, m) == \A S \in All : Cardinality(S) =< m => g[S] = Body(g, S)
           Wrong == {m \in Nat : ~ \E g : Right(g, m)}
<1>1. ASSUME NEW S \in All
      PROVE  /\ IsFiniteSet(S) /\ Cardinality(S) \in Nat
             /\ Cardinality(S) =< Cardinality(DOMAIN G)
             /\ S # {} => /\ S \ {Any(S)} \in All
                          /\ Cardinality(S \ {Any(S)}) \in Nat
                          /\ Cardinality(S \ {Any(S)}) < Cardinality(S)
  <2>1. IsFiniteSet(S) /\ Cardinality(S) =< Cardinality(DOMAIN G)
    BY FS_Subset
  <2>2. Cardinality(S) \in Nat
    BY <2>1, FS_CardinalityType
  <2>3. ASSUME S # {}
        PROVE  /\ Cardinality(S \ {Any(S)}) \in Nat
               /\ Cardinality(S \ {Any(S)}) < Cardinality(S)
    <3>1. PICK x \in S : x = Any(S)
      BY <2>3 DEF Any
    <3> QED
      BY <2>1, <3>1, Smaller
  <2> QED
    BY <2>1, <2>2, <2>3
<1>2. \A g, h : Body(g, {}) = Body(h, {})
  OBVIOUS
<1>3. \A g, h, S : g[S \ {Any(S)}] = h[S \ {Any(S)}] => Body(g, S) = Body(h, S)
  OBVIOUS
<1>4. Wrong = {}
  <2> SUFFICES ASSUME Wrong # {} PROVE FALSE
    OBVIOUS
  <2>1. Wrong \in SUBSET Nat
    OBVIOUS
  <2>2. PICK m \in Wrong : \A k \in Wrong : m =< k
    BY <2>1, LeastOfNaturals
  <2>3. PICK g : m = 0 \/ Right(g, m - 1)
    <3> HIDE DEF Right
    <3>1. m # 0 => m - 1 \in Nat /\ ~(m =< m - 1)
      BY <2>2
    <3> QED
      BY <2>2, <3>1
  <2> DEFINE h == [S \in All |-> Body(g, S)]
  <2>4. Right(h, m)
    <3> SUFFICES ASSUME NEW S \in All, Cardinality(S) =< m PROVE h[S] = Body(h, S)
      OBVIOUS
    <3> DEFINE T == S \ {Any(S)}
    <3> HIDE DEF Body
    <3>1. h[S] = Body(g, S)
      OBVIOUS
    <3>2. CASE S = {}
      BY <1>2, <3>1, <3>2
    <3>3. CASE S # {}
      <4>1. T \in All /\ Cardinality(T) =< m - 1 /\ m # 0
        BY <1>1, <2>2, <3>3
      <4>2. g[T] = Body(g, T)
        BY <2>3, <4>1
      <4>3. h[T] = Body(g, T)
        BY <4>1
      <4>4. g[T] = h[T]
        BY <4>2, <4>3
      <4> HIDE DEF h
      <4> QED
        BY <1>3, <3>1, <4>4
    <3> QED
      BY <3>2, <3>3
  <2> QED
    BY <2>2, <2>4
<1>5. Cardinality(DOMAIN G) \in Nat
  BY FS_CardinalityType
<1>6. PICK g : Right(g, Cardinality(DOMAIN G))
  BY <1>4, <1>5
<1> DEFINE h == [S \in All |-> g[S]]
<1>7. h = [S \in All |-> Body(h, S)]
  <2> SUFFICES ASSUME NEW S \in All PROVE g[S] = Body(h, S)
    OBVIOUS
  <2> HIDE DEF Body
  <2>1. g[S] = Body(g, S)
    BY <1>1, <1>6
  <2>2. CASE S = {}
    BY <1>2, <2>1, <2>2
  <2>3. CASE S # {}
    <3>1. g[S \ {Any(S)}] = h[S \ {Any(S)}]
      BY <1>1, <2>3
    <3> HIDE DEF h
    <3> QED
      BY <1>3, <2>1, <3>1
  <2> QED
    BY <2>2, <2>3
<1> DEFINE iter == CHOOSE s : s = [S \in All |-> Body(s, S)]
<1>8. iter = [S \in All |-> Body(iter, S)]
  <2>1. \E s : s = [S \in All |-> Body(s, S)]
    BY <1>7
  <2> HIDE DEF Body
  <2> QED
    BY <2>1
<1>9. FoldFunction(Plus, Constant(0), G) = iter[DOMAIN G]
  BY DEF FoldFunction, FoldFunctionOnSet, MapThenFoldSet, Any
<1> QED
  BY <1>8, <1>9 DEF IsFold

(* A fold may begin with any of its terms. *)
LEMMA FoldAnyFirst ==
    ASSUME NEW G, IsFiniteSet(DOMAIN G), NEW iter, IsFold(iter, G),
           \A x \in DOMAIN G : G[x] \in Residues
    PROVE  \A S \in SUBSET DOMAIN G :
             /\ iter[S] \in Residues
             /\ \A x \in S : iter[S] = Plus(G[x], iter[S \ {x}])
<1> DEFINE All == SUBSET DOMAIN G
           Right(S) == /\ iter[S] \in Residues
                       /\ \A x \in S : iter[S] = Plus(G[x], iter[S \ {x}])
           Wrong == {m \in Nat : \E S \in All : Cardinality(S) = m /\ ~Right(S)}
<1>1. ASSUME NEW S \in All PROVE IsFiniteSet(S) /\ Cardinality(S) \in Nat
  <2>1. IsFiniteSet(S)
    BY FS_Subset
  <2> QED
    BY <2>1, FS_CardinalityType
<1>2. /\ iter[{}] = Constant(0)
      /\ \A S \in All : S # {} => iter[S] = Plus(G[Any(S)], iter[S \ {Any(S)}])
  BY DEF IsFold
<1>3. SUFFICES ASSUME Wrong # {} PROVE FALSE
  <2>1. \A S \in All : Cardinality(S) \in Nat
    BY <1>1
  <2> QED
    BY <1>3, <2>1
<1>4. Wrong \in SUBSET Nat
  OBVIOUS
<1>5. PICK m \in Wrong : \A k \in Wrong : m =< k
  BY <1>3, <1>4, LeastOfNaturals
<1>6. PICK S \in All : Cardinality(S) = m /\ ~Right(S)
  BY <1>5
<1>7. ASSUME NEW T \in All, Cardinality(T) < m PROVE Right(T)
  <2>1. Cardinality(T) \in Nat /\ ~(m =< Cardinality(T))
    BY <1>1, <1>5, <1>7
  <2> HIDE DEF Right
  <2> QED
    BY <1>5, <2>1
<1>8. CASE S = {}
  <2>1. Constant(0) \in Residues
    <3>1. 0 \in Int
      OBVIOUS
    <3> QED
      BY <3>1, Remainder DEF Constant, Residues
  <2> QED
    BY <1>2, <1>6, <1>8, <2>1
<1>9. CASE S # {}
  <2> DEFINE y == Any(S)
             T == S \ {y}
  <2>1. y \in S
    BY <1>9 DEF Any
  <2> HIDE DEF y
  <2>2. T \in All /\ Cardinality(T) < m /\ iter[S] = Plus(G[y], iter[T])
    <3>1. IsFiniteSet(S)
      BY <1>1
    <3>2. Cardinality(T) < Cardinality(S)
      BY <2>1, <3>1, Smaller
    <3> QED
      BY <1>2, <1>6, <1>9, <3>2 DEF y
  <2>3. iter[T] \in Residues /\ G[y] \in Residues
    BY <1>7, <2>1, <2>2
  <2>4. \A f \in Residues : f \in [Slot -> Int]
    <3>1. 0 .. Prime - 1 \subseteq Int
      OBVIOUS
    <3> QED
      BY <3>1 DEF Residues
  <2>5. iter[S] \in Residues
    BY <2>2, <2>3, <2>4, PlusResidues
  <2>6. ASSUME NEW x \in S PROVE iter[S] = Plus(G[x], iter[S \ {x}])
    <3>1. CASE x = y
      BY <2>2, <3>1
    <3>2. CASE x # y
      <4> DEFINE X == S \ {x}
                 both == T \ {x}
      <4>1. x \in T /\ y \in X /\ X \ {y} = both /\ both \in All /\ X \in All
        BY <2>1, <3>2
      <4>2. /\ IsFiniteSet(S) /\ IsFiniteSet(T)
            /\ Cardinality(X) < m /\ Cardinality(both) < Cardinality(T)
        <5>1. IsFiniteSet(S) /\ IsFiniteSet(T)
          BY <1>1, <2>2
        <5>2. Cardinality(X) < Cardinality(S) /\ Cardinality(both) < Cardinality(T)
          BY <4>1, <5>1, Smaller
        <5> QED
          BY <1>6, <5>1, <5>2
      <4>3. iter[T] = Plus(G[x], iter[both])
        BY <1>7, <2>2, <4>1
      <4>4. iter[X] = Plus(G[y], iter[both])
        <5>1. Right(X)
          BY <1>7, <4>1, <4>2
        <5> QED
          BY <4>1, <5>1
      <4>5. iter[both] \in Residues
        <5>1. Cardinality(both) < m
          BY <1>1, <1>6, <2>2, <4>1, <4>2
        <5>2. Right(both)
          BY <1>7, <4>1, <5>1
        <5> QED
          BY <5>2
      <4>6. G[x] \in Residues
        BY <1>6
      <4> QED
        BY <2>2, <2>3, <4>3, <4>4, <4>5, <4>6, PlusExchange
    <3> QED
      BY <3>1, <3>2
  <2> QED
    BY <1>6, <2>5, <2>6
<1> QED
  BY <1>8, <1>9

(* Terms outside a set do not matter for the sum over it. *)
LEMMA FoldLocal ==
    ASSUME NEW G, IsFiniteSet(DOMAIN G), NEW H, DOMAIN H \subseteq DOMAIN G,
           \A x \in DOMAIN H : H[x] = G[x],
           NEW iter, IsFold(iter, G), NEW part, IsFold(part, H)
    PROVE  \A S \in SUBSET DOMAIN H : part[S] = iter[S]
<1> DEFINE All == SUBSET DOMAIN H
           Wrong == {m \in Nat : \E S \in All : Cardinality(S) = m /\ part[S] # iter[S]}
<1>1. ASSUME NEW S \in All PROVE IsFiniteSet(S) /\ Cardinality(S) \in Nat
  <2>1. IsFiniteSet(S)
    BY FS_Subset
  <2> QED
    BY <2>1, FS_CardinalityType
<1>2. /\ iter[{}] = Constant(0) /\ part[{}] = Constant(0)
      /\ \A S \in All : S # {} =>
           /\ iter[S] = Plus(G[Any(S)], iter[S \ {Any(S)}])
           /\ part[S] = Plus(H[Any(S)], part[S \ {Any(S)}])
  BY DEF IsFold
<1>3. SUFFICES ASSUME Wrong # {} PROVE FALSE
  <2>1. \A S \in All : Cardinality(S) \in Nat
    BY <1>1
  <2> QED
    BY <1>3, <2>1
<1>4. Wrong \in SUBSET Nat
  OBVIOUS
<1>5. PICK m \in Wrong : \A k \in Wrong : m =< k
  BY <1>3, <1>4, LeastOfNaturals
<1>6. PICK S \in All : Cardinality(S) = m /\ part[S] # iter[S]
  BY <1>5
<1>7. S # {}
  BY <1>2, <1>6
<1> DEFINE y == Any(S)
           T == S \ {y}
<1>8. y \in S /\ iter[S] = Plus(G[y], iter[T]) /\ part[S] = Plus(H[y], part[T])
  BY <1>2, <1>7 DEF Any
<1> HIDE DEF y
<1>9. T \in All /\ Cardinality(T) < m /\ Cardinality(T) \in Nat
  <2>1. IsFiniteSet(S)
    BY <1>1
  <2> QED
    BY <1>6, <1>8, <2>1, Smaller
<1>10. part[T] = iter[T]
  <2>1. ~(m =< Cardinality(T))
    BY <1>5, <1>9
  <2> QED
    BY <1>5, <1>9, <2>1
<1>11. G[y] = H[y]
  BY <1>8
<1> QED
  BY <1>6, <1>8, <1>10, <1>11

-----------------------------------------------------------------------------
(* The slots of the texts of a basis. *)

LEMMA ExpectedSlots ==
    ASSUME NEW kind, NEW u \in Nat
    PROVE  /\ \A s \in Slot : Input(u, s) \in 0 .. Prime - 1
           /\ \A p, s : s \in Slot =>
                Expected(kind, u, p)[s] = BasisPolynomial(kind, p, Input(u, s))
           /\ \A p \in Degree : Expected(kind, u, p) \in Residues
           /\ \A p \in 0 .. MaxDegree : Expected(kind, u, p) \in [Slot -> Int]
           /\ \A s \in Slot : Expected(kind, u, 0)[s] = 1
<1>1. ASSUME NEW s \in Slot PROVE Input(u, s) \in 0 .. Prime - 1
  <2>1. u * (MaxDegree + 1) + s \in Int
    BY Typed DEF Slot
  <2> QED
    BY <2>1, Remainder DEF Input
<1>2. \A p, s : s \in Slot =>
         Expected(kind, u, p)[s] = BasisPolynomial(kind, p, Input(u, s))
  BY DEF Expected
<1>3. \A p : Expected(kind, u, p) = [s \in Slot |-> BasisPolynomial(kind, p, Input(u, s))]
  BY DEF Expected
<1>4. \A p \in Degree : Expected(kind, u, p) \in Residues
  <2>1. \A p \in Degree, s \in Slot :
          BasisPolynomial(kind, p, Input(u, s)) \in 0 .. Prime - 1
    BY <1>1, BasisRecurrence
  <2> QED
    BY <1>3, <2>1 DEF Residues
<1>5. \A p \in 0 .. MaxDegree : Expected(kind, u, p) \in [Slot -> Int]
  <2>1. \A p \in 0 .. MaxDegree, s \in Slot : BasisPolynomial(kind, p, Input(u, s)) \in Int
    BY <1>1, BasisRecurrence
  <2> QED
    BY <1>3, <2>1
<1>6. \A s \in Slot : Expected(kind, u, 0)[s] = 1
  <2>1. \A s \in Slot : BasisPolynomial(kind, 0, Input(u, s)) = 1
    BY <1>1, BasisRecurrence
  <2> QED
    BY <1>2, <2>1
<1> QED
  BY <1>1, <1>2, <1>4, <1>5, <1>6

(* What a loop makes of a product, and of the text that it subtracts. *)
LEMMA ProductSlots ==
    ASSUME NEW kind, NEW u \in Nat, NEW a \in Degree, NEW b \in Degree, b =< a,
           a + b =< MaxDegree
    PROVE  LET E(p) == Expected(kind, u, p)
               t == Times(E(a), E(b))
           IN  /\ kind = "power" => t = E(a + b)
               /\ kind # "power" => Plus(Plus(t, t), Scaled(-1, E(a - b))) = E(a + b)
<1> DEFINE E(p) == Expected(kind, u, p)
           t == Times(E(a), E(b))
<1>1. a \in Nat /\ b \in Nat /\ a + b \in Degree /\ a - b \in 0 .. MaxDegree
  BY Typed DEF Degree
<1>2. a \in 0 .. MaxDegree /\ b \in 0 .. MaxDegree /\ MaxDegree \in Nat
  BY Typed DEF Degree
<1>3. E(a + b) \in Residues /\ E(a + b) = [s \in Slot |-> E(a + b)[s]]
  BY <1>1, ExpectedSlots DEF Expected
<1>4. ASSUME NEW s \in Slot
      PROVE  LET x == Input(u, s)
                 B(p) == BasisPolynomial(kind, p, x)
             IN  /\ x \in 0 .. Prime - 1
                 /\ E(a)[s] = B(a) /\ E(b)[s] = B(b)
                 /\ E(a - b)[s] = B(a - b) /\ E(a + b)[s] = B(a + b)
                 /\ B(a) \in Int /\ B(b) \in Int /\ B(a - b) \in Int
                 /\ B(a + b) \in 0 .. Prime - 1 /\ B(a + b) \in Int
  <2> DEFINE x == Input(u, s)
             B(p) == BasisPolynomial(kind, p, x)
  <2>1. x \in 0 .. Prime - 1
    BY ExpectedSlots
  <2>2. \A p : E(p)[s] = B(p)
    BY DEF Expected
  <2>3. B(a) \in Int /\ B(b) \in Int /\ B(a - b) \in Int /\ B(a + b) \in 0 .. Prime - 1
    <3> HIDE DEF x
    <3> QED
      BY <1>1, <1>2, <2>1, BasisRecurrence
  <2>4. B(a + b) \in Int
    BY <2>3
  <2> QED
    BY <2>1, <2>2, <2>3, <2>4
<1>5. ASSUME kind = "power" PROVE t = E(a + b)
  <2>1. ASSUME NEW s \in Slot PROVE (E(a)[s] * E(b)[s]) % Prime = E(a + b)[s]
    <3> DEFINE x == Input(u, s)
               B(p) == BasisPolynomial(kind, p, x)
    <3>1. /\ x \in 0 .. Prime - 1
          /\ E(a)[s] = B(a) /\ E(b)[s] = B(b) /\ E(a + b)[s] = B(a + b)
          /\ B(a + b) \in 0 .. Prime - 1 /\ B(a + b) \in Int
      BY <1>4
    <3>2. Same(B(a + b), B(a) * B(b))
      <4> HIDE DEF x
      <4> QED
        BY <1>1, <1>5, <3>1, PowersMultiply
    <3> HIDE DEF B
    <3>3. B(a + b) % Prime = B(a + b)
      BY <3>1, Remainder
    <3> QED
      BY <3>1, <3>2, <3>3 DEF Same
  <2>2. t = [s \in Slot |-> (E(a)[s] * E(b)[s]) % Prime]
    BY DEF Times
  <2> HIDE DEF E, t
  <2> QED
    BY <1>3, <2>1, <2>2
<1>6. ASSUME kind # "power"
      PROVE  Plus(Plus(t, t), Scaled(-1, E(a - b))) = E(a + b)
  <2> DEFINE Minus == (-1) % Prime
             Value(s) == (((((E(a)[s] * E(b)[s]) % Prime) + ((E(a)[s] * E(b)[s]) % Prime)) % Prime)
                            + ((Minus * E(a - b)[s]) % Prime)) % Prime
  <2>1. ASSUME NEW s \in Slot PROVE Value(s) = E(a + b)[s]
    <3> DEFINE x == Input(u, s)
               B(p) == BasisPolynomial(kind, p, x)
    <3>1. /\ x \in 0 .. Prime - 1
          /\ E(a)[s] = B(a) /\ E(b)[s] = B(b)
          /\ E(a - b)[s] = B(a - b) /\ E(a + b)[s] = B(a + b)
          /\ B(a) \in Int /\ B(b) \in Int /\ B(a - b) \in Int
          /\ B(a + b) \in 0 .. Prime - 1 /\ B(a + b) \in Int
      BY <1>4
    <3>2. Same(B(a + b), (2 * B(a)) * B(b) - B(a - b))
      <4> HIDE DEF x
      <4> QED
        BY <1>1, <1>6, <3>1, ChebyshevProduct
    <3> DEFINE A == B(a)  C == B(b)  D == B(a - b)  F == B(a + b)
    <3>3. /\ A \in Int /\ C \in Int /\ D \in Int /\ F \in Int /\ F \in 0 .. Prime - 1
          /\ Same(F, (2 * A) * C - D)
      BY <3>1, <3>2
    <3>4. Value(s) = (((((A * C) % Prime) + ((A * C) % Prime)) % Prime)
                        + ((Minus * D) % Prime)) % Prime
      BY <3>1
    <3> HIDE DEF A, C, D, F
    <3> DEFINE y == A * C
               z == y % Prime
               w == (z + z) % Prime
               v == (Minus * D) % Prime
    <3>5. y \in Int /\ y + y = (2 * A) * C /\ -1 \in Int /\ (-1) * D = - D
      BY <3>3
    <3>6. Same(z, y) /\ z \in Int /\ Same(Minus, -1) /\ Minus \in Int
      BY <3>5, Remainder
    <3> HIDE DEF y, z, Minus
    <3>7. Same(z + z, y + y) /\ z + z \in Int /\ y + y \in Int
      BY <3>5, <3>6, SameSum
    <3>8. Same(w, z + z) /\ w \in Int
      BY <3>7, Remainder
    <3>9. Same(Minus * D, (-1) * D) /\ Minus * D \in Int /\ (-1) * D \in Int
      <4>1. Same(D, D)
        BY DEF Same
      <4>2. Same(Minus * D, (-1) * D)
        BY <3>3, <3>5, <3>6, <4>1, SameProduct
      <4> QED
        BY <3>3, <3>6, <4>2
    <3>10. Same(v, Minus * D) /\ v \in Int
      BY <3>9, Remainder
    <3>11. Same(w, y + y) /\ Same(v, (-1) * D)
      BY <3>7, <3>8, <3>9, <3>10 DEF Same
    <3> HIDE DEF w, v
    <3>12. Same(w + v, (y + y) + ((-1) * D))
      BY <3>7, <3>8, <3>9, <3>10, <3>11, SameSum
    <3>13. (y + y) + ((-1) * D) = (2 * A) * C - D
      <4>1. (2 * A) * C \in Int
        BY <3>3
      <4> QED
        BY <3>3, <3>5, <4>1
    <3>14. F % Prime = F
      BY <3>3, Remainder
    <3>15. (w + v) % Prime = F
      BY <3>3, <3>12, <3>13, <3>14 DEF Same
    <3>16. Value(s) = (w + v) % Prime
      BY <3>4 DEF w, v, z, y
    <3> QED
      BY <3>1, <3>15, <3>16 DEF F
  <2>2. Plus(Plus(t, t), Scaled(-1, E(a - b))) = [s \in Slot |-> Value(s)]
    BY DEF Plus, Times, Scaled, Constant
  <2> HIDE DEF E, t, Value
  <2> QED
    BY <1>3, <2>1, <2>2
<1> QED
  BY <1>5, <1>6

(* The polynomial number 0 is 1. *)
LEMMA ConstantSlots ==
    ASSUME NEW kind, NEW u \in Nat, NEW c \in Int
    PROVE  Scaled(c, Expected(kind, u, 0)) = Constant(c) /\ Constant(c) \in Residues
<1>1. c % Prime \in Int /\ c % Prime \in 0 .. Prime - 1 /\ (c % Prime) * 1 = c % Prime
  BY Remainder
<1>2. (c % Prime) % Prime = c % Prime
  BY Remainder DEF Same
<1>3. Scaled(c, Expected(kind, u, 0)) =
        [s \in Slot |-> ((c % Prime) * Expected(kind, u, 0)[s]) % Prime]
  BY DEF Scaled, Times, Constant
<1>4. \A s \in Slot : Expected(kind, u, 0)[s] = 1
  BY ExpectedSlots
<1>5. \A s \in Slot : ((c % Prime) * Expected(kind, u, 0)[s]) % Prime = c % Prime
  BY <1>1, <1>2, <1>4
<1>6. Scaled(c, Expected(kind, u, 0)) = Constant(c)
  BY <1>3, <1>5 DEF Constant
<1> QED
  BY <1>1, <1>6 DEF Constant, Residues

LEMMA ScaledSlots ==
    ASSUME NEW f \in [Slot -> Int], NEW c \in Int
    PROVE  Scaled(c, f) \in Residues /\ (c = 0 => Scaled(c, f) = Constant(0))
<1>1. c % Prime \in Int /\ 0 % Prime = 0
  <2>1. 0 \in 0 .. Prime - 1
    BY DegreeAssumption
  <2> QED
    BY <2>1, Remainder
<1>2. Scaled(c, f) = [s \in Slot |-> ((c % Prime) * f[s]) % Prime]
  BY DEF Scaled, Times, Constant
<1>3. ASSUME NEW s \in Slot PROVE ((c % Prime) * f[s]) % Prime \in 0 .. Prime - 1
  <2>1. (c % Prime) * f[s] \in Int
    BY <1>1
  <2> QED
    BY <2>1, Remainder
<1>4. ASSUME c = 0, NEW s \in Slot PROVE ((c % Prime) * f[s]) % Prime = 0
  BY <1>1, <1>4
<1>5. ASSUME c = 0 PROVE Scaled(c, f) = Constant(0)
  BY <1>1, <1>2, <1>4, <1>5 DEF Constant
<1> QED
  BY <1>2, <1>3, <1>5 DEF Residues

-----------------------------------------------------------------------------
(* The value of a polynomial, from its highest power down. *)

LEMMA TermsTyped ==
    ASSUME NEW r \in Request, NEW u \in Nat, NEW low \in Nat
    PROVE  /\ DOMAIN Terms(r, u, low) = low .. r.degree /\ IsFiniteSet(low .. r.degree)
           /\ \A p \in low .. r.degree :
                /\ Terms(r, u, low)[p] = Scaled(r.coefficients[p], Expected(r.kind, u, p))
                /\ Terms(r, u, low)[p] \in Residues
<1>1. r.degree \in 0 .. MaxDegree /\ r.coefficients \in [0 .. r.degree -> Int]
  BY RequestAssumption
<1>2. r.degree \in Int /\ low \in Int
  BY <1>1, Typed
<1>3. IsFiniteSet(low .. r.degree)
  BY <1>2, FS_Interval
<1>4. ASSUME NEW p \in low .. r.degree
      PROVE  Scaled(r.coefficients[p], Expected(r.kind, u, p)) \in Residues
  <2>1. p \in 0 .. MaxDegree /\ p \in 0 .. r.degree
    BY <1>1, Typed
  <2>2. Expected(r.kind, u, p) \in [Slot -> Int] /\ r.coefficients[p] \in Int
    BY <1>1, <2>1, ExpectedSlots
  <2> QED
    BY <2>2, ScaledSlots
<1> QED
  BY <1>3, <1>4 DEF Terms

LEMMA SumTyped ==
    ASSUME NEW r \in Request, NEW u \in Nat, NEW low \in Nat
    PROVE  SumFrom(r, u, low) \in Residues
<1> DEFINE G == Terms(r, u, low)
<1>1. IsFiniteSet(DOMAIN G) /\ \A x \in DOMAIN G : G[x] \in Residues
  BY TermsTyped
<1>2. SumFrom(r, u, low) = FoldFunction(Plus, Constant(0), G)
  BY DEF SumFrom
<1> HIDE DEF G
<1>3. PICK iter : /\ IsFold(iter, G)
                  /\ FoldFunction(Plus, Constant(0), G) = iter[DOMAIN G]
  BY <1>1, FoldExists
<1>4. iter[DOMAIN G] \in Residues
  BY <1>1, <1>3, FoldAnyFirst
<1> QED
  BY <1>2, <1>3, <1>4

(* Above its degree a polynomial has no terms. *)
LEMMA SumEmpty ==
    ASSUME NEW r \in Request, NEW u \in Nat
    PROVE  SumFrom(r, u, r.degree + 1) = Constant(0)
<1>1. r.degree \in Nat
  BY RequestAssumption
<1> DEFINE G == Terms(r, u, r.degree + 1)
<1>2. IsFiniteSet(DOMAIN G) /\ DOMAIN G = {}
  <2>1. r.degree + 1 \in Nat /\ r.degree + 1 .. r.degree = {}
    BY <1>1
  <2>2. DOMAIN G = r.degree + 1 .. r.degree
    BY DEF Terms
  <2> QED
    BY <2>1, <2>2, FS_EmptySet
<1>3. SumFrom(r, u, r.degree + 1) = FoldFunction(Plus, Constant(0), G)
  BY DEF SumFrom
<1> HIDE DEF G
<1>4. PICK iter : /\ IsFold(iter, G)
                  /\ FoldFunction(Plus, Constant(0), G) = iter[DOMAIN G]
  BY <1>2, FoldExists
<1>5. iter[{}] = Constant(0)
  BY <1>2, <1>4 DEF IsFold
<1> QED
  BY <1>2, <1>3, <1>4, <1>5

(* Each term adds to those above it. *)
LEMMA SumStep ==
    ASSUME NEW r \in Request, NEW u \in Nat, NEW low \in 0 .. r.degree
    PROVE  SumFrom(r, u, low) =
             Plus(Scaled(r.coefficients[low], Expected(r.kind, u, low)),
                  SumFrom(r, u, low + 1))
<1>1. r.degree \in Nat /\ low \in Nat /\ low + 1 \in Nat /\ low =< r.degree
  BY RequestAssumption
<1> DEFINE G == Terms(r, u, low)
           H == Terms(r, u, low + 1)
           term == Scaled(r.coefficients[low], Expected(r.kind, u, low))
<1>2. /\ DOMAIN G = low .. r.degree /\ IsFiniteSet(DOMAIN G)
      /\ \A x \in DOMAIN G : G[x] \in Residues
      /\ G[low] = term
  BY <1>1, TermsTyped
<1>3. DOMAIN H = low + 1 .. r.degree /\ IsFiniteSet(DOMAIN H)
  BY <1>1, TermsTyped
<1>4. \A x \in DOMAIN H : x \in DOMAIN G /\ H[x] = G[x]
  <2>1. \A x \in low + 1 .. r.degree : x \in low .. r.degree
    BY <1>1
  <2> QED
    BY <1>2, <1>3, <2>1 DEF Terms
<1>5. DOMAIN H = DOMAIN G \ {low} /\ low \in DOMAIN G
  <2>1. low + 1 .. r.degree = (low .. r.degree) \ {low} /\ low \in low .. r.degree
    BY <1>1
  <2> HIDE DEF G, H
  <2> QED
    BY <1>2, <1>3, <2>1
<1>6. /\ SumFrom(r, u, low) = FoldFunction(Plus, Constant(0), G)
      /\ SumFrom(r, u, low + 1) = FoldFunction(Plus, Constant(0), H)
  BY DEF SumFrom
<1> HIDE DEF G, H, term
<1>7. PICK iter : /\ IsFold(iter, G)
                  /\ FoldFunction(Plus, Constant(0), G) = iter[DOMAIN G]
  BY <1>2, FoldExists
<1>8. PICK part : /\ IsFold(part, H)
                  /\ FoldFunction(Plus, Constant(0), H) = part[DOMAIN H]
  BY <1>3, FoldExists
<1>9. iter[DOMAIN G] = Plus(G[low], iter[DOMAIN G \ {low}])
  <2>1. \A S \in SUBSET DOMAIN G :
          /\ iter[S] \in Residues
          /\ \A x \in S : iter[S] = Plus(G[x], iter[S \ {x}])
    <3>1. IsFiniteSet(DOMAIN G) /\ \A x \in DOMAIN G : G[x] \in Residues
      BY <1>2
    <3>2. IsFold(iter, G)
      BY <1>7
    <3> QED
      BY <3>1, <3>2, FoldAnyFirst
  <2>2. DOMAIN G \in SUBSET DOMAIN G
    OBVIOUS
  <2> QED
    BY <1>5, <2>1, <2>2
<1>10. part[DOMAIN H] = iter[DOMAIN H]
  <2>1. DOMAIN H \subseteq DOMAIN G /\ \A x \in DOMAIN H : H[x] = G[x]
    BY <1>4
  <2>2. \A S \in SUBSET DOMAIN H : part[S] = iter[S]
    <3>1. IsFiniteSet(DOMAIN G) /\ IsFold(iter, G) /\ IsFold(part, H)
      BY <1>2, <1>7, <1>8
    <3> QED
      BY <2>1, <3>1, FoldLocal
  <2>3. DOMAIN H \in SUBSET DOMAIN H
    OBVIOUS
  <2> QED
    BY <2>2, <2>3
<1> QED
  BY <1>2, <1>5, <1>6, <1>7, <1>8, <1>9, <1>10 DEF term

-----------------------------------------------------------------------------
(* The next unit starts with a text of its own. *)
LEMMA EnterValues ==
    ASSUME NEW r \in Request, Accepted(r), NEW u \in Nat, NEW texts, NEW count \in Nat,
           request' = r, EnterUnit(r, u, texts, count)
    PROVE  /\ BasisValues' /\ SumValues' /\ unit' = u /\ pc' \in {"squares", "sum"}
<1>1. /\ r.degree \in Degree /\ \A p \in Degree : r.level[p] \in Nat
      /\ r.degree \in Nat /\ unit' = u
  BY AcceptedFacts DEF Degree, EnterUnit
<1>2. \A p : /\ Given(r, u, p).slots = Expected(r.kind, u, p)
             /\ Given(r, u, p).level = r.level[p]
  BY DEF Given, Text
<1>3. CASE r.operation = "weighted_sum"
  <2>1. /\ pc' = "sum" /\ power' = r.degree /\ sum' = NoText
        /\ basis' = [p \in 0 .. MaxDegree - 1 |-> Given(r, u, p + 1)]
    BY <1>3 DEF EnterUnit, EnterSum
  <2>2. ASSUME NEW p \in 1 .. r.degree PROVE Weighable(r, u, p, basis'[p - 1])
    <3>1. p - 1 \in 0 .. MaxDegree - 1 /\ (p - 1) + 1 = p /\ p \in Degree
      BY <1>1, Typed DEF Degree
    <3>2. basis'[p - 1] = Given(r, u, p)
      BY <2>1, <3>1
    <3> QED
      BY <1>1, <1>2, <1>3, <3>1, <3>2 DEF Weighable
  <2>3. SumFrom(r, u, r.degree + 1) = Constant(0)
    BY SumEmpty
  <2>4. SumFrom(r, u, power' + 1) = Constant(0)
    BY <2>1, <2>3
  <2>5. NoText' = NoText
    BY DEF NoText
  <2> QED
    BY <1>1, <2>1, <2>2, <2>4, <2>5 DEF BasisValues, SumValues
<1>4. CASE r.operation # "weighted_sum"
  <2> DEFINE given == Given(r, u, 1)
             copy == [given EXCEPT !.id = count + 1]
  <2>1. /\ pc' = "squares" /\ power' = 2 /\ current' = given
        /\ basis' = [p \in 0 .. r.degree |-> IF p = 1 THEN copy ELSE NoText]
    BY <1>4 DEF EnterUnit, EnterBasis
  <2>2. copy.slots = Expected(r.kind, u, 1) /\ given.slots = Expected(r.kind, u, 1)
    BY DEF Given, Text
  <2> HIDE DEF given, copy
  <2>3. ASSUME NEW p \in 1 .. r.degree, basis'[p] # NoText
        PROVE  basis'[p].slots = Expected(r.kind, u, p)
    <3>1. p \in 0 .. r.degree
      BY <1>1
    <3>2. p = 1 /\ basis'[p] = copy
      BY <2>1, <2>3, <3>1
    <3> QED
      BY <2>2, <3>2
  <2>4. power' \div 2 = 1
    BY <2>1
  <2>5. current'.slots = Expected(r.kind, u, power' \div 2)
    BY <2>1, <2>2, <2>4
  <2>6. NoText' = NoText
    BY DEF NoText
  <2> QED
    BY <1>1, <2>1, <2>3, <2>5, <2>6 DEF BasisValues, SumValues
<1> QED
  BY <1>3, <1>4

(* A unit that is done holds what was promised, and so do those before it.  *)
LEMMA ReturnValues ==
    ASSUME LevelInv, HeapInv, ValueInv, pc \notin {"idle", "returned"},
           NEW texts, NEW alive, NEW count \in Nat, ReturnUnit(texts, alive, count),
           NEW r, r = request, NEW u, u = unit, Promised(r, u, texts)
    PROVE  ValueInv'
<1>1. /\ r \in Request /\ Accepted(r) /\ u \in 1 .. r.size /\ r.size \in Nat
      /\ results \in Seq(Range(results)) /\ Len(results) = u - 1
      /\ \A v \in 1 .. u - 1 : Promised(r, v, results[v])
  <2>1. r \in Request /\ Accepted(r) /\ u \in 1 .. r.size
    BY DEF LevelInv, Made, HeapInv, LiveInv
  <2>2. Len(results) = u - 1 /\ \A v \in 1 .. Len(results) : Promised(r, v, results[v])
    BY DEF ValueInv, ResultValues
  <2> QED
    BY <2>1, <2>2, RequestTyped DEF HeapInv, LiveInv
<1>2. request' = r /\ results' = Append(results, texts)
  BY DEF ReturnUnit
<1>3. Len(results') = u
  BY <1>1, <1>2
<1>4. \A v \in 1 .. u : Promised(r, v, results'[v])
  <2>1. \A v \in 1 .. u - 1 : results'[v] = results[v]
    BY <1>1, <1>2
  <2>2. results'[u] = texts
    BY <1>1, <1>2
  <2>3. \A v \in 1 .. u : v \in 1 .. u - 1 \/ v = u
    BY <1>1
  <2> QED
    BY <1>1, <2>1, <2>2, <2>3
<1>5. CASE unit < request.size
  <2>1. EnterUnit(r, u + 1, alive, count)
    BY <1>1, <1>5 DEF ReturnUnit
  <2>2. u + 1 \in Nat
    BY <1>1
  <2>3. BasisValues' /\ SumValues' /\ unit' = u + 1 /\ pc' \in {"squares", "sum"}
    BY <1>1, <1>2, <2>1, <2>2, EnterValues
  <2>4. Len(results') = unit' - 1
    BY <1>1, <1>3, <2>3
  <2>5. ResultValues'
    BY <1>2, <1>3, <1>4, <2>3, <2>4 DEF ResultValues
  <2> QED
    BY <2>3, <2>5 DEF ValueInv
<1>6. CASE unit = request.size
  <2>1. pc' = "returned"
    BY <1>1, <1>6 DEF ReturnUnit
  <2>2. ResultValues'
    BY <1>2, <1>3, <1>4, <1>6, <2>1 DEF ResultValues
  <2> QED
    BY <2>1, <2>2 DEF ValueInv, BasisValues, SumValues
<1> QED
  BY <1>5, <1>6 DEF ReturnUnit

(* Steps that leave the results alone. *)
LEMMA ResultsSame ==
    ASSUME ResultValues, pc # "idle", pc # "returned", pc' # "idle", pc' # "returned",
           request' = request, unit' = unit, results' = results
    PROVE  ResultValues'
BY DEF ResultValues

-----------------------------------------------------------------------------
(* Every step keeps ValueInv. *)
LEMMA SquareKeepsValues == LevelInv /\ HeapInv /\ ValueInv /\ SquarePower => ValueInv'
<1> SUFFICES ASSUME LevelInv, HeapInv, ValueInv, SquarePower PROVE ValueInv'
  OBVIOUS
<1> DEFINE squared == multiply(current, current, made + 1)
           text == IF request.kind = "power"
                     THEN squared
                     ELSE add_number(Doubled(squared), -1, made + 2)
           E(p) == Expected(request.kind, unit, p)
           h == power \div 2
<1>1. /\ pc = "squares" /\ pc' = "squares" /\ power' = 2 * power
      /\ basis' = [basis EXCEPT ![power] = text] /\ current' = text
      /\ request' = request /\ unit' = unit /\ results' = results
      /\ power =< request.degree
  BY DEF SquarePower
<1>2. power \in 2 .. request.degree /\ IsPowerOfTwo(power)
  BY <1>1, SquareFacts
<1>3. /\ request \in Request /\ Accepted(request) /\ unit \in Nat
      /\ basis = [p \in 0 .. request.degree |-> basis[p]]
  <2>1. request \in Request /\ Accepted(request)
    BY <1>1 DEF LevelInv, Made
  <2>2. unit \in 1 .. request.size /\ request.size \in Nat
    BY <1>1, <2>1, RequestTyped DEF HeapInv, LiveInv
  <2> QED
    BY <1>1, <2>1, <2>2 DEF LevelInv, BasisInv
<1>4. power \in Degree /\ request.degree \in Nat /\ power >= 2
  <2>1. request.degree \in Degree
    BY <1>3, AcceptedFacts
  <2> QED
    BY <1>2, <2>1, Typed DEF Degree
<1>5. h \in Degree /\ power = 2 * h
  BY <1>2, <1>4, HalfOfPower
<1>6. current.slots = E(h)
  BY <1>1 DEF ValueInv, BasisValues
<1>7. squared.slots = Times(E(h), E(h))
  BY <1>6 DEF multiply, Text
<1>8. /\ Doubled(squared).slots = Plus(squared.slots, squared.slots)
      /\ add_number(Doubled(squared), -1, made + 2).slots =
           Plus(Doubled(squared).slots, Constant(-1))
  BY DEF Doubled, multiply, add_number, Text
<1> HIDE DEF squared, h
<1>9. text.slots = E(power)
  <2>1. h =< h /\ h + h =< MaxDegree /\ h + h = power /\ h - h = 0
    BY <1>4, <1>5, Typed DEF Degree
  <2>2. /\ request.kind = "power" => Times(E(h), E(h)) = E(h + h)
        /\ request.kind # "power" =>
             Plus(Plus(Times(E(h), E(h)), Times(E(h), E(h))), Scaled(-1, E(h - h))) = E(h + h)
    BY <1>3, <1>5, <2>1, ProductSlots
  <2>3. Scaled(-1, E(0)) = Constant(-1)
    <3>1. -1 \in Int
      OBVIOUS
    <3> QED
      BY <1>3, <3>1, ConstantSlots
  <2> HIDE DEF E
  <2> QED
    BY <1>7, <1>8, <2>1, <2>2, <2>3
<1> HIDE DEF text
<1>10. ASSUME NEW p \in 1 .. request.degree, basis'[p] # NoText
       PROVE  basis'[p].slots = E(p)
  <2>1. basis'[p] = IF p = power THEN text ELSE basis[p]
    BY <1>1, <1>3, <1>4
  <2> QED
    BY <1>1, <1>9, <1>10, <2>1 DEF ValueInv, BasisValues
<1>11. power' \div 2 = power
  <2>1. \A n \in Nat : (2 * n) \div 2 = n
    OBVIOUS
  <2>2. power \in Nat
    BY <1>4, Typed DEF Degree
  <2> QED
    BY <1>1, <2>1, <2>2
<1>12. BasisValues'
  <2>1. current'.slots = E(power' \div 2)
    BY <1>1, <1>9, <1>11
  <2>2. NoText' = NoText
    BY DEF NoText
  <2> QED
    BY <1>1, <1>10, <2>1, <2>2 DEF BasisValues
<1>13. ResultValues'
  BY <1>1, ResultsSame DEF ValueInv
<1> QED
  BY <1>1, <1>12, <1>13 DEF ValueInv, SumValues

LEMMA MultiplyKeepsValues == LevelInv /\ HeapInv /\ ValueInv /\ MultiplyPower => ValueInv'
<1> SUFFICES ASSUME LevelInv, HeapInv, ValueInv, MultiplyPower PROVE ValueInv'
  OBVIOUS
<1> DEFINE highest == highest_power_of_two[power]
           lower == power - highest
           other == 2 * highest - power
           product == multiply(basis[highest], basis[lower], made + 1)
           text == IF request.kind = "power"
                     THEN product
                     ELSE subtract(Doubled(product), basis[other], made + 2)
           E(p) == Expected(request.kind, unit, p)
<1>1. /\ pc = "products" /\ pc' = "products" /\ power =< request.degree
      /\ basis[power] = NoText
      /\ basis' = [basis EXCEPT ![power] = text]
      /\ request' = request /\ unit' = unit /\ results' = results
  BY DEF MultiplyPower, Subtracted
<1>2. /\ request \in Request /\ Accepted(request) /\ unit \in Nat
      /\ basis = [p \in 0 .. request.degree |-> basis[p]]
  <2>1. request \in Request /\ Accepted(request)
    BY <1>1 DEF LevelInv, Made
  <2>2. unit \in 1 .. request.size /\ request.size \in Nat
    BY <1>1, <2>1, RequestTyped DEF HeapInv, LiveInv
  <2> QED
    BY <1>1, <2>1, <2>2 DEF LevelInv, BasisInv
<1> HIDE DEF highest
<1>3. /\ power \in Degree /\ highest \in Degree /\ lower \in Degree /\ other \in Degree
  BY <1>1, ProductFacts DEF highest
<1>4. request.degree \in Degree /\ MaxDegree \in Nat
  BY <1>2, AcceptedFacts, Typed
<1>5. power \in 2 .. request.degree
  BY <1>1, ProductFacts
<1>6. IsPowerOfTwo(highest) /\ highest =< power /\ power < 2 * highest /\ highest # power
  <2>1. IsPowerOfTwo(highest) /\ highest =< power /\ power < 2 * highest
    BY <1>3, HighestBelow DEF highest
  <2> QED
    BY <1>1, <1>5, <2>1 DEF LevelInv, ProductsInv
<1>7. ASSUME NEW p \in {highest, lower, other} PROVE basis[p].slots = E(p)
  <2>1. p \in 1 .. request.degree /\ p < power
    BY <1>3, <1>4, <1>5, <1>6 DEF Degree
  <2>2. basis[p] # NoText
    BY <1>1, <2>1 DEF LevelInv, ProductsInv
  <2> QED
    BY <1>1, <2>1, <2>2 DEF ValueInv, BasisValues
<1>8. product.slots = Times(E(highest), E(lower))
  BY <1>7 DEF multiply, Text
<1>9. /\ Doubled(product).slots = Plus(product.slots, product.slots)
      /\ subtract(Doubled(product), basis[other], made + 2).slots =
           Plus(Doubled(product).slots, Scaled(-1, basis[other].slots))
  BY DEF Doubled, multiply, subtract, Text
<1> HIDE DEF product
<1>10. text.slots = E(power)
  <2>1. lower =< highest /\ highest + lower =< MaxDegree
        /\ highest + lower = power /\ highest - lower = other
    BY <1>3, <1>4, <1>5, <1>6 DEF Degree
  <2> HIDE DEF lower, other
  <2>2. /\ request.kind = "power" => Times(E(highest), E(lower)) = E(highest + lower)
        /\ request.kind # "power" =>
             Plus(Plus(Times(E(highest), E(lower)), Times(E(highest), E(lower))),
                  Scaled(-1, E(highest - lower))) = E(highest + lower)
    BY <1>2, <1>3, <2>1, ProductSlots
  <2>3. basis[other].slots = E(other)
    BY <1>7
  <2> HIDE DEF E
  <2> QED
    BY <1>8, <1>9, <2>1, <2>2, <2>3
<1> HIDE DEF text, lower, other
<1>11. ASSUME NEW p \in 1 .. request.degree, basis'[p] # NoText
       PROVE  basis'[p].slots = E(p)
  <2>1. basis'[p] = IF p = power THEN text ELSE basis[p]
    BY <1>1, <1>2, <1>4 DEF Degree
  <2> QED
    BY <1>1, <1>10, <1>11, <2>1 DEF ValueInv, BasisValues
<1>12. BasisValues'
  <2>1. NoText' = NoText
    BY DEF NoText
  <2> QED
    BY <1>1, <1>11, <2>1 DEF BasisValues
<1>13. ResultValues'
  BY <1>1, ResultsSame DEF ValueInv
<1> QED
  BY <1>1, <1>12, <1>13 DEF ValueInv, SumValues

-----------------------------------------------------------------------------
(* What a finished basis holds. *)
LEMMA BasisDone ==
    ASSUME LevelInv, HeapInv, ValueInv, pc = "products", power > request.degree,
           NEW r, r = request
    PROVE  /\ r \in Request /\ Accepted(r) /\ unit \in Nat /\ r.degree \in Degree
           /\ r.degree \in Nat
           /\ \A p \in 1 .. r.degree :
                /\ Erased[p - 1].slots = Expected(r.kind, unit, p)
                /\ Erased[p - 1].level = r.level[1] - ceil_log2[p]
<1>1. r \in Request /\ Accepted(r)
  BY DEF LevelInv, Made
<1>2. unit \in Nat
  <2>1. unit \in 1 .. r.size /\ r.size \in Nat
    BY <1>1, RequestTyped DEF HeapInv, LiveInv
  <2> QED
    BY <2>1
<1>3. r.degree \in Degree /\ r.degree \in Nat
  BY <1>1, AcceptedFacts DEF Degree
<1>4. ASSUME NEW p \in 1 .. r.degree
      PROVE  /\ Erased[p - 1].slots = Expected(r.kind, unit, p)
             /\ Erased[p - 1].level = r.level[1] - ceil_log2[p]
  <2>1. p - 1 \in 0 .. r.degree - 1 /\ (p - 1) + 1 = p
    BY <1>3
  <2>2. Erased[p - 1] = basis[p]
    BY <2>1 DEF Erased
  <2>3. p < power
    <3>1. power \in 2 .. r.degree + 1
      BY DEF LevelInv, ProductsInv
    <3> QED
      BY <1>3, <3>1
  <2>4. basis[p] # NoText
    BY <2>3 DEF LevelInv, ProductsInv
  <2> QED
    BY <2>2, <2>4 DEF LevelInv, BasisInv, ValueInv, BasisValues
<1> QED
  BY <1>1, <1>2, <1>3, <1>4

LEMMA CountKeepsValues == ValueInv /\ (EndSquares \/ SkipPower) => ValueInv'
<1> SUFFICES ASSUME ValueInv, EndSquares \/ SkipPower PROVE ValueInv'
  OBVIOUS
<1>1. /\ pc \in {"squares", "products"} /\ pc' = "products" /\ basis' = basis
      /\ request' = request /\ unit' = unit /\ results' = results
  BY DEF EndSquares, SkipPower
<1>2. NoText' = NoText
  BY DEF NoText
<1>3. BasisValues'
  BY <1>1, <1>2 DEF ValueInv, BasisValues
<1>4. ResultValues'
  BY <1>1, ResultsSame DEF ValueInv
<1> QED
  BY <1>1, <1>3, <1>4 DEF ValueInv, SumValues

LEMMA ReturnBasisKeepsValues == LevelInv /\ HeapInv /\ ValueInv /\ ReturnBasis => ValueInv'
<1> SUFFICES ASSUME LevelInv, HeapInv, ValueInv, ReturnBasis PROVE ValueInv'
  OBVIOUS
<1>1. /\ pc = "products" /\ power > request.degree
      /\ request.operation = "make_basis" /\ ReturnUnit(Erased, live, made)
  BY DEF ReturnBasis
<1>2. PICK texts, alive, count, r, u :
        texts = Erased /\ alive = live /\ count = made /\ r = request /\ u = unit
  OBVIOUS
<1>3. \A p \in 1 .. r.degree :
         /\ Erased[p - 1].slots = Expected(r.kind, unit, p)
         /\ Erased[p - 1].level = r.level[1] - ceil_log2[p]
  BY <1>1, <1>2, BasisDone
<1>4. Promised(r, u, texts)
  <2> HIDE DEF Erased
  <2> QED
    BY <1>1, <1>2, <1>3 DEF Promised, BasisPromised
<1>5. count \in Nat /\ ReturnUnit(texts, alive, count) /\ pc \notin {"idle", "returned"}
  BY <1>1, <1>2 DEF LevelInv, Made
<1> QED
  BY <1>2, <1>4, <1>5, ReturnValues

LEMMA SumBasisKeepsValues == LevelInv /\ HeapInv /\ ValueInv /\ SumBasis => ValueInv'
<1> SUFFICES ASSUME LevelInv, HeapInv, ValueInv, SumBasis PROVE ValueInv'
  OBVIOUS
<1>1. /\ pc = "products" /\ power > request.degree /\ request.operation = "evaluate"
      /\ pc' = "sum" /\ basis' = Erased /\ power' = request.degree /\ sum' = NoText
      /\ request' = request /\ unit' = unit /\ results' = results
  BY DEF SumBasis, EnterSum
<1>2. PICK r : r = request
  OBVIOUS
<1>3. /\ r \in Request /\ Accepted(r) /\ unit \in Nat /\ r.degree \in Degree
      /\ r.degree \in Nat
      /\ \A p \in 1 .. r.degree :
           /\ Erased[p - 1].slots = Expected(r.kind, unit, p)
           /\ Erased[p - 1].level = r.level[1] - ceil_log2[p]
  BY <1>1, <1>2, BasisDone
<1>4. /\ r.level[1] \in Nat /\ ceil_log2[r.degree] =< r.level[1]
      /\ ceil_log2[r.degree] \in Nat
  BY <1>1, <1>2, <1>3, AcceptedFacts, Typed DEF Degree
<1>5. ASSUME NEW p \in 1 .. r.degree PROVE Weighable(r, unit, p, basis'[p - 1])
  <2>1. p \in Degree /\ p =< r.degree
    BY <1>3, Typed DEF Degree
  <2>2. ceil_log2[p] \in Nat /\ ceil_log2[p] =< ceil_log2[r.degree]
    BY <1>3, <2>1, DepthMonotone, Typed
  <2>3. /\ basis'[p - 1].slots = Expected(r.kind, unit, p)
        /\ basis'[p - 1].level = r.level[1] - ceil_log2[p]
    BY <1>1, <1>3
  <2>4. basis'[p - 1].level \in Nat /\ basis'[p - 1].level >= r.level[1] - ceil_log2[r.degree]
    BY <1>4, <2>2, <2>3
  <2> QED
    BY <2>3, <2>4 DEF Weighable
<1>6. SumFrom(r, unit, r.degree + 1) = Constant(0)
  BY <1>3, SumEmpty
<1>7. SumValues'
  <2>1. SumFrom(r, unit, power' + 1) = Constant(0)
    BY <1>1, <1>2, <1>6
  <2>2. NoText' = NoText
    BY DEF NoText
  <2> QED
    BY <1>1, <1>2, <1>5, <2>1, <2>2 DEF SumValues
<1>8. ResultValues'
  BY <1>1, ResultsSame DEF ValueInv
<1> QED
  BY <1>1, <1>7, <1>8 DEF ValueInv, BasisValues

-----------------------------------------------------------------------------
(* What a weighted sum works with. *)
LEMMA SumFacts ==
    ASSUME LevelInv, HeapInv, ValueInv, pc = "sum",
           NEW r, r = request, NEW u, u = unit, NEW n, n = power
    PROVE  /\ r \in Request /\ Accepted(r) /\ u \in Nat /\ r.degree \in Degree
           /\ r.degree \in Nat /\ n \in 0 .. r.degree /\ n \in Nat
           /\ r.operation # "make_basis"
           /\ ceil_log2[r.degree] \in Nat /\ r.level[1] \in Nat
           /\ r.coefficients[n] \in Int
           /\ Expected(r.kind, u, n) \in [Slot -> Int]
           /\ SumFrom(r, u, n) \in Residues /\ SumFrom(r, u, n + 1) \in Residues
           /\ SumFrom(r, u, n) =
                Plus(Scaled(r.coefficients[n], Expected(r.kind, u, n)), SumFrom(r, u, n + 1))
           /\ Scaled(r.coefficients[n], Expected(r.kind, u, n)) \in Residues
<1>1. r \in Request /\ Accepted(r)
  BY DEF LevelInv, Made
<1>2. u \in Nat
  <2>1. u \in 1 .. r.size /\ r.size \in Nat
    BY <1>1, RequestTyped DEF HeapInv, LiveInv
  <2> QED
    BY <2>1
<1>3. r.degree \in Degree /\ r.degree \in Nat /\ r.level[1] \in Nat
  BY <1>1, AcceptedFacts, Typed DEF Degree
<1>4. n \in 0 .. r.degree /\ r.operation # "make_basis"
  BY DEF HeapInv, WeighedInv
<1>5. n \in Nat /\ n + 1 \in Nat /\ n \in 0 .. MaxDegree
  BY <1>3, <1>4, Typed DEF Degree
<1>6. r.coefficients[n] \in Int
  BY <1>1, <1>4, RequestAssumption
<1>7. Expected(r.kind, u, n) \in [Slot -> Int]
  BY <1>2, <1>5, ExpectedSlots
<1>8. Scaled(r.coefficients[n], Expected(r.kind, u, n)) \in Residues
  BY <1>6, <1>7, ScaledSlots
<1>9. SumFrom(r, u, n) \in Residues /\ SumFrom(r, u, n + 1) \in Residues
  BY <1>1, <1>2, <1>5, SumTyped
<1>10. SumFrom(r, u, n) =
         Plus(Scaled(r.coefficients[n], Expected(r.kind, u, n)), SumFrom(r, u, n + 1))
  BY <1>1, <1>2, <1>4, SumStep
<1>11. ceil_log2[r.degree] \in Nat
  BY <1>3, Typed
<1> QED
  BY <1>1, <1>2, <1>3, <1>4, <1>5, <1>6, <1>7, <1>8, <1>9, <1>10, <1>11

(* Sums of residues: 0 is neutral, and the order does not matter. *)
LEMMA ResiduesAdd ==
    ASSUME NEW f \in Residues, NEW g \in Residues
    PROVE  /\ Plus(f, Constant(0)) = f /\ Plus(Constant(0), f) = f
           /\ Plus(f, g) = Plus(g, f)
<1>1. f \in [Slot -> Int] /\ g \in [Slot -> Int]
  <2>1. 0 .. Prime - 1 \subseteq Int
    BY DegreeAssumption
  <2>2. \A h \in Residues : h = [s \in Slot |-> h[s]] /\ \A s \in Slot : h[s] \in Int
    BY <2>1 DEF Residues
  <2> QED
    BY <2>2
<1> QED
  BY <1>1, PlusResidues

(* A term with coefficient 0 adds nothing. *)
LEMMA NoTerm ==
    ASSUME LevelInv, HeapInv, ValueInv, pc = "sum",
           NEW r, r = request, NEW u, u = unit, NEW n, n = power,
           r.coefficients[n] = 0
    PROVE  SumFrom(r, u, n) = SumFrom(r, u, n + 1)
<1>1. /\ r.coefficients[n] \in Int /\ Expected(r.kind, u, n) \in [Slot -> Int]
      /\ SumFrom(r, u, n + 1) \in Residues
      /\ SumFrom(r, u, n) =
           Plus(Scaled(r.coefficients[n], Expected(r.kind, u, n)), SumFrom(r, u, n + 1))
  BY SumFacts
<1>2. Scaled(r.coefficients[n], Expected(r.kind, u, n)) = Constant(0)
  BY <1>1, ScaledSlots
<1>3. Plus(Constant(0), SumFrom(r, u, n + 1)) = SumFrom(r, u, n + 1)
  BY <1>1, ResiduesAdd
<1> QED
  BY <1>1, <1>2, <1>3

LEMMA SkipKeepsValues == LevelInv /\ HeapInv /\ ValueInv /\ SkipWeight => ValueInv'
<1> SUFFICES ASSUME LevelInv, HeapInv, ValueInv, SkipWeight PROVE ValueInv'
  OBVIOUS
<1>1. /\ pc = "sum" /\ request.coefficients[power] = 0
      /\ power' = power - 1 /\ pc' = pc /\ request' = request /\ unit' = unit
      /\ basis' = basis /\ sum' = sum /\ results' = results
  BY DEF SkipWeight
<1>2. PICK r, u, n : r = request /\ u = unit /\ n = power
  OBVIOUS
<1>3. SumFrom(r, u, n) = SumFrom(r, u, n + 1) /\ n \in Nat
  BY <1>1, <1>2, NoTerm, SumFacts
<1>4. power' + 1 = n
  BY <1>1, <1>2, <1>3
<1>5. SumValues'
  <2>1. /\ \A p \in 1 .. r.degree : Weighable(r, u, p, basis[p - 1])
        /\ IF sum = NoText THEN SumFrom(r, u, n + 1) = Constant(0)
                           ELSE Weighed(r, u, n + 1, sum)
    BY <1>1, <1>2 DEF ValueInv, SumValues
  <2>2. sum # NoText => Weighed(r, u, n, sum)
    BY <1>3, <2>1 DEF Weighed
  <2>3. NoText' = NoText
    BY DEF NoText
  <2> QED
    BY <1>1, <1>2, <1>3, <1>4, <2>1, <2>2, <2>3 DEF SumValues
<1>6. ResultValues'
  BY <1>1, ResultsSame DEF ValueInv
<1> QED
  BY <1>1, <1>5, <1>6 DEF ValueInv, BasisValues

-----------------------------------------------------------------------------
LEMMA WeighKeepsValues == LevelInv /\ HeapInv /\ ValueInv /\ Weigh => ValueInv'
<1> SUFFICES ASSUME LevelInv, HeapInv, ValueInv, Weigh PROVE ValueInv'
  OBVIOUS
<1> DEFINE product == multiply_number(basis[power - 1],
                                      request.coefficients[power], made + 1)
           both == add(sum, product, made + 2)
<1>1. /\ pc = "sum" /\ pc' = "sum" /\ power > 0 /\ power' = power - 1
      /\ sum' = IF sum = NoText THEN product ELSE both
      /\ request' = request /\ unit' = unit /\ basis' = basis /\ results' = results
  BY DEF Weigh
<1>2. PICK r, u, n : r = request /\ u = unit /\ n = power
  OBVIOUS
<1> DEFINE term == Scaled(r.coefficients[n], Expected(r.kind, u, n))
           above == SumFrom(r, u, n + 1)
           used == basis[n - 1]
           least == r.level[1] - required_level(r)
<1>3. /\ r \in Request /\ r.degree \in Nat /\ n \in 0 .. r.degree /\ n \in Nat
      /\ r.operation # "make_basis"
      /\ ceil_log2[r.degree] \in Nat /\ r.level[1] \in Nat
      /\ above \in Residues /\ term \in Residues
      /\ SumFrom(r, u, n) = Plus(term, above)
  BY <1>1, <1>2, SumFacts
<1>4. n \in 1 .. r.degree /\ n - 1 \in 0 .. r.degree - 1
  BY <1>1, <1>2, <1>3
<1>5. Weighable(r, u, n, used)
  BY <1>1, <1>2, <1>4 DEF ValueInv, SumValues
<1>6. r.number = "double" => used.level > 0
  BY <1>1, <1>2, <1>4 DEF LevelInv, SumInv
<1>7. /\ product.slots = Scaled(r.coefficients[n], used.slots) /\ product.id = made + 1
      /\ product.level = IF r.number = "double" THEN used.level - 1 ELSE used.level
      /\ both.slots = Plus(sum.slots, product.slots) /\ both.id = made + 2
      /\ both.level = IF sum.level < product.level THEN sum.level ELSE product.level
  BY <1>2 DEF multiply_number, add, Lower, Text
<1>8. /\ required_level(r) \in Nat
      /\ r.operation = "evaluate" =>
           required_level(r) = ceil_log2[r.degree] + IF r.number = "double" THEN 1 ELSE 0
  BY <1>3 DEF required_level
<1> HIDE DEF product, both
<1>9. /\ product.slots = term /\ product.level \in Nat
      /\ r.operation = "evaluate" => product.level >= least
  <2>1. /\ used.slots = Expected(r.kind, u, n) /\ used.level \in Nat
        /\ r.operation = "evaluate" =>
             used.level >= r.level[1] - ceil_log2[r.degree]
    BY <1>5 DEF Weighable
  <2> HIDE DEF used
  <2>2. CASE r.number = "double"
    BY <1>3, <1>6, <1>7, <1>8, <2>1, <2>2
  <2>3. CASE r.number # "double"
    BY <1>3, <1>7, <1>8, <2>1, <2>3
  <2> QED
    BY <2>2, <2>3
<1>10. sum' # NoText
  <2>1. made \in Nat /\ NoText.id = 0
    BY DEF LevelInv, Made, NoText
  <2>2. product # NoText /\ both # NoText
    BY <1>7, <2>1
  <2> QED
    BY <1>1, <2>2
<1> HIDE DEF term, above, used, least
<1>11. sum'.slots = SumFrom(r, u, n) /\ sum'.level \in Nat
       /\ (r.operation = "evaluate" => sum'.level >= least)
  <2>1. CASE sum = NoText
    <3>1. above = Constant(0)
      BY <1>1, <1>2, <2>1 DEF ValueInv, SumValues, above
    <3>2. Plus(term, above) = term
      BY <1>3, <3>1, ResiduesAdd
    <3> QED
      BY <1>1, <1>3, <1>9, <2>1, <3>2
  <2>2. CASE sum # NoText
    <3>1. /\ sum.slots = above /\ sum.level \in Nat
          /\ r.operation = "evaluate" => sum.level >= least
      BY <1>1, <1>2, <2>2 DEF ValueInv, SumValues, Weighed, above, least
    <3>2. Plus(term, above) = Plus(above, term)
      BY <1>3, ResiduesAdd
    <3>3. sum'.slots = SumFrom(r, u, n)
      BY <1>1, <1>3, <1>7, <1>9, <2>2, <3>1, <3>2
    <3>4. sum'.level = IF sum.level < product.level THEN sum.level ELSE product.level
      BY <1>1, <1>7, <2>2
    <3> QED
      BY <1>9, <3>1, <3>3, <3>4
  <2> QED
    BY <2>1, <2>2
<1>12. SumValues'
  <2>1. power' + 1 = n
    BY <1>1, <1>2, <1>3
  <2>2. Weighed(r, u, n, sum')
    BY <1>11 DEF Weighed, least
  <2>3. \A p \in 1 .. r.degree : Weighable(r, u, p, basis'[p - 1])
    BY <1>1, <1>2 DEF ValueInv, SumValues
  <2>4. NoText' = NoText
    BY DEF NoText
  <2> QED
    BY <1>1, <1>2, <1>10, <2>1, <2>2, <2>3, <2>4 DEF SumValues
<1>13. ResultValues'
  BY <1>1, ResultsSame DEF ValueInv
<1> QED
  BY <1>1, <1>12, <1>13 DEF ValueInv, BasisValues

LEMMA ReturnSumKeepsValues == LevelInv /\ HeapInv /\ ValueInv /\ ReturnSum => ValueInv'
<1> SUFFICES ASSUME LevelInv, HeapInv, ValueInv, ReturnSum PROVE ValueInv'
  OBVIOUS
<1> DEFINE c == request.coefficients[0]
           text == IF c = 0 THEN sum ELSE add_number(sum, c, made + 1)
           used == IF request.operation = "evaluate"
                     THEN {basis[p].id : p \in DOMAIN basis} ELSE {}
           last == IF c = 0 THEN made ELSE made + 1
           rest == (live \ (used \cup {sum.id})) \cup {text.id}
<1>1. pc = "sum" /\ power = 0 /\ ReturnUnit(<<text>>, rest, last)
  BY DEF ReturnSum
<1>2. PICK texts, alive, count, r, u, n :
        /\ texts = <<text>> /\ alive = rest /\ count = last
        /\ r = request /\ u = unit /\ n = power
  OBVIOUS
<1>3. /\ r \in Request /\ u \in Nat /\ n = 0 /\ r.operation # "make_basis"
      /\ r.coefficients[n] \in Int
      /\ SumFrom(r, u, n + 1) \in Residues
      /\ SumFrom(r, u, n) =
           Plus(Scaled(r.coefficients[n], Expected(r.kind, u, n)), SumFrom(r, u, n + 1))
  BY <1>1, <1>2, SumFacts
<1>4. sum # NoText
  BY <1>1 DEF HeapInv, WeighedInv
<1>5. /\ sum.slots = SumFrom(r, u, n + 1) /\ sum.level \in Nat
      /\ r.operation = "evaluate" => sum.level >= r.level[1] - required_level(r)
  BY <1>1, <1>2, <1>4 DEF ValueInv, SumValues, Weighed
<1>6. text.level = sum.level
  BY DEF add_number, Text
<1>7. text.slots = SumFrom(r, u, n)
  <2>1. CASE c = 0
    <3>1. SumFrom(r, u, n) = SumFrom(r, u, n + 1)
      BY <1>1, <1>2, <2>1, NoTerm
    <3> QED
      BY <1>5, <2>1, <3>1
  <2>2. CASE c # 0
    <3>1. text.slots = Plus(sum.slots, Constant(c)) /\ c \in Int
      BY <1>1, <1>2, <1>3, <2>2 DEF add_number, Text
    <3>2. Scaled(r.coefficients[n], Expected(r.kind, u, n)) = Constant(c)
          /\ Constant(c) \in Residues
      <4>1. c = r.coefficients[n]
        BY <1>1, <1>2
      <4> QED
        BY <1>3, <3>1, <4>1, ConstantSlots
    <3>3. Plus(Constant(c), sum.slots) = Plus(sum.slots, Constant(c))
      BY <1>3, <1>5, <3>2, ResiduesAdd
    <3> HIDE DEF text, c
    <3> QED
      BY <1>3, <1>5, <3>1, <3>2, <3>3
  <2> QED
    BY <2>1, <2>2
<1>8. ReturnUnit(texts, alive, count)
  BY <1>1, <1>2
<1>9. count \in Nat
  BY <1>2 DEF LevelInv, Made
<1> HIDE DEF text, used, last, rest, c
<1>10. Promised(r, u, texts)
  <2>1. texts[1] = text
    BY <1>2
  <2>2. text.level >= 0
    BY <1>5, <1>6
  <2> QED
    BY <1>3, <1>5, <1>6, <1>7, <2>1, <2>2 DEF Promised, SumPromised
<1> QED
  BY <1>1, <1>2, <1>8, <1>9, <1>10, ReturnValues

LEMMA CallKeepsValues == \A r \in Request : Call(r) => ValueInv'
<1> SUFFICES ASSUME NEW r \in Request, Call(r) PROVE ValueInv'
  OBVIOUS
<1>1. /\ Accepted(r) /\ request' = r /\ results' = <<>>
      /\ EnterUnit(r, 1, GivenIds(r), r.size * MaxDegree)
  BY DEF Call
<1>2. PICK texts, count, u : texts = GivenIds(r) /\ count = r.size * MaxDegree /\ u = 1
  OBVIOUS
<1>3. count \in Nat /\ u \in Nat /\ EnterUnit(r, u, texts, count)
  BY <1>1, <1>2, RequestTyped
<1>4. BasisValues' /\ SumValues' /\ unit' = u /\ pc' \in {"squares", "sum"}
  BY <1>1, <1>3, EnterValues
<1>5. ResultValues'
  BY <1>1, <1>2, <1>4 DEF ResultValues
<1> QED
  BY <1>4, <1>5 DEF ValueInv

(***************************************************************************)
(* What the loops have is right at every step of a call: the texts of a     *)
(* basis are their powers, and a sum is the terms that were left behind.    *)
(***************************************************************************)
THEOREM ValuesKept == Spec => []ValueInv
<1>1. Init => ValueInv
  BY DEF Init, ValueInv, BasisValues, SumValues, ResultValues
<1>2. LevelInv /\ HeapInv /\ ValueInv /\ [Next]_vars => ValueInv'
  <2> SUFFICES ASSUME LevelInv, HeapInv, ValueInv, [Next]_vars PROVE ValueInv'
    OBVIOUS
  <2>1. CASE UNCHANGED vars
    <3>1. NoText' = NoText
      BY DEF NoText
    <3> QED
      BY <2>1, <3>1 DEF vars, ValueInv, BasisValues, SumValues, ResultValues
  <2>2. CASE \E r \in Request : Call(r)
    BY <2>2, CallKeepsValues
  <2>3. CASE \E r \in Request : Refuse(r)
    BY <2>1, <2>3 DEF Refuse
  <2>4. CASE SquarePower
    BY <2>4, SquareKeepsValues
  <2>5. CASE MultiplyPower
    BY <2>5, MultiplyKeepsValues
  <2>6. CASE EndSquares \/ SkipPower
    BY <2>6, CountKeepsValues
  <2>7. CASE ReturnBasis
    BY <2>7, ReturnBasisKeepsValues
  <2>8. CASE SumBasis
    BY <2>8, SumBasisKeepsValues
  <2>9. CASE SkipWeight
    BY <2>9, SkipKeepsValues
  <2>10. CASE Weigh
    BY <2>10, WeighKeepsValues
  <2>11. CASE ReturnSum
    BY <2>11, ReturnSumKeepsValues
  <2>12. CASE Forget
    BY <2>12 DEF Forget, ValueInv, BasisValues, SumValues, ResultValues
  <2> QED
    BY <2>1, <2>2, <2>3, <2>4, <2>5, <2>6, <2>7, <2>8, <2>9, <2>10, <2>11, <2>12 DEF Next
<1> QED
  BY <1>1, <1>2, LevelsKept, HeapKept, PTL DEF Spec

(***************************************************************************)
(* A call that returns has for each unit what was asked for: every power of *)
(* the basis in its place, at the level of a product tree of least depth,   *)
(* or the value of the polynomial at the numbers of the unit's own slots.   *)
(***************************************************************************)
THEOREM PolynomialsEvaluated == Spec => []EvaluatesPolynomial
<1>1. ValueInv => EvaluatesPolynomial
  BY DEF ValueInv, ResultValues, EvaluatesPolynomial
<1> QED
  BY <1>1, ValuesKept, PTL
=============================================================================
