--------------------------- MODULE BootstrapProofs ---------------------------
(***************************************************************************)
(* Proof that a bootstrap that was accepted finds every key that it needs,  *)
(* and spends the levels of its stages and its rounding and no more, for    *)
(* all sizes, numbers of stages and levels.                                 *)
(*                                                                         *)
(* The argument: the level of the text is linear in the stages behind it,   *)
(* so the parts of a bootstrap come in the order of descending levels; a    *)
(* context that was made for the first part with its delta serves all later *)
(* ones.  A rotation is by less than the number of slots, and a stage has a *)
(* group of diagonals, because of how its loops are counted.                *)
(***************************************************************************)
EXTENDS Bootstrap, FiniteSetTheorems, WellFoundedInduction, TLAPS

(* Every nonempty set of natural numbers has a least element. *)
LEMMA LeastOfNaturals ==
    ASSUME NEW S \in SUBSET Nat, S # {}
    PROVE  \E m \in S : \A k \in S : m =< k
<1> DEFINE Less == {pair \in Nat \X Nat : pair[1] < pair[2]}
<1>1. IsWellFoundedOn(Less, Nat)
  BY NatLessThanWellFounded DEF OpToRel
<1> HIDE DEF Less
<1>2. PICK m \in S : \A k \in S : ~(<<k, m>> \in Less)
  BY <1>1, WFMin
<1>3. \A k \in S : ~(k < m)
  BY <1>2 DEF Less
<1> QED
  BY <1>3

(* Tabulating a function does not change it. *)
LEMMA EvaluatedIsItself == ASSUME NEW f PROVE Evaluated(f) = f
BY DEF Evaluated

(* The sizes that have a logarithm. *)
LEMMA DomainOfLog == DOMAIN Log = {2 ^ k : k \in 0 .. MaxLog}
BY EvaluatedIsItself DEF Log

(* Powers of two, as the numbers of subsets. *)
LEMMA TwoPower ==
    /\ 2 ^ 0 = 1
    /\ \A n \in Nat : 2 ^ n \in Nat \ {0} /\ 2 ^ (n + 1) = 2 * 2 ^ n
<1>1. ASSUME NEW n \in Nat
      PROVE  /\ IsFiniteSet(SUBSET (1 .. n)) /\ Cardinality(SUBSET (1 .. n)) = 2 ^ n
             /\ 2 ^ n \in Nat
  <2>1. IsFiniteSet(1 .. n) /\ Cardinality(1 .. n) = n
    BY FS_Interval
  <2>2. IsFiniteSet(SUBSET (1 .. n)) /\ Cardinality(SUBSET (1 .. n)) = 2 ^ n
    BY <2>1, FS_SUBSET
  <2>3. Cardinality(SUBSET (1 .. n)) \in Nat
    BY <2>2, FS_CardinalityType
  <2> QED
    BY <2>2, <2>3
<1>2. 2 ^ 0 = 1
  OBVIOUS
<1>3. ASSUME NEW n \in Nat
      PROVE  2 ^ (n + 1) = 2 * 2 ^ n
  <2> DEFINE A == SUBSET (1 .. n)
             B == {s \cup {n + 1} : s \in A}
             adjoin == [s \in A |-> s \cup {n + 1}]
  <2>1. \A s \in A : n + 1 \notin s
    OBVIOUS
  <2>2. SUBSET (1 .. n + 1) = A \cup B
    <3>1. ASSUME NEW s \in SUBSET (1 .. n + 1), n + 1 \in s
          PROVE  s \in B
      <4>1. s \ {n + 1} \in A
        OBVIOUS
      <4>2. s = (s \ {n + 1}) \cup {n + 1}
        BY <3>1
      <4> QED
        BY <4>1, <4>2
    <3>2. ASSUME NEW s \in SUBSET (1 .. n + 1), n + 1 \notin s
          PROVE  s \in A
      BY <3>2
    <3>3. \A s \in A : s \in SUBSET (1 .. n + 1) /\ s \cup {n + 1} \in SUBSET (1 .. n + 1)
      OBVIOUS
    <3>4. \A s \in B : s \in SUBSET (1 .. n + 1)
      BY <3>3
    <3> HIDE DEF A, B
    <3> DEFINE C == SUBSET (1 .. n + 1)
    <3>5. (\A s \in C : s \in A \/ s \in B) /\ (\A s \in A : s \in C) /\ (\A s \in B : s \in C)
      BY <3>1, <3>2, <3>3, <3>4
    <3> HIDE DEF C
    <3>6. C = A \cup B
      BY <3>5, Zenon
    <3> QED
      BY <3>6 DEF C
  <2>3. A \cap B = {}
    BY <2>1
  <2>4. adjoin \in Bijection(A, B)
    <3>1. adjoin \in [A -> B]
      OBVIOUS
    <3>2. ASSUME NEW s \in A, NEW t \in A, adjoin[s] = adjoin[t]
          PROVE  s = t
      <4>1. s = (s \cup {n + 1}) \ {n + 1} /\ t = (t \cup {n + 1}) \ {n + 1}
        BY <2>1
      <4> QED
        BY <3>2, <4>1
    <3>3. \A t \in B : \E s \in A : adjoin[s] = t
      OBVIOUS
    <3> HIDE DEF A, B, adjoin
    <3>4. adjoin \in Injection(A, B)
      BY <3>1, <3>2 DEF Injection, IsInjective
    <3>5. adjoin \in Surjection(A, B)
      BY <3>1, <3>3 DEF Surjection
    <3> QED
      BY <3>4, <3>5 DEF Bijection
  <2>5. IsFiniteSet(A) /\ Cardinality(A) = 2 ^ n /\ 2 ^ n \in Nat
    BY <1>1
  <2>6. Cardinality(SUBSET (1 .. n + 1)) = 2 ^ (n + 1)
    BY <1>1
  <2> HIDE DEF A, B, adjoin
  <2>7. IsFiniteSet(B) /\ Cardinality(B) = Cardinality(A)
    BY <2>4, <2>5, FS_Bijection DEF ExistsBijection
  <2>8. Cardinality(A \cup B) = Cardinality(A) + Cardinality(B) - Cardinality(A \cap B)
    BY <2>5, <2>7, FS_Union
  <2>9. Cardinality(A \cap B) = 0
    BY <2>3, FS_EmptySet
  <2>10. Cardinality(A \cup B) = 2 * 2 ^ n
    BY <2>5, <2>7, <2>8, <2>9
  <2> QED
    BY <2>2, <2>6, <2>10, Zenon
<1>4. ASSUME NEW n \in Nat
      PROVE  2 ^ n \in Nat \ {0}
  <2>1. 1 .. n \in SUBSET (1 .. n)
    OBVIOUS
  <2>2. 2 ^ n # 0
    BY <1>1, <2>1, FS_EmptySet
  <2> QED
    BY <1>1, <2>2
<1> QED
  BY <1>2, <1>3, <1>4

(* They grow, and none is met twice. *)
LEMMA TwoPowerGrows ==
    ASSUME NEW m \in Nat, NEW n \in Nat, m =< n
    PROVE  2 ^ m =< 2 ^ n
<1> DEFINE S == {i \in m .. n : ~(2 ^ m =< 2 ^ i)}
<1>1. SUFFICES ASSUME S # {} PROVE FALSE
  BY <1>1
<1>2. S \in SUBSET Nat
  OBVIOUS
<1>3. PICK i \in S : \A j \in S : i =< j
  BY <1>1, <1>2, LeastOfNaturals
<1>4. i \in Nat /\ i >= m /\ i =< n /\ ~(2 ^ m =< 2 ^ i)
  OBVIOUS
<1>5. i # m
  BY <1>4, TwoPower
<1>6. i - 1 \in m .. n /\ i - 1 \in Nat /\ i - 1 \notin S
  BY <1>3, <1>4, <1>5
<1>7. 2 ^ m =< 2 ^ (i - 1)
  BY <1>6
<1> DEFINE k == i - 1
<1>8. /\ 2 ^ k \in Nat /\ 2 ^ m \in Nat
      /\ 2 ^ (k + 1) = 2 * 2 ^ k
  BY <1>6, TwoPower
<1>9. i = k + 1
  BY <1>4
<1>10. 2 ^ i = 2 * 2 ^ k
  BY <1>8, <1>9
<1> QED
  BY <1>4, <1>7, <1>8, <1>10

LEMMA TwoPowerExceeds ==
    ASSUME NEW n \in Nat
    PROVE  n < 2 ^ n
<1> DEFINE S == {i \in Nat : ~(i < 2 ^ i)}
<1>1. SUFFICES ASSUME S # {} PROVE FALSE
  BY <1>1
<1>2. S \in SUBSET Nat
  OBVIOUS
<1>3. PICK i \in S : \A j \in S : i =< j
  BY <1>1, <1>2, LeastOfNaturals
<1>4. i \in Nat /\ ~(i < 2 ^ i)
  OBVIOUS
<1>5. i # 0
  BY <1>4, TwoPower
<1> DEFINE k == i - 1
<1>6. k \in Nat /\ k \notin S /\ i = k + 1
  BY <1>3, <1>4, <1>5
<1>7. k < 2 ^ k
  BY <1>6
<1>8. 2 ^ k \in Nat /\ 2 ^ i = 2 * 2 ^ k
  BY <1>6, TwoPower
<1> QED
  BY <1>4, <1>6, <1>7, <1>8

(* The logarithm of a size. *)
LEMMA LogOfSize ==
    ASSUME NEW n \in DOMAIN Log
    PROVE  Log[n] \in 0 .. MaxLog /\ 2 ^ Log[n] = n
<1>1. PICK k \in 0 .. MaxLog : 2 ^ k = n
  BY DomainOfLog
<1>2. Log[n] = CHOOSE j \in 0 .. MaxLog : 2 ^ j = n
  BY DomainOfLog, EvaluatedIsItself DEF Log
<1> QED
  BY <1>1, <1>2

(* What the types of a request make of its numbers. *)
LEMMA RequestTyped ==
    ASSUME NEW r \in Request
    PROVE  /\ r.key \in {"rotation", "medium", "large"}
           /\ r.N \in Int /\ r.n \in Int /\ r.n >= 2 /\ r.n =< r.N \div 2
           /\ r.n \in {2 ^ k : k \in 0 .. MaxLog}
           /\ r.N =< 2 ^ MaxLog
           /\ r.stage_count \in Int /\ r.stage_count >= 1
           /\ {r.relinearization, r.conjugation, r.rotation} \subseteq Nat
<1>1. {r.N, r.n} \subseteq {2 ^ k : k \in 0 .. MaxLog}
  BY RequestAssumption, DomainOfLog
<1>2. MaxLog \in Nat
  BY FieldAssumption
<1>3. \A k \in 0 .. MaxLog : 2 ^ k \in Int /\ 2 ^ k =< 2 ^ MaxLog
  BY <1>2, TwoPower, TwoPowerGrows
<1>4. r.N \in Int /\ r.n \in Int /\ r.N =< 2 ^ MaxLog
  BY <1>1, <1>3
<1>5. r.n \in 2 .. r.N \div 2 /\ r.stage_count \in 1 .. Log[r.n]
  BY RequestAssumption
<1> QED
  BY <1>1, <1>4, <1>5, RequestAssumption

-----------------------------------------------------------------------------
(* Levels. *)

LEMMA LevelsTyped ==
    ASSUME EngineSuffices
    PROVE  /\ MaxLevel \in Int
           /\ get_max_key_switching_level = MaxLevel - 1
           /\ \A r \in Request : 2 * r.stage_count + 9 < MaxLevel
BY LevelAssumption DEF EngineSuffices, get_max_key_switching_level, levels_for_eval_round

(* The level of each stage: one less than the one before, and the rounding  *)
(* between the transforms.                                                  *)
LEMMA StageLevel ==
    ASSUME EngineSuffices, NEW r \in Request, NEW s \in Int
    PROVE  /\ stage_level(r.stage_count, "coeff_to_slot", s) = MaxLevel - 1 - s
           /\ stage_level(r.stage_count, "slot_to_coeff", s)
                = MaxLevel - 1 - s - r.stage_count - 9
BY LevelsTyped, RequestTyped DEF stage_level, levels_for_eval_round

(* A stage is what make_bootstrap_stage made. *)
LEMMA StageMade ==
    ASSUME NEW r \in Request, NEW t \in Transform, NEW s \in 0 .. r.stage_count - 1
    PROVE  StageOf(r, t, s) =
             make_bootstrap_stage(r.N, r.n, inner_loop_shift(r), r.stage_count, t, s)
<1> DEFINE plan == <<r.N, r.n, inner_loop_shift(r), r.stage_count, t, s>>
           Plans == UNION {Plan(q) : q \in Request}
           made == [p \in Plans |-> make_bootstrap_stage(p[1], p[2], p[3], p[4], p[5], p[6])]
<1>1. plan \in Plans
  BY DEF Plan
<1>2. stages[plan] = made[plan]
  BY <1>1, EvaluatedIsItself DEF stages
<1>3. made[plan] = make_bootstrap_stage(r.N, r.n, inner_loop_shift(r), r.stage_count, t, s)
  BY <1>1
<1> HIDE DEF plan, made
<1> QED
  BY <1>2, <1>3 DEF StageOf, plan

LEMMA LevelOfStage ==
    ASSUME NEW r \in Request, NEW t \in Transform, NEW s \in 0 .. r.stage_count - 1
    PROVE  StageOf(r, t, s).level = stage_level(r.stage_count, t, s)
<1>1. StageOf(r, t, s) = make_bootstrap_stage(r.N, r.n, inner_loop_shift(r), r.stage_count, t, s)
  BY StageMade
<1> QED
  BY <1>1 DEF make_bootstrap_stage

-----------------------------------------------------------------------------
(* Stages. *)

(* One stage has as many butterflies as another, or one more. *)
LEMMA RadixSplit ==
    ASSUME NEW t \in Transform, NEW count \in Nat \ {0}, NEW n, Log[n] \in Nat, NEW s \in Int
    PROVE  LET q == Log[n] \div count
               rest == Log[n] % count
           IN  log_radix_count(t, s, count, n) =
                 q + IF t = "coeff_to_slot" THEN IF s >= count - rest THEN 1 ELSE 0
                                            ELSE IF s < rest THEN 1 ELSE 0
BY DEF log_radix_count, get_coeff_to_slot_log_radix_count, get_slot_to_coeff_log_radix_count

(* The butterflies are divided among the stages with none left over. *)
LEMMA RadixOfStage ==
    ASSUME NEW t \in Transform, NEW count \in Nat \ {0}, NEW n \in DOMAIN Log,
           count =< Log[n], NEW s \in 0 .. count - 1
    PROVE  /\ log_radix_count(t, s, count, n) \in Nat \ {0}
           /\ log_radix_count(t, s, count, n) =< Log[n]
<1> DEFINE L == Log[n]
<1>1. L \in Nat
  <2>1. L \in 0 .. MaxLog
    BY LogOfSize
  <2> HIDE DEF L
  <2> QED
    BY <2>1
<1> HIDE DEF L
<1> DEFINE q == L \div count
           rest == L % count
<1>2. q \in Int /\ rest \in 0 .. count - 1 /\ L = (count * q) + rest
  BY <1>1
<1> HIDE DEF q, rest
<1>3. count =< L
  BY DEF L
<1>4. q >= 1
  <2>1. SUFFICES ASSUME q =< 0 PROVE FALSE
    BY <1>2, <2>1
  <2>2. count * q =< 0
    BY <1>2, <2>1
  <2> QED
    BY <1>1, <1>2, <1>3, <2>2
<1>5. q + rest =< L
  <2>1. count * q >= q
    BY <1>2, <1>4
  <2> QED
    BY <1>1, <1>2, <2>1
<1>6. \/ log_radix_count(t, s, count, n) = q
      \/ log_radix_count(t, s, count, n) = q + 1 /\ rest > 0
  <2>1. Log[n] \in Nat /\ s \in Int
    BY <1>1 DEF L
  <2>2. log_radix_count(t, s, count, n) =
          q + IF t = "coeff_to_slot" THEN IF s >= count - rest THEN 1 ELSE 0
                                     ELSE IF s < rest THEN 1 ELSE 0
    BY <2>1, RadixSplit DEF q, rest, L
  <2> QED
    BY <1>2, <2>2
<1> QED
  BY <1>1, <1>2, <1>4, <1>5, <1>6 DEF L

(* How many butterflies come before a stage is a number. *)
LEMMA OffsetTyped ==
    ASSUME NEW t \in Transform, NEW count \in Nat \ {0}, NEW n \in DOMAIN Log,
           count =< Log[n], NEW s \in 0 .. count
    PROVE  twiddle_index_offset(t, s, count, n) \in Nat
<1> DEFINE radix(i) == log_radix_count(t, i, count, n)
           Recursive(f) ==
             f = [i \in 0 .. s |-> IF i = 0 THEN 0 ELSE f[i - 1] + radix(i - 1)]
           offset[i \in 0 .. s] == IF i = 0 THEN 0 ELSE offset[i - 1] + radix(i - 1)
<1>1. \A i \in 0 .. count - 1 : radix(i) \in Nat
  BY RadixOfStage
<1> HIDE DEF radix
<1>2. \E f : Recursive(f)
  <2> DEFINE L == Log[n]
  <2>1. L \in Nat
    <3>1. L \in 0 .. MaxLog
      BY LogOfSize
    <3> HIDE DEF L
    <3> QED
      BY <3>1
  <2> DEFINE q == L \div count
             rest == L % count
             extra(i) == IF t = "coeff_to_slot"
                           THEN IF i >= count - rest THEN i - (count - rest) ELSE 0
                           ELSE IF i < rest THEN i ELSE rest
             w == [i \in 0 .. s |-> (i * q) + extra(i)]
  <2>2. \A i \in 0 .. s - 1 :
          radix(i) = q + IF t = "coeff_to_slot" THEN IF i >= count - rest THEN 1 ELSE 0
                                                 ELSE IF i < rest THEN 1 ELSE 0
    BY <2>1, RadixSplit DEF radix
  <2> HIDE DEF L
  <2>3. q \in Int /\ rest \in 0 .. count - 1 /\ s \in Nat
    BY <2>1
  <2> HIDE DEF q, rest
  <2>4. \A i \in 1 .. s : ((i - 1) * q) + q = i * q
    BY <2>3
  <2>5. \A i \in 1 .. s : w[i] = w[i - 1] + radix(i - 1)
    <3> TAKE i \in 1 .. s
    <3>1. /\ i - 1 \in 0 .. s - 1 /\ i - 1 \in 0 .. s /\ i \in 0 .. s
          /\ i \in Int /\ i - 1 \in Int /\ (i - 1) * q \in Int /\ i * q \in Int
      BY <2>3
    <3>2. w[i] = (i * q) + extra(i) /\ w[i - 1] = ((i - 1) * q) + extra(i - 1)
      BY <3>1
    <3> DEFINE j == i - 1
               x == i * q
               y == j * q
    <3>3. radix(j) = q + IF t = "coeff_to_slot" THEN IF j >= count - rest THEN 1 ELSE 0
                                                 ELSE IF j < rest THEN 1 ELSE 0
      BY <2>2, <3>1
    <3>4. y + q = x
      BY <2>4
    <3> HIDE DEF x, y, w
    <3>5. w[i] = x + extra(i) /\ w[j] = y + extra(j)
      BY <3>2 DEF x, y
    <3>6. x \in Int /\ y \in Int
      BY <3>1 DEF x, y
    <3>7. extra(i) = extra(j) + radix(j) - q
      BY <2>3, <3>1, <3>3
    <3>8. extra(i) \in Int /\ extra(j) \in Int /\ radix(j) \in Int
      BY <2>3, <3>1, <3>3
    <3> HIDE DEF extra
    <3>9. w[i] = w[j] + radix(j)
      BY <2>3, <3>4, <3>5, <3>6, <3>7, <3>8
    <3> QED
      BY <3>9
  <2>6. w[0] = 0
    BY <2>3
  <2>7. w = [i \in 0 .. s |-> w[i]]
    OBVIOUS
  <2> HIDE DEF w
  <2>8. Recursive(w)
    <3>1. \A i \in 0 .. s : w[i] = IF i = 0 THEN 0 ELSE w[i - 1] + radix(i - 1)
      BY <2>3, <2>5, <2>6
    <3>2. [i \in 0 .. s |-> w[i]]
            = [i \in 0 .. s |-> IF i = 0 THEN 0 ELSE w[i - 1] + radix(i - 1)]
      BY <3>1, Zenon
    <3> QED
      BY <2>7, <3>2, Zenon
  <2> QED
    BY <2>8
<1>3. offset = CHOOSE f : Recursive(f)
  OBVIOUS
<1>4. Recursive(offset)
  BY <1>2, <1>3
<1>5. twiddle_index_offset(t, s, count, n) = offset[s]
  BY DEF twiddle_index_offset, radix
<1> HIDE DEF offset
<1>6. /\ offset[0] = 0
      /\ \A i \in 1 .. s : offset[i] = offset[i - 1] + radix(i - 1)
  BY <1>4
<1> DEFINE S == {i \in 0 .. s : ~(offset[i] \in Nat)}
<1>7. SUFFICES ASSUME S # {} PROVE FALSE
  BY <1>5, <1>7
<1>8. S \in SUBSET Nat
  OBVIOUS
<1>9. PICK i \in S : \A j \in S : i =< j
  BY <1>7, <1>8, LeastOfNaturals
<1>10. i \in 1 .. s
  BY <1>6
<1>11. offset[i - 1] \in Nat
  BY <1>9, <1>10
<1>12. radix(i - 1) \in Nat
  BY <1>1, <1>10
<1> QED
  BY <1>6, <1>9, <1>10, <1>11, <1>12

(* The groups are no more than the diagonals. *)
LEMMA InnerLoop ==
    ASSUME NEW log_radix \in Nat \ {0}, NEW shift \in {0, 1}
    PROVE  LET count == total_radix_count(log_radix)
           IN  /\ get_inner_loop_count(count, shift) \in Nat \ {0}
               /\ get_outer_loop_count(count, shift) \in Nat \ {0}
<1> DEFINE p == 2 ^ log_radix
           count == 2 * p - 1
           IsBits(b) == 2 ^ b > count /\ (b > 0 => 2 ^ (b - 1) =< count)
           bits == bit_count(count)
           next == log_radix + 1
<1>1. /\ p \in Nat \ {0} /\ 2 ^ next = 2 * p /\ total_radix_count(log_radix) = count
      /\ next - 1 = log_radix /\ next \in Nat /\ log_radix >= 1
  BY TwoPower DEF total_radix_count
<1> HIDE DEF p
<1>2. next =< count
  <2>1. log_radix < p
    BY TwoPowerExceeds DEF p
  <2> QED
    BY <1>1, <2>1
<1>3. IsBits(next) /\ next \in 0 .. count
  BY <1>1, <1>2 DEF p
<1>4. bits \in 0 .. count /\ IsBits(bits)
  <2>1. bits = CHOOSE b \in 0 .. count : IsBits(b)
    BY DEF bit_count
  <2> HIDE DEF IsBits, bits, next
  <2> QED
    BY <1>3, <2>1
<1> HIDE DEF bits
<1>5. bits =< next
  <2>1. SUFFICES ASSUME bits > next PROVE FALSE
    BY <1>1, <1>4, <2>1
  <2>2. bits - 1 \in Nat /\ next =< bits - 1 /\ next \in Nat
    BY <1>1, <1>4, <2>1
  <2>3. 2 ^ next =< 2 ^ (bits - 1)
    BY <2>2, TwoPowerGrows
  <2>4. 2 ^ (bits - 1) =< count /\ 2 ^ (bits - 1) \in Nat
    BY <1>1, <1>4, <2>1, <2>2, TwoPower
  <2> QED
    BY <1>1, <2>3, <2>4
<1> DEFINE e == (bits + 1) \div 2 + shift
           inner == 2 ^ e
<1>6. e \in Nat /\ e =< next
  BY <1>1, <1>4, <1>5
<1>7. inner \in Nat \ {0} /\ inner =< 2 * p
  BY <1>1, <1>6, TwoPower, TwoPowerGrows
<1>8. get_inner_loop_count(count, shift) = inner
  BY DEF get_inner_loop_count, bits
<1> HIDE DEF inner
<1>9. get_outer_loop_count(count, shift) = (2 * p) \div inner
  BY <1>1, <1>8 DEF get_outer_loop_count
<1>10. (2 * p) \div inner \in Nat \ {0}
  <2> DEFINE o == (2 * p) \div inner
             rest == (2 * p) % inner
  <2>1. o \in Int /\ rest \in 0 .. inner - 1 /\ 2 * p = (inner * o) + rest
    BY <1>1, <1>7
  <2> HIDE DEF o, rest
  <2>2. SUFFICES ASSUME o =< 0 PROVE FALSE
    BY <2>1, <2>2 DEF o
  <2>3. inner * o =< 0
    BY <1>7, <2>1, <2>2
  <2> QED
    BY <1>1, <1>7, <2>1, <2>3
<1> QED
  BY <1>1, <1>7, <1>8, <1>9, <1>10

(***************************************************************************)
(* Every stage has a group of diagonals, because the square root that the  *)
(* loops are split by is rounded to no more than the number of diagonals;  *)
(* and its rotations are normalized by the number of slots.                *)
(***************************************************************************)
THEOREM StagesAlwaysSound == StagesSound
<1> SUFFICES ASSUME NEW r \in Request, NEW t \in Transform,
                    NEW s \in 0 .. r.stage_count - 1
             PROVE  /\ DOMAIN StageOf(r, t, s).outer_loop_deltas # {}
                    /\ Deltas(StageOf(r, t, s)) \subseteq 0 .. r.n - 1
  BY DEF StagesSound
<1> DEFINE count == total_radix_count(log_radix_count(t, s, r.stage_count, r.n))
           shift == inner_loop_shift(r)
           jump == rotate_count(t, s, r.stage_count, r.n)
           inner == get_inner_loop_count(count, shift)
           loops == get_outer_loop_count(count, shift)
           first(o) == inner * (o - loops \div 2)
           made == StageOf(r, t, s)
<1>1. /\ made.inner_loop_deltas = [i \in 0 .. inner - 1 |-> (i * jump) % r.n]
      /\ made.outer_loop_deltas = [o \in 0 .. loops - 1 |-> (first(o) * jump) % r.n]
  <2>1. made = make_bootstrap_stage(r.N, r.n, inner_loop_shift(r), r.stage_count, t, s)
    BY StageMade
  <2> QED
    BY <2>1 DEF make_bootstrap_stage
<1>2. r.n \in DOMAIN Log /\ r.stage_count \in 1 .. Log[r.n] /\ r.n \in Int /\ r.n >= 2
  BY RequestAssumption, RequestTyped
<1>3. Log[r.n] \in Int /\ r.stage_count \in Nat \ {0} /\ r.stage_count =< Log[r.n]
  BY <1>2, LogOfSize, RequestTyped
<1>4. log_radix_count(t, s, r.stage_count, r.n) \in Nat \ {0} /\ shift \in {0, 1}
  BY <1>2, <1>3, RadixOfStage DEF inner_loop_shift
<1>5. inner \in Nat \ {0} /\ loops \in Nat \ {0}
  BY <1>4, InnerLoop
<1>6. jump \in Int
  <2>1. s \in 0 .. r.stage_count /\ s + 1 \in 0 .. r.stage_count
    BY <1>3
  <2> DEFINE before == twiddle_index_offset(t, s, r.stage_count, r.n)
             after == twiddle_index_offset(t, s + 1, r.stage_count, r.n)
  <2>2. before \in Nat /\ after \in Nat
    BY <1>2, <1>3, <2>1, OffsetTyped
  <2>3. jump = IF t = "coeff_to_slot" THEN r.n \div 2 ^ after ELSE 2 ^ before
    BY DEF rotate_count
  <2> HIDE DEF before, after, jump
  <2>4. 2 ^ before \in Nat \ {0} /\ 2 ^ after \in Nat \ {0}
    BY <2>2, TwoPower
  <2> QED
    BY <1>2, <2>3, <2>4
<1> HIDE DEF inner, loops, jump, made
<1>7. 0 \in DOMAIN made.outer_loop_deltas
  BY <1>1, <1>5
<1>8. \A i \in 0 .. inner - 1 : (i * jump) % r.n \in 0 .. r.n - 1
  BY <1>2, <1>5, <1>6
<1>9. \A o \in 0 .. loops - 1 : (first(o) * jump) % r.n \in 0 .. r.n - 1
  <2> TAKE o \in 0 .. loops - 1
  <2> DEFINE turn == first(o) * jump
  <2>1. turn \in Int
    BY <1>5, <1>6
  <2> HIDE DEF turn
  <2>2. turn % r.n \in 0 .. r.n - 1
    BY <1>2, <2>1
  <2> QED
    BY <2>2 DEF turn
<1> HIDE DEF first
<1>10. Deltas(made) \subseteq 0 .. r.n - 1
  BY <1>1, <1>8, <1>9 DEF Deltas
<1> QED
  BY <1>7, <1>10 DEF made

-----------------------------------------------------------------------------
(* The level of the rounding. *)

LEMMA BabyLevel ==
    ASSUME NEW level \in Int
    PROVE  baby_level(level)[BABY_DEGREE] = level - 3
<1> DEFINE baby[b \in 1 .. BABY_DEGREE] ==
             IF b = 1 THEN level ELSE Lower(baby[b \div 2], baby[b - b \div 2]) - 1
           Recursive(f) ==
             f = [b \in 1 .. BABY_DEGREE |->
                    IF b = 1 THEN level ELSE Lower(f[b \div 2], f[b - b \div 2]) - 1]
           w == [b \in 1 .. 7 |-> IF b = 1 THEN level
                                  ELSE IF b = 2 THEN level - 1
                                  ELSE IF b \in {3, 4} THEN level - 2 ELSE level - 3]
<1>1. Recursive(w)
  <2>1. \A b \in 2 .. 7 : w[b] = Lower(w[b \div 2], w[b - b \div 2]) - 1
    <3>1. \A b \in 2 .. 7 : b \in {2, 3, 4, 5, 6, 7}
      OBVIOUS
    <3>2. /\ w[1] = level /\ w[2] = level - 1 /\ w[3] = level - 2 /\ w[4] = level - 2
          /\ w[5] = level - 3 /\ w[6] = level - 3 /\ w[7] = level - 3
      OBVIOUS
    <3> HIDE DEF w
    <3> QED
      BY <3>1, <3>2 DEF Lower
  <2>2. w[1] = level
    OBVIOUS
  <2>3. w = [b \in 1 .. 7 |-> IF b = 1 THEN level
                              ELSE Lower(w[b \div 2], w[b - b \div 2]) - 1]
    BY <2>1, <2>2
  <2> QED
    BY <2>3 DEF BABY_DEGREE
<1>2. baby = CHOOSE f : Recursive(f)
  OBVIOUS
<1> HIDE DEF w
<1>3. Recursive(baby)
  BY <1>1, <1>2
<1>4. baby_level(level) = baby
  BY DEF baby_level
<1> HIDE DEF baby
<1>5. baby[1] = level
  BY <1>3 DEF BABY_DEGREE
<1>6. \A b \in 2 .. 7 : baby[b] = Lower(baby[b \div 2], baby[b - b \div 2]) - 1
  BY <1>3 DEF BABY_DEGREE
<1>7. baby[2] = level - 1
  BY <1>5, <1>6 DEF Lower
<1>8. baby[3] = level - 2 /\ baby[4] = level - 2
  BY <1>5, <1>6, <1>7 DEF Lower
<1>9. baby[7] = level - 3
  BY <1>6, <1>8 DEF Lower
<1> QED
  BY <1>4, <1>9 DEF BABY_DEGREE

LEMMA GiantLevel ==
    ASSUME NEW level \in Int
    PROVE  LET giant == giant_level(level)
           IN  giant[1] = level /\ giant[2] = level - 1 /\ giant[3] = level - 2
<1> DEFINE giant[g \in 1 .. GIANT_DEGREE] ==
             IF g = 1 THEN level ELSE giant[g - 1] - 1
           Recursive(f) ==
             f = [g \in 1 .. GIANT_DEGREE |-> IF g = 1 THEN level ELSE f[g - 1] - 1]
           w == [g \in 1 .. 3 |-> level + 1 - g]
<1>1. Recursive(w)
  BY DEF GIANT_DEGREE
<1>2. giant = CHOOSE f : Recursive(f)
  OBVIOUS
<1> HIDE DEF w
<1>3. Recursive(giant)
  BY <1>1, <1>2
<1>4. giant_level(level) = giant
  BY DEF giant_level
<1> HIDE DEF giant
<1>5. giant[1] = level
  BY <1>3 DEF GIANT_DEGREE
<1>6. giant[2] = giant[1] - 1 /\ giant[3] = giant[2] - 1
  BY <1>3 DEF GIANT_DEGREE
<1> QED
  BY <1>4, <1>5, <1>6

(* The sine takes six levels, and the three squarings after it the rest of  *)
(* the nine that the stages leave for it.                                   *)
LEMMA SineLevel ==
    ASSUME NEW level \in Int
    PROVE  /\ sine(level) = level - 6
           /\ apply_double_angle_iterations(sine(level)) = level - levels_for_eval_round
<1>1. baby_level(level)[BABY_DEGREE] = level - 3
  BY BabyLevel
<1>2. LET giant == giant_level(level - 3)
      IN  giant[1] = level - 3 /\ giant[2] = level - 4 /\ giant[3] = level - 5
  BY GiantLevel
<1>3. sine(level) = level - 6
  BY <1>1, <1>2 DEF sine, chebyshev_paterson_stockmeyer, Lower, GIANT_DEGREE
<1> QED
  BY <1>3 DEF apply_double_angle_iterations, iter_count, levels_for_eval_round

-----------------------------------------------------------------------------
(* Keys. *)

LEMMA LevelOfPart ==
    ASSUME EngineSuffices, NEW r \in Request, NEW p \in 0 .. 2 * r.stage_count
    PROVE  made_for(r, p).level =
             IF p = 0 THEN MaxLevel - 1
             ELSE IF p =< r.stage_count THEN MaxLevel - p ELSE MaxLevel - p - 9
<1> r.stage_count \in Int /\ MaxLevel \in Int
  BY RequestTyped, LevelsTyped
<1>1. CASE p = 0
  BY <1>1, LevelsTyped DEF made_for
<1>2. CASE p # 0 /\ p =< r.stage_count
  <2>1. p - 1 \in 0 .. r.stage_count - 1 /\ "coeff_to_slot" \in Transform
    BY <1>2 DEF Transform
  <2>2. made_for(r, p).level = StageOf(r, "coeff_to_slot", p - 1).level
    BY <1>2 DEF made_for
  <2> QED
    BY <1>2, <2>1, <2>2, LevelOfStage, StageLevel
<1>3. CASE p # 0 /\ ~(p =< r.stage_count)
  <2>1. /\ p - 1 - r.stage_count \in 0 .. r.stage_count - 1
        /\ "slot_to_coeff" \in Transform
    BY <1>3 DEF Transform
  <2>2. made_for(r, p).level = StageOf(r, "slot_to_coeff", p - 1 - r.stage_count).level
    BY <1>3 DEF made_for
  <2> QED
    BY <1>3, <2>1, <2>2, LevelOfStage, StageLevel
<1> QED
  BY <1>1, <1>2, <1>3

(* The context of a delta has at least the level of every part that rotates *)
(* by it, because it was made for the first of them.                        *)
LEMMA ContextsServe ==
    ASSUME EngineSuffices, NEW r \in Request, NEW p \in 0 .. 2 * r.stage_count,
           NEW d \in made_for(r, p).deltas, d # 0
    PROVE  /\ d \in DOMAIN create_bootstrap_key(r)
           /\ create_bootstrap_key(r)[d] \in Int
           /\ made_for(r, p).level =< create_bootstrap_key(r)[d]
<1> DEFINE parts == 0 .. 2 * r.stage_count
           serving == {q \in parts : d \in made_for(r, q).deltas}
           first == make_rotation_context(serving)
<1> r.stage_count \in Int /\ MaxLevel \in Int
  BY RequestTyped, LevelsTyped
<1>1. serving \in SUBSET Nat /\ p \in serving
  OBVIOUS
<1>2. \E m \in serving : \A q \in serving : m =< q
  BY <1>1, LeastOfNaturals
<1> HIDE DEF serving
<1>3. first \in serving /\ \A q \in serving : first =< q
  BY <1>2 DEF make_rotation_context
<1>4. first \in parts /\ first =< p
  BY <1>1, <1>3 DEF serving
<1>5. /\ made_for(r, first).level \in Int
      /\ made_for(r, p).level =< made_for(r, first).level
  <2> HIDE DEF first
  <2> QED
    BY <1>4, LevelOfPart
<1>6. d \in (UNION {made_for(r, q).deltas : q \in parts}) \ {0}
  OBVIOUS
<1>7. /\ d \in DOMAIN create_bootstrap_key(r)
      /\ create_bootstrap_key(r)[d] = made_for(r, first).level
  BY <1>6 DEF create_bootstrap_key, serving
<1> QED
  BY <1>5, <1>7

(* A rotation key decomposes a delta into powers of two, and has them all. *)
LEMMA RotationKeyServes ==
    ASSUME EngineSuffices, KeyInv, pc # "idle", Accepted(request),
           request.key = "rotation", NEW d \in Int, d < request.N \div 2,
           NEW level \in Int, level =< MaxLevel - 1
    PROVE  HasKey(d, level)
<1>1. request \in Request /\ contexts = create_rotation_key(request)
  BY DEF KeyInv
<1>2. /\ request.rotation \in Int /\ request.rotation >= MaxLevel - 1
      /\ request.N \in Int /\ MaxLevel \in Int
  BY <1>1, RequestTyped, LevelsTyped DEF Accepted
<1>3. ASSUME NEW b \in PowersOfTwo(1, d)
      PROVE  b \in DOMAIN contexts /\ level =< contexts[b]
  <2>1. b \in 1 .. d /\ b \in {2 ^ k : k \in 0 .. MaxLog}
    BY <1>3 DEF PowersOfTwo
  <2>2. b \in PowersOfTwo(1, request.N \div 2 - 1)
    BY <1>2, <2>1 DEF PowersOfTwo
  <2> QED
    BY <1>1, <1>2, <2>2 DEF create_rotation_key
<1> QED
  BY <1>3 DEF HasKey

(* Each rotation of a stage, at the level of the stage or below. *)
LEMMA StageHasKey ==
    ASSUME EngineSuffices, KeyInv, pc # "idle", Accepted(request),
           NEW t \in Transform, NEW s \in 0 .. request.stage_count - 1,
           NEW d \in Deltas(StageOf(request, t, s)),
           NEW level \in Int, level =< stage_level(request.stage_count, t, s)
    PROVE  HasKey(d, level)
<1>1. request \in Request /\ KeyAccepted(request)
  BY DEF KeyInv
<1> DEFINE r == request
<1>2. /\ r.stage_count \in Int /\ r.stage_count >= 1 /\ MaxLevel \in Int
      /\ r.N \in Int /\ r.n \in Int /\ r.n =< r.N \div 2
  BY <1>1, RequestTyped, LevelsTyped
<1>3. d \in 0 .. r.n - 1
  BY <1>1, StagesAlwaysSound DEF StagesSound
<1>4. /\ stage_level(r.stage_count, t, s) \in Int
      /\ stage_level(r.stage_count, t, s) =< MaxLevel - 1
  BY <1>1, <1>2, StageLevel DEF Transform
<1>5. CASE r.key = "rotation"
  <2>1. d \in Int /\ d < r.N \div 2 /\ level =< MaxLevel - 1
    BY <1>2, <1>3, <1>4
  <2> QED
    BY <1>5, <2>1, RotationKeyServes
<1>6. CASE r.key # "rotation" /\ d # 0
  <2> DEFINE p == IF t = "coeff_to_slot" THEN s + 1 ELSE s + 1 + r.stage_count
  <2>1. p \in 0 .. 2 * r.stage_count
    BY <1>2
  <2>2. made_for(r, p).deltas = Deltas(StageOf(r, t, s))
    BY <1>2 DEF made_for, Transform
  <2>3. made_for(r, p).level = stage_level(r.stage_count, t, s)
    <3>1. made_for(r, p).level = StageOf(r, t, s).level
      BY <1>2 DEF made_for, Transform
    <3> QED
      BY <1>1, <3>1, LevelOfStage
  <2> HIDE DEF p
  <2>4. /\ d \in DOMAIN create_bootstrap_key(r)
        /\ create_bootstrap_key(r)[d] \in Int
        /\ made_for(r, p).level =< create_bootstrap_key(r)[d]
    BY <1>1, <1>6, <2>1, <2>2, ContextsServe
  <2>5. level =< create_bootstrap_key(r)[d]
    BY <1>4, <2>3, <2>4
  <2> QED
    BY <1>6, <2>4, <2>5 DEF HasKey, KeyInv
<1>7. CASE r.key # "rotation" /\ d = 0
  BY <1>7 DEF HasKey
<1> QED
  BY <1>5, <1>6, <1>7

(* Each partial sum. *)
LEMMA PartialSumHasKey ==
    ASSUME EngineSuffices, KeyInv, PartialSumInv, pc = "partial_sum",
           partial_delta < request.N \div 2
    PROVE  HasKey(partial_delta, raised.level)
<1>1. request \in Request /\ Accepted(request) /\ pc # "idle"
  BY DEF KeyInv
<1>2. /\ raised.level = MaxLevel - 1 /\ MaxLevel \in Int
      /\ partial_delta \in {2 ^ k : k \in 0 .. MaxLog}
      /\ partial_delta \in Int /\ partial_delta >= request.n
  BY LevelsTyped DEF PartialSumInv
<1>3. request.N \in Int /\ request.n \in Int /\ request.stage_count \in Int
        /\ request.stage_count >= 1
  BY <1>1, RequestTyped
<1>4. CASE request.key = "rotation"
  BY <1>1, <1>2, <1>4, RotationKeyServes
<1>5. CASE request.key # "rotation"
  <2>1. /\ partial_delta \in made_for(request, 0).deltas
        /\ made_for(request, 0).level = MaxLevel - 1
    <3>1. partial_delta \in make_partial_sum_deltas(request)
      BY <1>2, <1>3 DEF make_partial_sum_deltas, PowersOfTwo
    <3> QED
      BY <3>1, LevelsTyped DEF made_for
  <2>2. partial_delta # 0 /\ 0 \in 0 .. 2 * request.stage_count
    BY <1>1, <1>2, <1>3, RequestTyped
  <2>3. /\ partial_delta \in DOMAIN create_bootstrap_key(request)
        /\ raised.level =< create_bootstrap_key(request)[partial_delta]
    BY <1>1, <1>2, <2>1, <2>2, ContextsServe
  <2> QED
    BY <1>1, <1>5, <2>3 DEF HasKey, KeyInv
<1> QED
  BY <1>4, <1>5

(* What the invariant says of keys. *)
LEMMA InvariantSuffices ==
    ASSUME EngineSuffices, BootstrapInv
    PROVE  KeysSuffice
<1> USE DEF BootstrapInv
<1>1. pc = "partial_sum" /\ partial_delta < request.N \div 2 =>
        HasKey(partial_delta, raised.level)
  BY PartialSumHasKey
<1>2. ASSUME pc \in {"stage", "outer"}, stage < request.stage_count
      PROVE  /\ request \in Request /\ Accepted(request) /\ pc # "idle"
             /\ transform \in Transform /\ stage \in 0 .. request.stage_count - 1
             /\ current.level = stage_level(request.stage_count, transform, stage)
             /\ current.level \in Int /\ current.level > 0
             /\ Matrix.level = current.level
  <2>1. /\ request \in Request /\ Accepted(request) /\ pc # "idle"
        /\ transform \in Transform /\ stage \in 0 .. request.stage_count
        /\ current.level = stage_level(request.stage_count, transform, stage)
    BY <1>2 DEF KeyInv, StageInv
  <2>2. /\ request.stage_count \in Int /\ MaxLevel \in Int
        /\ 2 * request.stage_count + 9 < MaxLevel
    BY <2>1, RequestTyped, LevelsTyped
  <2>3. stage \in 0 .. request.stage_count - 1
    BY <1>2, <2>1, <2>2
  <2>4. Matrix.level = current.level
    BY <2>1, <2>3, LevelOfStage DEF Matrix
  <2>5. stage_level(request.stage_count, transform, stage)
          \in {MaxLevel - 1 - stage, MaxLevel - 1 - stage - request.stage_count - 9}
    BY <2>1, StageLevel DEF Transform
  <2> QED
    BY <2>1, <2>2, <2>3, <2>4, <2>5
<1>3. ASSUME pc = "stage", stage < request.stage_count
      PROVE  /\ current.level > 0
             /\ \A i \in DOMAIN Matrix.inner_loop_deltas :
                   HasKey(Matrix.inner_loop_deltas[i], current.level)
  <2>1. ASSUME NEW i \in DOMAIN Matrix.inner_loop_deltas
        PROVE  Matrix.inner_loop_deltas[i] \in Deltas(StageOf(request, transform, stage))
    BY DEF Deltas, Matrix
  <2>2. ASSUME NEW i \in DOMAIN Matrix.inner_loop_deltas
        PROVE  HasKey(Matrix.inner_loop_deltas[i], current.level)
    BY <1>2, <1>3, <2>1, StageHasKey
  <2> QED
    BY <1>2, <1>3, <2>2
<1>4. ASSUME pc = "outer"
      PROVE  /\ current.level = Matrix.level
             /\ \A o \in DOMAIN Matrix.outer_loop_deltas :
                   HasKey(Matrix.outer_loop_deltas[o], Matrix.level - 1)
  <2>1. stage < request.stage_count
    BY <1>4 DEF StageInv
  <2>2. ASSUME NEW o \in DOMAIN Matrix.outer_loop_deltas
        PROVE  HasKey(Matrix.outer_loop_deltas[o], Matrix.level - 1)
    <3>1. Matrix.outer_loop_deltas[o] \in Deltas(StageOf(request, transform, stage))
      BY DEF Deltas, Matrix
    <3>2. Matrix.level - 1 \in Int
            /\ Matrix.level - 1 =< stage_level(request.stage_count, transform, stage)
      BY <1>2, <1>4, <2>1
    <3> QED
      BY <1>2, <1>4, <2>1, <3>1, <3>2, StageHasKey
  <2> QED
    BY <1>2, <1>4, <2>1, <2>2
<1>5. pc = "stage" /\ stage = request.stage_count /\ transform = "coeff_to_slot" =>
        current.level =< request.conjugation
  <2> SUFFICES ASSUME pc = "stage", stage = request.stage_count,
                      transform = "coeff_to_slot"
               PROVE  current.level =< request.conjugation
    OBVIOUS
  <2>1. /\ request \in Request /\ Accepted(request)
        /\ current.level = stage_level(request.stage_count, transform, stage)
    BY DEF KeyInv, StageInv
  <2>2. request.stage_count \in Int /\ MaxLevel \in Int /\ request.conjugation \in Int
    BY <2>1, RequestTyped, LevelsTyped
  <2>3. current.level = MaxLevel - 1 - request.stage_count
    BY <2>1, <2>2, StageLevel
  <2> QED
    BY <2>1, <2>2, <2>3 DEF Accepted
<1>6. pc = "round_real" =>
        real.level - 1 =< request.relinearization /\ sine(real.level) >= iter_count
  <2> SUFFICES ASSUME pc = "round_real"
               PROVE  /\ real.level - 1 =< request.relinearization
                      /\ sine(real.level) >= iter_count
    OBVIOUS
  <2>1. request \in Request /\ Accepted(request)
    BY DEF KeyInv
  <2>2. /\ request.stage_count \in Int /\ request.stage_count >= 1 /\ MaxLevel \in Int
        /\ request.relinearization \in Int /\ 2 * request.stage_count + 9 < MaxLevel
    BY <2>1, RequestTyped, LevelsTyped
  <2>3. real.level = MaxLevel - 1 - request.stage_count
    BY LevelsTyped DEF RoundInv
  <2>4. sine(real.level) = real.level - 6
    BY <2>2, <2>3, SineLevel
  <2> QED
    BY <2>1, <2>2, <2>3, <2>4 DEF Accepted, iter_count
<1> QED
  BY <1>1, <1>3, <1>4, <1>5, <1>6 DEF KeysSuffice

-----------------------------------------------------------------------------
(* The invariant. *)

LEMMA InvariantInit == Init => BootstrapInv
BY DEF Init, BootstrapInv, KeyInv, PartialSumInv, StageInv, RoundInv

LEMMA ModRaiseKeepsInvariant ==
    ASSUME EngineSuffices, BootstrapInv, ModRaise
    PROVE  BootstrapInv'
<1>1. request \in Request /\ request' = request
  BY DEF ModRaise, BootstrapInv, KeyInv
<1>2. raised'.level = get_max_key_switching_level
  BY DEF ModRaise, mod_raise_, multiply_integer, Text
<1>3. partial_delta' = request.n /\ request.n \in Int
        /\ request.n \in {2 ^ k : k \in 0 .. MaxLog}
  BY <1>1, RequestTyped DEF ModRaise
<1>4. pc' = "partial_sum"
  BY DEF ModRaise
<1>5. KeyInv'
  BY <1>4 DEF ModRaise, BootstrapInv, KeyInv, Accepted, KeyAccepted
<1>6. PartialSumInv'
  BY <1>1, <1>2, <1>3 DEF PartialSumInv
<1> QED
  BY <1>4, <1>5, <1>6 DEF BootstrapInv, StageInv, RoundInv

(* Doubling a power of two gives one again, as long as it is below a size. *)
LEMMA PartialSumKeepsInvariant ==
    ASSUME EngineSuffices, BootstrapInv, PartialSum
    PROVE  BootstrapInv'
<1>1. request \in Request /\ request' = request /\ pc = "partial_sum" /\ pc' = pc
  BY DEF PartialSum, BootstrapInv, KeyInv
<1>2. /\ raised.level = MaxLevel - 1 /\ MaxLevel \in Int
      /\ get_max_key_switching_level = MaxLevel - 1
      /\ partial_delta \in Int /\ partial_delta >= request.n
      /\ partial_delta < request.N \div 2
      /\ partial_delta \in {2 ^ k : k \in 0 .. MaxLog}
  BY <1>1, LevelsTyped DEF PartialSum, BootstrapInv, PartialSumInv
<1>3. raised'.level = MaxLevel - 1
  BY <1>2 DEF PartialSum, add, rotate, Text, Lower
<1>4. PICK k \in 0 .. MaxLog : partial_delta = 2 ^ k
  BY <1>2
<1>5. /\ request.N \in Int /\ request.n \in Int /\ request.n >= 2
      /\ request.N =< 2 ^ MaxLog /\ MaxLog \in Nat
  BY <1>1, RequestTyped, FieldAssumption
<1>6. k < MaxLog
  <2>1. SUFFICES ASSUME k = MaxLog PROVE FALSE
    BY <1>5, <2>1
  <2>2. partial_delta >= request.N
    BY <1>4, <1>5, <2>1
  <2> QED
    BY <1>2, <1>5, <2>2
<1>7. partial_delta' = 2 ^ (k + 1) /\ k + 1 \in 0 .. MaxLog
  BY <1>4, <1>5, <1>6, TwoPower DEF PartialSum
<1>8. partial_delta' = 2 * partial_delta
  BY DEF PartialSum
<1>9. PartialSumInv'
  <2>1. partial_delta' \in Int /\ partial_delta' >= request.n
    BY <1>2, <1>5, <1>8
  <2>2. partial_delta' \in {2 ^ j : j \in 0 .. MaxLog}
    BY <1>7
  <2> QED
    BY <1>1, <1>2, <1>3, <2>1, <2>2 DEF PartialSumInv, get_max_key_switching_level
<1>10. KeyInv'
  BY <1>1 DEF PartialSum, BootstrapInv, KeyInv, Accepted, KeyAccepted
<1> QED
  BY <1>1, <1>9, <1>10 DEF BootstrapInv, StageInv, RoundInv

(* The first stage meets the level of the raised text. *)
LEMMA EndPartialSumKeepsInvariant ==
    ASSUME EngineSuffices, BootstrapInv, EndPartialSum
    PROVE  BootstrapInv'
<1>1. /\ request \in Request /\ request' = request /\ pc = "partial_sum" /\ pc' = "stage"
      /\ stage' = 0 /\ transform' = "coeff_to_slot" /\ current' = raised
  BY DEF EndPartialSum, EnterTransform, BootstrapInv, KeyInv
<1>2. current'.level = MaxLevel - 1 /\ MaxLevel \in Int
  BY <1>1, LevelsTyped DEF BootstrapInv, PartialSumInv
<1>3. stage_level(request.stage_count, "coeff_to_slot", 0) = MaxLevel - 1
  BY <1>1, <1>2, StageLevel
<1>4. StageInv'
  BY <1>1, <1>2, <1>3, RequestTyped DEF StageInv, Transform
<1>5. KeyInv'
  BY <1>1 DEF EndPartialSum, EnterTransform, BootstrapInv, KeyInv, Accepted, KeyAccepted
<1> QED
  BY <1>1, <1>4, <1>5 DEF BootstrapInv, PartialSumInv, RoundInv

(* A stage keeps the level of the text until all its groups are added up. *)
LEMMA RotateKeepsInvariant ==
    ASSUME BootstrapInv, RotateBatch \/ RotateDecomposed
    PROVE  BootstrapInv'
<1>1. /\ pc = "stage" /\ pc' = "outer" /\ stage < request.stage_count
      /\ outer' = {} /\ outer_sum' = NoText
      /\ UNCHANGED <<request, contexts, transform, stage, current>>
  BY DEF RotateBatch, RotateDecomposed
<1>2. StageInv'
  BY <1>1 DEF BootstrapInv, StageInv
<1>3. KeyInv'
  BY <1>1 DEF BootstrapInv, KeyInv, Accepted, KeyAccepted
<1> QED
  BY <1>1, <1>2, <1>3 DEF BootstrapInv, PartialSumInv, RoundInv

LEMMA OuterLoopKeepsInvariant ==
    ASSUME EngineSuffices, BootstrapInv, OuterLoop
    PROVE  BootstrapInv'
<1>1. /\ pc = "outer" /\ pc' = "outer" /\ stage < request.stage_count
      /\ request \in Request /\ transform \in Transform
      /\ stage \in 0 .. request.stage_count
      /\ UNCHANGED <<request, contexts, transform, stage, current, rotated>>
  BY DEF OuterLoop, BootstrapInv, StageInv, KeyInv
<1>2. Matrix.level \in Int
  <2>1. stage \in 0 .. request.stage_count - 1 /\ stage \in Int
          /\ request.stage_count \in Int /\ MaxLevel \in Int
    BY <1>1, RequestTyped, LevelsTyped
  <2>2. Matrix.level = stage_level(request.stage_count, transform, stage)
    BY <1>1, <2>1, LevelOfStage DEF Matrix
  <2> QED
    BY <1>1, <2>1, <2>2, StageLevel DEF Transform
<1>3. PICK o \in Pending :
        /\ outer' = outer \cup process_order(request, Matrix, o)
        /\ outer_sum' = AddedTo(outer_sum, Turned(InnerSum(process_order(request, Matrix, o)),
                                                  Matrix.outer_loop_deltas[o]))
  BY DEF OuterLoop
<1>4. outer' # {}
  BY <1>3 DEF process_order, Pending
<1> DEFINE turned == Turned(InnerSum(process_order(request, Matrix, o)),
                            Matrix.outer_loop_deltas[o])
<1>5. turned.level = Matrix.level - 1
  BY DEF Turned, InnerSum, rotate, ntt_rotate, Text
<1> HIDE DEF turned
<1>6. outer_sum'.level = Matrix.level - 1
  <2>1. outer_sum' = AddedTo(outer_sum, turned)
    BY <1>3 DEF turned
  <2>2. CASE outer_sum = NoText
    BY <1>5, <2>1, <2>2 DEF AddedTo
  <2>3. CASE outer_sum # NoText
    <3>1. outer_sum.level = Matrix.level - 1
      BY <1>1, <2>3 DEF BootstrapInv, StageInv
    <3>2. outer_sum' = add(outer_sum, turned)
      BY <2>1, <2>3 DEF AddedTo
    <3> QED
      BY <1>2, <1>5, <3>1, <3>2 DEF add, Text, Lower
  <2> QED
    BY <2>2, <2>3
<1>7. Matrix' = Matrix
  BY <1>1 DEF Matrix, StageOf
<1>8. StageInv'
  BY <1>1, <1>4, <1>6, <1>7 DEF BootstrapInv, StageInv
<1>9. KeyInv'
  BY <1>1 DEF BootstrapInv, KeyInv, Accepted, KeyAccepted
<1> QED
  BY <1>1, <1>8, <1>9 DEF BootstrapInv, PartialSumInv, RoundInv

(* Every stage has a group, so its sum is a text, one level below. *)
LEMMA EndStageKeepsInvariant ==
    ASSUME EngineSuffices, BootstrapInv, EndStage
    PROVE  BootstrapInv'
<1>1. /\ pc = "outer" /\ pc' = "stage" /\ stage < request.stage_count
      /\ stage' = stage + 1 /\ current' = outer_sum /\ Pending = {}
      /\ request \in Request /\ transform \in Transform
      /\ stage \in 0 .. request.stage_count
      /\ KeyAccepted(request) /\ Accepted(request)
      /\ UNCHANGED <<request, contexts, transform>>
  BY DEF EndStage, BootstrapInv, StageInv, KeyInv
<1>2. request.stage_count \in Int /\ MaxLevel \in Int /\ stage \in Int
  BY <1>1, RequestTyped, LevelsTyped
<1>3. stage \in 0 .. request.stage_count - 1 /\ stage' \in 0 .. request.stage_count
  BY <1>1, <1>2
<1>4. outer # {}
  <2>1. DOMAIN Matrix.outer_loop_deltas # {}
    BY <1>1, <1>3, StagesAlwaysSound DEF StagesSound, Matrix
  <2> QED
    BY <1>1, <2>1 DEF Pending
<1>5. current'.level = stage_level(request.stage_count, transform, stage) - 1
  <2>1. outer_sum.level = Matrix.level - 1
    BY <1>1, <1>4 DEF BootstrapInv, StageInv
  <2>2. Matrix.level = stage_level(request.stage_count, transform, stage)
    BY <1>1, <1>3, LevelOfStage DEF Matrix
  <2> QED
    BY <1>1, <2>1, <2>2
<1>6. current'.level = stage_level(request.stage_count, transform, stage')
  <2>1. CASE transform = "coeff_to_slot"
    BY <1>1, <1>2, <1>5, <2>1, StageLevel
  <2>2. CASE transform = "slot_to_coeff"
    BY <1>1, <1>2, <1>5, <2>2, StageLevel
  <2> QED
    BY <1>1, <2>1, <2>2 DEF Transform
<1>7. StageInv'
  BY <1>1, <1>3, <1>6 DEF StageInv
<1>8. KeyInv'
  BY <1>1 DEF BootstrapInv, KeyInv, Accepted, KeyAccepted
<1> QED
  BY <1>1, <1>7, <1>8 DEF BootstrapInv, PartialSumInv, RoundInv

LEMMA SplitPartsKeepsInvariant ==
    ASSUME EngineSuffices, BootstrapInv, SplitParts
    PROVE  BootstrapInv'
<1>1. /\ pc = "stage" /\ pc' = "round_real" /\ stage = request.stage_count
      /\ transform = "coeff_to_slot" /\ request \in Request
      /\ UNCHANGED <<request, contexts>>
  BY DEF SplitParts, BootstrapInv, KeyInv
<1>2. current.level = MaxLevel - 1 - request.stage_count
        /\ MaxLevel \in Int /\ request.stage_count \in Int
  <2>1. request.stage_count \in Int /\ MaxLevel \in Int
    BY <1>1, RequestTyped, LevelsTyped
  <2>2. current.level = stage_level(request.stage_count, transform, stage)
    BY <1>1 DEF BootstrapInv, StageInv
  <2> QED
    BY <1>1, <2>1, <2>2, StageLevel
<1>3. real'.level = current.level /\ imag'.level = current.level
  BY DEF SplitParts, add, subtract, rotate, multiply_imaginary, Text, Lower
<1>4. RoundInv'
  BY <1>1, <1>2, <1>3, LevelsTyped DEF RoundInv, get_max_key_switching_level
<1>5. KeyInv'
  BY <1>1 DEF BootstrapInv, KeyInv, Accepted, KeyAccepted
<1> QED
  BY <1>1, <1>4, <1>5 DEF BootstrapInv, PartialSumInv, StageInv

LEMMA LevelOfRound ==
    ASSUME NEW x, x.level \in Int
    PROVE  round(x).level = x.level - levels_for_eval_round
<1>1. modulo(x).level = x.level - levels_for_eval_round
  BY SineLevel DEF modulo, Text
<1>2. multiply_integer(x, ROUND_BOUND).level = x.level
  BY DEF multiply_integer, Text
<1>3. \A y, z : subtract(y, z).level = Lower(y.level, z.level)
  BY DEF subtract, Text
<1> QED
  BY <1>1, <1>2, <1>3 DEF round, Lower, levels_for_eval_round

LEMMA RoundRealKeepsInvariant ==
    ASSUME EngineSuffices, BootstrapInv, RoundReal
    PROVE  BootstrapInv'
<1>1. /\ pc = "round_real" /\ pc' = "round_imag" /\ request \in Request
      /\ real' = round(real) /\ UNCHANGED <<request, contexts, imag>>
  BY DEF RoundReal, BootstrapInv, KeyInv
<1> DEFINE level == get_max_key_switching_level - request.stage_count
<1>2. level \in Int
  BY <1>1, RequestTyped, LevelsTyped
<1>3. real.level = level /\ imag.level = level
  BY <1>1 DEF BootstrapInv, RoundInv
<1>4. real'.level = level - levels_for_eval_round
  BY <1>1, <1>2, <1>3, LevelOfRound
<1>5. RoundInv'
  BY <1>1, <1>3, <1>4 DEF RoundInv
<1>6. KeyInv'
  BY <1>1 DEF BootstrapInv, KeyInv, Accepted, KeyAccepted
<1> QED
  BY <1>1, <1>5, <1>6 DEF BootstrapInv, PartialSumInv, StageInv

(* The second transform begins where the levels of its stages do. *)
LEMMA RoundImagKeepsInvariant ==
    ASSUME EngineSuffices, BootstrapInv, RoundImag
    PROVE  BootstrapInv'
<1>1. /\ pc = "round_imag" /\ pc' = "stage" /\ request \in Request
      /\ imag' = round(imag) /\ stage' = 0 /\ transform' = "slot_to_coeff"
      /\ current' = add(real, multiply_imaginary(request, imag', 1))
      /\ UNCHANGED <<request, contexts>>
  BY DEF RoundImag, EnterTransform, BootstrapInv, KeyInv
<1> DEFINE level == MaxLevel - 1 - request.stage_count
<1>2. level \in Int /\ MaxLevel \in Int /\ request.stage_count \in Int
        /\ request.stage_count >= 1
  BY <1>1, RequestTyped, LevelsTyped
<1>3. real.level = level - 9 /\ imag.level = level
  BY <1>1, LevelsTyped DEF BootstrapInv, RoundInv, levels_for_eval_round
<1> HIDE DEF level
<1>4. imag'.level = level - 9
  BY <1>1, <1>2, <1>3, LevelOfRound DEF levels_for_eval_round
<1>5. current'.level = level - 9
  BY <1>1, <1>2, <1>3, <1>4 DEF add, multiply_imaginary, Text, Lower
<1>6. stage_level(request.stage_count, "slot_to_coeff", 0) = level - 9
  BY <1>1, <1>2, StageLevel DEF level
<1>7. StageInv'
  BY <1>1, <1>2, <1>5, <1>6 DEF StageInv, Transform
<1>8. KeyInv'
  BY <1>1 DEF BootstrapInv, KeyInv, Accepted, KeyAccepted
<1> QED
  BY <1>1, <1>7, <1>8 DEF BootstrapInv, PartialSumInv, RoundInv

LEMMA InvariantNext ==
    ASSUME EngineSuffices, BootstrapInv, [Next]_vars
    PROVE  BootstrapInv'
<1>1. ASSUME NEW r \in Request, CreateKey(r) PROVE BootstrapInv'
  BY <1>1 DEF CreateKey, BootstrapInv, KeyInv, PartialSumInv, StageInv, RoundInv,
              KeyAccepted
<1>2. ASSUME UNCHANGED vars PROVE BootstrapInv'
  BY <1>2 DEF vars, BootstrapInv, KeyInv, PartialSumInv, StageInv, RoundInv,
              KeyAccepted, Accepted, Matrix, StageOf
<1>3. ASSUME NEW r \in Request, RefuseKey(r) PROVE BootstrapInv'
  BY <1>2, <1>3 DEF RefuseKey
<1>4. ASSUME Refuse \/ Return PROVE BootstrapInv'
  <2>1. /\ pc # "idle" /\ pc' = "returned" /\ UNCHANGED <<request, contexts>>
    BY <1>4 DEF Refuse, Return
  <2> QED
    BY <2>1 DEF BootstrapInv, KeyInv, PartialSumInv, StageInv, RoundInv, KeyAccepted
<1>5. ASSUME Forget PROVE BootstrapInv'
  BY <1>5 DEF Forget, BootstrapInv, KeyInv, PartialSumInv, StageInv, RoundInv
<1> QED
  BY <1>1, <1>2, <1>3, <1>4, <1>5, ModRaiseKeepsInvariant, PartialSumKeepsInvariant,
     EndPartialSumKeepsInvariant, RotateKeepsInvariant, OuterLoopKeepsInvariant,
     EndStageKeepsInvariant, SplitPartsKeepsInvariant, RoundRealKeepsInvariant,
     RoundImagKeepsInvariant DEF Next

(***************************************************************************)
(* A bootstrap that was accepted finds every key that it needs, at the     *)
(* level at which it needs it, and never runs out of levels: for all sizes *)
(* of texts, numbers of stages, kinds of keys and starting levels.  The    *)
(* hypothesis is about the constants: the engine uses all its primes and   *)
(* has more levels than the stages and the two roundings spend, which the  *)
(* code does not check.                                                    *)
(***************************************************************************)
THEOREM KeysAlwaysSuffice ==
    EngineSuffices => (Spec => []KeysSuffice)
<1> SUFFICES ASSUME EngineSuffices PROVE Spec => []KeysSuffice
  OBVIOUS
<1>1. Init => BootstrapInv
  BY InvariantInit
<1>2. BootstrapInv /\ [Next]_vars => BootstrapInv'
  BY InvariantNext
<1>3. BootstrapInv => KeysSuffice
  BY InvariantSuffices
<1> QED
  BY <1>1, <1>2, <1>3, PTL DEF Spec

-----------------------------------------------------------------------------
(* The levels that are spent. *)

(* Sums with itself, stages and roundings leave the raised text at its      *)
(* level; the subtraction at the end lowers it to the level of the stages.  *)
LEMMA RaisedKept ==
    ASSUME EngineSuffices, BootstrapInv, RaisedInv, [Next]_vars
    PROVE  RaisedInv'
<1> USE DEF RaisedInv, LevelsSpent
<1>1. CASE UNCHANGED vars
  BY <1>1 DEF vars
<1>2. ASSUME NEW r \in Request, CreateKey(r) \/ RefuseKey(r)
      PROVE  RaisedInv'
  BY <1>2 DEF CreateKey, RefuseKey, vars
<1>3. CASE Refuse
  BY <1>3 DEF Refuse
<1>4. CASE ModRaise
  BY <1>4 DEF ModRaise, mod_raise_, multiply_integer, Text
<1>5. CASE PartialSum
  <2>1. raised.level = get_max_key_switching_level /\ raised'.level = raised.level
    BY <1>5 DEF PartialSum, add, rotate, Text, Lower
  <2> QED
    BY <1>5, <2>1 DEF PartialSum
<1>6. CASE EndPartialSum
  BY <1>6 DEF EndPartialSum, EnterTransform
<1>7. CASE RotateBatch \/ RotateDecomposed
  BY <1>7 DEF RotateBatch, RotateDecomposed
<1>8. CASE OuterLoop
  BY <1>8 DEF OuterLoop
<1>9. CASE EndStage
  BY <1>9 DEF EndStage
<1>10. CASE SplitParts \/ RoundReal \/ RoundImag
  BY <1>10 DEF SplitParts, RoundReal, RoundImag, EnterTransform
<1>11. CASE Return
  <2>1. /\ pc = "stage" /\ stage = request.stage_count /\ transform = "slot_to_coeff"
        /\ request \in Request /\ request' = request /\ pc' = "returned"
    BY <1>11 DEF Return, BootstrapInv, KeyInv
  <2>2. /\ raised.level = MaxLevel - 1 /\ MaxLevel \in Int
        /\ get_max_key_switching_level = MaxLevel - 1
        /\ request.stage_count \in Int /\ request.stage_count >= 1
        /\ 2 * request.stage_count + 9 < MaxLevel
    BY <2>1, LevelsTyped, RequestTyped
  <2>3. current.level = stage_level(request.stage_count, "slot_to_coeff", stage)
    BY <2>1 DEF BootstrapInv, StageInv
  <2>4. current.level = MaxLevel - 1 - request.stage_count - request.stage_count - 9
    BY <2>1, <2>2, <2>3, StageLevel
  <2>5. raised'.level = Lower(raised.level, current.level)
    BY <1>11 DEF Return, multiply_integer, subtract, Text
  <2>6. raised'.level = current.level
    BY <2>2, <2>4, <2>5 DEF Lower
  <2> QED
    BY <2>1, <2>2, <2>4, <2>6 DEF levels_for_eval_round, get_max_key_switching_level
<1>12. CASE Forget
  BY <1>12 DEF Forget
<1> QED
  BY <1>1, <1>2, <1>3, <1>4, <1>5, <1>6, <1>7, <1>8, <1>9, <1>10, <1>11, <1>12 DEF Next

(***************************************************************************)
(* A bootstrap spends a level for each stage of the two transforms and     *)
(* those of the rounding, however its text and its stages are shaped; with *)
(* the levels of EngineSuffices that never takes it below level zero.      *)
(***************************************************************************)
THEOREM LevelsAlwaysSpent ==
    EngineSuffices => (Spec => []LevelsSpent)
<1> SUFFICES ASSUME EngineSuffices PROVE Spec => []LevelsSpent
  OBVIOUS
<1>1. Init => BootstrapInv /\ RaisedInv
  BY InvariantInit DEF Init, RaisedInv, LevelsSpent
<1>2. BootstrapInv /\ RaisedInv /\ [Next]_vars => (BootstrapInv /\ RaisedInv)'
  BY InvariantNext, RaisedKept
<1>3. RaisedInv => LevelsSpent
  BY DEF RaisedInv
<1> QED
  BY <1>1, <1>2, <1>3, PTL DEF Spec
=============================================================================
