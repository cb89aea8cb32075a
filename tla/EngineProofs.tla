---------------------------- MODULE EngineProofs ----------------------------
(***************************************************************************)
(* Proofs about Engine, for all primes, numbers of levels, scales and slots: *)
(* a text declares the scale that its data has and it is the one of its     *)
(* level; each function of the core gets operands that fit; a call throws   *)
(* before it makes anything; no text is lost or deleted twice; and no       *)
(* sequence of calls ends in a text of no use.                              *)
(*                                                                          *)
(* The argument.  A text is Good if it is at a level, its scale is that of  *)
(* the level, and it is below the top level if it has three polynomials.    *)
(* That all texts of the caller are Good is inductive (EngineInv): every    *)
(* call, from a workspace with Good arguments, throws at once or delivers   *)
(* one Good text and is left with a Clean workspace (CallsSound).  A call   *)
(* is a composition of functions on workspaces, and so is the proof: a      *)
(* lemma for each function says how the workspace that it hands on relates  *)
(* to the one that it was given, and what it asks of it.                    *)
(***************************************************************************)
EXTENDS Engine, FiniteSetTheorems, WellFoundedInduction, TLAPS

-----------------------------------------------------------------------------
(* The recurrence of deviation_. *)

(* Every nonempty set of natural numbers has a least element. *)
LEMMA LeastOfNaturals ==
    ASSUME NEW S \in SUBSET Nat, S # {}
    PROVE  \E m \in S : \A k \in S : m =< k
<1> DEFINE Less == {pair \in Nat \X Nat : pair[1] < pair[2]}
<1>1. IsWellFoundedOn(Less, Nat)
  BY NatLessThanWellFounded DEF OpToRel
<1> HIDE DEF Less
<1>2. PICK m \in S : \A k \in S : ~(<<k, m>> \in Less)
  BY <1>1, WFMin
<1>3. \A k \in S : ~(k < m)
  BY <1>2 DEF Less
<1> QED
  BY <1>3

LEMMA Typed ==
    /\ FullLevel \in Nat \ {0} /\ MaxLevel \in 1 .. FullLevel /\ OneMoreLevel \in BOOLEAN
    /\ LogScale \in Nat /\ \A k \in 0 .. FullLevel + 1 : LogQ[k] \in Nat
BY LevelAssumption, ModuliAssumption

(* The body of the recursive definition, of a function and one argument. *)
NextDeviation(f, n) ==
    IF n = 0 \/ (OneMoreLevel /\ n = 1) THEN 0
    ELSE 2 * (f[n - 1] + LogScale - LogQ[n - 1])

(* There is a function that satisfies the recursive definition. *)
LEMMA DeviationExists ==
    \E f \in [0 .. FullLevel -> Int] : \A n \in 0 .. FullLevel : f[n] = NextDeviation(f, n)
<1> DEFINE Defined(k) == \E f \in [0 .. k -> Int] : \A n \in 0 .. k : f[n] = NextDeviation(f, n)
           Undefined == {k \in 0 .. FullLevel : ~Defined(k)}
<1>1. SUFFICES ASSUME Undefined # {} PROVE FALSE
  <2>1. FullLevel \in 0 .. FullLevel
    BY Typed
  <2> QED
    BY <2>1
<1>2. Undefined \in SUBSET Nat
  OBVIOUS
<1> HIDE DEF Undefined
<1>3. PICK k \in Undefined : \A j \in Undefined : k =< j
  BY <1>1, <1>2, LeastOfNaturals
<1> USE DEF Undefined
<1>4. k \in 0 .. FullLevel /\ ~Defined(k)
  BY <1>3
<1>5. CASE k = 0
  <2> DEFINE f == [n \in 0 .. 0 |-> 0]
  <2>1. f \in [0 .. 0 -> Int] /\ \A n \in 0 .. 0 : f[n] = NextDeviation(f, n)
    BY DEF NextDeviation
  <2> QED
    BY <1>4, <1>5, <2>1
<1>6. CASE k # 0
  <2>1. k - 1 \in 0 .. FullLevel /\ k - 1 < k
    BY <1>4, <1>6, Typed
  <2>2. Defined(k - 1)
    BY <1>3, <2>1, <1>4
  <2>3. PICK f \in [0 .. k - 1 -> Int] : \A n \in 0 .. k - 1 : f[n] = NextDeviation(f, n)
    BY <2>2
  <2> DEFINE g == [n \in 0 .. k |-> IF n = k THEN NextDeviation(f, k) ELSE f[n]]
  <2>4. f[k - 1] \in Int /\ LogQ[k - 1] \in Int /\ LogScale \in Int
    BY <1>4, <1>6, Typed
  <2>5. NextDeviation(f, k) \in Int
    BY <2>4 DEF NextDeviation
  <2>6. g \in [0 .. k -> Int]
    BY <1>4, <2>5
  <2>7. \A n \in 0 .. k : g[n] = NextDeviation(g, n)
    <3> TAKE n \in 0 .. k
    <3>1. CASE n = k
      <4>1. g[k - 1] = f[k - 1] /\ g[k] = NextDeviation(f, k)
        BY <1>4, <1>6
      <4> QED
        BY <3>1, <4>1 DEF NextDeviation
    <3>2. CASE n # k /\ n = 0
      BY <1>4, <3>2, <2>3, <1>6 DEF NextDeviation
    <3>3. CASE n # k /\ n # 0
      <4>1. n \in 0 .. k - 1 /\ n - 1 \in 0 .. k - 1 /\ n - 1 # k
        BY <1>4, <3>3
      <4>2. g[n] = f[n] /\ g[n - 1] = f[n - 1]
        BY <4>1, <1>4
      <4>3. f[n] = NextDeviation(f, n)
        BY <4>1, <2>3
      <4> QED
        BY <4>2, <4>3 DEF NextDeviation
    <3> QED
      BY <3>1, <3>2, <3>3
  <2> HIDE DEF g
  <2>8. Defined(k)
    BY <2>6, <2>7
  <2> QED
    BY <1>4, <2>8
<1> QED
  BY <1>5, <1>6

(* deviation_ satisfies its recurrence, from the highest level down. *)
LEMMA Deviation ==
    /\ \A l \in 0 .. FullLevel : deviation_[l] \in Int
    /\ \A l \in 0 .. FullLevel :
         deviation_[l] =
           IF l = FullLevel \/ (OneMoreLevel /\ l = FullLevel - 1) THEN 0
           ELSE 2 * (deviation_[l + 1] + LogScale - LogQ[to_moduli_id(l + 1)])
<1> DEFINE d == CHOOSE f : f = [n \in 0 .. FullLevel |->
                  IF n = 0 \/ (OneMoreLevel /\ n = 1) THEN 0
                  ELSE 2 * (f[n - 1] + LogScale - LogQ[n - 1])]
<1>1. PICK f \in [0 .. FullLevel -> Int] : \A n \in 0 .. FullLevel : f[n] = NextDeviation(f, n)
  BY DeviationExists
<1>2. f = [n \in 0 .. FullLevel |->
             IF n = 0 \/ (OneMoreLevel /\ n = 1) THEN 0
             ELSE 2 * (f[n - 1] + LogScale - LogQ[n - 1])]
  BY <1>1 DEF NextDeviation
<1>3. d = [n \in 0 .. FullLevel |->
             IF n = 0 \/ (OneMoreLevel /\ n = 1) THEN 0
             ELSE 2 * (d[n - 1] + LogScale - LogQ[n - 1])]
  BY <1>2
<1>4. deviation_ = [l \in 0 .. FullLevel |-> d[to_moduli_id(l)]]
  BY DEF deviation_
<1> HIDE DEF d
<1> DEFINE Odd == {n \in 0 .. FullLevel : d[n] \notin Int}
<1>5. Odd = {}
  <2> SUFFICES ASSUME Odd # {} PROVE FALSE
    OBVIOUS
  <2>1. Odd \in SUBSET Nat
    OBVIOUS
  <2> HIDE DEF Odd
  <2>2. PICK n \in Odd : \A k \in Odd : n =< k
    BY <2>1, LeastOfNaturals
  <2> USE DEF Odd
  <2>3. n \in 0 .. FullLevel /\ d[n] \notin Int
    BY <2>2
  <2>4. n # 0
    BY <2>3, <1>3
  <2>5. n - 1 \in 0 .. FullLevel /\ n - 1 < n
    BY <2>3, <2>4, Typed
  <2>6. d[n - 1] \in Int
    BY <2>5, <2>2, <2>3
  <2>7. d[n] = IF n = 0 \/ (OneMoreLevel /\ n = 1) THEN 0
               ELSE 2 * (d[n - 1] + LogScale - LogQ[n - 1])
    BY <2>3, <1>3
  <2>8. LogQ[n - 1] \in Int /\ LogScale \in Int
    BY <2>5, Typed
  <2> QED
    BY <2>3, <2>6, <2>7, <2>8
<1>6. \A l \in 0 .. FullLevel : /\ to_moduli_id(l) \in 0 .. FullLevel
                               /\ deviation_[l] = d[to_moduli_id(l)]
  BY <1>4, Typed DEF to_moduli_id
<1>7. \A l \in 0 .. FullLevel : deviation_[l] \in Int
  BY <1>5, <1>6
<1>8. ASSUME NEW l \in 0 .. FullLevel
      PROVE  deviation_[l] =
               IF l = FullLevel \/ (OneMoreLevel /\ l = FullLevel - 1) THEN 0
               ELSE 2 * (deviation_[l + 1] + LogScale - LogQ[to_moduli_id(l + 1)])
  <2> DEFINE n == to_moduli_id(l)
  <2>1. n \in 0 .. FullLevel /\ (n = 0 <=> l = FullLevel) /\ (n = 1 <=> l = FullLevel - 1)
    BY Typed DEF to_moduli_id
  <2>2. d[n] = IF n = 0 \/ (OneMoreLevel /\ n = 1) THEN 0
               ELSE 2 * (d[n - 1] + LogScale - LogQ[n - 1])
    BY <2>1, <1>3
  <2>3. deviation_[l] = d[n]
    BY <1>6
  <2>4. CASE l = FullLevel
    BY <2>1, <2>2, <2>3, <2>4
  <2>5. CASE l # FullLevel
    <3>1. l + 1 \in 0 .. FullLevel /\ to_moduli_id(l + 1) = n - 1
      BY <2>5, Typed DEF to_moduli_id
    <3>2. deviation_[l + 1] = d[n - 1]
      BY <3>1, <1>6
    <3> HIDE DEF n
    <3> QED
      BY <2>1, <2>2, <2>3, <2>5, <3>1, <3>2
  <2> QED
    BY <2>4, <2>5
<1> QED
  BY <1>7, <1>8
-----------------------------------------------------------------------------
(* What the functions of the core make of one or two texts. *)

TextRecord ==
    [polynomial_count : 1 .. 3, moduli_id : 0 .. FullLevel, ntt_form : BOOLEAN,
     rescaled : BOOLEAN, ckks_scale : Int, scale : Int]

(* A product before relinearization has left the top of the chain of moduli. *)
BelowTop(t) == t.polynomial_count = 3 => t.moduli_id > 0

(* A text as the properties want it. *)
Good(t) ==
    /\ t \in TextRecord /\ level_(t) \in Level
    /\ t.ckks_scale = t.scale /\ t.scale = CanonicalScale(t)
    /\ BelowTop(t)

(* The scale of a level, by the deviation. *)
Canonical(l) ==
    IF OneMoreLevel /\ l = FullLevel THEN LogScale + LogQ[0]
                                     ELSE deviation_[l] + 2 * LogScale

LEMMA Levels ==
    /\ \A l \in Level : /\ l \in 0 .. FullLevel /\ l \in Int
                        /\ to_moduli_id(l) = FullLevel - l
                        /\ get_ckks_scale(l) = Canonical(l)
    /\ \A k \in 0 .. FullLevel : FullLevel - k \in 0 .. FullLevel
BY Typed DEF Level, to_moduli_id, get_ckks_scale, Canonical

(* Good without the definitions of the module: what is known of a text. *)
LEMMA GoodText ==
    ASSUME NEW t, Good(t)
    PROVE  /\ t \in TextRecord /\ level_(t) \in Level
           /\ t.moduli_id = FullLevel - level_(t) + (IF t.rescaled THEN 1 ELSE 0)
           /\ t.rescaled => level_(t) > 0
           /\ t.scale = Canonical(level_(t)) -
                          (IF t.rescaled THEN LogQ[FullLevel - level_(t)] ELSE 0)
           /\ t.ckks_scale = t.scale /\ BelowTop(t)
<1>1. /\ t \in TextRecord /\ level_(t) \in Level /\ t.scale = CanonicalScale(t)
      /\ t.ckks_scale = t.scale /\ BelowTop(t)
  BY DEF Good
<1>2. t.moduli_id \in 0 .. FullLevel /\ t.rescaled \in BOOLEAN /\ t.scale \in Int
  BY <1>1 DEF TextRecord
<1>3. /\ t.moduli_id = FullLevel - level_(t) + (IF t.rescaled THEN 1 ELSE 0)
      /\ t.rescaled => level_(t) > 0
  BY <1>1, <1>2, Typed DEF level_, Level
<1>4. /\ level_(t) \in 0 .. FullLevel /\ FullLevel - level_(t) \in 0 .. FullLevel
      /\ get_ckks_scale(level_(t)) = Canonical(level_(t))
      /\ to_moduli_id(level_(t)) = FullLevel - level_(t)
  BY <1>1, Levels
<1>5. Canonical(level_(t)) \in Int /\ LogQ[FullLevel - level_(t)] \in Int
  BY <1>4, Typed, Deviation DEF Canonical
<1>6. t.scale = Canonical(level_(t)) -
                  (IF t.rescaled THEN LogQ[FullLevel - level_(t)] ELSE 0)
  BY <1>1, <1>2, <1>4, <1>5 DEF CanonicalScale
<1> QED
  BY <1>1, <1>3, <1>6

LEMMA TextGood ==
    ASSUME NEW t \in TextRecord, NEW l \in Level,
           t.moduli_id = FullLevel - l + (IF t.rescaled THEN 1 ELSE 0),
           t.ckks_scale = t.scale, BelowTop(t),
           t.scale = Canonical(l) - (IF t.rescaled THEN LogQ[FullLevel - l] ELSE 0)
    PROVE  Good(t) /\ level_(t) = l
<1>1. t.moduli_id \in 0 .. FullLevel /\ t.rescaled \in BOOLEAN /\ t.scale \in Int
  BY DEF TextRecord
<1>2. level_(t) = l
  BY <1>1, Typed DEF level_, Level
<1>3. /\ l \in 0 .. FullLevel /\ FullLevel - l \in 0 .. FullLevel
      /\ get_ckks_scale(l) = Canonical(l) /\ to_moduli_id(l) = FullLevel - l
  BY Levels
<1>4. Canonical(l) \in Int /\ LogQ[FullLevel - l] \in Int
  BY <1>3, Typed, Deviation DEF Canonical
<1> QED
  BY <1>1, <1>2, <1>3, <1>4 DEF Good, CanonicalScale

LEMMA Multipliers ==
    ASSUME NEW l \in Level, l > 0
    PROVE  /\ l - 1 \in Level /\ LogQ[FullLevel - l] \in Int
           /\ Canonical(l) \in Int /\ LogScale \in Int
           /\ deviation_[l - 1] \in Int /\ deviation_[l - 1] \div 2 \in Int
           /\ 2 * (deviation_[l - 1] \div 2) = deviation_[l - 1]
           /\ deviation_[l - 1] \div 2 = Canonical(l) - LogQ[FullLevel - l] - LogScale
           /\ \A k \in Level : k < l => /\ deviation_[k] \in Int
                                       /\ Canonical(k) = deviation_[k] + 2 * LogScale
<1>1. /\ l \in 0 .. FullLevel /\ l - 1 \in 0 .. FullLevel /\ l - 1 \in Level
      /\ FullLevel - l \in 0 .. FullLevel /\ to_moduli_id(l) = FullLevel - l
      /\ l - 1 # FullLevel /\ \A k \in Level : k < l => k \in 0 .. FullLevel /\ k # FullLevel
  BY Typed, Levels DEF Level
<1>2. /\ deviation_[l - 1] \in Int /\ deviation_[l] \in Int /\ LogQ[FullLevel - l] \in Int
      /\ LogQ[0] \in Int /\ LogScale \in Int
  BY <1>1, Typed, Deviation
<1>3. deviation_[l - 1] = IF OneMoreLevel /\ l = FullLevel THEN 0
                          ELSE 2 * (deviation_[l] + LogScale - LogQ[FullLevel - l])
  BY <1>1, Deviation, Typed
<1>4. OneMoreLevel /\ l = FullLevel => FullLevel - l = 0
  BY <1>1
<1>5. \A k \in Level : k < l => deviation_[k] \in Int /\ Canonical(k) = deviation_[k] + 2 * LogScale
  BY <1>1, Deviation DEF Canonical
<1> DEFINE e == IF OneMoreLevel /\ l = FullLevel THEN 0
                ELSE deviation_[l] + LogScale - LogQ[FullLevel - l]
<1>6. e \in Int /\ deviation_[l - 1] = 2 * e /\ e = Canonical(l) - LogQ[FullLevel - l] - LogScale
  BY <1>2, <1>3, <1>4 DEF Canonical
<1>7. Canonical(l) \in Int
  BY <1>2 DEF Canonical
<1> HIDE DEF e
<1>8. deviation_[l - 1] \div 2 = e
  BY <1>6
<1> QED
  BY <1>1, <1>2, <1>5, <1>6, <1>7, <1>8

(* A text with one field changed is a text. *)
LEMMA Fields ==
    ASSUME NEW t \in TextRecord
    PROVE  /\ \A c \in 1 .. 3 : [t EXCEPT !.polynomial_count = c] \in TextRecord
           /\ \A k \in 0 .. FullLevel : [t EXCEPT !.moduli_id = k] \in TextRecord
           /\ \A b \in BOOLEAN : [t EXCEPT !.ntt_form = b] \in TextRecord
           /\ \A b \in BOOLEAN : [t EXCEPT !.rescaled = b] \in TextRecord
           /\ \A s \in Int : [t EXCEPT !.ckks_scale = s] \in TextRecord
           /\ \A s \in Int : [t EXCEPT !.scale = s] \in TextRecord
BY DEF TextRecord

LEMMA RescaledFields ==
    ASSUME NEW t \in TextRecord, t.moduli_id + 1 \in 0 .. FullLevel,
           LogQ[t.moduli_id] \in Int
    PROVE  /\ Rescaled(t) \in TextRecord
           /\ Rescaled(t).moduli_id = t.moduli_id + 1 /\ Rescaled(t).rescaled
           /\ Rescaled(t).scale = t.scale - LogQ[t.moduli_id]
           /\ Rescaled(t).ckks_scale = t.ckks_scale - LogQ[t.moduli_id]
           /\ Rescaled(t).ntt_form = t.ntt_form
           /\ Rescaled(t).polynomial_count = t.polynomial_count
<1> DEFINE m1 == [t EXCEPT !.moduli_id = t.moduli_id + 1]
           m2 == [m1 EXCEPT !.rescaled = TRUE]
           m3 == [m2 EXCEPT !.ckks_scale = t.ckks_scale - LogQ[t.moduli_id]]
           m4 == [m3 EXCEPT !.scale = t.scale - LogQ[t.moduli_id]]
<1>1. t.scale - LogQ[t.moduli_id] \in Int /\ t.ckks_scale - LogQ[t.moduli_id] \in Int
  BY DEF TextRecord
<1>2. m1 \in TextRecord
  BY Fields
<1> HIDE DEF m1
<1>3. m2 \in TextRecord
  BY <1>2, Fields
<1> HIDE DEF m2
<1>4. m3 \in TextRecord
  BY <1>1, <1>3, Fields
<1> HIDE DEF m3
<1>5. m4 \in TextRecord
  BY <1>1, <1>4, Fields
<1> HIDE DEF m4
<1>6. Rescaled(t) = m4
  BY DEF Rescaled, m4, m3, m2, m1
<1>7. Rescaled(t).rescaled /\ Rescaled(t).ntt_form = t.ntt_form
  BY Zenon DEF Rescaled, TextRecord
<1>8. /\ Rescaled(t).moduli_id = t.moduli_id + 1
      /\ Rescaled(t).scale = t.scale - LogQ[t.moduli_id]
      /\ Rescaled(t).ckks_scale = t.ckks_scale - LogQ[t.moduli_id]
      /\ Rescaled(t).polynomial_count = t.polynomial_count
  BY DEF Rescaled, TextRecord
<1> QED
  BY <1>5, <1>6, <1>7, <1>8

LEMMA ProductFields ==
    ASSUME NEW t1 \in TextRecord, NEW t2 \in TextRecord, NEW c \in 1 .. 3
    PROVE  /\ Product(t1, t2, c) \in TextRecord /\ Product(t1, t2, c).polynomial_count = c
           /\ Product(t1, t2, c).moduli_id = t1.moduli_id /\ ~Product(t1, t2, c).rescaled
           /\ Product(t1, t2, c).scale = t1.scale + t2.scale
           /\ Product(t1, t2, c).ckks_scale = t1.ckks_scale + t2.ckks_scale
<1> DEFINE m1 == [t1 EXCEPT !.polynomial_count = c]
           m2 == [m1 EXCEPT !.rescaled = FALSE]
           m3 == [m2 EXCEPT !.ntt_form = t1.ntt_form \/ t2.ntt_form]
           m4 == [m3 EXCEPT !.ckks_scale = t1.ckks_scale + t2.ckks_scale]
           m5 == [m4 EXCEPT !.scale = t1.scale + t2.scale]
<1>1. /\ t1.scale + t2.scale \in Int /\ t1.ckks_scale + t2.ckks_scale \in Int
      /\ (t1.ntt_form \/ t2.ntt_form) \in BOOLEAN
  BY DEF TextRecord
<1>2. m1 \in TextRecord
  BY Fields
<1> HIDE DEF m1
<1>3. m2 \in TextRecord
  BY <1>2, Fields
<1> HIDE DEF m2
<1>4. m3 \in TextRecord
  BY <1>1, <1>3, Fields, Zenon
<1> HIDE DEF m3
<1>5. m4 \in TextRecord
  BY <1>1, <1>4, Fields
<1> HIDE DEF m4
<1>6. m5 \in TextRecord
  BY <1>1, <1>5, Fields
<1> HIDE DEF m5
<1>7. Product(t1, t2, c) = m5
  BY DEF Product, m5, m4, m3, m2, m1
<1>8. /\ Product(t1, t2, c).polynomial_count = c
      /\ Product(t1, t2, c).moduli_id = t1.moduli_id /\ ~Product(t1, t2, c).rescaled
      /\ Product(t1, t2, c).scale = t1.scale + t2.scale
      /\ Product(t1, t2, c).ckks_scale = t1.ckks_scale + t2.ckks_scale
  BY DEF Product, TextRecord
<1> QED
  BY <1>6, <1>7, <1>8

LEMMA RescaledGood ==
    ASSUME NEW t, Good(t), ~t.rescaled, level_(t) > 0
    PROVE  /\ Good(Rescaled(t)) /\ level_(Rescaled(t)) = level_(t)
           /\ Rescaled(t).rescaled /\ Rescaled(t).ntt_form = t.ntt_form
           /\ Rescaled(t).polynomial_count = t.polynomial_count
<1> DEFINE l == level_(t)
           m == Rescaled(t)
<1>1. /\ t \in TextRecord /\ l \in Level /\ t.moduli_id = FullLevel - l
      /\ t.scale = Canonical(l) /\ t.ckks_scale = t.scale
  BY GoodText, Typed, Deviation, Levels DEF Canonical
<1>2. l \in 1 .. FullLevel /\ LogQ[FullLevel - l] \in Int /\ Canonical(l) \in Int
  BY <1>1, Multipliers, Levels
<1> HIDE DEF l
<1>3. FullLevel - l + 1 \in 0 .. FullLevel
  BY <1>2, Typed
<1>4. /\ m \in TextRecord /\ m.moduli_id = FullLevel - l + 1 /\ m.rescaled
      /\ m.scale = Canonical(l) - LogQ[FullLevel - l] /\ m.ckks_scale = m.scale
      /\ m.ntt_form = t.ntt_form /\ m.polynomial_count = t.polynomial_count
  BY <1>1, <1>2, <1>3, RescaledFields
<1> HIDE DEF m
<1>5. Good(m) /\ level_(m) = l
  <2>1. BelowTop(m)
    BY <1>2, <1>4, Typed DEF BelowTop
  <2> QED
    BY <1>1, <1>4, <2>1, TextGood
<1> QED
  BY <1>4, <1>5 DEF m, l

LEMMA LeveledDownGood ==
    ASSUME NEW t, Good(t), ~t.rescaled, NEW to \in Level, to < level_(t)
    PROVE  /\ Good(LeveledDown(t, to)) /\ level_(LeveledDown(t, to)) = to
           /\ ~LeveledDown(t, to).rescaled /\ LeveledDown(t, to).ntt_form = t.ntt_form
           /\ LeveledDown(t, to).polynomial_count = t.polynomial_count
<1> DEFINE l == level_(t)
           m == LeveledDown(t, to)
<1>1. /\ t \in TextRecord /\ l \in Level /\ t.moduli_id = FullLevel - l
      /\ t.scale = Canonical(l) /\ t.ckks_scale = t.scale
  BY GoodText, Typed, Deviation, Levels DEF Canonical
<1>2. /\ l \in 1 .. FullLevel /\ LogQ[FullLevel - l] \in Int /\ Canonical(l) \in Int
      /\ LogScale \in Int /\ deviation_[to] \in Int /\ deviation_[l] \in Int /\ LogQ[0] \in Int
      /\ Canonical(to) = deviation_[to] + 2 * LogScale
      /\ to_moduli_id(to) = FullLevel - to /\ to_moduli_id(l) = FullLevel - l
      /\ to \in 0 .. FullLevel
  <2>1. l \in Level /\ l > 0
    BY <1>1, Typed DEF Level
  <2> QED
    BY <2>1, Multipliers, Levels, Typed, Deviation
<1>3. OneMoreLevel /\ l = FullLevel => FullLevel - l = 0 /\ deviation_[l] = 0
  BY <1>2, Deviation
<1> HIDE DEF l
<1>4. Canonical(l) + level_down_multiplier(l, to) - LogQ[FullLevel - l] = Canonical(to)
  <2>1. to_moduli_id(l) = 0 <=> l = FullLevel
    BY <1>2, Typed
  <2>2. CASE OneMoreLevel /\ l = FullLevel
    BY <1>2, <1>3, <2>1, <2>2 DEF level_down_multiplier, Canonical
  <2>3. CASE ~(OneMoreLevel /\ l = FullLevel)
    BY <1>2, <2>1, <2>3 DEF level_down_multiplier, Canonical
  <2> QED
    BY <2>2, <2>3
<1>5. m = [t EXCEPT !.moduli_id = FullLevel - to, !.ckks_scale = Canonical(to),
                    !.scale = Canonical(to)]
  BY <1>1, <1>2, <1>4 DEF LeveledDown, l
<1>6. Canonical(to) \in Int /\ FullLevel - to \in 0 .. FullLevel
  BY <1>2, Typed
<1>7. /\ m \in TextRecord /\ m.moduli_id = FullLevel - to /\ ~m.rescaled
      /\ m.scale = Canonical(to) /\ m.ckks_scale = m.scale
      /\ m.ntt_form = t.ntt_form /\ m.polynomial_count = t.polynomial_count
  BY <1>1, <1>5, <1>6 DEF TextRecord
<1> HIDE DEF m
<1>8. Good(m) /\ level_(m) = to
  <2>1. BelowTop(m)
    BY <1>1, <1>2, <1>7, Typed DEF BelowTop, l, Level
  <2> QED
    BY <1>6, <1>7, <2>1, TextGood
<1> QED
  BY <1>7, <1>8 DEF m

LEMMA LeveledDownAfterRescaleGood ==
    ASSUME NEW t, Good(t), t.rescaled, NEW to \in Level, to < level_(t)
    PROVE  /\ Good(LeveledDownAfterRescale(t, to))
           /\ level_(LeveledDownAfterRescale(t, to)) = to
           /\ ~LeveledDownAfterRescale(t, to).rescaled
           /\ LeveledDownAfterRescale(t, to).ntt_form = t.ntt_form
           /\ LeveledDownAfterRescale(t, to).polynomial_count = t.polynomial_count
<1> DEFINE l == level_(t)
           m == LeveledDownAfterRescale(t, to)
           e == deviation_[l - 1] \div 2
<1>1. /\ t \in TextRecord /\ l \in Level /\ l > 0
      /\ t.scale = Canonical(l) - LogQ[FullLevel - l] /\ t.ckks_scale = t.scale
  BY GoodText
<1>2. /\ LogQ[FullLevel - l] \in Int /\ Canonical(l) \in Int
      /\ LogScale \in Int /\ deviation_[to] \in Int /\ e \in Int
      /\ Canonical(to) = deviation_[to] + 2 * LogScale
      /\ e = Canonical(l) - LogQ[FullLevel - l] - LogScale
      /\ to_moduli_id(to) = FullLevel - to /\ to \in 0 .. FullLevel
  BY <1>1, Multipliers, Levels
<1>3. level_down_multiplier_after_rescale(l, to) = LogScale + deviation_[to] - e
  BY DEF level_down_multiplier_after_rescale
<1> HIDE DEF l, e
<1>4. t.scale + level_down_multiplier_after_rescale(l, to) = Canonical(to)
  BY <1>1, <1>2, <1>3
<1>5. m = [t EXCEPT !.moduli_id = FullLevel - to, !.rescaled = FALSE,
                    !.ckks_scale = Canonical(to), !.scale = Canonical(to)]
  BY <1>1, <1>2, <1>4 DEF LeveledDownAfterRescale, l
<1>6. Canonical(to) \in Int /\ FullLevel - to \in 0 .. FullLevel
  BY <1>2, Typed
<1>7. /\ m \in TextRecord /\ m.moduli_id = FullLevel - to /\ ~m.rescaled
      /\ m.scale = Canonical(to) /\ m.ckks_scale = m.scale
      /\ m.ntt_form = t.ntt_form /\ m.polynomial_count = t.polynomial_count
  BY <1>1, <1>5, <1>6 DEF TextRecord
<1> HIDE DEF m
<1>8. Good(m) /\ level_(m) = to
  <2>1. BelowTop(m)
    BY <1>1, <1>2, <1>7, Typed DEF BelowTop, l, Level
  <2> QED
    BY <1>6, <1>7, <2>1, TextGood
<1> QED
  BY <1>7, <1>8 DEF m

(* The squared scale of a level, after rescaling, is that of the next one. *)
LEMMA ProductGood ==
    ASSUME NEW t1, NEW t2, Good(t1), Good(t2), t1.rescaled, t2.rescaled,
           level_(t1) = level_(t2), NEW count_ \in 1 .. 3
    PROVE  /\ Good(Product(t1, t2, count_)) /\ ~Product(t1, t2, count_).rescaled
           /\ level_(Product(t1, t2, count_)) = level_(t1) - 1
           /\ Product(t1, t2, count_).polynomial_count = count_
<1> DEFINE l == level_(t1)
           m == Product(t1, t2, count_)
           e == deviation_[l - 1] \div 2
<1>1. /\ t1 \in TextRecord /\ t2 \in TextRecord /\ l \in Level /\ l > 0
      /\ t1.moduli_id = FullLevel - l + 1
      /\ t1.scale = Canonical(l) - LogQ[FullLevel - l] /\ t1.ckks_scale = t1.scale
      /\ t2.scale = Canonical(l) - LogQ[FullLevel - l] /\ t2.ckks_scale = t2.scale
  BY GoodText
<1>2. /\ LogQ[FullLevel - l] \in Int /\ Canonical(l) \in Int /\ LogScale \in Int
      /\ e \in Int /\ 2 * e = deviation_[l - 1] /\ l - 1 \in Level
      /\ e = Canonical(l) - LogQ[FullLevel - l] - LogScale
      /\ Canonical(l - 1) = deviation_[l - 1] + 2 * LogScale
      /\ l \in Int /\ FullLevel \in Int
  <2>1. l - 1 \in Level /\ l - 1 < l /\ l \in Int
    BY <1>1, Typed DEF Level
  <2> QED
    BY <1>1, <2>1, Multipliers, Typed
<1> HIDE DEF l, e
<1>3. t1.scale + t2.scale = Canonical(l - 1) /\ Canonical(l - 1) \in Int
  BY <1>1, <1>2
<1>6. /\ m \in TextRecord /\ m.moduli_id = FullLevel - (l - 1) /\ ~m.rescaled
      /\ m.scale = Canonical(l - 1) /\ m.ckks_scale = m.scale /\ m.polynomial_count = count_
  BY <1>1, <1>2, <1>3, ProductFields
<1> HIDE DEF m
<1>7. Good(m) /\ level_(m) = l - 1
  <2> DEFINE k == l - 1
  <2>1. /\ k \in Level /\ Canonical(k) \in Int /\ FullLevel - k \in Int
        /\ m \in TextRecord /\ m.moduli_id = FullLevel - k /\ ~m.rescaled
        /\ m.scale = Canonical(k) /\ m.ckks_scale = m.scale
    BY <1>2, <1>3, <1>6
  <2>3. BelowTop(m)
    BY <1>1, <1>2, <1>6, Levels, Typed DEF BelowTop, Level
  <2> HIDE DEF k
  <2>2. Good(m) /\ level_(m) = k
    BY <2>1, <2>3, TextGood
  <2> QED
    BY <2>2 DEF k
<1> QED
  BY <1>6, <1>7 DEF m, l

(* A factor of scale 1 leaves level and scale. *)
LEMMA ProductByUnitGood ==
    ASSUME NEW t1, NEW t2 \in TextRecord, Good(t1), ~t1.rescaled,
           t2.ckks_scale = 0, t2.scale = 0
    PROVE  LET m == Product(t1, t2, t1.polynomial_count)
           IN  /\ Good(m) /\ ~m.rescaled /\ m.polynomial_count = t1.polynomial_count
<1> DEFINE l == level_(t1)
           m == Product(t1, t2, t1.polynomial_count)
<1>1. /\ t1 \in TextRecord /\ l \in Level /\ t1.moduli_id = FullLevel - l
      /\ t1.scale = Canonical(l) /\ t1.ckks_scale = t1.scale /\ BelowTop(t1)
  BY GoodText, Typed, Deviation, Levels DEF Canonical
<1>2. t1.scale \in Int /\ t1.ckks_scale \in Int /\ t1.polynomial_count \in 1 .. 3
  BY <1>1 DEF TextRecord
<1> HIDE DEF l
<1>3. /\ m \in TextRecord /\ m.moduli_id = FullLevel - l /\ ~m.rescaled
      /\ m.scale = Canonical(l) /\ m.ckks_scale = m.scale
      /\ m.polynomial_count = t1.polynomial_count
  BY <1>1, <1>2, ProductFields
<1> HIDE DEF m
<1>4. FullLevel - l \in Int /\ BelowTop(m)
  BY <1>1, <1>3, Levels DEF BelowTop
<1>5. Good(m)
  BY <1>1, <1>2, <1>3, <1>4, TextGood
<1> QED
  BY <1>3, <1>5 DEF m

LEMMA ProductWithDoubleGood ==
    ASSUME NEW t, Good(t), ~t.rescaled, level_(t) > 0
    PROVE  Good(ProductWithDouble(t))
<1> DEFINE l == level_(t)
           m == ProductWithDouble(t)
           e == deviation_[l - 1] \div 2
<1>1. /\ t \in TextRecord /\ l \in Level /\ l > 0 /\ t.moduli_id = FullLevel - l
      /\ t.scale = Canonical(l) /\ t.ckks_scale = t.scale
  BY GoodText, Typed, Deviation, Levels DEF Canonical
<1>2. /\ LogQ[FullLevel - l] \in Int /\ Canonical(l) \in Int /\ LogScale \in Int
      /\ e \in Int /\ 2 * e = deviation_[l - 1] /\ l - 1 \in Level
      /\ e = Canonical(l) - LogQ[FullLevel - l] - LogScale
      /\ Canonical(l - 1) = deviation_[l - 1] + 2 * LogScale
      /\ to_moduli_id(l - 1) = FullLevel - (l - 1) /\ FullLevel - (l - 1) \in 0 .. FullLevel
  <2>1. l - 1 \in Level /\ l - 1 < l /\ l \in Int
    BY <1>1, Typed DEF Level
  <2> QED
    BY <1>1, <2>1, Multipliers, Levels, Typed
<1>3. mult_multiplier(l) = LogScale + e
  BY DEF mult_multiplier
<1> HIDE DEF l, e
<1>4. /\ 2 * (Canonical(l) - LogQ[FullLevel - l]) = Canonical(l - 1)
      /\ Canonical(l) + mult_multiplier(l) - LogQ[FullLevel - l] = Canonical(l - 1)
      /\ Canonical(l - 1) \in Int
  BY <1>2, <1>3
<1>5. m = [t EXCEPT !.moduli_id = FullLevel - (l - 1), !.ckks_scale = Canonical(l - 1),
                    !.scale = Canonical(l - 1)]
  BY <1>1, <1>2, <1>4 DEF ProductWithDouble, l
<1>6. /\ m \in TextRecord /\ m.moduli_id = FullLevel - (l - 1) /\ ~m.rescaled
      /\ m.scale = Canonical(l - 1) /\ m.ckks_scale = m.scale
  BY <1>1, <1>2, <1>4, <1>5 DEF TextRecord
<1> HIDE DEF m
<1>8. BelowTop(m)
  BY <1>1, <1>2, <1>6, Levels, Typed DEF BelowTop, Level
<1>7. Good(m)
  BY <1>2, <1>6, <1>8, TextGood
<1> QED
  BY <1>7 DEF m

(* What changes neither level nor scale. *)
LEMMA SameScaleGood ==
    ASSUME NEW t, NEW m, Good(t), m \in TextRecord, m.moduli_id = t.moduli_id,
           m.rescaled = t.rescaled, m.ckks_scale = t.ckks_scale, m.scale = t.scale,
           BelowTop(m)
    PROVE  Good(m) /\ level_(m) = level_(t)
BY DEF Good, CanonicalScale, level_

LEMMA SumGood ==
    ASSUME NEW t1, NEW t2, Good(t1), Good(t2), t1.rescaled = t2.rescaled
    PROVE  Good(Sum(t1, t2)) /\ level_(Sum(t1, t2)) = level_(t1)
<1>1. t1 \in TextRecord /\ (t1.ntt_form \/ t2.ntt_form) \in BOOLEAN
  BY DEF Good
<1> DEFINE m1 == [t1 EXCEPT !.ntt_form = t1.ntt_form \/ t2.ntt_form]
           m2 == [m1 EXCEPT !.rescaled = t1.rescaled \/ t2.rescaled]
<1>2. m1 \in TextRecord
  BY <1>1, Fields, Zenon
<1> HIDE DEF m1
<1>3. (t1.rescaled \/ t2.rescaled) \in BOOLEAN
  OBVIOUS
<1>4. m2 \in TextRecord
  BY <1>2, <1>3, Fields, Zenon
<1> HIDE DEF m2
<1>5. Sum(t1, t2) = m2
  BY DEF Sum, m1, m2
<1>6. Sum(t1, t2).rescaled = t1.rescaled
  BY <1>1, Zenon DEF Sum, TextRecord
<1>7. /\ Sum(t1, t2).moduli_id = t1.moduli_id
      /\ Sum(t1, t2).ckks_scale = t1.ckks_scale /\ Sum(t1, t2).scale = t1.scale
      /\ Sum(t1, t2).polynomial_count = t1.polynomial_count
  BY <1>1 DEF Sum, TextRecord
<1>8. BelowTop(Sum(t1, t2))
  BY <1>7 DEF Good, BelowTop
<1> QED
  BY <1>4, <1>5, <1>6, <1>7, <1>8, SameScaleGood

LEMMA EncodedGood ==
    ASSUME NEW at \in Level
    PROVE  LET t == Text(1, to_moduli_id(at), get_ckks_scale(at))
           IN  /\ Good(t) /\ level_(t) = at /\ ~t.rescaled /\ ~t.ntt_form
               /\ t.polynomial_count = 1
<1> DEFINE t == Text(1, to_moduli_id(at), get_ckks_scale(at))
<1>1. /\ at \in 0 .. FullLevel /\ to_moduli_id(at) = FullLevel - at
      /\ get_ckks_scale(at) = Canonical(at) /\ FullLevel - at \in 0 .. FullLevel
  BY Levels
<1>2. Canonical(at) \in Int
  BY <1>1, Typed, Deviation DEF Canonical
<1>3. /\ t \in TextRecord /\ t.moduli_id = FullLevel - at /\ ~t.rescaled /\ ~t.ntt_form
      /\ t.scale = Canonical(at) /\ t.ckks_scale = t.scale
      /\ t.polynomial_count = 1
  BY <1>1, <1>2 DEF Text, TextRecord
<1> HIDE DEF t
<1>4. Good(t) /\ level_(t) = at
  BY <1>1, <1>2, <1>3, TextGood DEF BelowTop
<1> QED
  BY <1>3, <1>4 DEF t

(* Other forms and other counts, as the functions of the core change them. *)
LEMMA ChangedGood ==
    ASSUME NEW t, Good(t)
    PROVE  /\ \A b \in BOOLEAN : LET m == [t EXCEPT !.ntt_form = b]
             IN  /\ Good(m) /\ level_(m) = level_(t) /\ m.rescaled = t.rescaled
                 /\ m.polynomial_count = t.polynomial_count /\ m.ntt_form = b
           /\ Good([t EXCEPT !.polynomial_count = 2])
           /\ Good([t EXCEPT !.polynomial_count = 2, !.ntt_form = FALSE])
           /\ ~t.rescaled =>
                LET m == [t EXCEPT !.polynomial_count = 1, !.ntt_form = FALSE,
                                   !.rescaled = FALSE]
                IN  Good(m) /\ ~m.rescaled /\ ~m.ntt_form
<1>0. \A c \in 1 .. 2 : c \in 1 .. 3 /\ c # 3
  OBVIOUS
<1>1. t \in TextRecord
  BY DEF Good
<1>2. ASSUME NEW b \in BOOLEAN
      PROVE  LET m == [t EXCEPT !.ntt_form = b]
             IN  /\ Good(m) /\ level_(m) = level_(t) /\ m.rescaled = t.rescaled
                 /\ m.polynomial_count = t.polynomial_count /\ m.ntt_form = b
  <2> DEFINE m == [t EXCEPT !.ntt_form = b]
  <2>1. m \in TextRecord
    BY <1>1, Fields
  <2>2. /\ m.moduli_id = t.moduli_id /\ m.rescaled = t.rescaled
        /\ m.ckks_scale = t.ckks_scale /\ m.scale = t.scale
        /\ m.polynomial_count = t.polynomial_count
    BY <1>1 DEF TextRecord
  <2>3. m.ntt_form = b
    BY <1>1, Zenon DEF TextRecord
  <2> HIDE DEF m
  <2>4. BelowTop(m)
    BY <2>2 DEF Good, BelowTop
  <2> QED
    BY <2>1, <2>2, <2>3, <2>4, SameScaleGood DEF m
<1>3. ASSUME NEW c \in 1 .. 2
      PROVE  Good([t EXCEPT !.polynomial_count = c])
  <2> DEFINE m == [t EXCEPT !.polynomial_count = c]
  <2>1. m \in TextRecord
    BY <1>0, <1>1, Fields
  <2>2. /\ m.moduli_id = t.moduli_id /\ m.rescaled = t.rescaled
        /\ m.ckks_scale = t.ckks_scale /\ m.scale = t.scale
        /\ m.polynomial_count = c
    BY <1>1 DEF TextRecord
  <2> HIDE DEF m
  <2> QED
    BY <2>1, <2>2, SameScaleGood, <1>0 DEF m, BelowTop
<1>4. ASSUME NEW c \in 1 .. 2
      PROVE  Good([t EXCEPT !.polynomial_count = c, !.ntt_form = FALSE])
  <2> DEFINE m1 == [t EXCEPT !.polynomial_count = c]
             m == [m1 EXCEPT !.ntt_form = FALSE]
  <2>1. m1 \in TextRecord
    BY <1>0, <1>1, Fields
  <2>2. m \in TextRecord
    <3> HIDE DEF m1
    <3> QED
      BY <2>1, Fields
  <2>3. /\ m.moduli_id = t.moduli_id /\ m.rescaled = t.rescaled
        /\ m.ckks_scale = t.ckks_scale /\ m.scale = t.scale
        /\ m.polynomial_count = c
    BY <1>1 DEF TextRecord
  <2>4. [t EXCEPT !.polynomial_count = c, !.ntt_form = FALSE] = m
    OBVIOUS
  <2> HIDE DEF m
  <2> QED
    BY <2>2, <2>3, <2>4, SameScaleGood, <1>0 DEF BelowTop
<1>5. ASSUME ~t.rescaled, NEW c \in 1 .. 2
      PROVE  LET m == [t EXCEPT !.polynomial_count = c, !.ntt_form = FALSE, !.rescaled = FALSE]
             IN  Good(m) /\ ~m.rescaled /\ ~m.ntt_form
  <2> DEFINE m1 == [t EXCEPT !.polynomial_count = c]
             m2 == [m1 EXCEPT !.ntt_form = FALSE]
             m == [m2 EXCEPT !.rescaled = FALSE]
  <2>1. m1 \in TextRecord
    BY <1>0, <1>1, Fields
  <2>2. m2 \in TextRecord
    <3> HIDE DEF m1
    <3> QED
      BY <2>1, Fields
  <2>3. m \in TextRecord
    <3> HIDE DEF m2
    <3> QED
      BY <2>2, Fields
  <2>4. /\ m.moduli_id = t.moduli_id
        /\ m.ckks_scale = t.ckks_scale /\ m.scale = t.scale
        /\ m.polynomial_count = c
    BY <1>1 DEF TextRecord
  <2>5. m.rescaled = t.rescaled /\ ~m.rescaled /\ ~m.ntt_form
    BY <1>1, <1>5, Zenon DEF TextRecord
  <2>6. [t EXCEPT !.polynomial_count = c, !.ntt_form = FALSE, !.rescaled = FALSE] = m
    OBVIOUS
  <2> HIDE DEF m
  <2>7. Good(m)
    BY <2>3, <2>4, <2>5, SameScaleGood, <1>0 DEF BelowTop
  <2> QED
    BY <2>5, <2>6, <2>7
<1> QED
  <2>1. 1 \in 1 .. 2 /\ 2 \in 1 .. 2
    OBVIOUS
  <2> QED
    BY <2>1, <1>2, <1>3, <1>4, <1>5

-----------------------------------------------------------------------------
(* Workspaces. *)

AnyText == TextRecord \cup {NoText}
Register == {"x", "y", "result"}

(* The objects made in a call that wait for their deletion or are deleted,  *)
(* and the other ones.                                                      *)
Owned(w) == Range(w.temp) \cup w.gone
Loose(w) == Fresh(w) \ Owned(w)

Shape(w) ==
    /\ DOMAIN w = {"obj", "temp", "leftover", "gone", "misuse", "core", "refused",
                   "x", "y", "result"}
    /\ w.obj \in Seq(AnyText) /\ SlotCount =< Len(w.obj)
    /\ w.temp \in Seq(Nat) /\ w.leftover \in Nat
    /\ w.x \in Nat /\ w.y \in Nat /\ w.result \in Nat

(* Nothing went wrong so far. *)
Clean(w) ==
    /\ ~w.refused /\ ~w.misuse
    /\ \A i, j \in DOMAIN w.temp : w.temp[i] = w.temp[j] => i = j
    /\ Range(w.temp) \cap w.gone = {}
    /\ Owned(w) \subseteq Fresh(w)
    /\ \A call \in w.core : Fits(call)

Workspace(w) == Shape(w) /\ Clean(w)

GoodAt(w, r) ==
    w[r] \in 1 .. Len(w.obj) /\ w[r] \notin w.gone /\ Good(text(w, r))

(* From w to v nothing is written but new objects and the given registers, *)
(* and nothing is deleted but new objects.                                 *)
Step(w, v, registers) ==
    /\ Workspace(v)
    /\ Len(w.obj) =< Len(v.obj)
    /\ \A i \in 1 .. Len(w.obj) : v.obj[i] = w.obj[i] /\ (i \in v.gone => i \in w.gone)
    /\ \A r \in Register \ registers : v[r] = w[r]

LEMMA LengthTyped ==
    ASSUME NEW w, Workspace(w)
    PROVE  Len(w.obj) \in Nat
BY DEF Workspace, Shape

LEMMA StepStep ==
    ASSUME NEW w, NEW v, NEW u, NEW R1, NEW R2, Workspace(w), Step(w, v, R1), Step(v, u, R2)
    PROVE  Step(w, u, R1 \cup R2)
<1>1. Workspace(v) /\ Workspace(u)
  BY DEF Step
<1>2. Len(w.obj) \in Nat /\ Len(v.obj) \in Nat /\ Len(u.obj) \in Nat
  BY <1>1, LengthTyped
<1> QED
  BY <1>2 DEF Step

(* What a register that is not written refers to. *)
LEMMA StepKeeps ==
    ASSUME NEW w, NEW v, NEW R, Workspace(w), Step(w, v, R), NEW r \in Register \ R, GoodAt(w, r)
    PROVE  GoodAt(v, r) /\ text(v, r) = text(w, r)
<1>1. Len(w.obj) \in Nat /\ Len(v.obj) \in Nat
  BY LengthTyped DEF Step
<1>2. /\ w[r] \in 1 .. Len(w.obj) /\ v[r] = w[r] /\ v.obj[w[r]] = w.obj[w[r]]
      /\ w[r] \notin v.gone
  BY DEF Step, GoodAt
<1> QED
  BY <1>1, <1>2 DEF Step, GoodAt, text

(* Nothing but the fields that are not registers or objects has changed. *)
LEMMA SameObjects ==
    ASSUME NEW w, NEW v, Workspace(w), DOMAIN v = DOMAIN w, v.obj = w.obj,
           v.temp = w.temp, v.gone = w.gone, v.leftover = w.leftover,
           v.refused = w.refused, ~v.misuse, \A call \in v.core : Fits(call),
           v.x \in Nat, v.y \in Nat, v.result \in Nat
    PROVE  Workspace(v) /\ Loose(v) = Loose(w)
<1>1. Shape(v)
  BY DEF Workspace, Shape
<1>2. Owned(v) = Owned(w) /\ Fresh(v) = Fresh(w)
  BY DEF Owned, Fresh
<1>3. Clean(v)
  BY <1>2 DEF Workspace, Clean
<1> QED
  BY <1>1, <1>2, <1>3 DEF Workspace, Loose

LEMMA CallStep ==
    ASSUME NEW w, Workspace(w), NEW f, NEW registers, NEW key,
           \A i \in DOMAIN registers : w[registers[i]] \notin w.gone,
           Fits([function |-> f, key |-> key,
                 args |-> [i \in DOMAIN registers |-> text(w, registers[i])]])
    PROVE  LET v == Call(w, f, registers, key)
           IN  Step(w, v, {}) /\ v.obj = w.obj /\ Loose(v) = Loose(w) /\ v.gone = w.gone
<1> DEFINE call == [function |-> f, key |-> key,
                    args |-> [i \in DOMAIN registers |-> text(w, registers[i])]]
           v == Call(w, f, registers, key)
<1>0. DOMAIN w = {"obj", "temp", "leftover", "gone", "misuse", "core", "refused",
                  "x", "y", "result"}
  BY DEF Workspace, Shape
<1>1. Fits(call)
  OBVIOUS
<1>2. v = [w EXCEPT !.core = w.core \cup {call},
                    !.misuse = w.misuse \/ \E i \in DOMAIN registers : w[registers[i]] \in w.gone]
  BY DEF Call
<1> HIDE DEF call
<1>3. /\ DOMAIN v = DOMAIN w /\ v.obj = w.obj /\ v.temp = w.temp /\ v.leftover = w.leftover
      /\ v.gone = w.gone /\ v.core = w.core \cup {call}
  BY <1>0, <1>2
<1>4. v.refused = w.refused /\ v.x = w.x /\ v.y = w.y /\ v.result = w.result
  BY <1>0, <1>2
<1>5. v.misuse = (w.misuse \/ \E i \in DOMAIN registers : w[registers[i]] \in w.gone)
  BY <1>0, <1>2, Zenon
<1> HIDE DEF v
<1>6. ~v.misuse /\ \A c \in v.core : Fits(c)
  BY <1>1, <1>3, <1>5 DEF Workspace, Clean
<1>7. v.x \in Nat /\ v.y \in Nat /\ v.result \in Nat
  BY <1>4 DEF Workspace, Shape
<1>8. Workspace(v) /\ Loose(v) = Loose(w)
  BY <1>3, <1>4, <1>6, <1>7, SameObjects
<1>9. Step(w, v, {})
  BY <1>3, <1>4, <1>8, LengthTyped DEF Step, Register
<1> QED
  BY <1>3, <1>8, <1>9 DEF v

(* A new object goes to register r, and nobody owns it yet. *)
Makes(w, v, r) ==
    /\ Step(w, v, {r})
    /\ v[r] \in 1 .. Len(v.obj) /\ v[r] > Len(w.obj) /\ v[r] \notin v.gone
    /\ Loose(v) = Loose(w) \cup {v[r]}

LEMMA AllocateStep ==
    ASSUME NEW w, Workspace(w), NEW r \in Register, NEW made \in AnyText
    PROVE  LET v == Allocate(w, r, made)
           IN  Makes(w, v, r) /\ text(v, r) = made
<1> DEFINE v == Allocate(w, r, made)
<1>0. DOMAIN w = {"obj", "temp", "leftover", "gone", "misuse", "core", "refused",
                  "x", "y", "result"}
  BY DEF Workspace, Shape
<1>1. /\ DOMAIN v = DOMAIN w /\ v.obj = Append(w.obj, made) /\ v.temp = w.temp
      /\ v.leftover = w.leftover /\ v.refused = w.refused /\ v.gone = w.gone
      /\ v.misuse = w.misuse /\ v.core = w.core
  BY <1>0 DEF Allocate, Register
<1>2. v[r] = Len(w.obj) + 1
  BY <1>0 DEF Allocate, Register
<1>3. \A q \in Register \ {r} : v[q] = w[q]
  BY <1>0 DEF Allocate, Register
<1> HIDE DEF v
<1>4. /\ Len(w.obj) \in Nat /\ Len(v.obj) = Len(w.obj) + 1 /\ v.obj \in Seq(AnyText)
      /\ v.obj[Len(w.obj) + 1] = made
      /\ \A i \in 1 .. Len(w.obj) : v.obj[i] = w.obj[i]
      /\ SlotCount \in Nat /\ SlotCount =< Len(w.obj)
  BY <1>1, SlotAssumption DEF Workspace, Shape
<1>5. v.x \in Nat /\ v.y \in Nat /\ v.result \in Nat
  <2>1. \A q \in Register : w[q] \in Nat
    BY DEF Workspace, Shape, Register
  <2>2. \A q \in Register : v[q] \in Nat
    BY <2>1, <1>2, <1>3, <1>4
  <2> QED
    BY <2>2 DEF Register
<1>6. Owned(v) = Owned(w) /\ Fresh(v) = Fresh(w) \cup {v[r]} /\ v[r] \notin Fresh(w)
  BY <1>1, <1>2, <1>4 DEF Owned, Fresh
<1>7. Owned(w) \subseteq Fresh(w) /\ w.gone \subseteq Owned(w)
  BY DEF Workspace, Clean, Owned
<1>8. Shape(v)
  BY <1>0, <1>1, <1>4, <1>5 DEF Workspace, Shape
<1>9. Clean(v)
  BY <1>1, <1>6 DEF Workspace, Clean
<1>10. Loose(v) = Loose(w) \cup {v[r]} /\ v[r] \notin v.gone
  BY <1>1, <1>6, <1>7 DEF Loose
<1>11. Step(w, v, {r})
  BY <1>1, <1>3, <1>4, <1>8, <1>9 DEF Step, Workspace
<1>12. v[r] \in 1 .. Len(v.obj) /\ v[r] > Len(w.obj) /\ text(v, r) = made
  BY <1>2, <1>4 DEF text
<1> QED
  BY <1>10, <1>11, <1>12 DEF v, Makes

(* What is put in temp_data_ has had no owner. *)
LEMMA PushStep ==
    ASSUME NEW w, Workspace(w), NEW r \in Register, w[r] \in Loose(w)
    PROVE  LET v == Push(w, r)
           IN  /\ Step(w, v, {}) /\ v.obj = w.obj /\ v.gone = w.gone
               /\ Loose(v) = Loose(w) \ {w[r]}
<1> DEFINE v == Push(w, r)
<1>0. DOMAIN w = {"obj", "temp", "leftover", "gone", "misuse", "core", "refused",
                  "x", "y", "result"}
  BY DEF Workspace, Shape
<1>1. w[r] \in Nat /\ w.temp \in Seq(Nat)
  BY DEF Register, Workspace, Shape
<1>2. /\ DOMAIN v = DOMAIN w /\ v.obj = w.obj /\ v.temp = Append(w.temp, w[r])
      /\ v.leftover = w.leftover /\ v.gone = w.gone /\ v.refused = w.refused
      /\ v.misuse = w.misuse /\ v.core = w.core
  BY <1>0 DEF Push
<1>3. v.x = w.x /\ v.y = w.y /\ v.result = w.result
  BY <1>0 DEF Push
<1> HIDE DEF v
<1>4. w[r] \in Fresh(w) /\ w[r] \notin Range(w.temp) /\ w[r] \notin w.gone
  BY DEF Loose, Owned
<1> DEFINE n == Len(w.temp)
<1>5. /\ n \in Nat /\ v.temp \in Seq(Nat) /\ DOMAIN v.temp = 1 .. n + 1
      /\ v.temp[n + 1] = w[r] /\ DOMAIN w.temp = 1 .. n
      /\ \A i \in 1 .. n : v.temp[i] = w.temp[i] /\ w.temp[i] # w[r]
  <2>1. \A i \in DOMAIN w.temp : w.temp[i] \in Range(w.temp)
    BY DEF Range
  <2>2. \A i \in DOMAIN w.temp : w.temp[i] # w[r]
    BY <1>4, <2>1
  <2>3. n \in Nat /\ DOMAIN w.temp = 1 .. n
    BY <1>1
  <2>4. Append(w.temp, w[r]) \in Seq(Nat) /\ Len(Append(w.temp, w[r])) = n + 1
    BY <1>1, <2>3
  <2>5. DOMAIN Append(w.temp, w[r]) = 1 .. n + 1
    BY <2>3, <2>4
  <2>6. Append(w.temp, w[r])[n + 1] = w[r]
    BY <1>1, <2>3
  <2>7. \A i \in 1 .. n : Append(w.temp, w[r])[i] = w.temp[i]
    BY <1>1, <2>3
  <2> HIDE DEF n
  <2> QED
    BY <1>2, <2>2, <2>3, <2>4, <2>5, <2>6, <2>7
<1> HIDE DEF n
<1>6. Range(v.temp) = Range(w.temp) \cup {w[r]}
  <2>1. \A i \in 1 .. n + 1 : i \in 1 .. n \/ i = n + 1
    BY <1>5
  <2>2. 1 .. n \subseteq 1 .. n + 1 /\ n + 1 \in 1 .. n + 1
    BY <1>5
  <2>3. \A i \in DOMAIN v.temp : v.temp[i] \in Range(w.temp) \cup {w[r]}
    BY <1>5, <2>1 DEF Range
  <2>4. \A i \in DOMAIN w.temp : w.temp[i] \in Range(v.temp)
    BY <1>5, <2>2, Zenon DEF Range
  <2>5. w[r] \in Range(v.temp)
    BY <1>5, <2>2, Zenon DEF Range
  <2>6. Range(v.temp) \subseteq Range(w.temp) \cup {w[r]}
    BY <2>3 DEF Range
  <2>7. Range(w.temp) \subseteq Range(v.temp)
    BY <2>4 DEF Range
  <2> QED
    BY <2>5, <2>6, <2>7
<1>7. Owned(v) = Owned(w) \cup {w[r]} /\ Fresh(v) = Fresh(w)
  BY <1>2, <1>6 DEF Owned, Fresh
<1>8. Shape(v)
  BY <1>0, <1>2, <1>3, <1>5 DEF Workspace, Shape
<1>9. \A i, j \in DOMAIN v.temp : v.temp[i] = v.temp[j] => i = j
  <2>1. \A i, j \in 1 .. n : w.temp[i] = w.temp[j] => i = j
    BY <1>5 DEF Workspace, Clean
  <2>2. \A i \in 1 .. n + 1 : i \in 1 .. n \/ i = n + 1
    BY <1>5
  <2> QED
    BY <1>5, <2>1, <2>2
<1>10. Clean(v)
  BY <1>2, <1>4, <1>6, <1>7, <1>9 DEF Workspace, Clean
<1>11. Loose(v) = Loose(w) \ {w[r]}
  BY <1>7 DEF Loose
<1>12. Step(w, v, {})
  BY <1>2, <1>3, <1>8, <1>10, LengthTyped DEF Step, Register, Workspace
<1> QED
  BY <1>2, <1>11, <1>12 DEF v

(* The objects in temp_data_ are as many as its entries. *)
LEMMA TempCardinality ==
    ASSUME NEW w, Workspace(w)
    PROVE  Cardinality(Range(w.temp)) = Len(w.temp)
<1> DEFINE n == Len(w.temp)
<1>1. w.temp \in Seq(Nat) /\ n \in Nat /\ DOMAIN w.temp = 1 .. n
  BY DEF Workspace, Shape
<1>2. \A i, j \in 1 .. n : w.temp[i] = w.temp[j] => i = j
  BY <1>1 DEF Workspace, Clean
<1> DEFINE f == [i \in 1 .. n |-> w.temp[i]]
           S == Range(w.temp)
<1>3. f \in [1 .. n -> S] /\ (\A i, j \in 1 .. n : f[i] = f[j] => i = j)
       /\ \A s \in S : \E i \in 1 .. n : f[i] = s
  <2> HIDE DEF n
  <2>1. \A i \in 1 .. n : w.temp[i] \in S
    BY <1>1 DEF Range
  <2>2. \A s \in S : \E i \in 1 .. n : w.temp[i] = s
    BY <1>1 DEF Range
  <2> HIDE DEF S
  <2> QED
    BY <1>2, <2>1, <2>2
<1> HIDE DEF n, f, S
<1>4. f \in Bijection(1 .. n, S)
  <2>1. DOMAIN f = 1 .. n
    BY <1>3
  <2>2. IsInjective(f)
    BY <1>3, <2>1 DEF IsInjective
  <2> QED
    BY <1>3, <2>2 DEF Bijection, Injection, Surjection
<1>5. ExistsBijection(1 .. n, S)
  BY <1>4 DEF ExistsBijection
<1>6. Cardinality(S) = n
  BY <1>1, <1>5, FS_CountingElements
<1> QED
  BY <1>6 DEF n, S

(* Deleting what has had no owner. *)
LEMMA DeleteStep ==
    ASSUME NEW w, Workspace(w), NEW id \in Loose(w)
    PROVE  LET v == delete(w, id)
           IN  /\ Workspace(v) /\ DeleteAfter(w, id) = v
               /\ v.obj = w.obj /\ v.x = w.x /\ v.y = w.y /\ v.result = w.result
               /\ v.gone = w.gone \cup {id} /\ Loose(v) = Loose(w) \ {id}
<1> DEFINE v == delete(w, id)
<1>0. DOMAIN w = {"obj", "temp", "leftover", "gone", "misuse", "core", "refused",
                  "x", "y", "result"}
  BY DEF Workspace, Shape
<1>1. /\ DOMAIN v = DOMAIN w /\ v.obj = w.obj /\ v.temp = w.temp /\ v.leftover = w.leftover
      /\ v.gone = w.gone \cup {id} /\ v.refused = w.refused /\ v.core = w.core
  BY <1>0 DEF delete
<1>2. v.x = w.x /\ v.y = w.y /\ v.result = w.result
  BY <1>0 DEF delete
<1>3. v.misuse = (w.misuse \/ id \in w.gone)
  BY <1>0, Zenon DEF delete
<1>4. ~w.refused
  BY DEF Workspace, Clean
<1>5. DeleteAfter(w, id) = v
  BY <1>4 DEF DeleteAfter
<1> HIDE DEF v
<1>6. id \in Fresh(w) /\ id \notin Range(w.temp) /\ id \notin w.gone
  BY DEF Loose, Owned
<1>7. Owned(v) = Owned(w) \cup {id} /\ Fresh(v) = Fresh(w)
  BY <1>1 DEF Owned, Fresh
<1>8. Shape(v)
  BY <1>0, <1>1, <1>2 DEF Workspace, Shape
<1>9. Clean(v)
  BY <1>1, <1>3, <1>6, <1>7 DEF Workspace, Clean
<1>10. Loose(v) = Loose(w) \ {id}
  BY <1>7 DEF Loose
<1> QED
  BY <1>1, <1>2, <1>5, <1>8, <1>9, <1>10 DEF v, Workspace

LEMMA ClearStep ==
    ASSUME NEW w, Workspace(w)
    PROVE  LET v == clear_temp_data(w)
           IN  /\ Workspace(v)
               /\ v.obj = w.obj /\ v.x = w.x /\ v.y = w.y /\ v.result = w.result
               /\ v.gone = Owned(w) /\ Loose(v) = Loose(w)
<1> DEFINE v == clear_temp_data(w)
<1>0. DOMAIN w = {"obj", "temp", "leftover", "gone", "misuse", "core", "refused",
                  "x", "y", "result"}
  BY DEF Workspace, Shape
<1>1. /\ DOMAIN v = DOMAIN w /\ v.obj = w.obj /\ v.temp = <<>> /\ v.leftover = 0
      /\ v.gone = w.gone \cup Range(w.temp) /\ v.refused = w.refused /\ v.core = w.core
  BY <1>0 DEF clear_temp_data
<1>2. v.x = w.x /\ v.y = w.y /\ v.result = w.result
  BY <1>0 DEF clear_temp_data
<1>3. v.misuse = (\/ w.misuse \/ Range(w.temp) \cap w.gone # {}
                  \/ Cardinality(Range(w.temp)) < Len(w.temp))
  BY <1>0, Zenon DEF clear_temp_data
<1> HIDE DEF v
<1>4. ~v.misuse
  <2>1. ~(Cardinality(Range(w.temp)) < Len(w.temp))
    <3>1. Len(w.temp) \in Nat
      BY DEF Workspace, Shape
    <3> QED
      BY <3>1, TempCardinality
  <2>2. ~w.misuse /\ Range(w.temp) \cap w.gone = {}
    BY DEF Workspace, Clean
  <2> QED
    BY <1>3, <2>1, <2>2
<1>5. Range(v.temp) = {}
  BY <1>1 DEF Range
<1>6. v.gone = Owned(w) /\ Owned(v) = Owned(w) /\ Fresh(v) = Fresh(w)
  BY <1>1, <1>5 DEF Owned, Fresh
<1>7. Shape(v)
  BY <1>0, <1>1, <1>2 DEF Workspace, Shape
<1>8. Clean(v)
  BY <1>1, <1>4, <1>5, <1>6 DEF Workspace, Clean
<1> QED
  BY <1>1, <1>2, <1>6, <1>7, <1>8 DEF v, Workspace, Loose

(* Registers may refer to the same object. *)
LEMMA PassStep ==
    ASSUME NEW w, Workspace(w)
    PROVE  LET v == Pass(w)
           IN  /\ Workspace(v) /\ v.obj = w.obj /\ v.gone = w.gone /\ Loose(v) = Loose(w)
               /\ v.x = w.result /\ v.y = w.y /\ v.result = w.result
<1> DEFINE v == Pass(w)
<1>0. DOMAIN w = {"obj", "temp", "leftover", "gone", "misuse", "core", "refused",
                  "x", "y", "result"}
  BY DEF Workspace, Shape
<1>1. DOMAIN v = DOMAIN w /\ v.obj = w.obj /\ v.temp = w.temp /\ v.leftover = w.leftover
      /\ v.gone = w.gone /\ v.misuse = w.misuse /\ v.core = w.core
      /\ v.refused = w.refused /\ v.x = w.result /\ v.y = w.y /\ v.result = w.result
  BY <1>0 DEF Pass
<1> HIDE DEF v
<1>2. v.x \in Nat /\ v.y \in Nat /\ v.result \in Nat
  BY <1>1 DEF Workspace, Shape
<1>3. ~v.misuse /\ \A call \in v.core : Fits(call)
  BY <1>1 DEF Workspace, Clean
<1> QED
  BY <1>1, <1>2, <1>3, SameObjects DEF v

LEMMA ReturnedStep ==
    ASSUME NEW w, Workspace(w)
    PROVE  LET v == Returned(w)
           IN  /\ Workspace(v) /\ v.obj = w.obj /\ v.gone = w.gone /\ Loose(v) = Loose(w)
               /\ v.x = w.x /\ v.y = w.y /\ v.result = w.x
<1> DEFINE v == Returned(w)
<1>0. DOMAIN w = {"obj", "temp", "leftover", "gone", "misuse", "core", "refused",
                  "x", "y", "result"}
  BY DEF Workspace, Shape
<1>1. DOMAIN v = DOMAIN w /\ v.obj = w.obj /\ v.temp = w.temp /\ v.leftover = w.leftover
      /\ v.gone = w.gone /\ v.misuse = w.misuse /\ v.core = w.core
      /\ v.refused = w.refused /\ v.x = w.x /\ v.y = w.y /\ v.result = w.x
  BY <1>0 DEF Returned
<1> HIDE DEF v
<1>2. v.x \in Nat /\ v.y \in Nat /\ v.result \in Nat
  BY <1>1 DEF Workspace, Shape
<1>3. ~v.misuse /\ \A call \in v.core : Fits(call)
  BY <1>1 DEF Workspace, Clean
<1> QED
  BY <1>1, <1>2, <1>3, SameObjects DEF v

-----------------------------------------------------------------------------
(* Calls of the core. *)

(* What a function of the core takes for granted of its only argument. *)
FitsOne(f, t, key) ==
    /\ f \in InCoefficientForm => ~t.ntt_form
    /\ f \in InNttForm => t.ntt_form
    /\ f \in NotRescaled => ~t.rescaled
    /\ f \in OfDuos => t.polynomial_count = 2
    /\ f \in OfTrios => t.polynomial_count = 3
    /\ f = "add_number" => t.scale = add_multiplier(level_(t))
    /\ f \in SwitchKey => ~(OneMoreLevel /\ t.moduli_id = 0)
    /\ key # NoKey => t.moduli_id >= to_moduli_id(key)

LEMMA OneArgument ==
    ASSUME NEW f, NEW t, NEW key, FitsOne(f, t, key)
    PROVE  Fits([function |-> f, key |-> key, args |-> <<t>>])
<1> DEFINE call == [function |-> f, key |-> key, args |-> <<t>>]
<1>1. call.function = f /\ call.key = key /\ call.args = <<t>>
  OBVIOUS
<1>2. Range(<<t>>) = {t} /\ Len(<<t>>) # 2 /\ <<t>>[1] = t
  BY DEF Range
<1> HIDE DEF call
<1>3. Fits(call)
  BY <1>1, <1>2 DEF Fits, FitsOne
<1> QED
  BY <1>3 DEF call

(* And of two texts, for the functions that take no key. *)
FitsTwo(f, a, b) ==
    /\ f \in InNttForm => a.ntt_form /\ b.ntt_form
    /\ f \in OfDuos => a.polynomial_count = 2
    /\ f \in OfTrios => a.polynomial_count = 3
    /\ f \notin InCoefficientForm \cup NotRescaled \cup SwitchKey
    /\ a.moduli_id = b.moduli_id /\ a.rescaled = b.rescaled
    /\ f \in Sums => a.scale = b.scale
    /\ f \in ConvertPlaintext => ~b.ntt_form
    /\ f \notin ConvertPlaintext => a.ntt_form = b.ntt_form
    /\ f \in OfEqualCounts => a.polynomial_count = b.polynomial_count

LEMMA TwoArguments ==
    ASSUME NEW f, NEW a, NEW b, FitsTwo(f, a, b)
    PROVE  Fits([function |-> f, key |-> NoKey, args |-> <<a, b>>])
<1> DEFINE call == [function |-> f, key |-> NoKey, args |-> <<a, b>>]
<1>1. call.function = f /\ call.key = NoKey /\ call.args = <<a, b>>
  OBVIOUS
<1>2. Range(<<a, b>>) = {a, b} /\ Len(<<a, b>>) = 2 /\ <<a, b>>[1] = a /\ <<a, b>>[2] = b
  BY DEF Range
<1> HIDE DEF call
<1>3. OperandsMatch(call)
  BY <1>1, <1>2 DEF OperandsMatch, FitsTwo
<1>4. f # "add_number"
  BY DEF FitsTwo, InCoefficientForm
<1>5. Fits(call)
  BY <1>1, <1>2, <1>3, <1>4 DEF Fits, FitsTwo
<1> QED
  BY <1>5 DEF call

(* The functions that encode values are given no text. *)
LEMMA NoArgument ==
    ASSUME NEW f \in {"encode", "encode_imaginary"}
    PROVE  Fits([function |-> f, key |-> NoKey, args |-> <<>>])
<1> DEFINE call == [function |-> f, key |-> NoKey, args |-> <<>>]
<1>1. call.function = f /\ call.key = NoKey /\ call.args = <<>>
  OBVIOUS
<1>2. Range(<<>>) = {} /\ Len(<<>>) # 2
  BY DEF Range
<1>3. f \notin OfDuos /\ f \notin OfTrios /\ f \notin SwitchKey /\ f # "add_number"
  BY DEF OfDuos, OfTrios, SwitchKey
<1> HIDE DEF call
<1>4. Fits(call)
  BY <1>1, <1>2, <1>3 DEF Fits
<1> QED
  BY <1>4 DEF call

(* A function of the core allocates a text. *)
LEMMA MadeStep ==
    ASSUME NEW w, Workspace(w), NEW f, NEW registers, NEW key, NEW r \in Register,
           NEW made \in AnyText,
           \A i \in DOMAIN registers : w[registers[i]] \notin w.gone,
           Fits([function |-> f, key |-> key,
                 args |-> [i \in DOMAIN registers |-> text(w, registers[i])]])
    PROVE  LET v == Allocate(Call(w, f, registers, key), r, made)
           IN  Makes(w, v, r) /\ text(v, r) = made
<1> DEFINE c == Call(w, f, registers, key)
           v == Allocate(c, r, made)
<1>1. Step(w, c, {}) /\ c.obj = w.obj /\ Loose(c) = Loose(w)
  BY CallStep
<1> HIDE DEF c
<1>2. Workspace(c)
  BY <1>1 DEF Step
<1>3. Makes(c, v, r) /\ text(v, r) = made
  BY <1>2, AllocateStep
<1> HIDE DEF v
<1>4. Step(w, v, {} \cup {r})
  BY <1>1, <1>3, StepStep DEF Makes
<1>5. Step(w, v, {r})
  BY <1>4 DEF Step
<1>6. Makes(w, v, r)
  BY <1>1, <1>3, <1>5 DEF Makes
<1> QED
  BY <1>3, <1>6 DEF v, c

LEMMA MadeOfOne ==
    ASSUME NEW w, Workspace(w), NEW f, NEW key, NEW q \in Register, NEW r \in Register,
           NEW made \in AnyText, w[q] \notin w.gone, FitsOne(f, text(w, q), key)
    PROVE  LET v == Allocate(Call(w, f, <<q>>, key), r, made)
           IN  Makes(w, v, r) /\ text(v, r) = made
<1> DEFINE registers == <<q>>
<1>1. DOMAIN registers = {1} /\ registers[1] = q
  OBVIOUS
<1>2. [i \in DOMAIN registers |-> text(w, registers[i])] = <<text(w, q)>>
  <2> DEFINE t == text(w, q)
  <2>1. \A i \in DOMAIN registers : text(w, registers[i]) = t
    BY <1>1
  <2> HIDE DEF t
  <2>2. [i \in {1} |-> t] = <<t>>
    OBVIOUS
  <2>3. [i \in DOMAIN registers |-> text(w, registers[i])] = [i \in {1} |-> t]
    BY <1>1, <2>1
  <2> QED
    BY <2>2, <2>3 DEF t
<1>3. \A i \in DOMAIN registers : w[registers[i]] \notin w.gone
  BY <1>1
<1> HIDE DEF registers
<1>4. Fits([function |-> f, key |-> key,
            args |-> [i \in DOMAIN registers |-> text(w, registers[i])]])
  BY <1>2, OneArgument
<1>5. LET v == Allocate(Call(w, f, registers, key), r, made)
      IN  Makes(w, v, r) /\ text(v, r) = made
  BY <1>3, <1>4, MadeStep
<1> QED
  BY <1>5 DEF registers

LEMMA TwoTexts ==
    ASSUME NEW w, NEW q1 \in Register, NEW q2 \in Register
    PROVE  /\ DOMAIN <<q1, q2>> = {1, 2} /\ <<q1, q2>>[1] = q1 /\ <<q1, q2>>[2] = q2
           /\ [i \in DOMAIN <<q1, q2>> |-> text(w, <<q1, q2>>[i])]
                = <<text(w, q1), text(w, q2)>>
<1> DEFINE registers == <<q1, q2>>
           s == text(w, q1)
           t == text(w, q2)
<1>1. DOMAIN registers = {1, 2} /\ registers[1] = q1 /\ registers[2] = q2
  OBVIOUS
<1>2. text(w, registers[1]) = s /\ text(w, registers[2]) = t
  BY <1>1
<1> HIDE DEF s, t
<1>3. [i \in {1, 2} |-> IF i = 1 THEN s ELSE t] = <<s, t>>
  OBVIOUS
<1>4. [i \in DOMAIN registers |-> text(w, registers[i])] = [i \in {1, 2} |-> IF i = 1 THEN s ELSE t]
  BY <1>1, <1>2
<1> QED
  BY <1>1, <1>3, <1>4 DEF s, t

LEMMA MadeOfTwo ==
    ASSUME NEW w, Workspace(w), NEW f, NEW q1 \in Register, NEW q2 \in Register,
           NEW r \in Register, NEW made \in AnyText,
           w[q1] \notin w.gone, w[q2] \notin w.gone, FitsTwo(f, text(w, q1), text(w, q2))
    PROVE  LET v == Allocate(Call(w, f, <<q1, q2>>, NoKey), r, made)
           IN  Makes(w, v, r) /\ text(v, r) = made
<1> DEFINE registers == <<q1, q2>>
<1>1. /\ DOMAIN registers = {1, 2} /\ registers[1] = q1 /\ registers[2] = q2
      /\ [i \in DOMAIN registers |-> text(w, registers[i])] = <<text(w, q1), text(w, q2)>>
  BY TwoTexts
<1>2. \A i \in DOMAIN registers : w[registers[i]] \notin w.gone
  BY <1>1
<1> HIDE DEF registers
<1>3. Fits([function |-> f, key |-> NoKey,
            args |-> [i \in DOMAIN registers |-> text(w, registers[i])]])
  BY <1>1, TwoArguments
<1>4. LET v == Allocate(Call(w, f, registers, NoKey), r, made)
      IN  Makes(w, v, r) /\ text(v, r) = made
  BY <1>2, <1>3, MadeStep
<1> QED
  BY <1>4 DEF registers

LEMMA MadeOfNone ==
    ASSUME NEW w, Workspace(w), NEW f \in {"encode", "encode_imaginary"},
           NEW r \in Register, NEW made \in AnyText
    PROVE  LET v == Allocate(Call(w, f, <<>>, NoKey), r, made)
           IN  Makes(w, v, r) /\ text(v, r) = made
<1> DEFINE registers == <<>>
<1>1. DOMAIN registers = {} /\ [i \in DOMAIN registers |-> text(w, registers[i])] = <<>>
  OBVIOUS
<1> HIDE DEF registers
<1>2. Fits([function |-> f, key |-> NoKey,
            args |-> [i \in DOMAIN registers |-> text(w, registers[i])]])
  BY <1>1, NoArgument
<1>4. \A i \in DOMAIN registers : w[registers[i]] \notin w.gone
  BY <1>1
<1>3. LET v == Allocate(Call(w, f, registers, NoKey), r, made)
      IN  Makes(w, v, r) /\ text(v, r) = made
  BY <1>2, <1>4, MadeStep
<1> QED
  BY <1>3 DEF registers

(* What the functions of one argument ask for. *)
LEMMA OneFits ==
    ASSUME NEW t
    PROVE  /\ ~t.ntt_form => FitsOne("to_ntt_form", t, NoKey)
           /\ t.ntt_form => FitsOne("to_intt_form", t, NoKey)
           /\ ~t.ntt_form /\ ~t.rescaled => FitsOne("rescale", t, NoKey)
           /\ ~t.ntt_form /\ ~t.rescaled => FitsOne("level_down", t, NoKey)
           /\ FitsOne("level_down_after_rescale", t, NoKey)
           /\ FitsOne("clone", t, NoKey) /\ FitsOne("negate", t, NoKey)
BY DEF FitsOne, NoKey, InCoefficientForm, InNttForm, NotRescaled, OfDuos, OfTrios, SwitchKey

-----------------------------------------------------------------------------
(* Functions on the text in a register. *)

(* The text in r has only changed its form. *)
Like(w, v, r) ==
    level(v, r) = level(w, r) /\ text(v, r).rescaled = text(w, r).rescaled

SameForm(w, v, r) == text(v, r).ntt_form = text(w, r).ntt_form

(* Only the text in r was replaced, by a good one that is not lost. *)
Replaces(w, v, r) ==
    Step(w, v, {r}) /\ GoodAt(v, r) /\ count(v, r) = count(w, r) /\ Loose(v) = Loose(w)

(* The same, but the new text has no owner yet. *)
Creates(w, v, r) == Makes(w, v, r) /\ GoodAt(v, r) /\ count(v, r) = count(w, r)

LEMMA NoStep ==
    ASSUME NEW w, NEW r, Workspace(w), GoodAt(w, r)
    PROVE  Replaces(w, w, r) /\ Like(w, w, r) /\ SameForm(w, w, r)
<1>1. Len(w.obj) \in Nat
  BY LengthTyped
<1> QED
  BY <1>1 DEF Replaces, Like, Step, SameForm

LEMMA ReplacesReplaces ==
    ASSUME NEW w, NEW v, NEW u, NEW r, Workspace(w), Replaces(w, v, r), Replaces(v, u, r)
    PROVE  Replaces(w, u, r)
<1>1. Step(w, u, {r} \cup {r})
  BY StepStep DEF Replaces
<1> QED
  BY <1>1 DEF Replaces, Step

LEMMA ReplacesCreates ==
    ASSUME NEW w, NEW v, NEW u, NEW r \in Register, Workspace(w), Replaces(w, v, r),
           Creates(v, u, r)
    PROVE  Creates(w, u, r)
<1>1. Step(w, v, {r}) /\ Step(v, u, {r}) /\ Workspace(v)
  BY DEF Replaces, Creates, Makes, Step
<1>2. Step(w, u, {r} \cup {r})
  BY <1>1, StepStep
<1>3. Len(w.obj) \in Nat /\ Len(v.obj) \in Nat /\ Len(w.obj) =< Len(v.obj)
  BY <1>1, LengthTyped DEF Step
<1>4. u[r] \in Nat /\ u[r] > Len(v.obj)
  BY DEF Creates, Makes
<1>5. u[r] > Len(w.obj)
  BY <1>3, <1>4
<1>6. Step(w, u, {r})
  BY <1>2 DEF Step
<1> QED
  BY <1>5, <1>6 DEF Creates, Makes, Replaces

LEMMA CreatesPush ==
    ASSUME NEW w, NEW v, NEW r \in Register, Workspace(w), Creates(w, v, r)
    PROVE  Replaces(w, Push(v, r), r) /\ text(Push(v, r), r) = text(v, r)
<1> DEFINE u == Push(v, r)
<1>1. Workspace(v) /\ Step(w, v, {r}) /\ GoodAt(v, r) /\ Loose(v) = Loose(w) \cup {v[r]}
  BY DEF Creates, Makes, Step
<1>2. Step(v, u, {}) /\ Loose(u) = Loose(v) \ {v[r]}
  BY <1>1, PushStep
<1> HIDE DEF u
<1>3. GoodAt(u, r) /\ text(u, r) = text(v, r)
  BY <1>1, <1>2, StepKeeps
<1>4. Step(w, u, {r} \cup {})
  BY <1>1, <1>2, StepStep
<1>5. Step(w, u, {r})
  BY <1>4 DEF Step
<1>6. v[r] \notin Loose(w)
  <2>1. v[r] > Len(w.obj) /\ Len(w.obj) \in Nat /\ v[r] \in Nat
    BY LengthTyped DEF Creates, Makes
  <2>2. SlotCount \in Nat
    BY SlotAssumption
  <2>3. v[r] \notin Fresh(w)
    BY <2>1, <2>2 DEF Fresh
  <2> QED
    BY <2>3 DEF Loose
<1>7. Replaces(w, u, r)
  BY <1>1, <1>2, <1>3, <1>5, <1>6 DEF Replaces, Creates, count
<1> QED
  BY <1>3, <1>7 DEF u

LEMMA FormStep ==
    ASSUME NEW w, NEW r \in Register, Workspace(w), GoodAt(w, r)
    PROVE  /\ ~text(w, r).ntt_form =>
                LET v == to_ntt_form(w, r)
                IN  Creates(w, v, r) /\ Like(w, v, r) /\ text(v, r).ntt_form
           /\ text(w, r).ntt_form =>
                LET v == to_intt_form(w, r)
                IN  Creates(w, v, r) /\ Like(w, v, r) /\ ~text(v, r).ntt_form
<1>1. Good(text(w, r)) /\ w[r] \notin w.gone
  BY DEF GoodAt
<1>2. ASSUME NEW b \in BOOLEAN, NEW f, FitsOne(f, text(w, r), NoKey)
      PROVE  LET v == Allocate(Call(w, f, <<r>>, NoKey), r, [text(w, r) EXCEPT !.ntt_form = b])
             IN  Creates(w, v, r) /\ Like(w, v, r) /\ text(v, r).ntt_form = b
  <2> DEFINE m == [text(w, r) EXCEPT !.ntt_form = b]
             v == Allocate(Call(w, f, <<r>>, NoKey), r, m)
  <2>1. /\ Good(m) /\ level_(m) = level(w, r) /\ m.rescaled = text(w, r).rescaled
        /\ m.polynomial_count = count(w, r) /\ m.ntt_form = b
    BY <1>1, ChangedGood DEF level, count
  <2> HIDE DEF m
  <2>2. m \in AnyText
    BY <2>1 DEF Good, AnyText
  <2>3. Makes(w, v, r) /\ text(v, r) = m
    BY <1>1, <1>2, <2>2, MadeOfOne
  <2> HIDE DEF v
  <2>4. GoodAt(v, r)
    BY <2>1, <2>3 DEF Makes, GoodAt
  <2>5. Creates(w, v, r) /\ Like(w, v, r) /\ text(v, r).ntt_form = b
    BY <2>1, <2>3, <2>4 DEF Creates, Like, level, count
  <2> QED
    BY <2>5 DEF v, m
<1>3. ASSUME ~text(w, r).ntt_form
      PROVE  LET v == to_ntt_form(w, r)
             IN  Creates(w, v, r) /\ Like(w, v, r) /\ text(v, r).ntt_form
  <2>1. FitsOne("to_ntt_form", text(w, r), NoKey)
    BY <1>3, OneFits
  <2>2. LET v == to_ntt_form(w, r)
        IN  Creates(w, v, r) /\ Like(w, v, r) /\ text(v, r).ntt_form = TRUE
    BY <1>2, <2>1 DEF to_ntt_form
  <2> QED
    BY <2>2
<1>4. ASSUME text(w, r).ntt_form
      PROVE  LET v == to_intt_form(w, r)
             IN  Creates(w, v, r) /\ Like(w, v, r) /\ ~text(v, r).ntt_form
  <2>1. FitsOne("to_intt_form", text(w, r), NoKey)
    BY <1>4, OneFits
  <2>2. LET v == to_intt_form(w, r)
        IN  Creates(w, v, r) /\ Like(w, v, r) /\ text(v, r).ntt_form = FALSE
    BY <1>2, <2>1 DEF to_intt_form
  <2> QED
    BY <2>2
<1> QED
  BY <1>3, <1>4

LEMMA ConvertStep ==
    ASSUME NEW w, NEW r \in Register, Workspace(w), GoodAt(w, r)
    PROVE  /\ LET v == ntt_(w, r)
              IN  Replaces(w, v, r) /\ Like(w, v, r) /\ text(v, r).ntt_form
           /\ LET v == intt_(w, r)
              IN  Replaces(w, v, r) /\ Like(w, v, r) /\ ~text(v, r).ntt_form
<1>1. ASSUME NEW v, Creates(w, v, r), Like(w, v, r)
      PROVE  /\ Replaces(w, Push(v, r), r) /\ Like(w, Push(v, r), r)
             /\ text(Push(v, r), r) = text(v, r)
  BY <1>1, CreatesPush DEF Like, level
<1>2. LET v == ntt_(w, r)
      IN  Replaces(w, v, r) /\ Like(w, v, r) /\ text(v, r).ntt_form
  <2>1. CASE text(w, r).ntt_form
    <3>1. ntt_(w, r) = w
      BY <2>1 DEF ntt_
    <3> QED
      BY <2>1, <3>1, NoStep
  <2>2. CASE ~text(w, r).ntt_form
    <3>1. ntt_(w, r) = Push(to_ntt_form(w, r), r)
      BY <2>2 DEF ntt_
    <3> QED
      BY <1>1, <2>2, <3>1, FormStep
  <2> QED
    BY <2>1, <2>2
<1>3. LET v == intt_(w, r)
      IN  Replaces(w, v, r) /\ Like(w, v, r) /\ ~text(v, r).ntt_form
  <2>1. CASE ~text(w, r).ntt_form
    <3>1. intt_(w, r) = w
      BY <2>1 DEF intt_
    <3> QED
      BY <2>1, <3>1, NoStep
  <2>2. CASE text(w, r).ntt_form
    <3>1. intt_(w, r) = Push(to_intt_form(w, r), r)
      BY <2>2 DEF intt_
    <3> QED
      BY <1>1, <2>2, <3>1, FormStep
  <2> QED
    BY <2>1, <2>2
<1> QED
  BY <1>2, <1>3

(* A function of the core with one argument and a good text for its result. *)
LEMMA CreateStep ==
    ASSUME NEW w, NEW r \in Register, Workspace(w), GoodAt(w, r), NEW f, NEW key, NEW made,
           FitsOne(f, text(w, r), key), Good(made), made.polynomial_count = count(w, r)
    PROVE  LET v == Allocate(Call(w, f, <<r>>, key), r, made)
           IN  Creates(w, v, r) /\ text(v, r) = made
<1> DEFINE v == Allocate(Call(w, f, <<r>>, key), r, made)
<1>1. made \in AnyText /\ w[r] \notin w.gone
  BY DEF Good, AnyText, GoodAt
<1>2. Makes(w, v, r) /\ text(v, r) = made
  BY <1>1, MadeOfOne
<1> HIDE DEF v
<1>3. Creates(w, v, r) /\ text(v, r) = made
  BY <1>2 DEF Creates, Makes, GoodAt, count
<1> QED
  BY <1>3 DEF v

LEMMA MakeRescaledStep ==
    ASSUME NEW w, NEW r \in Register, Workspace(w), GoodAt(w, r), ~text(w, r).rescaled,
           level(w, r) > 0
    PROVE  LET v == MakeRescaled(w, r)
           IN  /\ Creates(w, v, r) /\ text(v, r).rescaled /\ level(v, r) = level(w, r)
               /\ SameForm(w, v, r)
<1>1. ASSUME NEW v, Replaces(w, v, r), Like(w, v, r), ~text(v, r).ntt_form
      PROVE  LET u == core_rescale(v, r)
             IN  /\ Creates(w, u, r) /\ text(u, r).rescaled /\ level(u, r) = level(w, r)
                 /\ ~text(u, r).ntt_form
  <2> DEFINE m == Rescaled(text(v, r))
             u == core_rescale(v, r)
  <2>1. /\ Workspace(v) /\ Good(text(v, r)) /\ ~text(v, r).rescaled /\ level_(text(v, r)) > 0
        /\ GoodAt(v, r)
    BY <1>1 DEF Replaces, Step, Like, GoodAt, level
  <2>2. /\ Good(m) /\ level_(m) = level(w, r) /\ m.rescaled /\ ~m.ntt_form
        /\ m.polynomial_count = count(v, r)
    BY <1>1, <2>1, RescaledGood DEF Like, level, count
  <2>3. FitsOne("rescale", text(v, r), NoKey)
    BY <1>1, <2>1, OneFits
  <2> HIDE DEF m
  <2>4. Creates(v, u, r) /\ text(u, r) = m
    BY <2>1, <2>2, <2>3, CreateStep DEF core_rescale, m
  <2> HIDE DEF u
  <2>5. Creates(w, u, r)
    BY <1>1, <2>4, ReplacesCreates
  <2> QED
    BY <2>2, <2>4, <2>5 DEF u, level
<1>2. CASE ~text(w, r).ntt_form
  <2>1. MakeRescaled(w, r) = core_rescale(w, r)
    BY <1>2 DEF MakeRescaled
  <2> DEFINE u == core_rescale(w, r)
  <2>2. /\ Creates(w, u, r) /\ text(u, r).rescaled /\ level(u, r) = level(w, r)
        /\ ~text(u, r).ntt_form
    BY <1>1, <1>2, NoStep
  <2> HIDE DEF u
  <2>3. text(w, r).ntt_form = FALSE /\ text(u, r).ntt_form = FALSE
    BY <1>2, <2>2, Zenon DEF GoodAt, Good, TextRecord, Creates
  <2> QED
    BY <2>1, <2>2, <2>3 DEF SameForm, u
<1>3. CASE text(w, r).ntt_form
  <2> DEFINE i == intt_(w, r)
             u == core_rescale(i, r)
             p == Push(u, r)
             v == to_ntt_form(p, r)
  <2>0. Replaces(w, i, r) /\ Like(w, i, r) /\ ~text(i, r).ntt_form
    BY ConvertStep
  <2> HIDE DEF i
  <2>1. /\ Creates(w, u, r) /\ text(u, r).rescaled /\ level(u, r) = level(w, r)
        /\ ~text(u, r).ntt_form
    BY <1>1, <2>0
  <2> HIDE DEF u
  <2>2. /\ Replaces(w, p, r) /\ text(p, r).rescaled /\ level(p, r) = level(w, r)
        /\ ~text(p, r).ntt_form
    BY <2>1, CreatesPush DEF level
  <2> HIDE DEF p
  <2>3. Creates(p, v, r) /\ Like(p, v, r) /\ text(v, r).ntt_form
    BY <2>2, FormStep DEF Replaces, Step
  <2> HIDE DEF v
  <2>4. Creates(w, v, r)
    BY <2>2, <2>3, ReplacesCreates
  <2>5. text(v, r).rescaled /\ level(v, r) = level(w, r)
    BY <2>2, <2>3 DEF Like
  <2>6. MakeRescaled(w, r) = v
    BY <1>3 DEF MakeRescaled, v, p, u, i
  <2>7. text(w, r).ntt_form = TRUE /\ text(v, r).ntt_form = TRUE
    BY <1>3, <2>3, Zenon DEF GoodAt, Good, TextRecord, Creates
  <2> QED
    BY <2>4, <2>5, <2>6, <2>7 DEF SameForm
<1> QED
  BY <1>2, <1>3

LEMMA RescaleStep ==
    ASSUME NEW w, NEW r \in Register, Workspace(w), GoodAt(w, r), level(w, r) > 0
    PROVE  LET v == rescale_(w, r)
           IN  /\ Replaces(w, v, r) /\ text(v, r).rescaled /\ level(v, r) = level(w, r)
               /\ SameForm(w, v, r)
<1>1. CASE text(w, r).rescaled
  <2>1. rescale_(w, r) = w
    BY <1>1 DEF rescale_
  <2> QED
    BY <1>1, <2>1, NoStep
<1>2. CASE ~text(w, r).rescaled
  <2> DEFINE u == MakeRescaled(w, r)
  <2>1. rescale_(w, r) = Push(u, r)
    BY <1>2 DEF rescale_
  <2>2. /\ Creates(w, u, r) /\ text(u, r).rescaled /\ level(u, r) = level(w, r)
        /\ SameForm(w, u, r)
    BY <1>2, MakeRescaledStep
  <2> HIDE DEF u
  <2> QED
    BY <2>1, <2>2, CreatesPush DEF level, SameForm
<1> QED
  BY <1>1, <1>2

LEMMA MakeLeveledDownStep ==
    ASSUME NEW w, NEW r \in Register, Workspace(w), GoodAt(w, r), NEW to \in Level,
           to < level(w, r)
    PROVE  LET v == MakeLeveledDown(w, r, to)
           IN  /\ Creates(w, v, r) /\ ~text(v, r).rescaled /\ level(v, r) = to
               /\ SameForm(w, v, r)
<1>1. ASSUME NEW v, Replaces(w, v, r), Like(w, v, r), ~text(w, r).rescaled,
             ~text(v, r).ntt_form
      PROVE  LET u == core_level_down(v, r, to)
             IN  /\ Creates(w, u, r) /\ ~text(u, r).rescaled /\ level(u, r) = to
                 /\ ~text(u, r).ntt_form
  <2> DEFINE m == LeveledDown(text(v, r), to)
             u == core_level_down(v, r, to)
  <2>1. /\ Workspace(v) /\ Good(text(v, r)) /\ ~text(v, r).rescaled /\ to < level_(text(v, r))
        /\ GoodAt(v, r)
    BY <1>1 DEF Replaces, Step, Like, GoodAt, level
  <2>2. /\ Good(m) /\ level_(m) = to /\ ~m.rescaled /\ m.polynomial_count = count(v, r)
        /\ ~m.ntt_form
    BY <1>1, <2>1, LeveledDownGood DEF count
  <2>3. FitsOne("level_down", text(v, r), NoKey)
    BY <1>1, <2>1, OneFits
  <2> HIDE DEF m
  <2>4. Creates(v, u, r) /\ text(u, r) = m
    BY <2>1, <2>2, <2>3, CreateStep DEF core_level_down, m
  <2> HIDE DEF u
  <2>5. Creates(w, u, r)
    BY <1>1, <2>4, ReplacesCreates
  <2> QED
    BY <2>2, <2>4, <2>5 DEF u, level
<1>2. CASE text(w, r).rescaled
  <2> DEFINE m == LeveledDownAfterRescale(text(w, r), to)
             u == core_level_down_after_rescale(w, r, to)
  <2>1. Good(text(w, r)) /\ to < level_(text(w, r))
    BY DEF GoodAt, level
  <2>2. /\ Good(m) /\ level_(m) = to /\ ~m.rescaled /\ m.polynomial_count = count(w, r)
        /\ m.ntt_form = text(w, r).ntt_form
    BY <1>2, <2>1, LeveledDownAfterRescaleGood DEF count
  <2>3. FitsOne("level_down_after_rescale", text(w, r), NoKey)
    BY OneFits
  <2> HIDE DEF m
  <2>4. Creates(w, u, r) /\ text(u, r) = m
    BY <2>2, <2>3, CreateStep DEF core_level_down_after_rescale, m
  <2> HIDE DEF u
  <2>5. ~text(u, r).rescaled /\ level(u, r) = to /\ SameForm(w, u, r)
    BY <2>2, <2>4 DEF level, SameForm
  <2> QED
    BY <1>2, <2>4, <2>5 DEF MakeLeveledDown, u
<1>3. CASE ~text(w, r).rescaled /\ text(w, r).ntt_form
  <2> DEFINE i == intt_(w, r)
             u == core_level_down(i, r, to)
             v == to_ntt_form(u, r)
             d == delete(v, u[r])
  <2>0. Replaces(w, i, r) /\ Like(w, i, r) /\ ~text(i, r).ntt_form
    BY ConvertStep
  <2> HIDE DEF i
  <2>1. /\ Creates(w, u, r) /\ ~text(u, r).rescaled /\ level(u, r) = to
        /\ ~text(u, r).ntt_form
    BY <1>1, <1>3, <2>0
  <2> HIDE DEF u
  <2>2. /\ Workspace(u) /\ GoodAt(u, r) /\ Step(w, u, {r}) /\ u[r] > Len(w.obj)
        /\ Loose(u) = Loose(w) \cup {u[r]} /\ u[r] \in 1 .. Len(u.obj)
    BY <2>1 DEF Creates, Makes, Step
  <2>3. Creates(u, v, r) /\ Like(u, v, r) /\ text(v, r).ntt_form
    BY <2>1, <2>2, FormStep
  <2> HIDE DEF v
  <2>4. /\ Workspace(v) /\ Step(u, v, {r}) /\ GoodAt(v, r) /\ v[r] > Len(u.obj)
        /\ Loose(v) = Loose(u) \cup {v[r]}
    BY <2>3 DEF Creates, Makes, Step
  <2>5. /\ Workspace(d) /\ d.obj = v.obj /\ d.x = v.x /\ d.y = v.y /\ d.result = v.result
        /\ d.gone = v.gone \cup {u[r]} /\ Loose(d) = Loose(v) \ {u[r]}
    BY <2>2, <2>4, DeleteStep
  <2> HIDE DEF d
  <2>6. Step(w, v, {r} \cup {r})
    BY <2>2, <2>4, StepStep
  <2>7. \A q \in Register : d[q] = v[q]
    BY <2>5 DEF Register
  <2>8. /\ Len(w.obj) \in Nat /\ Len(u.obj) \in Nat /\ Len(w.obj) =< Len(u.obj)
        /\ u[r] \in Nat /\ v[r] \in Nat /\ Len(v.obj) \in Nat
    BY <2>2, <2>4, LengthTyped DEF Step, GoodAt
  <2>9. u[r] # v[r] /\ v[r] > Len(w.obj) /\ \A k \in 1 .. Len(w.obj) : k # u[r]
    BY <2>2, <2>4, <2>8
  <2>10. Step(w, d, {r})
    <3>1. Len(w.obj) =< Len(d.obj)
      BY <2>5, <2>6 DEF Step
    <3>2. \A k \in 1 .. Len(w.obj) : d.obj[k] = w.obj[k] /\ (k \in d.gone => k \in w.gone)
      BY <2>5, <2>6, <2>9 DEF Step
    <3>3. \A q \in Register \ {r} : d[q] = w[q]
      BY <2>6, <2>7 DEF Step
    <3> QED
      BY <2>5, <3>1, <3>2, <3>3 DEF Step
  <2>11. u[r] \notin Loose(w)
    BY <2>2, <2>8, SlotAssumption DEF Loose, Fresh
  <2>12. Loose(d) = Loose(w) \cup {d[r]}
    BY <2>2, <2>4, <2>5, <2>7, <2>9, <2>11
  <2>13. text(d, r) = text(v, r)
    BY <2>5, <2>7 DEF text
  <2>14. GoodAt(d, r)
    BY <2>4, <2>5, <2>7, <2>9, <2>13 DEF GoodAt
  <2>15. Creates(w, d, r)
    <3>1. d[r] \in 1 .. Len(d.obj) /\ d[r] > Len(w.obj) /\ d[r] \notin d.gone
      BY <2>7, <2>9, <2>14 DEF GoodAt
    <3>2. count(d, r) = count(w, r)
      BY <2>1, <2>3, <2>13 DEF Creates, count
    <3> QED
      BY <2>10, <2>12, <2>14, <3>1, <3>2 DEF Creates, Makes
  <2>16. ~text(d, r).rescaled /\ level(d, r) = to /\ text(d, r).ntt_form
    BY <2>1, <2>3, <2>13 DEF Like, level
  <2>17. MakeLeveledDown(w, r, to) = d
    BY <1>3 DEF MakeLeveledDown, ToNttThenDelete, d, v, u, i
  <2>18. text(w, r).ntt_form = TRUE /\ text(d, r).ntt_form = TRUE
    BY <1>3, <2>14, <2>16, Zenon DEF GoodAt, Good, TextRecord
  <2> QED
    BY <2>15, <2>16, <2>17, <2>18 DEF SameForm
<1>4. CASE ~text(w, r).rescaled /\ ~text(w, r).ntt_form
  <2> DEFINE u == core_level_down(w, r, to)
  <2>1. MakeLeveledDown(w, r, to) = u
    BY <1>4 DEF MakeLeveledDown
  <2>2. /\ Creates(w, u, r) /\ ~text(u, r).rescaled /\ level(u, r) = to
        /\ ~text(u, r).ntt_form
    BY <1>1, <1>4, NoStep
  <2> HIDE DEF u
  <2>3. text(w, r).ntt_form = FALSE /\ text(u, r).ntt_form = FALSE
    BY <1>4, <2>2, Zenon DEF GoodAt, Good, TextRecord, Creates
  <2> QED
    BY <2>1, <2>2, <2>3 DEF SameForm
<1> QED
  BY <1>2, <1>3, <1>4

LEMMA LevelDownStep ==
    ASSUME NEW w, NEW r \in Register, Workspace(w), GoodAt(w, r), NEW to \in Level,
           to =< level(w, r)
    PROVE  LET v == level_down_(w, r, to)
           IN  /\ Replaces(w, v, r) /\ level(v, r) = to /\ SameForm(w, v, r)
               /\ to < level(w, r) => ~text(v, r).rescaled
               /\ to = level(w, r) => v = w
<1>0. level(w, r) \in Int /\ to \in Int
  BY Typed DEF GoodAt, Good, level, Level
<1>1. CASE level(w, r) = to
  <2>1. level_down_(w, r, to) = w
    BY <1>1 DEF level_down_
  <2> QED
    BY <1>0, <1>1, <2>1, NoStep
<1>2. CASE level(w, r) # to
  <2>2. to < level(w, r)
    BY <1>0, <1>2
  <2> DEFINE u == MakeLeveledDown(w, r, to)
  <2>3. Creates(w, u, r) /\ level(u, r) = to /\ SameForm(w, u, r) /\ ~text(u, r).rescaled
    BY <2>2, MakeLeveledDownStep
  <2> HIDE DEF u
  <2>4. /\ Replaces(w, Push(u, r), r) /\ level(Push(u, r), r) = to
        /\ SameForm(w, Push(u, r), r) /\ ~text(Push(u, r), r).rescaled
    BY <2>3, CreatesPush DEF level, SameForm
  <2>5. level_down_(w, r, to) = Push(u, r)
    BY <1>2 DEF level_down_, u
  <2> QED
    BY <1>2, <2>4, <2>5
<1> QED
  BY <1>1, <1>2

-----------------------------------------------------------------------------
(* Functions on two texts. *)

GoodPair(w) == Workspace(w) /\ GoodAt(w, "x") /\ GoodAt(w, "y")

(* x and y may have been replaced, by texts that are as good. *)
Pairs(w, v) ==
    /\ Step(w, v, {"x", "y"}) /\ GoodPair(v) /\ Loose(v) = Loose(w)
    /\ count(v, "x") = count(w, "x") /\ count(v, "y") = count(w, "y")

LEMMA PairsPairs ==
    ASSUME NEW w, NEW v, NEW u, Workspace(w), Pairs(w, v), Pairs(v, u)
    PROVE  Pairs(w, u)
<1>1. Step(w, u, {"x", "y"} \cup {"x", "y"})
  BY StepStep DEF Pairs
<1> QED
  BY <1>1 DEF Pairs, Step

LEMMA PairReplaced ==
    ASSUME NEW w, NEW v, NEW r \in {"x", "y"}, GoodPair(w), Replaces(w, v, r)
    PROVE  /\ Pairs(w, v)
           /\ \A q \in {"x", "y"} \ {r} : text(v, q) = text(w, q)
<1>1. Workspace(w) /\ GoodAt(w, "x") /\ GoodAt(w, "y") /\ Step(w, v, {r}) /\ GoodAt(v, r)
      /\ count(v, r) = count(w, r) /\ Workspace(v) /\ Loose(v) = Loose(w)
  BY DEF GoodPair, Replaces, Step
<1>2. \A q \in {"x", "y"} \ {r} : GoodAt(v, q) /\ text(v, q) = text(w, q)
  BY <1>1, StepKeeps DEF Register
<1>3. GoodAt(v, "x") /\ GoodAt(v, "y")
  BY <1>1, <1>2
<1>4. count(v, "x") = count(w, "x") /\ count(v, "y") = count(w, "y")
  BY <1>1, <1>2 DEF count
<1>5. Step(w, v, {"x", "y"})
  BY <1>1 DEF Step
<1> QED
  BY <1>1, <1>2, <1>3, <1>4, <1>5 DEF Pairs, GoodPair

LEMMA PairSame ==
    ASSUME NEW w, GoodPair(w)
    PROVE  Pairs(w, w)
<1>1. Workspace(w) /\ GoodAt(w, "x")
  BY DEF GoodPair
<1>2. Step(w, w, {"x"})
  BY <1>1, NoStep DEF Replaces
<1> QED
  BY <1>2 DEF Pairs, Step

(* One of the two texts is brought to another form, or not. *)
Converts(w, v, r) ==
    /\ Pairs(w, v) /\ Like(w, v, r)
    /\ \A q \in {"x", "y"} \ {r} : text(v, q) = text(w, q)

LEMMA PairConverted ==
    ASSUME NEW w, NEW r \in {"x", "y"}, GoodPair(w)
    PROVE  /\ Converts(w, ntt_(w, r), r) /\ text(ntt_(w, r), r).ntt_form
           /\ Converts(w, intt_(w, r), r) /\ ~text(intt_(w, r), r).ntt_form
           /\ Converts(w, w, r)
<1>1. Workspace(w) /\ GoodAt(w, r) /\ r \in Register
  BY DEF GoodPair, Register
<1>2. Converts(w, w, r)
  BY <1>1, PairSame, NoStep DEF Converts
<1> QED
  BY <1>1, <1>2, ConvertStep, PairReplaced DEF Converts

LEMMA PairInttIfLeveledDown ==
    ASSUME NEW w, NEW r \in {"x", "y"}, NEW other, NEW always, GoodPair(w)
    PROVE  LET v == InttIfLeveledDown(w, r, other, always)
           IN  Converts(w, v, r) /\ (always => ~text(v, r).ntt_form)
BY PairConverted DEF InttIfLeveledDown

LEMMA PairNttIf ==
    ASSUME NEW w, NEW r \in {"x", "y"}, NEW ntt_form, GoodPair(w)
    PROVE  LET v == NttIf(w, r, ntt_form)
           IN  /\ Converts(w, v, r)
               /\ ntt_form => text(v, r).ntt_form
               /\ ~ntt_form => text(v, r) = text(w, r)
BY PairConverted DEF NttIf

(* The level at which two texts operate is one of a text of the engine. *)
LEMMA MinLevel ==
    ASSUME NEW w, GoodPair(w)
    PROVE  /\ min_level(w) \in Level
           /\ \A r \in {"x", "y"} : level(w, r) \in Level /\ min_level(w) =< level(w, r)
           /\ min_level(w) = level(w, "x") \/ min_level(w) = level(w, "y")
<1>1. level(w, "x") \in Level /\ level(w, "y") \in Level
  BY DEF GoodPair, GoodAt, Good, level
<1> QED
  BY <1>1, Typed DEF min_level, Level

LEMMA PairLeveled ==
    ASSUME NEW w, GoodPair(w), NEW to \in Level,
           \A r \in {"x", "y"} : to =< level(w, r)
    PROVE  LET v == MatchLevels(w, to)
           IN  /\ Pairs(w, v) /\ level(v, "x") = to /\ level(v, "y") = to
               /\ SameForm(w, v, "x") /\ SameForm(w, v, "y")
<1> DEFINE v == level_down_(w, "x", to)
           u == level_down_(v, "y", to)
<1>1. Replaces(w, v, "x") /\ level(v, "x") = to /\ SameForm(w, v, "x")
  BY LevelDownStep DEF GoodPair, Register
<1> HIDE DEF v
<1>2. Pairs(w, v) /\ text(v, "y") = text(w, "y")
  BY <1>1, PairReplaced
<1>3. GoodPair(v) /\ to =< level(v, "y")
  BY <1>2 DEF Pairs, level
<1>4. Replaces(v, u, "y") /\ level(u, "y") = to /\ SameForm(v, u, "y")
  BY <1>3, LevelDownStep DEF GoodPair, Register
<1> HIDE DEF u
<1>5. Pairs(v, u) /\ text(u, "x") = text(v, "x")
  BY <1>3, <1>4, PairReplaced
<1>6. Pairs(w, u)
  BY <1>2, <1>5, PairsPairs DEF GoodPair
<1> QED
  BY <1>1, <1>2, <1>4, <1>5, <1>6 DEF MatchLevels, level, u, v, SameForm

LEMMA PairRescaled ==
    ASSUME NEW w, NEW r \in {"x", "y"}, NEW q \in {"x", "y"}, r # q, GoodPair(w),
           level(w, "x") = level(w, "y")
    PROVE  LET v == RescaleIfOther(w, r, q)
           IN  /\ Pairs(w, v) /\ level(v, r) = level(w, r) /\ text(v, q) = text(w, q)
               /\ text(w, q).rescaled => text(v, r).rescaled
               /\ ~text(w, q).rescaled => text(v, r) = text(w, r)
               /\ SameForm(w, v, r)
<1>1. CASE ~text(w, r).rescaled /\ text(w, q).rescaled
  <2>1. GoodAt(w, q) /\ GoodAt(w, r) /\ level(w, r) = level(w, q) /\ Workspace(w)
    BY DEF GoodPair
  <2>2. level(w, r) > 0
    BY <1>1, <2>1, GoodText DEF GoodAt, level
  <2> DEFINE v == rescale_(w, r)
  <2>3. /\ Replaces(w, v, r) /\ text(v, r).rescaled /\ level(v, r) = level(w, r)
        /\ SameForm(w, v, r)
    BY <2>1, <2>2, RescaleStep DEF Register
  <2> HIDE DEF v
  <2>4. Pairs(w, v) /\ text(v, q) = text(w, q)
    BY <2>3, PairReplaced
  <2> QED
    BY <1>1, <2>3, <2>4 DEF RescaleIfOther, v
<1>2. CASE ~(~text(w, r).rescaled /\ text(w, q).rescaled)
  <2>1. RescaleIfOther(w, r, q) = w
    BY <1>2 DEF RescaleIfOther
  <2> QED
    BY <1>2, <2>1, PairSame DEF SameForm
<1> QED
  BY <1>1, <1>2

(* After match_form both texts are at the same place, in the form of x; a   *)
(* plaintext y is in coefficient form.                                      *)
Matches(w, v) ==
    /\ Pairs(w, v) /\ level(v, "x") = min_level(w) /\ level(v, "y") = min_level(w)
    /\ text(v, "x").rescaled = text(v, "y").rescaled
    /\ text(v, "x").ntt_form <=> text(w, "x").ntt_form
    /\ text(v, "y").ntt_form <=> text(w, "x").ntt_form /\ count(w, "y") # 1

LEMMA MatchFormPairs ==
    ASSUME NEW w, GoodPair(w)
    PROVE  Matches(w, match_form(w))
<1> DEFINE ntt_form == text(w, "x").ntt_form
           plaintext == IsPlaintext(text(w, "y"))
           xAlways == ~ntt_form
           yAlways == plaintext \/ ~ntt_form
           a == InttIfLeveledDown(w, "x", "y", xAlways)
           b == InttIfLeveledDown(a, "y", "x", yAlways)
           c == MatchLevels(b, min_level(w))
           d == RescaleIfOther(c, "x", "y")
           e == RescaleIfOther(d, "y", "x")
           f == NttIf(e, "x", ntt_form)
           g == NttIf(f, "y", ntt_form /\ ~plaintext)
<1>0. plaintext <=> count(w, "y") = 1
  BY DEF IsPlaintext, count
<1>1. match_form(w) = g
  BY DEF match_form
<1>a. ntt_form <=> text(w, "x").ntt_form
  OBVIOUS
<1> HIDE DEF ntt_form, plaintext
<1>b. (xAlways <=> ~ntt_form) /\ (yAlways <=> plaintext \/ ~ntt_form)
  OBVIOUS
<1> HIDE DEF xAlways, yAlways
<1>2. Converts(w, a, "x") /\ GoodPair(a) /\ Workspace(w) /\ (xAlways => ~text(a, "x").ntt_form)
  BY PairInttIfLeveledDown DEF Converts, Pairs, GoodPair
<1> HIDE DEF a
<1>3. /\ Converts(a, b, "y") /\ GoodPair(b)
      /\ yAlways => ~text(b, "y").ntt_form
  BY <1>2, PairInttIfLeveledDown DEF Converts, Pairs
<1> HIDE DEF b
<1>4. Pairs(w, b) /\ level(b, "x") = level(w, "x") /\ level(b, "y") = level(w, "y")
  BY <1>2, <1>3, PairsPairs DEF Converts, Like, level
<1>5. min_level(w) \in Level /\ \A r \in {"x", "y"} : min_level(w) =< level(b, r)
  BY <1>4, MinLevel
<1>6. /\ Pairs(b, c) /\ level(c, "x") = min_level(w) /\ level(c, "y") = min_level(w)
      /\ GoodPair(c) /\ SameForm(b, c, "x") /\ SameForm(b, c, "y")
  BY <1>3, <1>5, PairLeveled DEF Pairs
<1> HIDE DEF c
<1>7. /\ Pairs(c, d) /\ level(d, "x") = level(c, "x") /\ text(d, "y") = text(c, "y")
      /\ text(c, "y").rescaled => text(d, "x").rescaled
      /\ ~text(c, "y").rescaled => text(d, "x") = text(c, "x")
      /\ SameForm(c, d, "x")
  BY <1>6, PairRescaled
<1> HIDE DEF d
<1>8. GoodPair(d) /\ level(d, "x") = min_level(w) /\ level(d, "y") = min_level(w)
  BY <1>6, <1>7 DEF Pairs, level
<1>9. /\ Pairs(d, e) /\ level(e, "y") = level(d, "y") /\ text(e, "x") = text(d, "x")
      /\ text(d, "x").rescaled => text(e, "y").rescaled
      /\ ~text(d, "x").rescaled => text(e, "y") = text(d, "y")
      /\ SameForm(d, e, "y")
  BY <1>8, PairRescaled
<1> HIDE DEF e
<1>10. level(e, "x") = min_level(w) /\ level(e, "y") = min_level(w) /\ GoodPair(e)
  BY <1>8, <1>9 DEF Pairs, level
<1>11. text(e, "x").rescaled = text(e, "y").rescaled
  <2>1. /\ text(e, "x") \in TextRecord /\ text(e, "y") \in TextRecord
    BY <1>10 DEF GoodPair, GoodAt, Good
  <2>2. text(e, "x").rescaled \in BOOLEAN /\ text(e, "y").rescaled \in BOOLEAN
    BY <2>1 DEF TextRecord
  <2>3. text(e, "x").rescaled <=> text(e, "y").rescaled
    BY <1>7, <1>9
  <2> QED
    BY <2>2, <2>3
<1>12. /\ Converts(e, f, "x") /\ GoodPair(f)
       /\ ntt_form => text(f, "x").ntt_form
       /\ ~ntt_form => text(f, "x") = text(e, "x")
  BY <1>10, PairNttIf DEF Converts, Pairs
<1> HIDE DEF f
<1>13. /\ Converts(f, g, "y")
       /\ ntt_form /\ ~plaintext => text(g, "y").ntt_form
       /\ ~(ntt_form /\ ~plaintext) => text(g, "y") = text(f, "y")
  BY <1>12, PairNttIf
<1> HIDE DEF g
<1>14. Pairs(w, c) /\ Pairs(w, d) /\ Pairs(w, e) /\ Pairs(w, f) /\ Pairs(w, g)
  BY <1>2, <1>4, <1>6, <1>7, <1>9, <1>12, <1>13, PairsPairs DEF Converts
<1>15. text(g, "x") = text(f, "x") /\ text(f, "y") = text(e, "y")
  BY <1>12, <1>13 DEF Converts
<1>16. /\ level(g, "x") = min_level(w) /\ level(g, "y") = min_level(w)
       /\ text(g, "x").rescaled = text(g, "y").rescaled
  BY <1>10, <1>11, <1>12, <1>13, <1>15 DEF Converts, Like, level
<1>17. text(g, "x").ntt_form <=> ntt_form
  <2>1. ~ntt_form => ~text(b, "x").ntt_form
    BY <1>2, <1>3, <1>b DEF Converts
  <2>2. text(e, "x").ntt_form = text(b, "x").ntt_form
    BY <1>6, <1>7, <1>9 DEF SameForm
  <2> QED
    BY <1>12, <1>15, <2>1, <2>2
<1>18. text(g, "y").ntt_form <=> ntt_form /\ ~plaintext
  <2>1. text(e, "y").ntt_form = text(b, "y").ntt_form
    BY <1>6, <1>7, <1>9 DEF SameForm
  <2> QED
    BY <1>3, <1>13, <1>15, <1>b, <2>1
<1> QED
  BY <1>0, <1>1, <1>a, <1>14, <1>16, <1>17, <1>18 DEF Matches

LEMMA PrepareStep ==
    ASSUME NEW w, NEW r \in Register, Workspace(w), GoodAt(w, r), NEW to \in Level,
           to =< level(w, r), to > 0
    PROVE  LET v == prepare_for_multiply(w, r, to)
           IN  /\ Replaces(w, v, r) /\ text(v, r).rescaled /\ level(v, r) = to
               /\ text(v, r).ntt_form
<1> DEFINE a == IF level(w, r) > to THEN intt_(w, r) ELSE w
           b == level_down_(a, r, to)
           c == rescale_(b, r)
           d == ntt_(c, r)
<1>1. prepare_for_multiply(w, r, to) = d
  BY DEF prepare_for_multiply
<1>2. Replaces(w, a, r) /\ Like(w, a, r)
  BY ConvertStep, NoStep
<1> HIDE DEF a
<1>3. Workspace(a) /\ GoodAt(a, r) /\ to =< level(a, r)
  BY <1>2 DEF Replaces, Step, Like
<1>4. Replaces(a, b, r) /\ level(b, r) = to
  BY <1>3, LevelDownStep
<1> HIDE DEF b
<1>5. Workspace(b) /\ GoodAt(b, r) /\ level(b, r) > 0
  BY <1>4 DEF Replaces, Step
<1>6. Replaces(b, c, r) /\ text(c, r).rescaled /\ level(c, r) = to
  BY <1>4, <1>5, RescaleStep
<1> HIDE DEF c
<1>7. Workspace(c) /\ GoodAt(c, r)
  BY <1>6 DEF Replaces, Step
<1>8. Replaces(c, d, r) /\ Like(c, d, r) /\ text(d, r).ntt_form
  BY <1>7, ConvertStep
<1> HIDE DEF d
<1>9. Replaces(w, d, r)
  BY <1>2, <1>4, <1>6, <1>8, <1>3, <1>5, <1>7, ReplacesReplaces
<1> QED
  BY <1>1, <1>6, <1>8, <1>9 DEF Like

(* The texts of a product: rescaled, in NTT form, at the lower level. *)
LEMMA PreparedPairs ==
    ASSUME NEW w, GoodPair(w), level(w, "x") > 0, level(w, "y") > 0
    PROVE  LET v == Prepared(w, min_level(w))
           IN  /\ Pairs(w, v)
               /\ \A r \in {"x", "y"} : /\ text(v, r).rescaled /\ text(v, r).ntt_form
                                       /\ level(v, r) = min_level(w)
<1> DEFINE to == min_level(w)
           v == prepare_for_multiply(w, "x", to)
           u == prepare_for_multiply(v, "y", to)
<1>1. to \in Level /\ to > 0 /\ to =< level(w, "x") /\ to =< level(w, "y")
  BY MinLevel
<1>2. Prepared(w, min_level(w)) = u
  BY DEF Prepared
<1> HIDE DEF to
<1>3. Replaces(w, v, "x") /\ text(v, "x").rescaled /\ level(v, "x") = to
      /\ text(v, "x").ntt_form
  BY <1>1, PrepareStep DEF GoodPair, Register
<1> HIDE DEF v
<1>4. Pairs(w, v) /\ text(v, "y") = text(w, "y")
  BY <1>3, PairReplaced
<1>5. GoodPair(v) /\ to =< level(v, "y")
  BY <1>1, <1>4 DEF Pairs, level
<1>6. Replaces(v, u, "y") /\ text(u, "y").rescaled /\ level(u, "y") = to
      /\ text(u, "y").ntt_form
  BY <1>1, <1>5, PrepareStep DEF GoodPair, Register
<1> HIDE DEF u
<1>7. Pairs(v, u) /\ text(u, "x") = text(v, "x")
  BY <1>5, <1>6, PairReplaced
<1>8. Pairs(w, u)
  BY <1>4, <1>7, PairsPairs DEF GoodPair
<1> QED
  BY <1>2, <1>3, <1>6, <1>7, <1>8 DEF to, level

-----------------------------------------------------------------------------
(* Operations.  A call throws before it has made anything, or it delivers a *)
(* good text that is not in temp_data_ and the only new one that has no     *)
(* owner.                                                                   *)

GoodX(w) == Workspace(w) /\ GoodAt(w, "x")

Delivers(w, v) ==
    /\ Workspace(v) /\ GoodAt(v, "result") /\ v.result \notin Loose(w)
    /\ Loose(v) = Loose(w) \cup {v.result}

Answers(w, v) == v = Refuse(w) \/ Delivers(w, v)

(* A call without a result makes nothing that stays. *)
Leaves(w, v) == Workspace(v) /\ Loose(v) = Loose(w) /\ v.result = w.result

(* Texts were made for temp_data_ only. *)
Advances(w, v) == Workspace(v) /\ Len(w.obj) =< Len(v.obj) /\ Loose(v) = Loose(w)

LEMMA Unowned ==
    ASSUME NEW w, Workspace(w), NEW id \in Nat, id > Len(w.obj)
    PROVE  id \notin Loose(w)
<1>1. Len(w.obj) \in Nat /\ SlotCount \in Nat
  BY LengthTyped, SlotAssumption
<1> QED
  BY <1>1 DEF Loose, Fresh

LEMMA Delivered ==
    ASSUME NEW w, Workspace(w), NEW v, Advances(w, v), NEW u, Makes(v, u, "result"),
           Good(text(u, "result"))
    PROVE  Delivers(w, u)
<1>1. Workspace(v) /\ Workspace(u) /\ Loose(u) = Loose(w) \cup {u.result}
  BY DEF Advances, Makes, Step
<1>2. GoodAt(u, "result") /\ u.result \in Nat /\ u.result > Len(v.obj)
  BY DEF Makes, GoodAt
<1>3. Len(w.obj) \in Nat /\ Len(v.obj) \in Nat /\ Len(w.obj) =< Len(v.obj)
  BY <1>1, LengthTyped DEF Advances
<1>4. u.result > Len(w.obj)
  BY <1>2, <1>3
<1>5. u.result \notin Loose(w)
  BY <1>2, <1>4, Unowned
<1> QED
  BY <1>1, <1>2, <1>5 DEF Delivers

LEMMA Cleared ==
    ASSUME NEW w, NEW v, Delivers(w, v)
    PROVE  /\ Delivers(w, clear_temp_data(v))
           /\ text(clear_temp_data(v), "result") = text(v, "result")
<1> DEFINE u == clear_temp_data(v)
<1>1. /\ Workspace(v) /\ GoodAt(v, "result") /\ v.result \notin Loose(w)
      /\ Loose(v) = Loose(w) \cup {v.result}
  BY DEF Delivers
<1>2. /\ Workspace(u) /\ u.obj = v.obj /\ u.result = v.result
      /\ u.gone = Owned(v) /\ Loose(u) = Loose(v)
  BY <1>1, ClearStep
<1> HIDE DEF u
<1>3. u.result \notin u.gone
  BY <1>1, <1>2 DEF Loose
<1>4. text(u, "result") = text(v, "result")
  BY <1>2 DEF text
<1>5. Delivers(w, u)
  BY <1>1, <1>2, <1>3, <1>4 DEF Delivers, GoodAt
<1> QED
  BY <1>4, <1>5 DEF u

LEMMA ReturnedDelivers ==
    ASSUME NEW w, Workspace(w), NEW v, Creates(w, v, "x")
    PROVE  Delivers(w, Returned(v)) /\ text(Returned(v), "result") = text(v, "x")
<1> DEFINE u == Returned(v)
<1>1. /\ Workspace(v) /\ GoodAt(v, "x") /\ Loose(v) = Loose(w) \cup {v.x}
      /\ v.x \in Nat /\ v.x > Len(w.obj)
  BY DEF Creates, Makes, Step
<1>2. /\ Workspace(u) /\ u.obj = v.obj /\ u.gone = v.gone /\ Loose(u) = Loose(v)
      /\ u.result = v.x
  BY <1>1, ReturnedStep
<1> HIDE DEF u
<1>3. u.result \notin Loose(w)
  BY <1>1, <1>2, Unowned
<1>4. text(u, "result") = text(v, "x")
  BY <1>2 DEF text
<1>5. Delivers(w, u)
  BY <1>1, <1>2, <1>3, <1>4 DEF Delivers, GoodAt
<1> QED
  BY <1>4, <1>5 DEF u

(* What was made for an inner call is deleted after it. *)
LEMMA DeletedAfter ==
    ASSUME NEW w, NEW v, NEW u, NEW id, id \notin Loose(w),
           Loose(v) = Loose(w) \cup {id}, Delivers(v, u)
    PROVE  LET d == DeleteAfter(u, id)
           IN  Delivers(w, d) /\ text(d, "result") = text(u, "result")
<1> DEFINE d == DeleteAfter(u, id)
<1>1. /\ Workspace(u) /\ GoodAt(u, "result") /\ u.result \notin Loose(v)
      /\ Loose(u) = Loose(v) \cup {u.result}
  BY DEF Delivers
<1>2. id \in Loose(u)
  BY <1>1
<1>3. /\ Workspace(d) /\ d.obj = u.obj /\ d.result = u.result
      /\ d.gone = u.gone \cup {id} /\ Loose(d) = Loose(u) \ {id}
  BY <1>1, <1>2, DeleteStep
<1> HIDE DEF d
<1>4. u.result # id /\ Loose(d) = Loose(w) \cup {d.result} /\ d.result \notin Loose(w)
  BY <1>1, <1>3
<1>5. text(d, "result") = text(u, "result")
  BY <1>3 DEF text
<1>6. Delivers(w, d)
  BY <1>1, <1>3, <1>4, <1>5 DEF Delivers, GoodAt
<1> QED
  BY <1>5, <1>6 DEF d

LEMMA DeletedAfterNoResult ==
    ASSUME NEW w, NEW v, NEW u, NEW id, id \notin Loose(w),
           Loose(v) = Loose(w) \cup {id}, Workspace(u), Loose(u) = Loose(v)
    PROVE  LET d == DeleteAfter(u, id)
           IN  Workspace(d) /\ Loose(d) = Loose(w) /\ d.result = u.result
<1> DEFINE d == DeleteAfter(u, id)
<1>1. id \in Loose(u)
  OBVIOUS
<1>2. Workspace(d) /\ d.result = u.result /\ Loose(d) = Loose(u) \ {id}
  BY <1>1, DeleteStep
<1> HIDE DEF d
<1> QED
  BY <1>2 DEF d

(* The result of one call is the argument of the next. *)
LEMMA Passed ==
    ASSUME NEW w, NEW v, Delivers(w, v)
    PROVE  /\ GoodX(Pass(v)) /\ text(Pass(v), "x") = text(v, "result")
           /\ Loose(Pass(v)) = Loose(w) \cup {v.result} /\ v.result \notin Loose(w)
           /\ Pass(v).x = v.result /\ Pass(v).result = v.result
<1> DEFINE p == Pass(v)
<1>1. /\ Workspace(v) /\ GoodAt(v, "result") /\ v.result \notin Loose(w)
      /\ Loose(v) = Loose(w) \cup {v.result}
  BY DEF Delivers
<1>2. /\ Workspace(p) /\ p.obj = v.obj /\ p.gone = v.gone /\ Loose(p) = Loose(v)
      /\ p.x = v.result /\ p.result = v.result
  BY <1>1, PassStep
<1> HIDE DEF p
<1>3. text(p, "x") = text(v, "result")
  BY <1>2 DEF text
<1>4. GoodX(p)
  BY <1>1, <1>2, <1>3 DEF GoodX, GoodAt
<1> QED
  BY <1>1, <1>2, <1>3, <1>4 DEF p

LEMMA PassedDeleted ==
    ASSUME NEW w, NEW v, Delivers(w, v), NEW u, Delivers(Pass(v), u)
    PROVE  LET d == DeleteAfter(u, v.result)
           IN  Delivers(w, d) /\ text(d, "result") = text(u, "result")
<1> DEFINE p == Pass(v)
           id == v.result
<1>1. Loose(p) = Loose(w) \cup {id} /\ id \notin Loose(w)
  BY Passed
<1> HIDE DEF p, id
<1>2. Delivers(p, u)
  BY DEF p
<1>3. LET d == DeleteAfter(u, id)
      IN  Delivers(w, d) /\ text(d, "result") = text(u, "result")
  BY <1>1, <1>2, DeletedAfter
<1> QED
  BY <1>3 DEF id

LEMMA Advancing ==
    ASSUME NEW w, Workspace(w)
    PROVE  /\ Advances(w, w)
           /\ \A v, r : Replaces(w, v, r) => Advances(w, v)
           /\ \A v : Pairs(w, v) => Advances(w, v)
<1>1. Len(w.obj) \in Nat
  BY LengthTyped
<1> QED
  BY <1>1 DEF Advances, Replaces, Pairs, Step

(* A function of the core makes the result of x. *)
LEMMA ResultOfX ==
    ASSUME NEW w, Workspace(w), NEW v, Advances(w, v), GoodAt(v, "x"), NEW f, NEW key,
           FitsOne(f, text(v, "x"), key), NEW made, Good(made)
    PROVE  LET u == Allocate(Call(v, f, <<"x">>, key), "result", made)
           IN  Delivers(w, u) /\ text(u, "result") = made
<1> DEFINE u == Allocate(Call(v, f, <<"x">>, key), "result", made)
<1>1. Workspace(v) /\ made \in AnyText /\ v["x"] \notin v.gone
  BY DEF Advances, Good, AnyText, GoodAt
<1>2. Makes(v, u, "result") /\ text(u, "result") = made
  BY <1>1, MadeOfOne DEF Register
<1> HIDE DEF u
<1>3. Delivers(w, u)
  BY <1>2, Delivered
<1> QED
  BY <1>2, <1>3 DEF u

-----------------------------------------------------------------------------
(* Encoding, encryption, and back. *)

LEMMA EncodeMakes ==
    ASSUME NEW w, Workspace(w), NEW r \in Register, NEW at \in Level
    PROVE  LET v == encode(w, r, at)
               t == text(v, r)
           IN  /\ Makes(w, v, r) /\ Good(t) /\ level_(t) = at /\ ~t.rescaled
               /\ ~t.ntt_form /\ t.polynomial_count = 1
<1> DEFINE t == Text(1, to_moduli_id(at), get_ckks_scale(at))
           v == Allocate(Call(w, "encode", <<>>, NoKey), r, t)
<1>1. /\ Good(t) /\ level_(t) = at /\ ~t.rescaled /\ ~t.ntt_form /\ t.polynomial_count = 1
  BY EncodedGood
<1>2. encode(w, r, at) = v
  BY DEF encode, validate_target_level
<1> HIDE DEF t
<1>3. t \in AnyText
  BY <1>1 DEF Good, AnyText
<1>4. Makes(w, v, r) /\ text(v, r) = t
  BY <1>3, MadeOfNone
<1> HIDE DEF v
<1> QED
  BY <1>1, <1>2, <1>4

LEMMA EncodeAnswers ==
    ASSUME NEW w, Workspace(w), NEW at
    PROVE  Answers(w, encode(w, "result", at))
<1>1. CASE at \in Level
  <2> DEFINE v == encode(w, "result", at)
  <2>1. Makes(w, v, "result") /\ Good(text(v, "result"))
    BY <1>1, EncodeMakes DEF Register
  <2> HIDE DEF v
  <2>2. Delivers(w, v)
    BY <2>1, Advancing, Delivered
  <2> QED
    BY <2>2 DEF Answers, v
<1>2. CASE at \notin Level
  BY <1>2 DEF encode, validate_target_level, Answers
<1> QED
  BY <1>1, <1>2

LEMMA EncryptAnswers ==
    ASSUME NEW w, GoodX(w), ~text(w, "x").ntt_form, NEW key \in Key
    PROVE  /\ Answers(w, encrypt(w, key))
           /\ ~text(w, "x").rescaled /\ is_key_compatible(text(w, "x"), key)
                => Delivers(w, encrypt(w, key))
<1> DEFINE made == [text(w, "x") EXCEPT !.polynomial_count = 2]
           v == Allocate(Call(w, "encrypt", <<"x">>, key), "result", made)
<1>1. ASSUME ~text(w, "x").rescaled, is_key_compatible(text(w, "x"), key)
      PROVE  Delivers(w, encrypt(w, key))
  <2>1. FitsOne("encrypt", text(w, "x"), key)
    BY <1>1 DEF FitsOne, InNttForm, OfDuos, OfTrios, SwitchKey, is_key_compatible
  <2>2. Good(made)
    BY ChangedGood DEF GoodX, GoodAt
  <2> HIDE DEF made
  <2>3. Delivers(w, v)
    BY <2>1, <2>2, Advancing, ResultOfX DEF GoodX
  <2>4. encrypt(w, key) = v
    BY <1>1 DEF encrypt, made
  <2> QED
    BY <2>3, <2>4
<1> QED
  BY <1>1 DEF Answers, encrypt

LEMMA Compatible ==
    ASSUME NEW t, Good(t), NEW key \in Key, level_(t) =< key
    PROVE  is_key_compatible(t, key)
<1>1. /\ t.moduli_id = FullLevel - level_(t) + (IF t.rescaled THEN 1 ELSE 0)
      /\ level_(t) \in Level
  BY GoodText
<1> QED
  BY <1>1, Typed DEF is_key_compatible, to_moduli_id, Key, Level

LEMMA EncryptMessageAnswers ==
    ASSUME NEW w, Workspace(w), NEW at, NEW key \in Key
    PROVE  Answers(w, encrypt_message(w, at, key))
<1>1. CASE at \in Level /\ ~(key < at)
  <2> DEFINE v == encode(w, "x", at)
             u == encrypt(v, key)
  <2>1. /\ Makes(w, v, "x") /\ Good(text(v, "x")) /\ level_(text(v, "x")) = at
        /\ ~text(v, "x").rescaled /\ ~text(v, "x").ntt_form
    BY <1>1, EncodeMakes DEF Register
  <2> HIDE DEF v
  <2>2. /\ GoodX(v) /\ Loose(v) = Loose(w) \cup {v.x} /\ v.x \in Nat /\ v.x > Len(w.obj)
        /\ ~v.refused
    BY <2>1 DEF Makes, Step, GoodX, GoodAt, Workspace, Clean
  <2>3. v.x \notin Loose(w)
    BY <2>2, Unowned
  <2>4. at =< key
    BY <1>1, Typed DEF Level, Key
  <2>5. is_key_compatible(text(v, "x"), key)
    BY <2>1, <2>4, Compatible
  <2>6. Delivers(v, u)
    BY <2>1, <2>2, <2>5, EncryptAnswers
  <2> HIDE DEF u
  <2>7. Delivers(w, DeleteAfter(u, v.x))
    BY <2>2, <2>3, <2>6, DeletedAfter
  <2>8. encrypt_message(w, at, key) = DeleteAfter(u, v.x)
    BY <1>1, <2>2 DEF encrypt_message, validate_target_level, EncryptThenDelete, u, v
  <2> QED
    BY <2>7, <2>8 DEF Answers
<1>2. CASE ~(at \in Level /\ ~(key < at))
  BY <1>2 DEF encrypt_message, validate_target_level, Answers
<1> QED
  BY <1>1, <1>2

LEMMA NotRescaledStep ==
    ASSUME NEW w, GoodX(w)
    PROVE  LET v == NotRescaled_(w)
           IN  /\ Replaces(w, v, "x") /\ ~text(v, "x").rescaled
               /\ text(v, "x").moduli_id = text(w, "x").moduli_id
<1>1. Workspace(w) /\ GoodAt(w, "x") /\ Good(text(w, "x"))
  BY DEF GoodX, GoodAt
<1>2. CASE ~text(w, "x").rescaled
  <2>1. NotRescaled_(w) = w
    BY <1>2 DEF NotRescaled_
  <2> QED
    BY <1>1, <1>2, <2>1, NoStep
<1>3. CASE text(w, "x").rescaled
  <2> DEFINE l == level(w, "x")
             v == level_down_(w, "x", l - 1)
  <2>1. l \in Level /\ l > 0 /\ text(w, "x").moduli_id = FullLevel - l + 1
    BY <1>1, <1>3, GoodText DEF level
  <2>2. l - 1 \in Level /\ l - 1 < l /\ l \in Int /\ FullLevel \in Int
    BY <2>1, Typed DEF Level
  <2>3. Replaces(w, v, "x") /\ level(v, "x") = l - 1 /\ ~text(v, "x").rescaled
    <3> DEFINE to == l - 1
    <3>1. to \in Level /\ to =< l /\ to < l
      BY <2>2
    <3> HIDE DEF to
    <3>2. LET u == level_down_(w, "x", to)
          IN  Replaces(w, u, "x") /\ level(u, "x") = to /\ ~text(u, "x").rescaled
      BY <1>1, <3>1, LevelDownStep DEF Register
    <3> QED
      BY <3>2 DEF to
  <2>4. NotRescaled_(w) = v
    BY <1>3 DEF NotRescaled_
  <2> HIDE DEF v
  <2>5. Good(text(v, "x"))
    BY <2>3 DEF Replaces, GoodAt
  <2>6. text(v, "x").moduli_id = FullLevel - (l - 1)
    BY <2>3, <2>5, GoodText, <2>2 DEF level
  <2> HIDE DEF l
  <2> QED
    BY <2>1, <2>2, <2>3, <2>4, <2>6
<1> QED
  BY <1>2, <1>3

(* A text decrypted is one that decode takes. *)
Decodable(t) == ~t.rescaled /\ ~t.ntt_form

LEMMA DecryptToPlaintextAnswers ==
    ASSUME NEW w, GoodX(w), NEW key \in Key, count(w, "x") \in {2, 3}
    PROVE  LET v == decrypt_to_plaintext(w, key)
           IN  /\ v = Refuse(w) \/ (Delivers(w, v) /\ Decodable(text(v, "result")))
               /\ is_key_compatible(text(w, "x"), key) => Delivers(w, v)
<1> DEFINE a == NotRescaled_(w)
<1>1. Workspace(w) /\ GoodAt(w, "x") /\ Good(text(w, "x"))
  BY DEF GoodX, GoodAt
<1>2. /\ Replaces(w, a, "x") /\ ~text(a, "x").rescaled
      /\ text(a, "x").moduli_id = text(w, "x").moduli_id
  BY NotRescaledStep
<1>3. ~(level(w, "x") <= 0 /\ text(w, "x").rescaled)
  <2>1. text(w, "x").rescaled => level(w, "x") > 0
    BY <1>1, GoodText DEF level
  <2>2. level(w, "x") \in Int
    BY <1>1, Typed DEF Good, Level, level
  <2> QED
    BY <2>1, <2>2
<1> HIDE DEF a
<1>4. Workspace(a) /\ GoodAt(a, "x") /\ count(a, "x") = count(w, "x")
  BY <1>2 DEF Replaces, Step
<1>5. ASSUME NEW b, Replaces(a, b, "x"), Like(a, b, "x"), NEW f,
             FitsOne(f, text(b, "x"), key)
      PROVE  LET v == clear_temp_data(Decrypted(b, f, key))
             IN  Delivers(w, v) /\ Decodable(text(v, "result"))
  <2> DEFINE made == [text(b, "x") EXCEPT !.polynomial_count = 1, !.ntt_form = FALSE,
                                          !.rescaled = FALSE]
             u == Decrypted(b, f, key)
  <2>1. Replaces(w, b, "x") /\ GoodAt(b, "x") /\ Good(text(b, "x")) /\ ~text(b, "x").rescaled
    BY <1>1, <1>2, <1>5, ReplacesReplaces DEF Like, Replaces, GoodAt
  <2>2. Good(made) /\ ~made.rescaled /\ ~made.ntt_form
    BY <2>1, ChangedGood
  <2>3. u = Allocate(Call(b, f, <<"x">>, key), "result", made)
    BY DEF Decrypted
  <2> HIDE DEF made, u
  <2>4. Delivers(w, u) /\ text(u, "result") = made
    BY <1>1, <1>5, <2>1, <2>2, <2>3, Advancing, ResultOfX
  <2>5. Delivers(w, clear_temp_data(u)) /\ text(clear_temp_data(u), "result") = made
    BY <2>4, Cleared
  <2> QED
    BY <2>2, <2>5 DEF u, Decodable
<1>6. ASSUME is_key_compatible(text(w, "x"), key)
      PROVE  LET v == decrypt_to_plaintext(w, key)
             IN  Delivers(w, v) /\ Decodable(text(v, "result"))
  <2>1. CASE count(w, "x") = 2
    <3> DEFINE b == intt_(a, "x")
    <3>1. Replaces(a, b, "x") /\ Like(a, b, "x") /\ ~text(b, "x").ntt_form
      BY <1>4, ConvertStep DEF Register
    <3> HIDE DEF b
    <3>2. text(b, "x").moduli_id = text(a, "x").moduli_id
      <4>1. Good(text(b, "x")) /\ Good(text(a, "x"))
        BY <1>4, <3>1 DEF Replaces, GoodAt
      <4> QED
        BY <3>1, <4>1, GoodText DEF Like, level
    <3>3. FitsOne("decrypt_duo", text(b, "x"), key)
      BY <1>2, <1>4, <1>6, <2>1, <3>1, <3>2
         DEF FitsOne, InNttForm, OfTrios, SwitchKey, is_key_compatible, Like, Replaces, count
    <3>4. decrypt_to_plaintext(w, key) = clear_temp_data(Decrypted(b, "decrypt_duo", key))
      BY <1>3, <1>6, <2>1 DEF decrypt_to_plaintext, a, b
    <3> QED
      BY <1>5, <3>1, <3>3, <3>4
  <2>2. CASE count(w, "x") = 3
    <3> DEFINE b == ntt_(a, "x")
    <3>1. Replaces(a, b, "x") /\ Like(a, b, "x") /\ text(b, "x").ntt_form
      BY <1>4, ConvertStep DEF Register
    <3> HIDE DEF b
    <3>2. text(b, "x").moduli_id = text(a, "x").moduli_id
      <4>1. Good(text(b, "x")) /\ Good(text(a, "x"))
        BY <1>4, <3>1 DEF Replaces, GoodAt
      <4> QED
        BY <3>1, <4>1, GoodText DEF Like, level
    <3>3. FitsOne("decrypt_trio", text(b, "x"), key)
      BY <1>2, <1>4, <1>6, <2>2, <3>1, <3>2
         DEF FitsOne, InCoefficientForm, OfDuos, SwitchKey, is_key_compatible, Like, Replaces, count
    <3>4. decrypt_to_plaintext(w, key) = clear_temp_data(Decrypted(b, "decrypt_trio", key))
      BY <1>3, <1>6, <2>2 DEF decrypt_to_plaintext, a, b
    <3> QED
      BY <1>5, <3>1, <3>3, <3>4
  <2> QED
    BY <2>1, <2>2
<1> QED
  BY <1>6 DEF decrypt_to_plaintext

(* The registers that a call of the core keeps. *)
LEMMA CallLeaves ==
    ASSUME NEW w, Workspace(w), NEW f, NEW registers, NEW key,
           \A i \in DOMAIN registers : w[registers[i]] \notin w.gone,
           Fits([function |-> f, key |-> key,
                 args |-> [i \in DOMAIN registers |-> text(w, registers[i])]])
    PROVE  Leaves(w, Call(w, f, registers, key))
<1> DEFINE v == Call(w, f, registers, key)
<1>1. Step(w, v, {}) /\ Loose(v) = Loose(w)
  BY CallStep
<1> HIDE DEF v
<1>2. Workspace(v) /\ v["result"] = w["result"]
  BY <1>1 DEF Step, Register
<1> QED
  BY <1>1, <1>2 DEF Leaves, v

LEMMA CallOfTwoLeaves ==
    ASSUME NEW w, GoodPair(w), NEW f, FitsTwo(f, text(w, "x"), text(w, "y"))
    PROVE  Leaves(w, Call(w, f, <<"x", "y">>, NoKey))
<1> DEFINE registers == <<"x", "y">>
<1>1. /\ DOMAIN registers = {1, 2} /\ registers[1] = "x" /\ registers[2] = "y"
      /\ [i \in DOMAIN registers |-> text(w, registers[i])] = <<text(w, "x"), text(w, "y")>>
  BY TwoTexts DEF Register
<1>2. Workspace(w) /\ w["x"] \notin w.gone /\ w["y"] \notin w.gone
  BY DEF GoodPair, GoodAt
<1>3. \A i \in DOMAIN registers : w[registers[i]] \notin w.gone
  BY <1>1, <1>2
<1> HIDE DEF registers
<1>4. Fits([function |-> f, key |-> NoKey,
            args |-> [i \in DOMAIN registers |-> text(w, registers[i])]])
  BY <1>1, TwoArguments
<1>5. Leaves(w, Call(w, f, registers, NoKey))
  BY <1>2, <1>3, <1>4, CallLeaves
<1> QED
  BY <1>5 DEF registers

(* A fresh scale passes the test of decode. *)
LEMMA DecodeLeaves ==
    ASSUME NEW w, GoodX(w), ~text(w, "x").ntt_form
    PROVE  LET v == decode(w)
           IN  /\ v = Refuse(w) \/ (Workspace(v) /\ Loose(v) = Loose(w) /\ v.result = 0)
               /\ ~text(w, "x").rescaled => Workspace(v)
<1> DEFINE t == text(w, "x")
           c == Call(w, "decode", <<"x">>, NoKey)
           v == [c EXCEPT !.result = 0]
<1>1. Workspace(w) /\ GoodAt(w, "x") /\ Good(t)
  BY DEF GoodX, GoodAt
<1>2. ASSUME ~t.rescaled
      PROVE  /\ ~(t.rescaled \/ t.moduli_id > FullLevel)
             /\ ~(t.ckks_scale > plaintext_modulus(t.moduli_id))
  <2>1. /\ level_(t) \in Level /\ t.moduli_id = FullLevel - level_(t)
        /\ t.ckks_scale = t.scale /\ t.scale = CanonicalScale(t)
        /\ t.moduli_id \in 0 .. FullLevel
    <3>1. /\ t \in TextRecord /\ level_(t) \in Level
          /\ t.moduli_id = FullLevel - level_(t) + (IF t.rescaled THEN 1 ELSE 0)
          /\ t.ckks_scale = t.scale /\ t.scale = CanonicalScale(t)
      BY <1>1, GoodText DEF Good
    <3>2. level_(t) \in Int /\ FullLevel \in Int
      BY <3>1, Typed DEF Level
    <3>3. t.moduli_id \in 0 .. FullLevel
      BY <3>1 DEF TextRecord
    <3> QED
      BY <1>2, <3>1, <3>2, <3>3
  <2>2. t.moduli_id = to_moduli_id(level_(t)) /\ t.ckks_scale = get_ckks_scale(level_(t))
    BY <1>2, <2>1 DEF CanonicalScale, to_moduli_id
  <2>3. ~(t.moduli_id > FullLevel)
    BY <2>1, Typed
  <2> QED
    BY <1>2, <2>1, <2>2, <2>3, ScaleAssumption
<1>3. ASSUME ~t.rescaled
      PROVE  Workspace(v) /\ Loose(v) = Loose(w) /\ v.result = 0
  <2>1. FitsOne("decode", t, NoKey)
    BY <1>3 DEF FitsOne, InNttForm, OfDuos, OfTrios, SwitchKey
  <2> DEFINE registers == <<"x">>
  <2>2. DOMAIN registers = {1} /\ registers[1] = "x"
    OBVIOUS
  <2>3. [i \in DOMAIN registers |-> text(w, registers[i])] = <<t>>
    <3>1. \A i \in DOMAIN registers : text(w, registers[i]) = t
      BY <2>2
    <3> HIDE DEF t
    <3>2. [i \in {1} |-> t] = <<t>>
      OBVIOUS
    <3> QED
      BY <2>2, <3>1, <3>2
  <2>4. \A i \in DOMAIN registers : w[registers[i]] \notin w.gone
    BY <1>1, <2>2 DEF GoodAt
  <2> HIDE DEF registers
  <2>5. Fits([function |-> "decode", key |-> NoKey,
              args |-> [i \in DOMAIN registers |-> text(w, registers[i])]])
    BY <2>1, <2>3, OneArgument
  <2>6. LET d == Call(w, "decode", registers, NoKey)
        IN  Step(w, d, {}) /\ Loose(d) = Loose(w)
    BY <1>1, <2>4, <2>5, CallStep
  <2>7. Workspace(c) /\ Loose(c) = Loose(w)
    BY <2>6 DEF Step, registers
  <2> HIDE DEF c
  <2>8. DOMAIN c = {"obj", "temp", "leftover", "gone", "misuse", "core", "refused",
                    "x", "y", "result"}
    BY <2>7 DEF Workspace, Shape
  <2>9. /\ DOMAIN v = DOMAIN c /\ v.obj = c.obj /\ v.temp = c.temp
        /\ v.leftover = c.leftover /\ v.gone = c.gone /\ v.core = c.core
        /\ v.x = c.x /\ v.y = c.y /\ v.result = 0
    BY <2>8
  <2>10. v.refused = c.refused /\ v.misuse = c.misuse
    BY <2>8
  <2> HIDE DEF v
  <2>11. v.x \in Nat /\ v.y \in Nat /\ v.result \in Nat /\ ~v.misuse
         /\ \A call \in v.core : Fits(call)
    BY <2>7, <2>9, <2>10 DEF Workspace, Shape, Clean
  <2>12. Workspace(v) /\ Loose(v) = Loose(c)
    BY <2>7, <2>9, <2>10, <2>11, SameObjects
  <2> QED
    BY <2>7, <2>9, <2>12
<1>4. ~t.rescaled => decode(w) = v
  BY <1>2 DEF decode
<1>5. t.rescaled => decode(w) = Refuse(w)
  BY DEF decode
<1> HIDE DEF v, t
<1> QED
  BY <1>3, <1>4, <1>5 DEF t

LEMMA DecryptLeaves ==
    ASSUME NEW w, GoodX(w), NEW key \in Key, count(w, "x") \in {2, 3}
    PROVE  LET v == decrypt(w, key)
           IN  /\ v = Refuse(w) \/ (Workspace(v) /\ Loose(v) = Loose(w) /\ v.result = 0)
               /\ is_key_compatible(text(w, "x"), key) => Workspace(v)
<1> DEFINE d == decrypt_to_plaintext(w, key)
<1>1. /\ d = Refuse(w) \/ (Delivers(w, d) /\ Decodable(text(d, "result")))
      /\ is_key_compatible(text(w, "x"), key) => Delivers(w, d)
  BY DecryptToPlaintextAnswers
<1>2. decrypt(w, key) = DecodeThenDelete(d)
  BY DEF decrypt
<1>0. Workspace(w)
  BY DEF GoodX
<1> HIDE DEF d
<1>3. CASE Delivers(w, d) /\ Decodable(text(d, "result"))
  <2> DEFINE p == Pass(d)
             u == decode(p)
             id == d.result
  <2>1. GoodX(p) /\ text(p, "x") = text(d, "result") /\ Loose(p) = Loose(w) \cup {id}
        /\ id \notin Loose(w)
    BY <1>3, Passed
  <2> HIDE DEF p, id
  <2>2. ~text(p, "x").ntt_form /\ ~text(p, "x").rescaled
    BY <1>3, <2>1 DEF Decodable
  <2>3. Workspace(u) /\ (u = Refuse(p) \/ (Loose(u) = Loose(p) /\ u.result = 0))
    BY <2>1, <2>2, DecodeLeaves
  <2>4. u # Refuse(p)
    <3>1. Workspace(p)
      BY <2>1 DEF GoodX
    <3>2. DOMAIN p = {"obj", "temp", "leftover", "gone", "misuse", "core", "refused",
                      "x", "y", "result"}
      BY <3>1 DEF Workspace, Shape
    <3>3. Refuse(p).refused = TRUE
      BY <3>2 DEF Refuse
    <3>4. ~u.refused
      BY <2>3 DEF Workspace, Clean
    <3> QED
      BY <3>3, <3>4
  <2> HIDE DEF u
  <2>5. LET v == DeleteAfter(u, id)
        IN  Workspace(v) /\ Loose(v) = Loose(w) /\ v.result = u.result
    BY <2>1, <2>3, <2>4, DeletedAfterNoResult
  <2>6. ~d.refused
    BY <1>3 DEF Delivers, Workspace, Clean
  <2>7. DecodeThenDelete(d) = DeleteAfter(u, id)
    BY <2>6 DEF DecodeThenDelete, u, p, id
  <2> QED
    BY <1>2, <2>3, <2>4, <2>5, <2>7
<1>4. CASE d = Refuse(w) /\ ~(Delivers(w, d) /\ Decodable(text(d, "result")))
  <2>1. DOMAIN w = {"obj", "temp", "leftover", "gone", "misuse", "core", "refused",
                    "x", "y", "result"}
    BY <1>0 DEF Workspace, Shape
  <2>2. d.refused
    BY <1>4, <2>1 DEF Refuse
  <2>3. ~Delivers(w, d)
    BY <2>2 DEF Delivers, Workspace, Clean
  <2>4. DecodeThenDelete(d) = d
    BY <2>2 DEF DecodeThenDelete
  <2> QED
    BY <1>1, <1>2, <1>4, <2>3, <2>4
<1> QED
  BY <1>1, <1>3, <1>4

-----------------------------------------------------------------------------
(* Forms and levels. *)

LEMMA CopyDelivers ==
    ASSUME NEW w, GoodX(w), NEW f \in {"clone", "negate"}
    PROVE  LET v == Allocate(Call(w, f, <<"x">>, NoKey), "result", text(w, "x"))
           IN  Delivers(w, v) /\ text(v, "result") = text(w, "x")
<1>1. Workspace(w) /\ GoodAt(w, "x") /\ Good(text(w, "x")) /\ Advances(w, w)
  BY Advancing DEF GoodX, GoodAt
<1>2. FitsOne(f, text(w, "x"), NoKey)
  BY OneFits
<1> QED
  BY <1>1, <1>2, ResultOfX

LEMMA FormDelivers ==
    ASSUME NEW w, GoodX(w)
    PROVE  /\ Delivers(w, clone(w)) /\ text(clone(w), "result") = text(w, "x")
           /\ Delivers(w, negate(w)) /\ text(negate(w), "result") = text(w, "x")
           /\ Delivers(w, ntt(w)) /\ Delivers(w, intt(w))
<1>0. Workspace(w) /\ GoodAt(w, "x")
  BY DEF GoodX
<1>1. Delivers(w, clone(w)) /\ text(clone(w), "result") = text(w, "x")
  BY CopyDelivers DEF clone
<1>2. Delivers(w, negate(w)) /\ text(negate(w), "result") = text(w, "x")
  BY CopyDelivers DEF negate
<1>3. ~text(w, "x").ntt_form => Delivers(w, Returned(to_ntt_form(w, "x")))
  BY <1>0, FormStep, ReturnedDelivers DEF Register
<1>4. text(w, "x").ntt_form => Delivers(w, Returned(to_intt_form(w, "x")))
  BY <1>0, FormStep, ReturnedDelivers DEF Register
<1> QED
  BY <1>1, <1>2, <1>3, <1>4 DEF ntt, intt

LEMMA RescaleAnswers ==
    ASSUME NEW w, GoodX(w)
    PROVE  Answers(w, rescale(w))
<1>0. Workspace(w) /\ GoodAt(w, "x")
  BY DEF GoodX
<1>1. CASE level(w, "x") <= 0
  BY <1>1 DEF rescale, Answers
<1>2. CASE ~(level(w, "x") <= 0) /\ text(w, "x").rescaled
  BY <1>2, FormDelivers, Cleared DEF rescale, Answers
<1>3. CASE ~(level(w, "x") <= 0) /\ ~text(w, "x").rescaled
  <2>1. level(w, "x") > 0
    BY <1>0, <1>3, Typed DEF GoodAt, Good, Level, level
  <2>2. Creates(w, MakeRescaled(w, "x"), "x")
    BY <1>0, <1>3, <2>1, MakeRescaledStep DEF Register
  <2>3. Delivers(w, Returned(MakeRescaled(w, "x")))
    BY <1>0, <2>2, ReturnedDelivers
  <2> QED
    BY <1>3, <2>3, Cleared DEF rescale, Answers
<1> QED
  BY <1>1, <1>2, <1>3

LEMMA LevelDownAnswers ==
    ASSUME NEW w, GoodX(w), NEW to \in TargetLevel
    PROVE  Answers(w, level_down(w, to))
<1>0. Workspace(w) /\ GoodAt(w, "x") /\ level(w, "x") \in Level
  BY DEF GoodX, GoodAt, Good, level
<1>1. CASE to < 0 \/ to > level(w, "x")
  BY <1>1 DEF level_down, Answers
<1>2. CASE ~(to < 0 \/ to > level(w, "x")) /\ level(w, "x") = to
  BY <1>2, FormDelivers, Cleared DEF level_down, Answers
<1>3. CASE ~(to < 0 \/ to > level(w, "x")) /\ level(w, "x") # to
  <2>1. to \in Level /\ to < level(w, "x")
    BY <1>0, <1>3, Typed DEF Level, TargetLevel
  <2>2. Creates(w, MakeLeveledDown(w, "x", to), "x")
    BY <1>0, <2>1, MakeLeveledDownStep DEF Register
  <2>3. Delivers(w, Returned(MakeLeveledDown(w, "x", to)))
    BY <1>0, <2>2, ReturnedDelivers
  <2> QED
    BY <1>3, <2>3, Cleared DEF level_down, Answers
<1> QED
  BY <1>1, <1>2, <1>3

-----------------------------------------------------------------------------
(* Sums and differences. *)

(* Texts of one level, both rescaled or not, have the same moduli and scale. *)
LEMMA SamePlace ==
    ASSUME NEW a, NEW b, Good(a), Good(b), level_(a) = level_(b), a.rescaled = b.rescaled
    PROVE  a.moduli_id = b.moduli_id /\ a.scale = b.scale /\ a.ckks_scale = b.ckks_scale
<1>1. /\ a.moduli_id = FullLevel - level_(a) + (IF a.rescaled THEN 1 ELSE 0)
      /\ b.moduli_id = FullLevel - level_(b) + (IF b.rescaled THEN 1 ELSE 0)
  BY GoodText
<1>2. a.scale = CanonicalScale(a) /\ b.scale = CanonicalScale(b)
      /\ a.ckks_scale = a.scale /\ b.ckks_scale = b.scale
  BY DEF Good
<1>3. CanonicalScale(a) = CanonicalScale(b)
  BY DEF CanonicalScale
<1> QED
  BY <1>1, <1>2, <1>3

LEMMA ScalesMatch ==
    ASSUME NEW a, NEW b, Good(a), Good(b)
    PROVE  match_ckks_scale(a, b)
BY SamePlace DEF match_ckks_scale

(* What the sums ask for. *)
LEMMA SumFits ==
    ASSUME NEW a, NEW b, Good(a), Good(b), level_(a) = level_(b), a.rescaled = b.rescaled
    PROVE  /\ ~b.ntt_form => /\ FitsTwo("add_plaintext", a, b)
                             /\ FitsTwo("subtract_plaintext", a, b)
                             /\ FitsTwo("subtract_from_plaintext", a, b)
           /\ a.ntt_form = b.ntt_form => FitsTwo("add_inplace_plaintext", a, b)
           /\ a.ntt_form = b.ntt_form /\ a.polynomial_count = b.polynomial_count =>
                /\ FitsTwo("add", a, b) /\ FitsTwo("subtract", a, b)
                /\ FitsTwo("add_inplace", a, b)
           /\ a.ntt_form = b.ntt_form /\ a.polynomial_count = 3 =>
                /\ FitsTwo("add_trio_and_duo", a, b)
                /\ FitsTwo("subtract_trio_by_duo", a, b)
           /\ a.ntt_form = b.ntt_form /\ a.polynomial_count = 2 =>
                FitsTwo("subtract_duo_by_trio", a, b)
<1>1. a.moduli_id = b.moduli_id /\ a.scale = b.scale
  BY SamePlace
<1>2. ASSUME NEW f \in {"add_plaintext", "subtract_plaintext", "subtract_from_plaintext"},
             ~b.ntt_form
      PROVE  FitsTwo(f, a, b)
  <2>1. /\ f \notin InNttForm /\ f \notin OfDuos /\ f \notin OfTrios
        /\ f \notin InCoefficientForm \cup NotRescaled \cup SwitchKey
        /\ f \notin OfEqualCounts /\ f \in ConvertPlaintext
    BY DEF InNttForm, OfDuos, OfTrios, InCoefficientForm, NotRescaled, SwitchKey,
           OfEqualCounts, ConvertPlaintext
  <2> QED
    BY <1>1, <1>2, <2>1 DEF FitsTwo
<1>3. ASSUME NEW f \in {"add", "subtract", "add_inplace", "add_inplace_plaintext",
                       "add_trio_and_duo", "subtract_trio_by_duo", "subtract_duo_by_trio"},
             a.ntt_form = b.ntt_form,
             f \in {"add", "subtract", "add_inplace"} => a.polynomial_count = b.polynomial_count,
             f \in {"add_trio_and_duo", "subtract_trio_by_duo"} => a.polynomial_count = 3,
             f = "subtract_duo_by_trio" => a.polynomial_count = 2
      PROVE  FitsTwo(f, a, b)
  <2>1. /\ f \notin InNttForm /\ f \notin ConvertPlaintext
        /\ f \notin InCoefficientForm \cup NotRescaled \cup SwitchKey
        /\ f \in OfDuos => f = "subtract_duo_by_trio"
        /\ f \in OfTrios => f \in {"add_trio_and_duo", "subtract_trio_by_duo"}
        /\ f \in OfEqualCounts => f \in {"add", "subtract", "add_inplace"}
    BY DEF InNttForm, OfDuos, OfTrios, InCoefficientForm, NotRescaled, SwitchKey,
           OfEqualCounts, ConvertPlaintext
  <2> QED
    BY <1>1, <1>3, <2>1 DEF FitsTwo
<1> QED
  BY <1>2, <1>3

(* The sum of two texts after match_form. *)
LEMMA SummedDelivers ==
    ASSUME NEW w, Workspace(w), NEW v, Advances(w, v), GoodPair(v), NEW f,
           NEW r1 \in {"x", "y"}, NEW r2 \in {"x", "y"}, NEW s1 \in {r1, r2},
           NEW s2 \in {r1, r2},
           FitsTwo(f, text(v, r1), text(v, r2)),
           text(v, r1).rescaled = text(v, r2).rescaled
    PROVE  LET u == clear_temp_data(Allocate(Call(v, f, <<r1, r2>>, NoKey), "result",
                                             Sum(text(v, s1), text(v, s2))))
           IN  Delivers(w, u) /\ level(u, "result") = level(v, s1)
<1> DEFINE made == Sum(text(v, s1), text(v, s2))
           u == Allocate(Call(v, f, <<r1, r2>>, NoKey), "result", made)
<1>1. /\ Workspace(v) /\ v[r1] \notin v.gone /\ v[r2] \notin v.gone
      /\ Good(text(v, s1)) /\ Good(text(v, s2)) /\ text(v, s1).rescaled = text(v, s2).rescaled
  BY DEF GoodPair, GoodAt
<1>2. Good(made) /\ level_(made) = level(v, s1)
  BY <1>1, SumGood DEF level
<1> HIDE DEF made
<1>3. made \in AnyText
  BY <1>2 DEF Good, AnyText
<1>4. Makes(v, u, "result") /\ text(u, "result") = made
  BY <1>1, <1>3, MadeOfTwo DEF Register
<1> HIDE DEF u
<1>5. Delivers(w, u)
  BY <1>2, <1>4, Delivered
<1>6. Delivers(w, clear_temp_data(u)) /\ text(clear_temp_data(u), "result") = made
  BY <1>4, <1>5, Cleared
<1> QED
  BY <1>2, <1>6 DEF u, made, level

(* What add and subtract find after match_form. *)
LEMMA Matched ==
    ASSUME NEW w, GoodPair(w), NEW v, Matches(w, v)
    PROVE  /\ Workspace(w) /\ Advances(w, v) /\ GoodPair(v)
           /\ Good(text(v, "x")) /\ Good(text(v, "y"))
           /\ level_(text(v, "x")) = min_level(w) /\ level_(text(v, "y")) = min_level(w)
           /\ text(v, "x").rescaled = text(v, "y").rescaled
           /\ count(v, "x") = count(w, "x") /\ count(v, "y") = count(w, "y")
           /\ count(w, "y") = 1 => ~text(v, "y").ntt_form
           /\ count(w, "y") # 1 => text(v, "x").ntt_form = text(v, "y").ntt_form
<1>1. /\ Workspace(w) /\ Pairs(w, v) /\ GoodPair(v) /\ Advances(w, v)
      /\ GoodAt(v, "x") /\ GoodAt(v, "y")
  BY Advancing DEF GoodPair, Matches, Pairs
<1>2. Good(text(v, "x")) /\ Good(text(v, "y"))
  BY <1>1 DEF GoodAt
<1>3. text(v, "x").ntt_form \in BOOLEAN /\ text(v, "y").ntt_form \in BOOLEAN
  BY <1>2 DEF Good, TextRecord
<1>4. count(w, "y") # 1 => (text(v, "x").ntt_form <=> text(v, "y").ntt_form)
  BY DEF Matches
<1> QED
  BY <1>1, <1>2, <1>3, <1>4 DEF Matches, Pairs, level

LEMMA AddDelivers ==
    ASSUME NEW w, GoodPair(w), count(w, "x") \in {2, 3}
    PROVE  Delivers(w, add(w)) /\ level(add(w), "result") = min_level(w)
<1> DEFINE v == match_form(w)
           a == text(v, "x")
           b == text(v, "y")
<1>1. match_ckks_scale(text(w, "x"), text(w, "y"))
  BY ScalesMatch DEF GoodPair, GoodAt
<1>2. add(w) = AddMatched(v)
  BY <1>1 DEF add
<1>3. Matches(w, v)
  BY MatchFormPairs
<1> HIDE DEF v
<1>4. /\ Workspace(w) /\ Advances(w, v) /\ GoodPair(v) /\ Good(a) /\ Good(b)
      /\ level_(a) = min_level(w) /\ level_(b) = min_level(w) /\ a.rescaled = b.rescaled
      /\ count(v, "x") = count(w, "x") /\ count(v, "y") = count(w, "y")
      /\ count(w, "y") = 1 => ~b.ntt_form
      /\ count(w, "y") # 1 => a.ntt_form = b.ntt_form
  BY <1>3, Matched
<1>5. count(v, "x") = a.polynomial_count /\ count(v, "y") = b.polynomial_count
      /\ level(v, "x") = level_(a) /\ level(v, "y") = level_(b)
  BY DEF count, level
<1>6. b.polynomial_count \in 1 .. 3
  BY <1>4 DEF Good, TextRecord
<1>7. ASSUME NEW f, NEW r1 \in {"x", "y"}, NEW r2 \in {"x", "y"}, r1 # r2,
             FitsTwo(f, text(v, r1), text(v, r2)), AddMatched(v) = Summed(v, f, r1, r2)
      PROVE  Delivers(w, add(w)) /\ level(add(w), "result") = min_level(w)
  <2>1. text(v, r1).rescaled = text(v, r2).rescaled /\ level(v, r1) = min_level(w)
    BY <1>4, <1>5, <1>7
  <2>2. LET u == clear_temp_data(Allocate(Call(v, f, <<r1, r2>>, NoKey), "result",
                                          Sum(text(v, r1), text(v, r2))))
        IN  Delivers(w, u) /\ level(u, "result") = level(v, r1)
    BY <1>4, <1>7, <2>1, SummedDelivers
  <2> QED
    BY <1>2, <1>7, <2>1, <2>2 DEF Summed
<1>8. CASE count(v, "y") = 1
  <2>1. FitsTwo("add_plaintext", a, b)
    BY <1>4, <1>8, SumFits
  <2>2. AddMatched(v) = Summed(v, "add_plaintext", "x", "y")
    BY <1>8 DEF AddMatched
  <2> QED
    BY <1>7, <2>1, <2>2
<1>9. CASE count(v, "y") # 1 /\ count(v, "x") = count(v, "y")
  <2>1. FitsTwo("add", a, b)
    BY <1>4, <1>5, <1>9, SumFits
  <2>3. ~(count(v, "x") > count(v, "y"))
    BY <1>4, <1>9
  <2>2. AddMatched(v) = Summed(v, "add", "x", "y")
    BY <1>9, <2>3 DEF AddMatched
  <2> QED
    BY <1>7, <2>1, <2>2
<1>10. CASE count(v, "y") # 1 /\ count(v, "x") > count(v, "y")
  <2>1. a.polynomial_count = 3 /\ count(v, "x") # count(v, "y")
    BY <1>4, <1>5, <1>6, <1>10
  <2>2. FitsTwo("add_trio_and_duo", a, b)
    BY <1>4, <1>10, <2>1, SumFits
  <2>3. AddMatched(v) = Summed(v, "add_trio_and_duo", "x", "y")
    BY <1>10, <2>1 DEF AddMatched
  <2> QED
    BY <1>7, <2>2, <2>3
<1>11. CASE count(v, "y") # 1 /\ count(v, "x") # count(v, "y") /\ ~(count(v, "x") > count(v, "y"))
  <2>1. b.polynomial_count = 3
    BY <1>4, <1>5, <1>6, <1>11
  <2>2. FitsTwo("add_trio_and_duo", b, a)
    BY <1>4, <1>11, <2>1, SumFits
  <2>3. AddMatched(v) = Summed(v, "add_trio_and_duo", "y", "x")
    BY <1>11 DEF AddMatched
  <2> QED
    BY <1>7, <2>2, <2>3
<1> QED
  BY <1>8, <1>9, <1>10, <1>11

LEMMA SubtractDelivers ==
    ASSUME NEW w, GoodPair(w), count(w, "x") \in {2, 3}, NEW minuend
    PROVE  Delivers(w, subtract(w, minuend))
<1> DEFINE v == match_form(w)
           a == text(v, "x")
           b == text(v, "y")
<1>1. match_ckks_scale(text(w, "x"), text(w, "y"))
  BY ScalesMatch DEF GoodPair, GoodAt
<1>2. subtract(w, minuend) = SubtractMatched(v, minuend)
  BY <1>1 DEF subtract
<1>3. Matches(w, v)
  BY MatchFormPairs
<1> HIDE DEF v
<1>4. /\ Workspace(w) /\ Advances(w, v) /\ GoodPair(v) /\ Good(a) /\ Good(b)
      /\ level_(a) = min_level(w) /\ level_(b) = min_level(w) /\ a.rescaled = b.rescaled
      /\ count(v, "x") = count(w, "x") /\ count(v, "y") = count(w, "y")
      /\ count(w, "y") = 1 => ~b.ntt_form
      /\ count(w, "y") # 1 => a.ntt_form = b.ntt_form
  BY <1>3, Matched
<1>5. count(v, "x") = a.polynomial_count /\ count(v, "y") = b.polynomial_count
  BY DEF count
<1>6. b.polynomial_count \in 1 .. 3
  BY <1>4 DEF Good, TextRecord
<1>7. ASSUME NEW f, FitsTwo(f, a, b), SubtractMatched(v, minuend) = Summed(v, f, "x", "y")
      PROVE  Delivers(w, subtract(w, minuend))
  <2>1. LET u == clear_temp_data(Allocate(Call(v, f, <<"x", "y">>, NoKey), "result",
                                          Sum(text(v, "x"), text(v, "y"))))
        IN  Delivers(w, u)
    BY <1>4, <1>7, SummedDelivers
  <2> QED
    BY <1>2, <1>7, <2>1 DEF Summed
<1>8. CASE count(v, "y") = 1 /\ ~minuend
  <2>1. FitsTwo("subtract_plaintext", a, b)
    BY <1>4, <1>8, SumFits
  <2>2. SubtractMatched(v, minuend) = Summed(v, "subtract_plaintext", "x", "y")
    BY <1>8 DEF SubtractMatched
  <2> QED
    BY <1>7, <2>1, <2>2
<1>9. CASE count(v, "y") = 1 /\ minuend
  <2>1. FitsTwo("subtract_from_plaintext", a, b)
    BY <1>4, <1>9, SumFits
  <2>2. SubtractMatched(v, minuend) = Summed(v, "subtract_from_plaintext", "x", "y")
    BY <1>9 DEF SubtractMatched
  <2> QED
    BY <1>7, <2>1, <2>2
<1>10. CASE count(v, "y") # 1 /\ count(v, "x") = count(v, "y")
  <2>1. FitsTwo("subtract", a, b)
    BY <1>4, <1>5, <1>10, SumFits
  <2>3. ~(count(v, "x") > count(v, "y"))
    BY <1>4, <1>10
  <2>2. SubtractMatched(v, minuend) = Summed(v, "subtract", "x", "y")
    BY <1>10, <2>3 DEF SubtractMatched
  <2> QED
    BY <1>7, <2>1, <2>2
<1>11. CASE count(v, "y") # 1 /\ count(v, "x") > count(v, "y")
  <2>1. a.polynomial_count = 3 /\ count(v, "x") # count(v, "y")
    BY <1>4, <1>5, <1>6, <1>11
  <2>2. FitsTwo("subtract_trio_by_duo", a, b)
    BY <1>4, <1>11, <2>1, SumFits
  <2>3. SubtractMatched(v, minuend) = Summed(v, "subtract_trio_by_duo", "x", "y")
    BY <1>11, <2>1 DEF SubtractMatched
  <2> QED
    BY <1>7, <2>2, <2>3
<1>12. CASE count(v, "y") # 1 /\ count(v, "x") # count(v, "y") /\ ~(count(v, "x") > count(v, "y"))
  <2>1. a.polynomial_count = 2
    BY <1>4, <1>5, <1>6, <1>12
  <2>2. FitsTwo("subtract_duo_by_trio", a, b)
    BY <1>4, <1>12, <2>1, SumFits
  <2>3. LET u == clear_temp_data(Allocate(
                   Call(v, "subtract_duo_by_trio", <<"x", "y">>, NoKey), "result",
                   Sum(text(v, "y"), text(v, "x"))))
        IN  Delivers(w, u)
    BY <1>4, <2>2, SummedDelivers
  <2>4. SubtractMatched(v, minuend) =
          clear_temp_data(Allocate(
            Call(v, "subtract_duo_by_trio", <<"x", "y">>, NoKey), "result",
            Sum(text(v, "y"), text(v, "x"))))
    BY <1>12 DEF SubtractMatched
  <2> QED
    BY <1>2, <2>3, <2>4
<1> QED
  BY <1>8, <1>9, <1>10, <1>11, <1>12

LEMMA AddInplaceLeaves ==
    ASSUME NEW w, GoodPair(w)
    PROVE  add_inplace(w) = Refuse(w) \/ Leaves(w, add_inplace(w))
<1> DEFINE a == text(w, "x")
           b == text(w, "y")
<1>1. CASE /\ count(w, "x") = count(w, "y") /\ a.ntt_form = b.ntt_form
           /\ match_ckks_scale(a, b) /\ match_level(a, b)
  <2>1. Good(a) /\ Good(b) /\ level_(a) = level_(b) /\ a.rescaled = b.rescaled
        /\ a.polynomial_count = b.polynomial_count
    BY <1>1 DEF GoodPair, GoodAt, match_level, count
  <2>2. FitsTwo("add_inplace", a, b)
    BY <1>1, <2>1, SumFits
  <2>3. add_inplace(w) = Call(w, "add_inplace", <<"x", "y">>, NoKey)
    BY <1>1 DEF add_inplace
  <2> QED
    BY <2>2, <2>3, CallOfTwoLeaves
<1>2. CASE ~(/\ count(w, "x") = count(w, "y") /\ a.ntt_form = b.ntt_form
             /\ match_ckks_scale(a, b) /\ match_level(a, b))
  BY <1>2 DEF add_inplace
<1> QED
  BY <1>1, <1>2

LEMMA AddInplacePlaintextLeaves ==
    ASSUME NEW w, GoodPair(w)
    PROVE  add_inplace_plaintext(w) = Refuse(w) \/ Leaves(w, add_inplace_plaintext(w))
<1> DEFINE a == text(w, "x")
           b == text(w, "y")
           v == match_form_inplace(w)
<1>1. /\ Converts(w, v, "y")
      /\ text(v, "y").ntt_form <=> a.ntt_form
  BY PairConverted DEF match_form_inplace
<1>2. CASE match_ckks_scale(a, b) /\ match_level(a, b)
  <2> HIDE DEF v
  <2>1. /\ GoodPair(v) /\ Loose(v) = Loose(w) /\ text(v, "x") = a
        /\ Good(text(v, "x")) /\ Good(text(v, "y"))
    BY <1>1 DEF Converts, Pairs, GoodPair, GoodAt
  <2>2. level_(text(v, "x")) = level_(text(v, "y"))
        /\ text(v, "x").rescaled = text(v, "y").rescaled
    BY <1>1, <1>2, <2>1 DEF match_level, Converts, Like, level
  <2>3. text(v, "x").ntt_form = text(v, "y").ntt_form
    <3>1. text(v, "x").ntt_form \in BOOLEAN /\ text(v, "y").ntt_form \in BOOLEAN
      BY <2>1 DEF Good, TextRecord
    <3>2. text(v, "x").ntt_form <=> text(v, "y").ntt_form
      BY <1>1, <2>1
    <3> QED
      BY <3>1, <3>2
  <2>4. FitsTwo("add_inplace_plaintext", text(v, "x"), text(v, "y"))
    BY <2>1, <2>2, <2>3, SumFits
  <2>5. Leaves(v, Call(v, "add_inplace_plaintext", <<"x", "y">>, NoKey))
    BY <2>1, <2>4, CallOfTwoLeaves
  <2>6. v["result"] = w["result"]
    BY <1>1 DEF Converts, Pairs, Step, Register
  <2>7. add_inplace_plaintext(w) = Call(v, "add_inplace_plaintext", <<"x", "y">>, NoKey)
    BY <1>2 DEF add_inplace_plaintext, v
  <2> QED
    BY <2>1, <2>5, <2>6, <2>7 DEF Leaves
<1>3. CASE ~(match_ckks_scale(a, b) /\ match_level(a, b))
  BY <1>3 DEF add_inplace_plaintext
<1> QED
  BY <1>2, <1>3

(* A value is encoded at the level of x, for the operation with a text. *)
LEMMA EncodedPair ==
    ASSUME NEW w, GoodX(w)
    PROVE  LET v == encode(w, "y", level(w, "x"))
           IN  /\ GoodPair(v) /\ ~v.refused /\ text(v, "x") = text(w, "x")
               /\ count(v, "y") = 1 /\ level(v, "y") = level(w, "x")
               /\ Loose(v) = Loose(w) \cup {v.y} /\ v.y \notin Loose(w)
<1> DEFINE v == encode(w, "y", level(w, "x"))
<1>1. Workspace(w) /\ GoodAt(w, "x") /\ level(w, "x") \in Level
  BY DEF GoodX, GoodAt, Good, level
<1>2. Makes(w, v, "y") /\ Good(text(v, "y")) /\ count(v, "y") = 1
      /\ level(v, "y") = level(w, "x")
  BY <1>1, EncodeMakes DEF Register, count, level
<1> HIDE DEF v
<1>3. Step(w, v, {"y"}) /\ Workspace(v) /\ v.y \in Nat /\ v.y > Len(w.obj)
      /\ Loose(v) = Loose(w) \cup {v.y}
  BY <1>2 DEF Makes, Step
<1>4. GoodAt(v, "x") /\ text(v, "x") = text(w, "x")
  BY <1>1, <1>3, StepKeeps DEF Register
<1>5. v.y \notin Loose(w)
  BY <1>1, <1>3, Unowned
<1>6. ~v.refused
  BY <1>3 DEF Workspace, Clean
<1>7. GoodPair(v)
  BY <1>2, <1>3, <1>4 DEF GoodPair, GoodAt, Makes
<1> QED
  BY <1>2, <1>3, <1>4, <1>5, <1>6, <1>7 DEF v

LEMMA AddMessageDelivers ==
    ASSUME NEW w, GoodX(w), count(w, "x") \in {2, 3}
    PROVE  Delivers(w, add_message(w))
<1> DEFINE v == encode(w, "y", level(w, "x"))
           u == add(v)
<1>1. /\ GoodPair(v) /\ ~v.refused /\ text(v, "x") = text(w, "x")
      /\ Loose(v) = Loose(w) \cup {v.y} /\ v.y \notin Loose(w)
  BY EncodedPair
<1>2. add_message(w) = DeleteAfter(u, v.y)
  BY <1>1 DEF add_message, AddThenDelete
<1> HIDE DEF v
<1>3. Delivers(v, u)
  BY <1>1, AddDelivers DEF count
<1> HIDE DEF u
<1> QED
  BY <1>1, <1>2, <1>3, DeletedAfter

LEMMA SubtractMessageDelivers ==
    ASSUME NEW w, GoodX(w), count(w, "x") \in {2, 3}, NEW minuend
    PROVE  Delivers(w, subtract_message(w, minuend))
<1> DEFINE v == encode(w, "y", level(w, "x"))
           u == subtract(v, minuend)
<1>1. /\ GoodPair(v) /\ ~v.refused /\ text(v, "x") = text(w, "x")
      /\ Loose(v) = Loose(w) \cup {v.y} /\ v.y \notin Loose(w)
  BY EncodedPair
<1>2. subtract_message(w, minuend) = DeleteAfter(u, v.y)
  BY <1>1 DEF subtract_message, SubtractThenDelete
<1> HIDE DEF v
<1>3. Delivers(v, u)
  BY <1>1, SubtractDelivers DEF count
<1> HIDE DEF u
<1> QED
  BY <1>1, <1>2, <1>3, DeletedAfter

(* The multiplier of a number is the scale of a fresh text. *)
LEMMA AddNumberDelivers ==
    ASSUME NEW w, GoodX(w), count(w, "x") \in {2, 3}
    PROVE  Delivers(w, add_number(w))
<1> DEFINE t == text(w, "x")
<1>1. Workspace(w) /\ GoodAt(w, "x") /\ Good(t)
  BY DEF GoodX, GoodAt
<1>2. CASE t.ntt_form \/ t.rescaled
  BY <1>2, AddMessageDelivers DEF add_number
<1>3. CASE ~(t.ntt_form \/ t.rescaled)
  <2>1. t.scale = add_multiplier(level_(t))
    <3>1. level_(t) \in Level /\ t.scale = CanonicalScale(t) /\ to_moduli_id(level_(t)) \in Int
      BY <1>1, Typed DEF Good, to_moduli_id, Level
    <3>2. t.scale = get_ckks_scale(level_(t))
      BY <1>3, <3>1 DEF CanonicalScale
    <3>3. LogScale \in Int /\ deviation_[level_(t)] \in Int /\ LogQ[0] \in Int
      BY <3>1, Levels, Typed, Deviation
    <3> QED
      BY <3>2, <3>3 DEF get_ckks_scale, add_multiplier
  <2>2. FitsOne("add_number", t, NoKey)
    BY <1>3, <2>1 DEF FitsOne, InNttForm, OfDuos, OfTrios, SwitchKey
  <2>3. add_number(w) = Allocate(Call(w, "add_number", <<"x">>, NoKey), "result", t)
    BY <1>3 DEF add_number
  <2> QED
    BY <1>1, <2>2, <2>3, Advancing, ResultOfX
<1> QED
  BY <1>2, <1>3

LEMMA SubtractFromNumberDelivers ==
    ASSUME NEW w, GoodX(w), count(w, "x") \in {2, 3}
    PROVE  Delivers(w, subtract_from_number(w))
<1> DEFINE v == negate(w)
           u == add_number(Pass(v))
<1>1. Delivers(w, v) /\ text(v, "result") = text(w, "x")
  BY FormDelivers
<1>2. subtract_from_number(w) = DeleteAfter(u, v.result)
  BY DEF subtract_from_number, AddNumberThenDelete
<1> HIDE DEF v
<1>3. GoodX(Pass(v)) /\ count(Pass(v), "x") = count(w, "x")
  BY <1>1, Passed DEF count
<1>4. Delivers(Pass(v), u)
  BY <1>3, AddNumberDelivers
<1> HIDE DEF u
<1> QED
  BY <1>1, <1>2, <1>4, PassedDeleted

-----------------------------------------------------------------------------
(* Products. *)

LEMMA ProductFits ==
    ASSUME NEW a, NEW b, a.ntt_form, b.ntt_form, a.ntt_form = b.ntt_form,
           a.moduli_id = b.moduli_id, a.rescaled = b.rescaled
    PROVE  /\ FitsTwo("multiply_plaintext", a, b)
           /\ a.polynomial_count = 2 => FitsTwo("multiply", a, b) /\ FitsTwo("square", a, b)
<1>1. ASSUME NEW f \in {"multiply_plaintext", "multiply", "square"},
             f # "multiply_plaintext" => a.polynomial_count = 2
      PROVE  FitsTwo(f, a, b)
  <2>1. /\ f \notin OfTrios /\ f \notin ConvertPlaintext
        /\ f \notin InCoefficientForm \cup NotRescaled \cup SwitchKey
        /\ f \notin Sums /\ f \notin OfEqualCounts
        /\ f \in OfDuos => f # "multiply_plaintext"
    BY DEF OfTrios, InCoefficientForm, NotRescaled, SwitchKey, Sums, OfDuos,
           OfEqualCounts, ConvertPlaintext
  <2> QED
    BY <1>1, <2>1 DEF FitsTwo
<1> QED
  BY <1>1

(* The product of two texts that are prepared for it. *)
LEMMA MultipliedDelivers ==
    ASSUME NEW w, Workspace(w), NEW v, Advances(w, v), NEW r1 \in {"x", "y"},
           NEW r2 \in {"x", "y"}, GoodAt(v, r1), GoodAt(v, r2), NEW f, NEW c \in 1 .. 3,
           f = "multiply_plaintext" \/
             (f \in {"multiply", "square"} /\ count(v, r1) = 2),
           text(v, r1).rescaled, text(v, r2).rescaled,
           text(v, r1).ntt_form, text(v, r2).ntt_form, level(v, r1) = level(v, r2)
    PROVE  LET u == clear_temp_data(Multiplied(v, f, r1, r2, c))
               t == text(u, "result")
           IN  /\ Delivers(w, u) /\ level_(t) = level(v, r1) - 1 /\ ~t.rescaled
               /\ t.polynomial_count = c
<1> DEFINE a == text(v, r1)
           b == text(v, r2)
           made == Product(a, b, c)
           u == Allocate(Call(v, f, <<r1, r2>>, NoKey), "result", made)
<1>1. /\ Workspace(v) /\ v[r1] \notin v.gone /\ v[r2] \notin v.gone
      /\ Good(a) /\ Good(b) /\ level_(a) = level(v, r1) /\ level_(b) = level(v, r2)
      /\ count(v, r1) = a.polynomial_count
  BY DEF Advances, GoodAt, level, count
<1>2. /\ a.rescaled = b.rescaled /\ a.ntt_form = b.ntt_form
  <2>1. a \in TextRecord /\ b \in TextRecord
    BY <1>1 DEF Good
  <2> HIDE DEF a, b
  <2>2. a.rescaled \in BOOLEAN /\ b.rescaled \in BOOLEAN /\ a.ntt_form \in BOOLEAN
        /\ b.ntt_form \in BOOLEAN
    BY <2>1 DEF TextRecord
  <2>3. a.rescaled /\ b.rescaled /\ a.ntt_form /\ b.ntt_form
    BY DEF a, b
  <2> QED
    BY <2>2, <2>3
<1>3. a.moduli_id = b.moduli_id
  BY <1>1, <1>2, SamePlace
<1>4. FitsTwo(f, a, b)
  BY <1>1, <1>2, <1>3, ProductFits
<1>5. /\ Good(made) /\ level_(made) = level(v, r1) - 1 /\ ~made.rescaled
      /\ made.polynomial_count = c
  BY <1>1, ProductGood
<1>6. u = Multiplied(v, f, r1, r2, c)
  BY DEF Multiplied
<1> HIDE DEF made
<1>7. made \in AnyText
  BY <1>5 DEF Good, AnyText
<1>8. Makes(v, u, "result") /\ text(u, "result") = made
  BY <1>1, <1>4, <1>7, MadeOfTwo DEF Register
<1> HIDE DEF u
<1>9. Delivers(w, u)
  BY <1>5, <1>8, Delivered
<1>10. Delivers(w, clear_temp_data(u)) /\ text(clear_temp_data(u), "result") = made
  BY <1>8, <1>9, Cleared
<1> QED
  BY <1>5, <1>6, <1>10

LEMMA MultiplyDelivers ==
    ASSUME NEW w, GoodPair(w), level(w, "x") > 0, level(w, "y") > 0,
           count(w, "x") \in {2, 3},
           count(w, "y") = 1 \/ (count(w, "x") = 2 /\ count(w, "y") = 2)
    PROVE  LET v == multiply(w)
               t == text(v, "result")
           IN  /\ Delivers(w, v) /\ level_(t) = min_level(w) - 1 /\ ~t.rescaled
               /\ t.polynomial_count = IF count(w, "y") = 1 THEN count(w, "x") ELSE 3
<1> DEFINE v == Prepared(w, min_level(w))
<1>1. /\ Pairs(w, v)
      /\ \A r \in {"x", "y"} : /\ text(v, r).rescaled /\ text(v, r).ntt_form
                              /\ level(v, r) = min_level(w)
  BY PreparedPairs
<1>0. ~(level(w, "x") <= 0) /\ ~(level(w, "y") <= 0)
  <2>1. level(w, "x") \in Int /\ level(w, "y") \in Int
    BY MinLevel, Typed DEF Level
  <2> QED
    BY <2>1
<1> HIDE DEF v
<1>2. /\ Workspace(w) /\ Advances(w, v) /\ GoodAt(v, "x") /\ GoodAt(v, "y")
      /\ count(v, "x") = count(w, "x")
  BY <1>1, Advancing DEF GoodPair, Pairs
<1>3. ASSUME NEW f, NEW c \in 1 .. 3,
             f = "multiply_plaintext" \/ (f \in {"multiply", "square"} /\ count(v, "x") = 2)
      PROVE  LET u == clear_temp_data(Multiplied(v, f, "x", "y", c))
                 t == text(u, "result")
             IN  /\ Delivers(w, u) /\ level_(t) = min_level(w) - 1 /\ ~t.rescaled
                 /\ t.polynomial_count = c
  BY <1>1, <1>2, <1>3, MultipliedDelivers
<1>4. CASE count(w, "y") = 1
  <2> DEFINE c == count(w, "x")
  <2>1. c \in 1 .. 3
    OBVIOUS
  <2>2. multiply(w) = clear_temp_data(Multiplied(v, "multiply_plaintext", "x", "y", c))
    BY <1>0, <1>4 DEF multiply, v
  <2> HIDE DEF c
  <2>3. LET u == clear_temp_data(Multiplied(v, "multiply_plaintext", "x", "y", c))
            t == text(u, "result")
        IN  /\ Delivers(w, u) /\ level_(t) = min_level(w) - 1 /\ ~t.rescaled
            /\ t.polynomial_count = c
    BY <1>3, <2>1
  <2> QED
    BY <1>4, <2>2, <2>3 DEF c
<1>5. CASE count(w, "y") # 1
  <2>1. count(w, "x") = 2 /\ count(w, "y") = 2 /\ ~\E r \in {"x", "y"} : count(w, r) # 2
    BY <1>5
  <2>2. multiply(w) = clear_temp_data(Multiplied(v, "multiply", "x", "y", 3))
    BY <1>0, <1>5, <2>1 DEF multiply, v
  <2>3. LET u == clear_temp_data(Multiplied(v, "multiply", "x", "y", 3))
            t == text(u, "result")
        IN  /\ Delivers(w, u) /\ level_(t) = min_level(w) - 1 /\ ~t.rescaled
            /\ t.polynomial_count = 3
    <3> DEFINE c == 3
    <3>1. c \in 1 .. 3
      OBVIOUS
    <3> HIDE DEF c
    <3>2. LET u == clear_temp_data(Multiplied(v, "multiply", "x", "y", c))
              t == text(u, "result")
          IN  /\ Delivers(w, u) /\ level_(t) = min_level(w) - 1 /\ ~t.rescaled
              /\ t.polynomial_count = c
      BY <1>2, <1>3, <2>1, <3>1
    <3> QED
      BY <3>2 DEF c
  <2> QED
    BY <1>5, <2>2, <2>3
<1> QED
  BY <1>4, <1>5

LEMMA MultiplyAnswers ==
    ASSUME NEW w, GoodPair(w), count(w, "x") \in {2, 3}
    PROVE  Answers(w, multiply(w))
<1>1. level(w, "x") \in Int /\ level(w, "y") \in Int
  BY MinLevel, Typed DEF Level
<1>2. CASE \/ level(w, "x") <= 0 \/ level(w, "y") <= 0
           \/ count(w, "y") # 1 /\ \E r \in {"x", "y"} : count(w, r) # 2
  <2>1. ~(level(w, "x") > 0 /\ level(w, "y") > 0 /\ count(w, "y") = 1)
    BY <1>1, <1>2
  <2>2. multiply(w) = Refuse(w)
    BY <1>2, <2>1 DEF multiply
  <2> QED
    BY <2>2 DEF Answers
<1>3. CASE ~(\/ level(w, "x") <= 0 \/ level(w, "y") <= 0
             \/ count(w, "y") # 1 /\ \E r \in {"x", "y"} : count(w, r) # 2)
  <2>1. level(w, "x") > 0 /\ level(w, "y") > 0
    BY <1>1, <1>3
  <2>2. count(w, "y") = 1 \/ (count(w, "x") = 2 /\ count(w, "y") = 2)
    BY <1>3
  <2> QED
    BY <2>1, <2>2, MultiplyDelivers DEF Answers
<1> QED
  BY <1>2, <1>3

LEMMA SquareAnswers ==
    ASSUME NEW w, GoodX(w)
    PROVE  /\ Answers(w, square(w))
           /\ count(w, "x") = 2 /\ level(w, "x") > 0 =>
                LET t == text(square(w), "result")
                IN  /\ Delivers(w, square(w)) /\ level_(t) = level(w, "x") - 1
                    /\ ~t.rescaled /\ t.polynomial_count = 3
<1>0. Workspace(w) /\ GoodAt(w, "x") /\ level(w, "x") \in Int
  BY Typed DEF GoodX, GoodAt, Good, level, Level
<1>1. ASSUME count(w, "x") = 2, level(w, "x") > 0
      PROVE  LET t == text(square(w), "result")
             IN  /\ Delivers(w, square(w)) /\ level_(t) = level(w, "x") - 1
                 /\ ~t.rescaled /\ t.polynomial_count = 3
  <2> DEFINE a == rescale_(w, "x")
             v == ntt_(a, "x")
             c == 3
  <2>1. /\ Replaces(w, a, "x") /\ text(a, "x").rescaled /\ level(a, "x") = level(w, "x")
    BY <1>0, <1>1, RescaleStep DEF Register
  <2> HIDE DEF a
  <2>2. Workspace(a) /\ GoodAt(a, "x")
    BY <2>1 DEF Replaces, Step
  <2>3. Replaces(a, v, "x") /\ Like(a, v, "x") /\ text(v, "x").ntt_form
    BY <2>2, ConvertStep DEF Register
  <2>4. square(w) = clear_temp_data(Multiplied(v, "square", "x", "x", c))
    BY <1>0, <1>1 DEF square, a
  <2>5. c \in 1 .. 3 /\ c = 3
    OBVIOUS
  <2> HIDE DEF v, c
  <2>6. Replaces(w, v, "x") /\ Advances(w, v)
    BY <1>0, <2>1, <2>3, ReplacesReplaces, Advancing
  <2>7. GoodAt(v, "x") /\ count(v, "x") = 2 /\ text(v, "x").rescaled
        /\ level(v, "x") = level(w, "x")
    BY <1>1, <2>1, <2>3, <2>6 DEF Replaces, Like
  <2>8. LET u == clear_temp_data(Multiplied(v, "square", "x", "x", c))
            t == text(u, "result")
        IN  /\ Delivers(w, u) /\ level_(t) = level(v, "x") - 1 /\ ~t.rescaled
            /\ t.polynomial_count = c
    BY <1>0, <2>3, <2>5, <2>6, <2>7, MultipliedDelivers
  <2> QED
    BY <2>4, <2>5, <2>7, <2>8
<1>2. ASSUME ~(count(w, "x") = 2 /\ level(w, "x") > 0)
      PROVE  square(w) = Refuse(w)
  BY <1>0, <1>2 DEF square
<1> QED
  BY <1>1, <1>2 DEF Answers

LEMMA MultiplyMessageAnswers ==
    ASSUME NEW w, GoodX(w), count(w, "x") \in {2, 3}
    PROVE  Answers(w, multiply_message(w))
<1>1. CASE level(w, "x") <= 0
  BY <1>1 DEF multiply_message, Answers
<1>2. CASE ~(level(w, "x") <= 0)
  <2> DEFINE v == encode(w, "y", level(w, "x"))
             u == multiply(v)
  <2>0. level(w, "x") > 0
    BY <1>2, Typed DEF GoodX, GoodAt, Good, level, Level
  <2>1. /\ GoodPair(v) /\ ~v.refused /\ text(v, "x") = text(w, "x")
        /\ count(v, "y") = 1 /\ level(v, "y") = level(w, "x")
        /\ Loose(v) = Loose(w) \cup {v.y} /\ v.y \notin Loose(w)
    BY EncodedPair
  <2>2. multiply_message(w) = DeleteAfter(u, v.y)
    BY <1>2, <2>1 DEF multiply_message, MultiplyThenDelete
  <2> HIDE DEF v
  <2>3. Delivers(v, u)
    BY <2>0, <2>1, MultiplyDelivers DEF count, level
  <2> HIDE DEF u
  <2> QED
    BY <2>1, <2>2, <2>3, DeletedAfter DEF Answers
<1> QED
  BY <1>1, <1>2

LEMMA MultiplyByNumberAnswers ==
    ASSUME NEW w, GoodX(w)
    PROVE  Answers(w, multiply_double(w)) /\ Answers(w, multiply_integer(w))
<1> DEFINE a == intt_(w, "x")
           t == text(a, "x")
<1>0. Workspace(w) /\ GoodAt(w, "x") /\ level(w, "x") \in Int
  BY Typed DEF GoodX, GoodAt, Good, level, Level
<1>1. Replaces(w, a, "x") /\ Like(w, a, "x") /\ ~text(a, "x").ntt_form
  BY <1>0, ConvertStep DEF Register
<1> HIDE DEF a
<1>2. GoodAt(a, "x") /\ Good(t) /\ Advances(w, a)
  BY <1>0, <1>1, Advancing DEF Replaces, GoodAt
<1>3. CASE text(w, "x").rescaled
  BY <1>3 DEF multiply_double, multiply_integer, Answers
<1>4. CASE ~text(w, "x").rescaled
  <2>1. ~t.rescaled /\ ~t.ntt_form /\ level_(t) = level(w, "x")
    BY <1>1, <1>4 DEF Like, level
  <2>2. Answers(w, multiply_double(w))
    <3>1. CASE level(w, "x") <= 0
      BY <3>1 DEF multiply_double, Answers
    <3>2. CASE ~(level(w, "x") <= 0)
      <4> DEFINE u == core_multiply_double(a)
      <4>1. level_(t) > 0
        BY <1>0, <2>1, <3>2
      <4>2. Good(ProductWithDouble(t))
        BY <1>2, <2>1, <4>1, ProductWithDoubleGood
      <4>3. FitsOne("multiply_double", t, NoKey)
        BY <2>1 DEF FitsOne, InNttForm, OfDuos, OfTrios, SwitchKey
      <4>4. Delivers(w, u)
        BY <1>0, <1>2, <4>2, <4>3, ResultOfX DEF core_multiply_double
      <4>5. multiply_double(w) = clear_temp_data(u)
        BY <1>4, <3>2 DEF multiply_double, a
      <4> HIDE DEF u
      <4> QED
        BY <4>4, <4>5, Cleared DEF Answers
    <3> QED
      BY <3>1, <3>2
  <2>3. Answers(w, multiply_integer(w))
    <3> DEFINE u == core_multiply_integer(a)
    <3>1. FitsOne("multiply_integer", t, NoKey)
      BY <2>1 DEF FitsOne, InNttForm, NotRescaled, OfDuos, OfTrios, SwitchKey
    <3>2. Delivers(w, u)
      BY <1>0, <1>2, <3>1, ResultOfX DEF core_multiply_integer
    <3>3. multiply_integer(w) = clear_temp_data(u)
      BY <1>4 DEF multiply_integer, a
    <3> HIDE DEF u
    <3> QED
      BY <3>2, <3>3, Cleared DEF Answers
  <2> QED
    BY <2>2, <2>3
<1> QED
  BY <1>3, <1>4

(* The plaintext of an imaginary number has scale 1, which is not that of a *)
(* level; it is deleted at once.                                            *)
LEMMA ImaginaryEncoded ==
    ASSUME NEW a, GoodX(a), ~text(a, "x").rescaled
    PROVE  LET e == encode_imaginary(a)
               t == text(e, "y")
           IN  /\ Makes(a, e, "y") /\ GoodX(e) /\ text(e, "x") = text(a, "x")
               /\ t \in TextRecord /\ ~t.ntt_form /\ ~t.rescaled
               /\ t.moduli_id = text(a, "x").moduli_id
               /\ t.scale = 0 /\ t.ckks_scale = 0
<1> DEFINE l == level(a, "x")
           made == Text(1, to_moduli_id(l), 0)
           e == Allocate(Call(a, "encode_imaginary", <<>>, NoKey), "y", made)
<1>1. Workspace(a) /\ GoodAt(a, "x") /\ Good(text(a, "x"))
  BY DEF GoodX, GoodAt
<1>2. l \in Level /\ to_moduli_id(l) = FullLevel - l /\ FullLevel - l \in 0 .. FullLevel
      /\ text(a, "x").moduli_id = FullLevel - l
  <2>1. l \in Level /\ text(a, "x").moduli_id = FullLevel - l + 0
    BY <1>1, GoodText DEF level
  <2> QED
    BY <2>1, Levels, Typed
<1>3. /\ made \in TextRecord /\ made.ckks_scale = 0 /\ made.scale = 0 /\ ~made.ntt_form
      /\ ~made.rescaled /\ made.moduli_id = text(a, "x").moduli_id
  BY <1>2 DEF Text, TextRecord
<1>4. encode_imaginary(a) = e
  BY DEF encode_imaginary
<1> HIDE DEF made
<1>5. made \in AnyText
  BY <1>3 DEF AnyText
<1>6. Makes(a, e, "y") /\ text(e, "y") = made
  BY <1>1, <1>5, MadeOfNone DEF Register
<1> HIDE DEF e
<1>7. GoodX(e) /\ text(e, "x") = text(a, "x")
  <2>1. Workspace(e) /\ Step(a, e, {"y"}) /\ "x" \in Register \ {"y"}
    BY <1>6 DEF Makes, Step, Register
  <2>2. GoodAt(e, "x") /\ text(e, "x") = text(a, "x")
    BY <1>1, <2>1, StepKeeps
  <2> QED
    BY <2>1, <2>2 DEF GoodX
<1> QED
  BY <1>3, <1>4, <1>6, <1>7

LEMMA ImaginaryConverted ==
    ASSUME NEW e, GoodX(e), e.y \notin e.gone, text(e, "y") \in TextRecord,
           ~text(e, "y").ntt_form
    PROVE  LET n == ntt_(e, "y")
               t == text(n, "y")
           IN  /\ Advances(e, n) /\ GoodX(n) /\ text(n, "x") = text(e, "x")
               /\ n.y \notin n.gone /\ t \in TextRecord /\ t.ntt_form
               /\ t.rescaled = text(e, "y").rescaled
               /\ t.moduli_id = text(e, "y").moduli_id
               /\ t.scale = text(e, "y").scale /\ t.ckks_scale = text(e, "y").ckks_scale
<1> DEFINE made == [text(e, "y") EXCEPT !.ntt_form = TRUE]
           g == Allocate(Call(e, "to_ntt_form", <<"y">>, NoKey), "y", made)
           n == Push(g, "y")
<1>1. made \in TextRecord
  BY Fields
<1>2. /\ made.moduli_id = text(e, "y").moduli_id
      /\ made.scale = text(e, "y").scale /\ made.ckks_scale = text(e, "y").ckks_scale
  BY DEF TextRecord
<1>3. made.ntt_form /\ made.rescaled = text(e, "y").rescaled
  BY Zenon DEF TextRecord
<1>4. ntt_(e, "y") = n
  BY DEF ntt_, to_ntt_form
<1> HIDE DEF made
<1>5. /\ "x" \in Register \ {"y"} /\ "x" \in Register \ {} /\ "y" \in Register
  BY DEF Register
<1>6. Workspace(e) /\ GoodAt(e, "x") /\ e["y"] \notin e.gone /\ made \in AnyText
  BY <1>1 DEF GoodX, AnyText
<1>7. FitsOne("to_ntt_form", text(e, "y"), NoKey)
  BY OneFits
<1>8. Makes(e, g, "y") /\ text(g, "y") = made
  BY <1>5, <1>6, <1>7, MadeOfOne
<1> HIDE DEF g
<1>9. /\ Workspace(g) /\ Step(e, g, {"y"}) /\ Loose(g) = Loose(e) \cup {g["y"]}
      /\ g["y"] \in Nat /\ g["y"] > Len(e.obj) /\ g["y"] \notin g.gone
  BY <1>8 DEF Makes, Step
<1>10. GoodAt(g, "x") /\ text(g, "x") = text(e, "x")
  BY <1>5, <1>6, <1>9, StepKeeps
<1>11. Step(g, n, {}) /\ n.obj = g.obj /\ n.gone = g.gone /\ Loose(n) = Loose(g) \ {g["y"]}
  BY <1>5, <1>9, PushStep
<1> HIDE DEF n
<1>12. GoodAt(n, "x") /\ text(n, "x") = text(g, "x") /\ Workspace(n)
  <2>1. Workspace(n)
    BY <1>11 DEF Step
  <2> QED
    BY <2>1, <1>5, <1>9, <1>10, <1>11, StepKeeps
<1>13. n["y"] = g["y"]
  BY <1>5, <1>11 DEF Step
<1>14. text(n, "y") = made
  BY <1>8, <1>11, <1>13 DEF text
<1>15. Advances(e, n)
  <2>1. g["y"] \notin Loose(e)
    BY <1>6, <1>9, Unowned
  <2>2. Len(e.obj) =< Len(n.obj)
    BY <1>9, <1>11 DEF Step
  <2> QED
    BY <1>9, <1>11, <1>12, <2>1, <2>2 DEF Advances
<1>16. n.y \notin n.gone
  BY <1>9, <1>11, <1>13
<1> QED
  BY <1>1, <1>2, <1>3, <1>4, <1>10, <1>12, <1>14, <1>15, <1>16 DEF GoodX

LEMMA MultiplyImaginaryAnswers ==
    ASSUME NEW w, GoodX(w)
    PROVE  Answers(w, multiply_imaginary(w))
<1> DEFINE a == ntt_(w, "x")
           e == encode_imaginary(a)
           n == ntt_(e, "y")
           m == Multiplied(n, "multiply_plaintext", "x", "y", count(e, "x"))
           d == delete(m, e.y)
           v == MultiplyPlaintextThenDelete(e)
<1>0. Workspace(w) /\ GoodAt(w, "x")
  BY DEF GoodX
<1>1. CASE text(w, "x").rescaled
  <2>1. multiply_imaginary(w) = Refuse(w)
    BY <1>1 DEF multiply_imaginary
  <2> QED
    BY <2>1 DEF Answers
<1>2. CASE ~text(w, "x").rescaled
  <2>1. multiply_imaginary(w) = v \/ multiply_imaginary(w) = InttThenDelete(v)
    BY <1>2 DEF multiply_imaginary
  <2>2. v = clear_temp_data(d)
    BY DEF MultiplyPlaintextThenDelete
  <2> HIDE DEF v
  <2>3. Replaces(w, a, "x") /\ Like(w, a, "x") /\ text(a, "x").ntt_form
    BY <1>0, ConvertStep DEF Register
  <2> HIDE DEF a
  <2>4. /\ GoodX(a) /\ ~text(a, "x").rescaled /\ Loose(a) = Loose(w) /\ Workspace(a)
        /\ Len(w.obj) =< Len(a.obj) /\ Len(w.obj) \in Nat /\ Len(a.obj) \in Nat
    <3>1. Workspace(a) /\ GoodAt(a, "x") /\ Len(w.obj) =< Len(a.obj) /\ Loose(a) = Loose(w)
      BY <2>3 DEF Replaces, Step
    <3> QED
      BY <1>0, <1>2, <2>3, <3>1, LengthTyped DEF Like, GoodX
  <2>5. /\ Makes(a, e, "y") /\ GoodX(e) /\ text(e, "x") = text(a, "x")
        /\ text(e, "y") \in TextRecord /\ ~text(e, "y").ntt_form /\ ~text(e, "y").rescaled
        /\ text(e, "y").moduli_id = text(a, "x").moduli_id
        /\ text(e, "y").scale = 0 /\ text(e, "y").ckks_scale = 0
    BY <2>4, ImaginaryEncoded
  <2> HIDE DEF e
  <2>6. /\ e.y \in Nat /\ e.y > Len(a.obj) /\ e.y \notin e.gone
        /\ Loose(e) = Loose(a) \cup {e.y} /\ Workspace(e)
    BY <2>5 DEF Makes, Step
  <2>7. e.y \notin Loose(w)
    <3>1. e.y > Len(w.obj)
      BY <2>4, <2>6
    <3> QED
      BY <1>0, <2>6, <3>1, Unowned
  <2>8. /\ Advances(e, n) /\ GoodX(n) /\ text(n, "x") = text(e, "x")
        /\ n.y \notin n.gone /\ text(n, "y") \in TextRecord /\ text(n, "y").ntt_form
        /\ text(n, "y").rescaled = text(e, "y").rescaled
        /\ text(n, "y").moduli_id = text(e, "y").moduli_id
        /\ text(n, "y").scale = text(e, "y").scale
        /\ text(n, "y").ckks_scale = text(e, "y").ckks_scale
    BY <2>5, <2>6, ImaginaryConverted
  <2> HIDE DEF n
  <2> DEFINE s == text(n, "x")
             t == text(n, "y")
             made == Product(s, t, s.polynomial_count)
  <2>9. /\ Good(s) /\ s.ntt_form /\ ~s.rescaled /\ t.ntt_form /\ ~t.rescaled
        /\ s.moduli_id = t.moduli_id /\ t.scale = 0 /\ t.ckks_scale = 0
        /\ t \in TextRecord /\ s \in TextRecord
    BY <2>3, <2>4, <2>5, <2>8 DEF GoodX, GoodAt, Good
  <2>10. s.ntt_form = t.ntt_form /\ s.rescaled = t.rescaled
    <3> HIDE DEF s, t
    <3>1. s.rescaled \in BOOLEAN /\ t.rescaled \in BOOLEAN /\ s.ntt_form \in BOOLEAN
          /\ t.ntt_form \in BOOLEAN
      BY <2>9 DEF TextRecord
    <3> QED
      BY <2>9, <3>1
  <2>11. FitsTwo("multiply_plaintext", s, t)
    BY <2>9, <2>10, ProductFits
  <2>12. Good(made)
    BY <2>9, ProductByUnitGood
  <2>13. m = Allocate(Call(n, "multiply_plaintext", <<"x", "y">>, NoKey), "result", made)
    BY <2>8 DEF Multiplied, count
  <2> HIDE DEF made, m
  <2>14. made \in AnyText
    BY <2>12 DEF Good, AnyText
  <2>15. Makes(n, m, "result") /\ text(m, "result") = made
    <3>1. Workspace(n) /\ n["x"] \notin n.gone /\ n["y"] \notin n.gone
      BY <2>8 DEF GoodX, GoodAt
    <3> QED
      BY <2>11, <2>13, <2>14, <3>1, MadeOfTwo DEF Register
  <2>16. Delivers(e, m)
    BY <2>6, <2>8, <2>12, <2>15, Delivered
  <2>17. Delivers(w, DeleteAfter(m, e.y))
    BY <2>4, <2>6, <2>7, <2>16, DeletedAfter
  <2>18. DeleteAfter(m, e.y) = d
    <3>1. ~m.refused
      BY <2>16 DEF Delivers, Workspace, Clean
    <3> QED
      BY <3>1 DEF DeleteAfter
  <2> HIDE DEF d
  <2>19. Delivers(w, v)
    BY <2>2, <2>17, <2>18, Cleared
  <2>20. Delivers(w, InttThenDelete(v))
    <3> DEFINE u == intt(Pass(v))
    <3>1. Delivers(Pass(v), u)
      BY <2>19, Passed, FormDelivers
    <3>2. InttThenDelete(v) = DeleteAfter(u, v.result)
      BY DEF InttThenDelete
    <3> HIDE DEF u
    <3> QED
      BY <2>19, <3>1, <3>2, PassedDeleted
  <2> QED
    BY <2>1, <2>19, <2>20 DEF Answers
<1> QED
  BY <1>1, <1>2

-----------------------------------------------------------------------------
(* Key switching. *)

LEMMA KeyTyped ==
    ASSUME NEW key \in SwitchingKey
    PROVE  /\ key \in Nat /\ key =< MaxLevel /\ key # NoKey
           /\ OneMoreLevel /\ MaxLevel = FullLevel => key < FullLevel
<1>1. MaxKeySwitchingLevel \in Int /\ MaxKeySwitchingLevel =< MaxLevel
  BY Typed DEF MaxKeySwitchingLevel
<1>2. key \in Nat /\ key =< MaxKeySwitchingLevel
  BY <1>1 DEF SwitchingKey
<1>3. key # NoKey
  BY <1>2 DEF NoKey
<1>4. OneMoreLevel /\ MaxLevel = FullLevel => key < FullLevel
  BY <1>2, Typed DEF MaxKeySwitchingLevel
<1> QED
  BY <1>1, <1>2, <1>3, <1>4, Typed

(* The text that a product makes is covered by the key that was required of *)
(* its factors.                                                             *)
LEMMA ProductCompatible ==
    ASSUME NEW t, Good(t), NEW m, Good(m), NEW key \in SwitchingKey,
           is_multiply_key_compatible(t, key), ~m.rescaled, level_(m) = level_(t) - 1
    PROVE  is_key_compatible(m, key)
<1>1. /\ t.moduli_id = FullLevel - level_(t) + (IF t.rescaled THEN 1 ELSE 0)
      /\ m.moduli_id = FullLevel - level_(m) /\ level_(t) \in Level /\ FullLevel \in Nat
  <2>1. m.moduli_id = FullLevel - level_(m) + 0 /\ level_(m) \in Level
    BY GoodText
  <2>2. level_(m) \in Int /\ FullLevel \in Nat
    BY <2>1, Typed DEF Level
  <2> QED
    BY <2>1, <2>2, GoodText
<1>2. /\ level_(t) \in Int /\ level_(t) =< FullLevel
      /\ key \in Int /\ to_moduli_id(key) = FullLevel - key
  BY <1>1, Typed, KeyTyped DEF Level, to_moduli_id
<1> DEFINE l == level_(t)
<1>3. l - 1 =< key
  <2>1. CASE l - 1 = key
    BY <1>2, <2>1
  <2>2. CASE t.moduli_id >= to_moduli_id(key)
    BY <1>1, <1>2, <2>2
  <2>3. CASE OneMoreLevel /\ t.moduli_id = 0 /\ to_moduli_id(key) = 1
    BY <1>1, <1>2, <2>3
  <2> QED
    BY <2>1, <2>2, <2>3
       DEF is_multiply_key_compatible, is_switching_key_compatible, is_key_compatible
<1> HIDE DEF l
<1>4. m.moduli_id = FullLevel - (l - 1) /\ l \in Int
  BY <1>1, <1>2 DEF l
<1> QED
  BY <1>1, <1>2, <1>3, <1>4 DEF is_key_compatible

LEMMA RelinearizeDelivers ==
    ASSUME NEW w, GoodX(w), NEW key \in SwitchingKey, count(w, "x") = 3,
           is_switching_key_compatible(text(w, "x"), key)
    PROVE  Delivers(w, relinearize(w, key))
<1> DEFINE v == ntt_(w, "x")
           t == text(v, "x")
           made == [t EXCEPT !.polynomial_count = 2, !.ntt_form = FALSE]
           u == Allocate(Call(v, "relinearize", <<"x">>, key), "result", made)
<1>1. Workspace(w) /\ GoodAt(w, "x") /\ Good(text(w, "x"))
  BY DEF GoodX, GoodAt
<1>2. Replaces(w, v, "x") /\ Like(w, v, "x") /\ text(v, "x").ntt_form
  BY <1>1, ConvertStep DEF Register
<1>3. relinearize(w, key) = clear_temp_data(u)
  BY DEF relinearize, core_relinearize
<1> HIDE DEF v
<1>4. GoodAt(v, "x") /\ Good(t) /\ Advances(w, v) /\ count(v, "x") = 3
  BY <1>1, <1>2, Advancing DEF Replaces, GoodAt
<1>5. t.polynomial_count = 3 /\ text(w, "x").polynomial_count = 3
  BY <1>4 DEF count
<1>6. t.moduli_id = text(w, "x").moduli_id /\ t.moduli_id \in Nat
  <2>1. level_(t) = level_(text(w, "x")) /\ t.rescaled = text(w, "x").rescaled
    BY <1>2 DEF Like, level
  <2>2. t.moduli_id \in 0 .. FullLevel
    BY <1>4 DEF Good, TextRecord
  <2> QED
    BY <1>1, <1>4, <2>1, <2>2, SamePlace, Typed
<1>7. t.moduli_id > 0
  BY <1>4, <1>5 DEF Good, BelowTop
<1>8. t.moduli_id >= to_moduli_id(key)
  BY <1>6, <1>7 DEF is_switching_key_compatible, is_key_compatible
<1>9. FitsOne("relinearize", t, key)
  BY <1>2, <1>5, <1>6, <1>7, <1>8
     DEF FitsOne, InCoefficientForm, NotRescaled, OfDuos, OfTrios
<1>10. Good(made)
  BY <1>4, ChangedGood
<1> HIDE DEF made
<1>11. Delivers(w, u)
  BY <1>1, <1>4, <1>9, <1>10, ResultOfX
<1> QED
  BY <1>3, <1>11, Cleared

LEMMA RelinearizeAnswers ==
    ASSUME NEW w, GoodX(w), NEW key \in SwitchingKey
    PROVE  Answers(w, relinearize(w, key))
<1>1. CASE count(w, "x") = 3 /\ is_switching_key_compatible(text(w, "x"), key)
  BY <1>1, RelinearizeDelivers DEF Answers
<1>2. CASE ~(count(w, "x") = 3 /\ is_switching_key_compatible(text(w, "x"), key))
  BY <1>2 DEF relinearize, Answers
<1> QED
  BY <1>1, <1>2

LEMMA RelinearizedDelivers ==
    ASSUME NEW w, NEW v, Delivers(w, v), NEW key \in SwitchingKey,
           text(v, "result").polynomial_count = 3,
           is_key_compatible(text(v, "result"), key)
    PROVE  Delivers(w, RelinearizeThenDelete(v, key))
<1> DEFINE p == Pass(v)
           u == relinearize(p, key)
<1>1. GoodX(p) /\ text(p, "x") = text(v, "result")
  BY Passed
<1> HIDE DEF p
<1>2. count(p, "x") = 3 /\ is_switching_key_compatible(text(p, "x"), key)
  BY <1>1 DEF count, is_switching_key_compatible
<1>3. Delivers(p, u)
  BY <1>1, <1>2, RelinearizeDelivers
<1>4. ~v.refused
  BY DEF Delivers, Workspace, Clean
<1>5. RelinearizeThenDelete(v, key) = DeleteAfter(u, v.result)
  BY <1>4 DEF RelinearizeThenDelete, p
<1> HIDE DEF u
<1>6. Delivers(Pass(v), u)
  BY <1>3 DEF p
<1> QED
  BY <1>5, <1>6, PassedDeleted

LEMMA MultiplyRelinearizeAnswers ==
    ASSUME NEW w, GoodPair(w), NEW key \in SwitchingKey
    PROVE  Answers(w, multiply_relinearize(w, key))
<1>1. CASE require_multiply_(w, "x", key) /\ require_multiply_(w, "y", key)
  <2> DEFINE v == multiply(w)
             t == text(v, "result")
  <2>1. /\ count(w, "x") = 2 /\ count(w, "y") = 2
        /\ level(w, "x") > 0 /\ level(w, "y") > 0
        /\ is_multiply_key_compatible(text(w, "x"), key)
        /\ is_multiply_key_compatible(text(w, "y"), key)
    BY <1>1 DEF require_multiply_
  <2>2. /\ Delivers(w, v) /\ level_(t) = min_level(w) - 1 /\ ~t.rescaled
        /\ t.polynomial_count = 3
    BY <2>1, MultiplyDelivers
  <2>3. multiply_relinearize(w, key) = RelinearizeThenDelete(v, key)
    BY <1>1 DEF multiply_relinearize
  <2> HIDE DEF v
  <2>4. Good(t) /\ Good(text(w, "x")) /\ Good(text(w, "y"))
    BY <2>2 DEF Delivers, GoodAt, GoodPair
  <2>5. \/ level_(t) = level_(text(w, "x")) - 1
        \/ level_(t) = level_(text(w, "y")) - 1
    BY <2>2, MinLevel DEF level
  <2> HIDE DEF t
  <2>6. is_key_compatible(t, key)
    BY <2>1, <2>2, <2>4, <2>5, ProductCompatible
  <2> QED
    BY <2>2, <2>3, <2>6, RelinearizedDelivers DEF Answers, t
<1>2. CASE ~(require_multiply_(w, "x", key) /\ require_multiply_(w, "y", key))
  BY <1>2 DEF multiply_relinearize, Answers
<1> QED
  BY <1>1, <1>2

LEMMA SquareRelinearizeAnswers ==
    ASSUME NEW w, GoodX(w), NEW key \in SwitchingKey
    PROVE  Answers(w, square_relinearize(w, key))
<1>1. CASE require_multiply_(w, "x", key)
  <2> DEFINE v == square(w)
             t == text(v, "result")
  <2>1. /\ count(w, "x") = 2 /\ level(w, "x") > 0
        /\ is_multiply_key_compatible(text(w, "x"), key)
    BY <1>1 DEF require_multiply_
  <2>2. /\ Delivers(w, v) /\ level_(t) = level(w, "x") - 1 /\ ~t.rescaled
        /\ t.polynomial_count = 3
    BY <2>1, SquareAnswers
  <2>3. square_relinearize(w, key) = RelinearizeThenDelete(v, key)
    BY <1>1 DEF square_relinearize
  <2> HIDE DEF v
  <2>4. Good(t) /\ Good(text(w, "x"))
    BY <2>2 DEF Delivers, GoodAt, GoodX
  <2>5. level_(t) = level_(text(w, "x")) - 1
    BY <2>2 DEF level
  <2> HIDE DEF t
  <2>6. is_key_compatible(t, key)
    BY <2>1, <2>2, <2>4, <2>5, ProductCompatible
  <2> QED
    BY <2>2, <2>3, <2>6, RelinearizedDelivers DEF Answers, t
<1>2. CASE ~require_multiply_(w, "x", key)
  BY <1>2 DEF square_relinearize, Answers
<1> QED
  BY <1>1, <1>2

(* Below one more level there is a special prime left to switch keys with. *)
LEMMA BelowOneMoreLevelStep ==
    ASSUME NEW w, GoodX(w), NEW key \in SwitchingKey,
           is_switching_key_compatible(text(w, "x"), key)
    PROVE  LET v == BelowOneMoreLevel(w)
               t == text(v, "x")
           IN  /\ Replaces(w, v, "x") /\ ~(OneMoreLevel /\ t.moduli_id = 0)
               /\ is_key_compatible(t, key)
<1> DEFINE s == text(w, "x")
<1>1. Workspace(w) /\ GoodAt(w, "x") /\ Good(s)
  BY DEF GoodX, GoodAt
<1>2. /\ s.moduli_id = FullLevel - level_(s) + (IF s.rescaled THEN 1 ELSE 0)
      /\ level_(s) \in Level
  BY <1>1, GoodText
<1>3. /\ level_(s) \in Int /\ level_(s) =< MaxLevel /\ MaxLevel =< FullLevel
      /\ FullLevel \in Int /\ FullLevel > 0 /\ MaxLevel \in Int
  BY <1>2, Typed DEF Level
<1>4. /\ key \in Int /\ to_moduli_id(key) = FullLevel - key
      /\ OneMoreLevel /\ MaxLevel = FullLevel => key < FullLevel
  BY <1>3, KeyTyped DEF to_moduli_id
<1>5. level(w, "x") = level_(s)
  BY DEF level
<1> HIDE DEF s
<1>6. CASE OneMoreLevel /\ s.moduli_id = 0
  <2> DEFINE to == level_(s) - 1
             v == level_down_(w, "x", to)
             t == text(v, "x")
  <2>1. level_(s) = FullLevel /\ MaxLevel = FullLevel
    BY <1>2, <1>3, <1>6
  <2>2. to \in Level /\ to < level(w, "x") /\ to = FullLevel - 1
    BY <1>3, <1>5, <2>1 DEF Level
  <2>3. BelowOneMoreLevel(w) = v
    BY <1>5, <1>6 DEF BelowOneMoreLevel, s
  <2> HIDE DEF to
  <2>4. to =< level(w, "x")
    BY <1>3, <1>5, <2>2, Typed DEF Level
  <2>5. Replaces(w, v, "x") /\ level(v, "x") = to /\ ~text(v, "x").rescaled
    BY <1>1, <2>2, <2>4, LevelDownStep DEF Register
  <2> HIDE DEF v
  <2>6. Good(t) /\ level_(t) = FullLevel - 1 /\ ~t.rescaled
    BY <2>2, <2>5 DEF Replaces, GoodAt, level
  <2> HIDE DEF t
  <2>7. t.moduli_id = FullLevel - (FullLevel - 1) + 0
    BY <2>6, GoodText
  <2>8. t.moduli_id = 1
    BY <1>3, <2>7
  <2>9. 1 >= to_moduli_id(key)
    BY <1>3, <1>4, <1>6, <2>1 DEF is_switching_key_compatible, is_key_compatible, s
  <2> QED
    BY <2>3, <2>5, <2>8, <2>9 DEF is_key_compatible, t
<1>7. CASE ~(OneMoreLevel /\ s.moduli_id = 0)
  <2>1. BelowOneMoreLevel(w) = w
    BY <1>7 DEF BelowOneMoreLevel, s
  <2>2. Replaces(w, w, "x")
    BY <1>1, NoStep
  <2>3. is_key_compatible(s, key)
    BY <1>7 DEF is_switching_key_compatible, s
  <2> QED
    BY <1>7, <2>1, <2>2, <2>3 DEF s
<1> QED
  BY <1>6, <1>7

(* A text whose key was switched can be switched with the same key again. *)
Switched(w, v, key) ==
    /\ Delivers(w, v) /\ text(v, "result").polynomial_count = 2
    /\ is_switching_key_compatible(text(v, "result"), key)

LEMMA PermuteDelivers ==
    ASSUME NEW w, GoodX(w), NEW key \in SwitchingKey, NEW f \in {"rotate", "conjugate"},
           count(w, "x") = 2, is_switching_key_compatible(text(w, "x"), key)
    PROVE  Switched(w, PermuteAndSwitchKey(w, f, key), key)
<1> DEFINE a == BelowOneMoreLevel(w)
           s == text(a, "x")
           v == intt_(a, "x")
           t == text(v, "x")
           u == Allocate(Call(v, f, <<"x">>, key), "result", t)
<1>1. Workspace(w) /\ GoodAt(w, "x")
  BY DEF GoodX
<1>2. /\ Replaces(w, a, "x") /\ ~(OneMoreLevel /\ s.moduli_id = 0)
      /\ is_key_compatible(s, key)
  BY BelowOneMoreLevelStep
<1>3. PermuteAndSwitchKey(w, f, key) = clear_temp_data(u)
  BY DEF PermuteAndSwitchKey, core_switch_key
<1> HIDE DEF a
<1>4. Workspace(a) /\ GoodAt(a, "x") /\ Good(s)
  BY <1>2 DEF Replaces, Step, GoodAt
<1>5. Replaces(a, v, "x") /\ Like(a, v, "x") /\ ~text(v, "x").ntt_form
  BY <1>4, ConvertStep DEF Register
<1> HIDE DEF v
<1>6. Replaces(w, v, "x") /\ Advances(w, v)
  BY <1>1, <1>2, <1>5, ReplacesReplaces, Advancing
<1>7. GoodAt(v, "x") /\ Good(t) /\ t.polynomial_count = 2 /\ ~t.ntt_form
  BY <1>5, <1>6 DEF Replaces, GoodAt, count
<1>8. level_(t) = level_(s) /\ t.rescaled = s.rescaled
  BY <1>5 DEF Like, level
<1> HIDE DEF s, t
<1>9. t.moduli_id = s.moduli_id
  BY <1>4, <1>7, <1>8, SamePlace
<1>10. ~(OneMoreLevel /\ t.moduli_id = 0) /\ t.moduli_id >= to_moduli_id(key)
  BY <1>2, <1>9 DEF is_key_compatible
<1>11. FitsOne(f, t, key)
  BY <1>7, <1>10 DEF FitsOne, InNttForm, NotRescaled, OfTrios
<1>12. FitsOne(f, text(v, "x"), key)
  BY <1>11 DEF t
<1>13. Delivers(w, u) /\ text(u, "result") = t
  BY <1>1, <1>6, <1>7, <1>12, ResultOfX
<1> HIDE DEF u
<1>14. Delivers(w, clear_temp_data(u)) /\ text(clear_temp_data(u), "result") = t
  BY <1>13, Cleared
<1> QED
  BY <1>3, <1>7, <1>10, <1>14 DEF Switched, is_switching_key_compatible, is_key_compatible

LEMMA PermuteAnswers ==
    ASSUME NEW w, GoodX(w), NEW key \in SwitchingKey, NEW f \in {"rotate", "conjugate"}
    PROVE  Answers(w, PermuteAndSwitchKey(w, f, key))
<1>1. CASE count(w, "x") = 2 /\ is_switching_key_compatible(text(w, "x"), key)
  BY <1>1, PermuteDelivers DEF Answers, Switched
<1>2. CASE ~(count(w, "x") = 2 /\ is_switching_key_compatible(text(w, "x"), key))
  BY <1>2 DEF PermuteAndSwitchKey, Answers
<1> QED
  BY <1>1, <1>2

LEMMA RotateFurtherDelivers ==
    ASSUME NEW w, NEW key \in SwitchingKey, NEW v, Switched(w, v, key)
    PROVE  Switched(w, RotateFurther(v, key), key)
<1> DEFINE p == Pass(v)
           u == PermuteAndSwitchKey(p, "rotate", key)
<1>1. GoodX(p) /\ text(p, "x") = text(v, "result")
  BY Passed DEF Switched
<1> HIDE DEF p
<1>2. count(p, "x") = 2 /\ is_switching_key_compatible(text(p, "x"), key)
  BY <1>1 DEF count, Switched
<1>3. Switched(p, u, key)
  BY <1>1, <1>2, PermuteDelivers
<1>4. RotateFurther(v, key) = DeleteAfter(u, v.result)
  BY DEF RotateFurther, p, Switched, Delivers, Workspace, Clean
<1> HIDE DEF u
<1> DEFINE d == DeleteAfter(u, v.result)
<1>5. Delivers(w, v) /\ Delivers(Pass(v), u)
  BY <1>3 DEF Switched, p
<1>6. Delivers(w, d) /\ text(d, "result") = text(u, "result")
  BY <1>5, PassedDeleted
<1> HIDE DEF d
<1> QED
  BY <1>3, <1>4, <1>6 DEF Switched, d

LEMMA RotateAnswers ==
    ASSUME NEW w, GoodX(w), NEW key \in SwitchingKey, NEW bits \in 0 .. 2
    PROVE  Answers(w, rotate(w, key, bits))
<1> DEFINE current == CHOOSE f : f = [n \in 1 .. bits |->
                        IF n = 1 THEN PermuteAndSwitchKey(w, "rotate", key)
                                 ELSE RotateFurther(f[n - 1], key)]
           once == PermuteAndSwitchKey(w, "rotate", key)
           steps == [n \in 1 .. bits |-> IF n = 1 THEN once ELSE RotateFurther(once, key)]
           serves == count(w, "x") = 2 /\ is_switching_key_compatible(text(w, "x"), key)
<1>1. serves => Switched(w, once, key)
  BY PermuteDelivers
<1>2. /\ ~serves => rotate(w, key, bits) = Refuse(w)
      /\ serves => rotate(w, key, bits) = IF bits = 0 THEN intt(w) ELSE current[bits]
  BY DEF rotate
<1> HIDE DEF once, serves
<1>3. steps = [n \in 1 .. bits |-> IF n = 1 THEN once ELSE RotateFurther(steps[n - 1], key)]
  <2> SUFFICES ASSUME NEW n \in 1 .. bits
               PROVE  steps[n] = IF n = 1 THEN once ELSE RotateFurther(steps[n - 1], key)
    OBVIOUS
  <2>1. n = 1 \/ (n = 2 /\ 1 \in 1 .. bits /\ n - 1 = 1)
    OBVIOUS
  <2> QED
    BY <2>1
<1> HIDE DEF steps
<1>4. current = [n \in 1 .. bits |->
                   IF n = 1 THEN once ELSE RotateFurther(current[n - 1], key)]
  BY <1>3 DEF once
<1> HIDE DEF current
<1>5. ASSUME bits # 0, serves PROVE Delivers(w, current[bits])
  <2>1. current[1] = once
    BY <1>4, <1>5
  <2>2. CASE bits = 1
    BY <1>1, <1>5, <2>1, <2>2 DEF Switched
  <2>3. CASE bits = 2
    <3>1. current[2] = RotateFurther(current[1], key)
      BY <1>4, <2>3
    <3>2. Switched(w, RotateFurther(once, key), key)
      BY <1>1, <1>5, RotateFurtherDelivers
    <3> QED
      BY <2>1, <2>3, <3>1, <3>2 DEF Switched
  <2> QED
    BY <1>5, <2>2, <2>3
<1> QED
  BY <1>2, <1>5, FormDelivers DEF Answers

LEMMA RotatePlaintextDelivers ==
    ASSUME NEW w, GoodX(w)
    PROVE  Delivers(w, rotate_plaintext(w))
<1> DEFINE t == text(w, "x")
           f == IF t.ntt_form THEN "rotate_ntt_form" ELSE "rotate_intt_form"
<1>1. Workspace(w) /\ GoodAt(w, "x") /\ Good(t) /\ Advances(w, w)
  BY Advancing DEF GoodX, GoodAt
<1>2. rotate_plaintext(w) = Allocate(Call(w, f, <<"x">>, NoKey), "result", t)
  BY DEF rotate_plaintext
<1>3. FitsOne(f, t, NoKey)
  BY DEF FitsOne, InCoefficientForm, InNttForm, NotRescaled, OfDuos, OfTrios, SwitchKey
<1> HIDE DEF f
<1> QED
  BY <1>1, <1>2, <1>3, ResultOfX

-----------------------------------------------------------------------------
(* The engine. *)

(* No product of two ciphertexts is a text of the top level. *)
TriosBelowTop == \A x \in Texts : BelowTop(texts[x])

EngineInv == TypeOK /\ ScalesExact /\ TriosBelowTop

LEMMA InvariantGood ==
    EngineInv <=>
      /\ texts \in [Slot -> AnyText] /\ leftover \in 0 .. MaxLeftover
      /\ \A s \in Slot : texts[s] # NoText => Good(texts[s])
<1>1. NoText \notin TextRecord
  BY DEF NoText, TextRecord
<1>2. TypeOK <=> /\ texts \in [Slot -> AnyText] /\ leftover \in 0 .. MaxLeftover
                 /\ \A s \in Slot : texts[s] # NoText => level_(texts[s]) \in Level
  BY DEF TypeOK, AnyText, TextRecord, Texts
<1>3. ScalesExact <=> \A s \in Slot : texts[s] # NoText =>
                        /\ texts[s].ckks_scale = texts[s].scale
                        /\ texts[s].scale = CanonicalScale(texts[s])
  BY DEF ScalesExact, Texts
<1>4. TriosBelowTop <=> \A s \in Slot : texts[s] # NoText => BelowTop(texts[s])
  BY DEF TriosBelowTop, Texts
<1>5. ASSUME texts \in [Slot -> AnyText]
      PROVE  \A s \in Slot : texts[s] # NoText => texts[s] \in TextRecord
  BY <1>5 DEF AnyText
<1> QED
  BY <1>2, <1>3, <1>4, <1>5 DEF Good, EngineInv

(* A call before its first step. *)
Begun(w) ==
    /\ Workspace(w) /\ Loose(w) = {} /\ w.result = 0
    /\ w.obj = texts /\ w.temp = <<>> /\ w.core = {}

LEMMA StartWorkspace ==
    ASSUME EngineInv, NEW x \in Slot \cup {0}, NEW y \in Slot \cup {0}
    PROVE  LET w == Start(x, y)
           IN  /\ Begun(w)
               /\ x \in Texts => GoodX(w) /\ text(w, "x") = texts[x]
               /\ x \in Texts /\ y \in Texts => GoodPair(w) /\ text(w, "y") = texts[y]
<1> DEFINE w == Start(x, y)
<1>1. /\ texts \in [Slot -> AnyText] /\ leftover \in 0 .. MaxLeftover
      /\ \A s \in Slot : texts[s] # NoText => Good(texts[s])
  BY InvariantGood
<1>2. SlotCount \in Nat /\ MaxLeftover \in Nat
  BY SlotAssumption
<1>3. /\ DOMAIN w = {"obj", "temp", "leftover", "gone", "misuse", "core", "refused",
                     "x", "y", "result"}
      /\ w.obj = texts /\ w.temp = <<>> /\ w.leftover = leftover /\ w.gone = {}
      /\ w.core = {} /\ w.x = x /\ w.y = y /\ w.result = 0
  BY DEF Start
<1>3a. ~w.misuse /\ ~w.refused
  BY DEF Start
<1> HIDE DEF w
<1>4. texts \in Seq(AnyText) /\ Len(texts) = SlotCount
  BY <1>1, <1>2 DEF Slot
<1>5. x \in Nat /\ y \in Nat
  BY <1>2 DEF Slot
<1>6. Range(w.temp) = {}
  BY <1>3 DEF Range
<1>7. Shape(w)
  <2>1. leftover \in Nat /\ SlotCount =< Len(texts) /\ <<>> \in Seq(Nat) /\ 0 \in Nat
    BY <1>1, <1>2, <1>4
  <2> QED
    BY <1>3, <1>4, <1>5, <2>1 DEF Shape
<1>8. Clean(w)
  <2>1. \A i, j \in DOMAIN w.temp : w.temp[i] = w.temp[j] => i = j
    BY <1>3
  <2> QED
    BY <1>3, <1>3a, <1>6, <2>1 DEF Clean, Owned
<1>9. Loose(w) = {}
  <2>1. Fresh(w) = {}
    BY <1>2, <1>3, <1>4 DEF Fresh
  <2> QED
    BY <2>1 DEF Loose
<1>10. x \in Texts => GoodAt(w, "x") /\ text(w, "x") = texts[x]
  BY <1>1, <1>3, <1>4 DEF Texts, Slot, GoodAt, text
<1>11. y \in Texts => GoodAt(w, "y") /\ text(w, "y") = texts[y]
  BY <1>1, <1>3, <1>4 DEF Texts, Slot, GoodAt, text
<1> QED
  BY <1>3, <1>7, <1>8, <1>9, <1>10, <1>11 DEF Begun, GoodX, GoodPair, Workspace, w

(***************************************************************************)
(* What every call of a caller comes to: it throws before it has made       *)
(* anything, or it leaves nothing behind but the good text that it returns. *)
(***************************************************************************)
RefusedAtOnce(w) == w.refused /\ w.obj = texts /\ w.temp = <<>> /\ w.core = {}

Concluded(w) ==
    /\ Workspace(w)
    /\ \/ w.result = 0 /\ Loose(w) = {}
       \/ GoodAt(w, "result") /\ Loose(w) = {w.result}

Sound(w) == RefusedAtOnce(w) \/ Concluded(w)

LEMMA AnswersSound ==
    ASSUME NEW w, Begun(w), NEW v,
           \/ Answers(w, v)
           \/ v = Refuse(w)
           \/ Workspace(v) /\ Loose(v) = Loose(w) /\ v.result = 0
           \/ Leaves(w, v)
    PROVE  Sound(v)
<1>1. CASE v = Refuse(w)
  <2>1. DOMAIN w = {"obj", "temp", "leftover", "gone", "misuse", "core", "refused",
                    "x", "y", "result"}
    BY DEF Begun, Workspace, Shape
  <2>2. v.refused /\ v.obj = w.obj /\ v.temp = w.temp /\ v.core = w.core
    BY <1>1, <2>1 DEF Refuse
  <2> QED
    BY <2>2 DEF Begun, Sound, RefusedAtOnce
<1>2. CASE Delivers(w, v)
  BY <1>2 DEF Delivers, Begun, Sound, Concluded
<1>3. CASE (Workspace(v) /\ Loose(v) = Loose(w) /\ v.result = 0) \/ Leaves(w, v)
  BY <1>3 DEF Leaves, Begun, Sound, Concluded
<1> QED
  BY <1>1, <1>2, <1>3 DEF Answers

LEMMA DeliversSound ==
    ASSUME NEW w, Begun(w), NEW v, Delivers(w, v)
    PROVE  Sound(v)
BY AnswersSound DEF Answers

LEMMA TextsOfSlots ==
    /\ Texts \subseteq Slot /\ Ciphertexts \subseteq Texts /\ Plaintexts \subseteq Texts
    /\ CoefficientPlaintexts \subseteq Texts
BY DEF Texts, Ciphertexts, Plaintexts, CoefficientPlaintexts, IsCiphertext, IsPlaintext, NoText

(* The workspaces that the calls of a caller start with. *)
LEMMA Starts ==
    ASSUME EngineInv
    PROVE  /\ Begun(Start(0, 0)) /\ Workspace(Start(0, 0))
           /\ \A x \in Texts : LET w == Start(x, 0) IN
                /\ Begun(w) /\ GoodX(w)
                /\ x \in Ciphertexts => count(w, "x") \in {2, 3}
                /\ x \in CoefficientPlaintexts => ~text(w, "x").ntt_form
           /\ \A x \in Texts, y \in Texts : LET w == Start(x, y) IN
                /\ Begun(w) /\ GoodPair(w)
                /\ x \in Ciphertexts => count(w, "x") \in {2, 3}
<1>1. Begun(Start(0, 0)) /\ Workspace(Start(0, 0))
  BY StartWorkspace DEF Begun
<1>2. ASSUME NEW x \in Texts, NEW y \in Slot \cup {0}
      PROVE  LET w == Start(x, y) IN
               /\ Begun(w) /\ GoodX(w)
               /\ y \in Texts => GoodPair(w)
               /\ x \in Ciphertexts => count(w, "x") \in {2, 3}
               /\ x \in CoefficientPlaintexts => ~text(w, "x").ntt_form
  <2> DEFINE w == Start(x, y)
  <2>1. x \in Slot
    BY TextsOfSlots
  <2>2. Begun(w) /\ GoodX(w) /\ text(w, "x") = texts[x] /\ (y \in Texts => GoodPair(w))
    BY <2>1, StartWorkspace
  <2> HIDE DEF w
  <2> QED
    BY <2>2 DEF Ciphertexts, IsCiphertext, CoefficientPlaintexts, count, w
<1> QED
  BY <1>1, <1>2, TextsOfSlots

LEMMA CallsSound ==
    ASSUME EngineInv
    PROVE  \A w \in AllCalls : Sound(w)
<1>1. Begun(Start(0, 0)) /\ Workspace(Start(0, 0))
  BY Starts
<1>2. \A x \in Texts : Begun(Start(x, 0)) /\ GoodX(Start(x, 0))
  BY Starts
<1>3. \A x \in Ciphertexts : /\ Begun(Start(x, 0)) /\ GoodX(Start(x, 0))
                             /\ count(Start(x, 0), "x") \in {2, 3}
  BY Starts, TextsOfSlots
<1>4. \A x \in CoefficientPlaintexts : /\ Begun(Start(x, 0)) /\ GoodX(Start(x, 0))
                                       /\ ~text(Start(x, 0), "x").ntt_form
  BY Starts, TextsOfSlots
<1>5. \A x \in Ciphertexts, y \in Texts : /\ Begun(Start(x, y)) /\ GoodPair(Start(x, y))
                                          /\ count(Start(x, y), "x") \in {2, 3}
  BY Starts, TextsOfSlots
<1>6. \A w \in Encodings \cup EncryptionsOfMessages \cup Encryptions : Sound(w)
  <2>1. \A w \in Encodings : Sound(w)
    BY <1>1, EncodeAnswers, AnswersSound DEF Encodings
  <2>2. \A w \in EncryptionsOfMessages : Sound(w)
    BY <1>1, EncryptMessageAnswers, AnswersSound DEF EncryptionsOfMessages
  <2>3. \A x \in CoefficientPlaintexts, key \in Key : Sound(encrypt(Start(x, 0), key))
    BY <1>4, EncryptAnswers, AnswersSound
  <2>4. \A w \in Encryptions : Sound(w)
    BY <2>3 DEF Encryptions
  <2> QED
    BY <2>1, <2>2, <2>4
<1>7. \A w \in Decryptions \cup DecryptionsToValues \cup Decodings : Sound(w)
  <2>1. \A x \in Ciphertexts, key \in Key :
          Answers(Start(x, 0), decrypt_to_plaintext(Start(x, 0), key))
    BY <1>3, DecryptToPlaintextAnswers DEF Answers
  <2>2. \A x \in Ciphertexts, key \in Key :
          Sound(decrypt_to_plaintext(Start(x, 0), key))
    BY <1>3, <2>1, AnswersSound
  <2>3. \A w \in Decryptions : Sound(w)
    BY <2>2 DEF Decryptions
  <2>4. \A x \in Ciphertexts, key \in Key : Sound(decrypt(Start(x, 0), key))
    <3> SUFFICES ASSUME NEW x \in Ciphertexts, NEW key \in Key
                 PROVE  Sound(decrypt(Start(x, 0), key))
      OBVIOUS
    <3> DEFINE w == Start(x, 0)
               v == decrypt(w, key)
    <3>1. Begun(w) /\ GoodX(w) /\ count(w, "x") \in {2, 3}
      BY <1>3
    <3> HIDE DEF w
    <3>2. v = Refuse(w) \/ (Workspace(v) /\ Loose(v) = Loose(w) /\ v.result = 0)
      BY <3>1, DecryptLeaves
    <3> HIDE DEF v
    <3>3. Sound(v)
      BY <3>1, <3>2, AnswersSound
    <3> QED
      BY <3>3 DEF v, w
  <2>5. \A w \in DecryptionsToValues : Sound(w)
    BY <2>4 DEF DecryptionsToValues
  <2>6. \A x \in CoefficientPlaintexts : Sound(decode(Start(x, 0)))
    <3> SUFFICES ASSUME NEW x \in CoefficientPlaintexts
                 PROVE  Sound(decode(Start(x, 0)))
      OBVIOUS
    <3> DEFINE w == Start(x, 0)
               v == decode(w)
    <3>1. Begun(w) /\ GoodX(w) /\ ~text(w, "x").ntt_form
      BY <1>4
    <3> HIDE DEF w
    <3>2. v = Refuse(w) \/ (Workspace(v) /\ Loose(v) = Loose(w) /\ v.result = 0)
      BY <3>1, DecodeLeaves
    <3> HIDE DEF v
    <3>3. Sound(v)
      BY <3>1, <3>2, AnswersSound
    <3> QED
      BY <3>3 DEF v, w
  <2>7. \A w \in Decodings : Sound(w)
    BY <2>6 DEF Decodings
  <2> QED
    BY <2>3, <2>5, <2>7
<1>8. \A w \in Clones \cup ToNtt \cup ToIntt \cup Negations : Sound(w)
  BY <1>2, <1>3, FormDelivers, DeliversSound DEF Clones, ToNtt, ToIntt, Negations
<1>9. \A w \in Rescalings \cup LevelDowns : Sound(w)
  <2>1. \A w \in Rescalings : Sound(w)
    BY <1>2, RescaleAnswers, AnswersSound DEF Rescalings
  <2>2. \A x \in Texts, to \in TargetLevel : Sound(level_down(Start(x, 0), to))
    BY <1>2, LevelDownAnswers, AnswersSound
  <2>3. \A w \in LevelDowns : Sound(w)
    BY <2>2 DEF LevelDowns
  <2> QED
    BY <2>1, <2>3
<1>10. \A w \in Additions \cup Subtractions : Sound(w)
  <2>1. \A x \in Ciphertexts, y \in Texts : Sound(add(Start(x, y)))
    BY <1>5, AddDelivers, DeliversSound
  <2>2. \A w \in Additions : Sound(w)
    BY <2>1 DEF Additions
  <2> DEFINE Difference(x, y, minuend) == subtract(Start(x, y), minuend)
             Of(ys, minuend) == {Difference(x, y, minuend) : x \in Ciphertexts, y \in ys}
  <2>3. \A x \in Ciphertexts, y \in Texts, m \in BOOLEAN : Sound(Difference(x, y, m))
    BY <1>5, SubtractDelivers, DeliversSound
  <2>4. Subtractions = Of(Texts, FALSE) \cup Of(Plaintexts, TRUE)
    BY DEF Subtractions
  <2> HIDE DEF Difference
  <2>5. \A m \in BOOLEAN : \A w \in Of(Texts, m) \cup Of(Plaintexts, m) : Sound(w)
    BY <2>3, TextsOfSlots
  <2> HIDE DEF Of
  <2>6. FALSE \in BOOLEAN /\ TRUE \in BOOLEAN
    OBVIOUS
  <2>7. \A w \in Subtractions : Sound(w)
    BY <2>4, <2>5, <2>6
  <2> QED
    BY <2>2, <2>7
<1>11. \A w \in AdditionsInplace : Sound(w)
  <2>1. \A x \in Ciphertexts, y \in Texts : Sound(add_inplace(Start(x, y)))
    BY <1>5, AddInplaceLeaves, AnswersSound
  <2>2. \A x \in Ciphertexts, y \in Texts : Sound(add_inplace_plaintext(Start(x, y)))
    BY <1>5, AddInplacePlaintextLeaves, AnswersSound
  <2> QED
    BY <2>1, <2>2, TextsOfSlots DEF AdditionsInplace
<1>12. \A w \in AdditionsOfValues : Sound(w)
  <2>1. \A x \in Ciphertexts : Sound(add_message(Start(x, 0)))
    BY <1>3, AddMessageDelivers, DeliversSound
  <2>2. \A x \in Ciphertexts : Sound(add_number(Start(x, 0)))
    BY <1>3, AddNumberDelivers, DeliversSound
  <2>3. \A x \in Ciphertexts, m \in BOOLEAN : Sound(subtract_message(Start(x, 0), m))
    BY <1>3, SubtractMessageDelivers, DeliversSound
  <2>4. \A x \in Ciphertexts : Sound(subtract_from_number(Start(x, 0)))
    BY <1>3, SubtractFromNumberDelivers, DeliversSound
  <2> QED
    BY <2>1, <2>2, <2>3, <2>4 DEF AdditionsOfValues
<1>13. \A w \in Multiplications \cup MultiplicationsByValues : Sound(w)
  <2>1. \A x \in Ciphertexts, y \in Texts : Sound(multiply(Start(x, y)))
    BY <1>5, MultiplyAnswers, AnswersSound
  <2>2. \A x \in Ciphertexts : Sound(square(Start(x, 0)))
    BY <1>3, SquareAnswers, AnswersSound
  <2>3. \A x \in Ciphertexts : Sound(multiply_message(Start(x, 0)))
    BY <1>3, MultiplyMessageAnswers, AnswersSound
  <2>4. \A x \in Ciphertexts : /\ Sound(multiply_double(Start(x, 0)))
                               /\ Sound(multiply_integer(Start(x, 0)))
    BY <1>3, MultiplyByNumberAnswers, AnswersSound
  <2>5. \A x \in Ciphertexts : Sound(multiply_imaginary(Start(x, 0)))
    BY <1>3, MultiplyImaginaryAnswers, AnswersSound
  <2> QED
    BY <2>1, <2>2, <2>3, <2>4, <2>5 DEF Multiplications, MultiplicationsByValues
<1>14. \A w \in Relinearizations \cup RelinearizedProducts : Sound(w)
  <2>1. \A x \in Ciphertexts, key \in SwitchingKey : Sound(relinearize(Start(x, 0), key))
    BY <1>3, RelinearizeAnswers, AnswersSound
  <2>2. \A x \in Ciphertexts, y \in Texts, key \in SwitchingKey :
          Sound(multiply_relinearize(Start(x, y), key))
    BY <1>5, MultiplyRelinearizeAnswers, AnswersSound
  <2>3. \A x \in Ciphertexts, key \in SwitchingKey :
          Sound(square_relinearize(Start(x, 0), key))
    BY <1>3, SquareRelinearizeAnswers, AnswersSound
  <2> QED
    BY <2>1, <2>2, <2>3, TextsOfSlots DEF Relinearizations, RelinearizedProducts
<1>15. \A w \in Rotations \cup Conjugations : Sound(w)
  <2>1. \A x \in Ciphertexts, key \in SwitchingKey, bits \in 0 .. 2 :
          Sound(rotate(Start(x, 0), key, bits))
    BY <1>3, RotateAnswers, AnswersSound
  <2>2. \A x \in Plaintexts : Sound(rotate_plaintext(Start(x, 0)))
    BY <1>2, RotatePlaintextDelivers, DeliversSound, TextsOfSlots
  <2>3. \A x \in Ciphertexts, key \in SwitchingKey : Sound(conjugate(Start(x, 0), key))
    BY <1>3, PermuteAnswers, AnswersSound DEF conjugate
  <2> QED
    BY <2>1, <2>2, <2>3 DEF Rotations, Conjugations
<1> QED
  BY <1>6, <1>7, <1>8, <1>9, <1>10, <1>11, <1>12, <1>13, <1>14, <1>15 DEF AllCalls

LEMMA InitGood == Init => EngineInv
<1>1. NoText \in AnyText
  BY DEF AnyText
<1>2. 0 \in 0 .. MaxLeftover
  BY SlotAssumption
<1> QED
  BY <1>1, <1>2, InvariantGood DEF Init

(* The caller keeps the result. *)
LEMMA ReturnGood ==
    ASSUME EngineInv, NEW w, Sound(w), Return(w)
    PROVE  EngineInv'
<1>0. Concluded(w)
  BY DEF Sound, RefusedAtOnce, Return
<1>1. /\ texts \in [Slot -> AnyText]
      /\ \A s \in Slot : texts[s] # NoText => Good(texts[s])
  BY InvariantGood
<1>2. leftover' \in 0 .. MaxLeftover
  <2>1. w.leftover \in Nat /\ Len(w.temp) \in Nat /\ MaxLeftover \in Nat
    BY <1>0, SlotAssumption DEF Concluded, Workspace, Shape
  <2> QED
    BY <2>1 DEF Return
<1>3. texts' \in [Slot -> AnyText] /\ \A s \in Slot : texts'[s] # NoText => Good(texts'[s])
  <2>1. CASE w.result = 0
    BY <1>1, <2>1 DEF Return
  <2>2. CASE w.result # 0
    <3> DEFINE made == w.obj[w.result]
    <3>1. Good(made)
      BY <1>0, <2>2 DEF Concluded, GoodAt, text
    <3>2. made \in AnyText
      BY <3>1 DEF Good, AnyText
    <3>3. PICK s \in Slot : texts' = [texts EXCEPT ![s] = made]
      BY <2>2 DEF Return
    <3> HIDE DEF made
    <3> QED
      BY <1>1, <3>1, <3>2, <3>3
  <2> QED
    BY <2>1, <2>2
<1>4. EngineInv' <=>
        (/\ texts \in [Slot -> AnyText] /\ leftover \in 0 .. MaxLeftover
         /\ \A s \in Slot : texts[s] # NoText => Good(texts[s]))'
  BY InvariantGood, PTL
<1> QED
  BY <1>2, <1>3, <1>4

LEMMA NextGood == EngineInv /\ [Next]_vars => EngineInv'
<1> SUFFICES ASSUME EngineInv, [Next]_vars PROVE EngineInv'
  OBVIOUS
<1>1. CASE Next
  <2>1. PICK w \in AllCalls : Return(w)
    BY <1>1 DEF Next, AllCalls, Encode, EncryptMessage, Encrypt, DecryptToPlaintext, Decrypt,
       Decode, Clone, Ntt, Intt, Rescale, LevelDown, Negate, Add, Subtract, AddInplace, AddValue,
       Multiply, MultiplyByValue, Relinearize, MultiplyRelinearize, Rotate, Conjugate
  <2> QED
    BY <2>1, CallsSound, ReturnGood
<1>2. CASE UNCHANGED vars
  BY <1>2 DEF vars, EngineInv, TypeOK, ScalesExact, TriosBelowTop, Texts
<1> QED
  BY <1>1, <1>2

LEMMA EngineInvariant == Spec => []EngineInv
<1> QED
  BY InitGood, NextGood, PTL DEF Spec

(***************************************************************************)
(* The texts of a caller stay at the levels of the engine, whatever calls  *)
(* were made: no rescaling or change of level takes one out of the chain   *)
(* of moduli.                                                              *)
(***************************************************************************)
THEOREM TypeCorrect == Spec => []TypeOK
<1>1. EngineInv => TypeOK
  BY DEF EngineInv
<1> QED
  BY <1>1, EngineInvariant, PTL

(***************************************************************************)
(* A text declares the scale that its data has, and it is the one of its   *)
(* level: for all primes, numbers of levels and scales, with or without    *)
(* one more level, after any sequence of operations.  Two texts of a level *)
(* and a form therefore always match, and no decoded message is off by a   *)
(* factor.                                                                 *)
(***************************************************************************)
THEOREM ScalesAlwaysExact == Spec => []ScalesExact
<1>1. EngineInv => ScalesExact
  BY DEF EngineInv
<1> QED
  BY <1>1, EngineInvariant, PTL

(***************************************************************************)
(* Whatever texts the caller has come to, and whichever operation it calls *)
(* on them: each function of the core is given operands of the form, the   *)
(* count, the moduli and the scale that it computes with, and a key that   *)
(* covers them.  The engine checks or converts all that the core takes for *)
(* granted, also in the calls that it makes of its own operations.         *)
(***************************************************************************)
THEOREM OperandsAlwaysFit == Spec => []CoreOperandsFit
<1>1. EngineInv => CoreOperandsFit
  BY CallsSound DEF CoreOperandsFit, Sound, RefusedAtOnce, Concluded, Workspace, Clean
<1> QED
  BY <1>1, EngineInvariant, PTL

(***************************************************************************)
(* A call throws before it has made anything: what the inner calls of an   *)
(* operation require follows from what the operation itself required, so   *)
(* no exception leaves the texts made on the way behind.                   *)
(***************************************************************************)
THEOREM RefusalsMakeNothing == Spec => []RefusedCallsMakeNothing
<1>1. EngineInv => RefusedCallsMakeNothing
  BY CallsSound
     DEF RefusedCallsMakeNothing, Sound, RefusedAtOnce, Concluded, Workspace, Clean
<1> QED
  BY <1>1, EngineInvariant, PTL

(***************************************************************************)
(* No call leaks a text, deletes one twice, uses a deleted one or deletes  *)
(* one of the caller's: all that a call made is its result, deleted, or in *)
(* temp_data_ once.                                                        *)
(***************************************************************************)
THEOREM HeapAlwaysSound == Spec => []HeapSound
<1>1. EngineInv => HeapSound
  <2> SUFFICES ASSUME EngineInv, NEW w \in AllCalls, ~w.refused
               PROVE  LET pending == Range(w.temp)
                      IN  /\ ~w.misuse
                          /\ Cardinality(pending) = Len(w.temp) /\ pending \cap w.gone = {}
                          /\ pending \cup w.gone = Fresh(w) \ {w.result}
                          /\ w.result # 0 => w.result \in Fresh(w)
    BY DEF HeapSound
  <2>1. Concluded(w)
    BY CallsSound DEF Sound, RefusedAtOnce
  <2>2. Workspace(w) /\ ~w.misuse /\ Range(w.temp) \cap w.gone = {} /\ Owned(w) \subseteq Fresh(w)
    BY <2>1 DEF Concluded, Workspace, Clean
  <2>3. Cardinality(Range(w.temp)) = Len(w.temp)
    BY <2>2, TempCardinality
  <2>4. 0 \notin Fresh(w)
    <3>1. Len(w.obj) \in Nat
      BY <2>2, LengthTyped
    <3> QED
      BY <3>1, SlotAssumption DEF Fresh
  <2>5. \/ w.result = 0 /\ Fresh(w) = Owned(w)
        \/ Fresh(w) \ Owned(w) = {w.result}
    BY <2>1, <2>2 DEF Concluded, Loose
  <2>6. Owned(w) = Fresh(w) \ {w.result}
    BY <2>2, <2>4, <2>5
  <2>7. w.result # 0 => w.result \in Fresh(w)
    BY <2>5
  <2> QED
    BY <2>2, <2>3, <2>6, <2>7 DEF Owned
<1> QED
  BY <1>1, EngineInvariant, PTL

(***************************************************************************)
(* No sequence of calls leaves a caller with a text of no use: a ciphertext *)
(* can be decrypted and added to every text, and multiplied as long as      *)
(* levels are left, and the result is at the level that both texts have.    *)
(***************************************************************************)
THEOREM TextsAlwaysUsable == Spec => []TextsStayUsable
<1>1. EngineInv => TextsStayUsable
  <2> SUFFICES ASSUME EngineInv, NEW x \in Ciphertexts
               PROVE  /\ ~decrypt(Start(x, 0), MaxLevel).refused
                      /\ \A y \in Texts : UsableTogether(Start(x, y), add(Start(x, y)),
                                                          multiply(Start(x, y)))
    BY DEF TextsStayUsable
  <2>1. ~decrypt(Start(x, 0), MaxLevel).refused
    <3> DEFINE w == Start(x, 0)
               t == text(w, "x")
    <3>1. GoodX(w) /\ count(w, "x") \in {2, 3}
      BY Starts, TextsOfSlots
    <3> HIDE DEF w
    <3>2. Good(t) /\ level_(t) =< MaxLevel /\ MaxLevel \in Key
      BY <3>1, Typed DEF GoodX, GoodAt, Good, Level, Key
    <3> HIDE DEF t
    <3>3. is_key_compatible(t, MaxLevel)
      BY <3>2, Compatible
    <3>4. Workspace(decrypt(w, MaxLevel))
      BY <3>1, <3>2, <3>3, DecryptLeaves DEF t
    <3> QED
      BY <3>4 DEF Workspace, Clean, w
  <2>2. ASSUME NEW y \in Texts
        PROVE  UsableTogether(Start(x, y), add(Start(x, y)), multiply(Start(x, y)))
    <3> DEFINE w == Start(x, y)
    <3>1. GoodPair(w) /\ count(w, "x") \in {2, 3}
      BY Starts, TextsOfSlots
    <3> HIDE DEF w
    <3>2. Usable(add(w), min_level(w))
      BY <3>1, AddDelivers DEF Usable, Delivers, Workspace, Clean
    <3>3. ASSUME min_level(w) > 0, count(w, "x") = 2, count(w, "y") < 3
          PROVE  Usable(multiply(w), min_level(w) - 1)
      <4>1. count(w, "y") \in {1, 2}
        BY <3>1, <3>3 DEF GoodPair, GoodAt, Good, TextRecord, count
      <4>2. level(w, "x") > 0 /\ level(w, "y") > 0
        <5>1. /\ level(w, "x") \in Level /\ level(w, "y") \in Level /\ min_level(w) \in Level
              /\ min_level(w) =< level(w, "x") /\ min_level(w) =< level(w, "y")
          BY <3>1, MinLevel
        <5> QED
          BY <3>3, <5>1, Typed DEF Level
      <4>3. Delivers(w, multiply(w)) /\ level(multiply(w), "result") = min_level(w) - 1
        BY <3>1, <3>3, <4>1, <4>2, MultiplyDelivers DEF level
      <4> QED
        BY <4>3 DEF Usable, Delivers, Workspace, Clean
    <3>4. UsableTogether(w, add(w), multiply(w))
      BY <3>2, <3>3 DEF UsableTogether
    <3> QED
      BY <3>4 DEF w
  <2> QED
    BY <2>1, <2>2
<1> QED
  BY <1>1, EngineInvariant, PTL
=============================================================================
