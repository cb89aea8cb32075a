------------------------- MODULE RotateBatchProofs -------------------------
(***************************************************************************)
(* Proofs that the rotations built out of smaller ones return what they are *)
(* asked for, that a batch does no work twice, loses nothing and deletes    *)
(* nothing twice, for every number of slots and units, every number of      *)
(* conversions, and every request that it can serve.                        *)
(*                                                                         *)
(* The arithmetic is about the bits of a delta: a prefix of a delta that is *)
(* not yet the delta is followed by a key, and the key takes it to a longer *)
(* prefix.  A call grows its heap and its two maps, so the parts of the     *)
(* invariant are stated for a step that makes any objects, and each action  *)
(* is shown to be such a step.                                              *)
(***************************************************************************)
EXTENDS RotateBatch, FiniteSetTheorems, WellFoundedInduction, TLAPS

-----------------------------------------------------------------------------
(* Every nonempty set of natural numbers has a least element. *)
LEMMA LeastOfNaturals ==
    ASSUME NEW S \in SUBSET Nat, S # {}
    PROVE  \E m \in S : \A k \in S : m =< k
<1> DEFINE Less == {pair \in Nat \X Nat : pair[1] < pair[2]}
<1>1. IsWellFoundedOn(Less, Nat)
  BY NatLessThanWellFounded DEF OpToRel
<1> HIDE DEF Less
<1>2. PICK m \in S : \A k \in S : ~(<<k, m>> \in Less)
  BY <1>1, WFMin
<1>3. \A k \in S : ~(k < m)
  BY <1>2 DEF Less
<1> QED
  BY <1>3

LEMMA Divided ==
    ASSUME NEW b \in Nat \ {0}, NEW a \in Int
    PROVE  /\ a \div b \in Int /\ a % b \in 0 .. b - 1
           /\ a = (b * (a \div b)) + (a % b)
           /\ a \in 0 .. b - 1 => a % b = a
BY SMT

LEMMA DividedUnique ==
    ASSUME NEW b \in Nat \ {0}, NEW w \in Int, NEW r \in 0 .. b - 1
    PROVE  ((b * w) + r) % b = r
BY SMT

LEMMA RemainderBelow ==
    ASSUME NEW b \in Nat \ {0}, NEW a \in Nat
    PROVE  a % b =< a
<1> DEFINE q == a \div b
<1>1. q \in Int /\ a % b \in 0 .. b - 1 /\ a = (b * q) + (a % b)
  BY Divided
<1> HIDE DEF q
<1>2. q < 0 => b * q =< -b
  <2>1. \A n \in Int : n =< -1 => b * n =< -b
    BY SMT
  <2> QED
    BY <1>1, <2>1
<1>3. q >= 0 => b * q >= 0
  BY <1>1
<1> QED
  BY <1>1, <1>2, <1>3

(* One bit more of a delta. *)
LEMMA NextBit ==
    ASSUME NEW key \in Nat \ {0}, NEW delta \in Nat
    PROVE  delta % (2 * key) = IF HasBit(delta, key) THEN (delta % key) + key ELSE delta % key
<1> DEFINE q == delta \div key
           r == delta % key
           h == q \div 2
           b == q % 2
<1>1. q \in Int /\ r \in 0 .. key - 1 /\ delta = (key * q) + r
  BY Divided
<1>2. h \in Int /\ b \in {0, 1} /\ q = (2 * h) + b
  BY <1>1
<1>3. HasBit(delta, key) <=> b = 1
  BY DEF HasBit
<1> HIDE DEF q, r, h, b
<1>4. 2 * key \in Nat \ {0} /\ (2 * key) * h \in Int
  BY <1>2
<1>5. CASE b = 1
  <2>1. key * ((2 * h) + 1) = ((2 * key) * h) + key
    BY <1>2
  <2>2. delta = ((2 * key) * h) + (key + r) /\ key + r \in 0 .. 2 * key - 1
    BY <1>1, <1>2, <1>4, <1>5, <2>1
  <2>3. delta % (2 * key) = key + r
    BY <1>2, <1>4, <2>2, DividedUnique
  <2> QED
    BY <1>1, <1>3, <1>5, <2>3 DEF r
<1>6. CASE b = 0
  <2>1. key * (2 * h) = (2 * key) * h
    BY <1>2
  <2>2. delta = ((2 * key) * h) + r /\ r \in 0 .. 2 * key - 1
    BY <1>1, <1>2, <1>4, <1>6, <2>1
  <2>3. delta % (2 * key) = r
    BY <1>2, <1>4, <2>2, DividedUnique
  <2> QED
    BY <1>3, <1>6, <2>3 DEF r
<1> QED
  BY <1>2, <1>5, <1>6

LEMMA KeysTyped ==
    /\ SlotCount \in Nat /\ SlotCount >= 2
    /\ \A key \in Keys : key \in Nat \ {0} /\ key < SlotCount
    /\ 1 \in Keys
BY KeysAssumption

LEMMA NormalizedRange ==
    ASSUME NEW delta \in Int
    PROVE  /\ Normalized(delta) \in 0 .. SlotCount - 1
           /\ delta \in 0 .. SlotCount - 1 => Normalized(delta) = delta
<1>1. SlotCount \in Nat \ {0}
  BY KeysTyped
<1> QED
  BY <1>1, Divided DEF Normalized

(* A prefix of a delta is followed by a key, up to the delta itself. *)
LEMMA NextKeyFacts ==
    ASSUME NEW delta \in 0 .. SlotCount - 1, NEW prefix \in PrefixesOf(delta),
           prefix # delta
    PROVE  LET key == NextKey(delta, prefix)
               next == prefix + key
           IN  /\ key \in Keys /\ HasBit(delta, key) /\ delta % key = prefix
               /\ prefix \in 0 .. SlotCount - 1
               /\ next \in 1 .. SlotCount - 1 /\ next =< delta /\ prefix < next
               /\ next # delta => next \in PrefixesOf(delta)
<1> DEFINE S == {k \in Keys : delta % k = prefix}
           D == {n \in Nat : \E k \in S : n = SlotCount - k}
<1>1. delta \in Nat /\ SlotCount \in Nat
  BY KeysTyped
<1>2. PICK start \in S : TRUE
  BY DEF PrefixesOf
<1>3. SlotCount - start \in D
  BY <1>2, KeysTyped
<1>4. PICK n \in D : \A m \in D : n =< m
  <2>1. D \in SUBSET Nat /\ D # {}
    BY <1>3
  <2> HIDE DEF D
  <2> QED
    BY <2>1, LeastOfNaturals
<1>5. PICK k \in S : n = SlotCount - k
  BY <1>4
<1>6. k \in Keys /\ k \in Nat \ {0} /\ delta % k = prefix
  BY <1>5, KeysTyped
<1>7. 2 * k \notin S
  <2>1. SUFFICES ASSUME 2 * k \in S PROVE FALSE
    OBVIOUS
  <2>2. 2 * k \in Keys
    BY <2>1
  <2>3. 2 * k \in Nat /\ 2 * k < SlotCount
    BY <2>2, KeysTyped
  <2>4. SlotCount - 2 * k \in Nat
    BY <1>1, <1>6, <2>3
  <2>5. SlotCount - 2 * k \in D
    BY <2>1, <2>4
  <2> HIDE DEF D, S
  <2>6. SlotCount - k =< SlotCount - 2 * k
    BY <1>4, <1>5, <2>5
  <2> QED
    BY <1>1, <1>6, <2>6
<1>8. HasBit(delta, k)
  <2>1. SUFFICES ASSUME ~HasBit(delta, k) PROVE FALSE
    OBVIOUS
  <2>2. delta % (2 * k) = prefix
    BY <1>1, <1>6, <2>1, NextBit
  <2>3. 2 * k = SlotCount
    BY <1>6, <1>7, <2>2, KeysAssumption
  <2>4. delta % SlotCount = delta
    BY NormalizedRange DEF Normalized
  <2> QED
    BY <2>2, <2>3, <2>4
<1> DEFINE Follows(key) == /\ HasBit(delta, key) /\ delta % key = prefix
                           /\ prefix = 0 \/ key > prefix
           key == NextKey(delta, prefix)
<1>9. prefix \in Nat /\ Follows(k)
  <2>1. prefix \in 0 .. k - 1
    BY <1>1, <1>6, Divided
  <2> QED
    BY <1>6, <1>8, <2>1
<1>10. key \in Keys /\ Follows(key)
  BY <1>6, <1>9 DEF NextKey
<1> HIDE DEF key, S, D
<1>11. key \in Nat \ {0} /\ key < SlotCount
  BY <1>10, KeysTyped
<1>12. delta % (2 * key) = prefix + key
  BY <1>1, <1>10, <1>11, NextBit
<1>13. 2 * key \in Keys \cup {SlotCount} /\ 2 * key \in Nat \ {0}
  BY <1>10, <1>11, KeysAssumption
<1>14. prefix + key =< delta
  BY <1>1, <1>12, <1>13, RemainderBelow
<1>15. prefix + key # delta => prefix + key \in PrefixesOf(delta)
  <2>1. 2 * key = SlotCount => prefix + key = delta
    BY <1>12, NormalizedRange DEF Normalized
  <2> QED
    BY <1>12, <1>13, <2>1 DEF PrefixesOf
<1> QED
  BY <1>1, <1>9, <1>10, <1>11, <1>14, <1>15 DEF key

-----------------------------------------------------------------------------
LastIndex == Len(deltas)

(* What a call has to do with. *)
LEMMA CallTyped ==
    ASSUME PhaseInv
    PROVE  /\ Size \in Nat \ {0} /\ deltas \in Seq(Int)
           /\ LastIndex \in Nat \ {0} /\ DOMAIN deltas = 1 .. LastIndex
           /\ \A i \in DOMAIN deltas : Normalized(deltas[i]) \in 0 .. SlotCount - 1
           /\ Delta \in 0 .. SlotCount - 1
           /\ unit \in 1 .. Size /\ index \in 1 .. LastIndex
<1>1. Size \in Nat \ {0}
  BY SizeAssumption DEF Size
<1>2. deltas \in Seq(Int) /\ deltas # <<>>
  BY RequestAssumption DEF PhaseInv
<1>3. Len(deltas) \in Nat \ {0} /\ DOMAIN deltas = 1 .. Len(deltas)
      /\ \A i \in DOMAIN deltas : deltas[i] \in Int
  BY <1>2
<1>4. \A i \in DOMAIN deltas : Normalized(deltas[i]) \in 0 .. SlotCount - 1
  BY <1>3, NormalizedRange
<1> QED
  BY <1>1, <1>2, <1>3, <1>4 DEF PhaseInv, Delta, LastIndex

(* What depends on the call only stays. *)
LEMMA CallSame ==
    ASSUME entry' = entry, deltas' = deltas
    PROVE  /\ Size' = Size /\ Requested' = Requested /\ Objects' = Objects
           /\ Batched' = Batched
           /\ \A object : Temporary(object)' <=> Temporary(object)
BY DEF Size, Requested, Objects, Batched, Temporary

LEMMA Joined ==
    ASSUME NEW T, NEW s \in Seq(T), NEW more \in Seq(T)
    PROVE  /\ s \o more \in Seq(T) /\ Len(s \o more) = Len(s) + Len(more)
           /\ Len(s) \in Nat /\ Len(more) \in Nat
           /\ \A i \in 1 .. Len(s) : (s \o more)[i] = s[i]
           /\ \A n \in 1 .. Len(more) : (s \o more)[Len(s) + n] = more[n]
           /\ \A i \in 1 .. Len(s) + Len(more) :
                i \in 1 .. Len(s) \/ \E n \in 1 .. Len(more) : i = Len(s) + n
           /\ ToSet(s \o more) = ToSet(s) \cup ToSet(more)
<1>1. /\ s \o more \in Seq(T) /\ Len(s \o more) = Len(s) + Len(more)
      /\ Len(s) \in Nat /\ Len(more) \in Nat
      /\ \A i \in 1 .. Len(s) : (s \o more)[i] = s[i]
      /\ \A n \in 1 .. Len(more) : (s \o more)[Len(s) + n] = more[n]
  OBVIOUS
<1>2. \A i \in 1 .. Len(s) + Len(more) :
         i \in 1 .. Len(s) \/ \E n \in 1 .. Len(more) : i = Len(s) + n
  <2>1. ASSUME NEW i \in 1 .. Len(s) + Len(more), i \notin 1 .. Len(s)
        PROVE  i - Len(s) \in 1 .. Len(more) /\ i = Len(s) + (i - Len(s))
    BY <1>1, <2>1
  <2> QED
    BY <2>1
<1>3. /\ DOMAIN s = 1 .. Len(s) /\ DOMAIN more = 1 .. Len(more)
      /\ DOMAIN (s \o more) = 1 .. Len(s) + Len(more)
  BY <1>1
<1>4. ToSet(s \o more) \subseteq ToSet(s) \cup ToSet(more)
  BY <1>1, <1>2, <1>3 DEF ToSet
<1>5. \A n \in 1 .. Len(more) : Len(s) + n \in 1 .. Len(s) + Len(more)
  BY <1>1
<1>6. \A n \in 1 .. Len(s) : n \in 1 .. Len(s) + Len(more)
  BY <1>1
<1>7. ToSet(s) \subseteq ToSet(s \o more) /\ ToSet(more) \subseteq ToSet(s \o more)
  BY <1>1, <1>3, <1>5, <1>6 DEF ToSet
<1> QED
  BY <1>1, <1>2, <1>4, <1>7

(***************************************************************************)
(* A step that makes objects leaves those that exist alone.                 *)
(***************************************************************************)
Grows(more) ==
    /\ more \in Seq(Objects) /\ \A n \in 1 .. Len(more) : more[n].deletions = 0
    /\ heap' = heap \o more
    /\ entry' = entry /\ deltas' = deltas

LEMMA Grown ==
    ASSUME heap \in Seq(Objects), NEW more, Grows(more)
    PROVE  /\ heap' \in Seq(Objects)' /\ Len(heap') = Len(heap) + Len(more)
           /\ Len(heap) \in Nat /\ Len(more) \in Nat
           /\ \A id \in Id : id \in Id' /\ heap'[id] = heap[id]
           /\ \A n \in 1 .. Len(more) :
                Len(heap) + n \in Id' /\ Len(heap) + n \notin Id
                /\ heap'[Len(heap) + n] = more[n]
           /\ \A id \in Id' : id \in Id \/ \E n \in 1 .. Len(more) : id = Len(heap) + n
           /\ \A id, u, d : IsText(id, u, d) => IsText(id, u, d)'
           /\ \A id \in Id' : (id \in Id /\ heap'[id] = heap[id]) \/ heap'[id].deletions = 0
<1>1. /\ more \in Seq(Objects) /\ heap' = heap \o more /\ entry' = entry /\ deltas' = deltas
      /\ \A n \in 1 .. Len(more) : more[n].deletions = 0
  BY DEF Grows
<1>2. /\ heap' \in Seq(Objects) /\ Len(heap') = Len(heap) + Len(more)
      /\ Len(heap) \in Nat /\ Len(more) \in Nat
      /\ \A i \in 1 .. Len(heap) : heap'[i] = heap[i]
      /\ \A n \in 1 .. Len(more) : heap'[Len(heap) + n] = more[n]
      /\ \A i \in 1 .. Len(heap) + Len(more) :
           i \in 1 .. Len(heap) \/ \E n \in 1 .. Len(more) : i = Len(heap) + n
  <2> HIDE DEF Objects
  <2> QED
    BY <1>1, Joined
<1>3. Seq(Objects)' = Seq(Objects)
  BY <1>1, CallSame
<1>4. Id = 1 .. Len(heap) /\ Id' = 1 .. Len(heap) + Len(more)
  BY <1>2 DEF Id
<1>5. \A id \in Id : id \in Id' /\ heap'[id] = heap[id]
  BY <1>2, <1>4
<1>6. \A n \in 1 .. Len(more) : Len(heap) + n \in Id' /\ Len(heap) + n \notin Id
  BY <1>2, <1>4
<1>7. \A id, u, d : IsText(id, u, d) => IsText(id, u, d)'
  BY <1>5 DEF IsText
<1>8. \A id \in Id' : (id \in Id /\ heap'[id] = heap[id]) \/ heap'[id].deletions = 0
  BY <1>1, <1>2, <1>4
<1> QED
  BY <1>2, <1>3, <1>4, <1>5, <1>6, <1>7, <1>8

-----------------------------------------------------------------------------
(* Where the loop over the deltas goes. *)
LEMMA LoopMoves ==
    ASSUME PhaseInv, NEW next, NextDelta(next), entry' = entry, deltas' = deltas
    PROVE  /\ previous' = 0
           /\ unit' \in 1 .. Size /\ index' \in DOMAIN deltas
           /\ \/ /\ index < LastIndex /\ index' = index + 1
                 /\ unit' = unit /\ pc' = pc
              \/ /\ index = LastIndex /\ index' = 1
                 /\ pc = "rotate" /\ unit < Size /\ unit' = unit + 1 /\ pc' = pc
              \/ /\ index = LastIndex /\ index' = 1
                 /\ (pc = "rotate" => unit = Size) /\ unit' = 1 /\ pc' = next
<1>1. /\ Size \in Nat \ {0} /\ LastIndex \in Nat \ {0} /\ DOMAIN deltas = 1 .. LastIndex
      /\ unit \in 1 .. Size /\ index \in 1 .. LastIndex
  BY CallTyped
<1>2. previous' = 0 /\ ((index < LastIndex) => index' = index + 1 /\ unit' = unit /\ pc' = pc)
  BY DEF NextDelta, LastIndex
<1>3. ~(index < LastIndex) =>
        /\ index' = 1
        /\ pc = "rotate" /\ unit < Size => unit' = unit + 1 /\ pc' = pc
        /\ ~(pc = "rotate" /\ unit < Size) => unit' = 1 /\ pc' = next
  BY DEF NextDelta, LastIndex
<1>4. CASE index < LastIndex
  <2>1. index + 1 \in 1 .. LastIndex
    BY <1>1, <1>4
  <2> QED
    BY <1>1, <1>2, <1>4, <2>1
<1>5. CASE ~(index < LastIndex)
  <2>1. index = LastIndex /\ 1 \in 1 .. LastIndex /\ 1 \in 1 .. Size
    BY <1>1, <1>5
  <2>2. unit < Size => unit + 1 \in 1 .. Size
    BY <1>1
  <2>3. ~(unit < Size) => unit = Size
    BY <1>1
  <2> QED
    BY <1>1, <1>2, <1>3, <1>5, <2>1, <2>2, <2>3
<1> QED
  BY <1>4, <1>5

LEMMA PhaseMoves ==
    ASSUME PhaseInv, NEW next, NextDelta(next), entry' = entry, deltas' = deltas,
           pc \in {"clone_zero", "rotate", "clone"}, next \in Phase[entry]
    PROVE  PhaseInv'
<1>1. Size' = Size /\ entry' = entry /\ deltas' = deltas
  BY CallSame
<1>2. /\ previous' = 0
      /\ unit' \in 1 .. Size /\ index' \in DOMAIN deltas
      /\ \/ /\ index < LastIndex /\ index' = index + 1
            /\ unit' = unit /\ pc' = pc
         \/ /\ index = LastIndex /\ index' = 1
            /\ pc = "rotate" /\ unit < Size /\ unit' = unit + 1 /\ pc' = pc
         \/ /\ index = LastIndex /\ index' = 1
            /\ (pc = "rotate" => unit = Size) /\ unit' = 1 /\ pc' = next
  BY LoopMoves
<1> QED
  BY <1>1, <1>2 DEF PhaseInv

LEMMA AfterRotateInPhase ==
    ASSUME PhaseInv, pc = "rotate"
    PROVE  AfterRotate \in Phase[entry] /\ AfterRotate \notin {"prepare", "clone_zero", "rotate"}
           /\ entry # "chain"
BY DEF PhaseInv, Phase, Entry, AfterRotate

(* What each delta has been given after a step of a loop. *)
LEMMA GivenTyped ==
    ASSUME PhaseInv
    PROVE  \A i \in DOMAIN deltas : Given(i) \in 0 .. Size
<1>1. Size \in Nat \ {0} /\ unit \in 1 .. Size
  BY CallTyped
<1> QED
  BY <1>1 DEF Given

LEMMA GivenByRotate ==
    ASSUME PhaseInv, pc = "rotate", NextDelta(AfterRotate), entry' = entry, deltas' = deltas
    PROVE  \A i \in DOMAIN deltas :
              Given(i)' = IF IsCloneOfInput(i) THEN Size
                          ELSE IF i = index THEN unit ELSE Given(i)
<1>1. /\ Size \in Nat \ {0} /\ LastIndex \in Nat \ {0} /\ DOMAIN deltas = 1 .. LastIndex
      /\ unit \in 1 .. Size /\ index \in 1 .. LastIndex
  BY CallTyped
<1>2. AfterRotate \notin {"prepare", "clone_zero", "rotate"}
  BY AfterRotateInPhase
<1>3. Size' = Size /\ \A i : IsCloneOfInput(i)' <=> IsCloneOfInput(i)
  BY CallSame DEF IsCloneOfInput
<1> HIDE DEF AfterRotate
<1>4. /\ \/ /\ index < LastIndex /\ index' = index + 1
            /\ unit' = unit /\ pc' = pc
         \/ /\ index = LastIndex /\ index' = 1
            /\ pc = "rotate" /\ unit < Size /\ unit' = unit + 1 /\ pc' = pc
         \/ /\ index = LastIndex /\ index' = 1
            /\ (pc = "rotate" => unit = Size) /\ unit' = 1 /\ pc' = AfterRotate
  BY LoopMoves
<1> SUFFICES ASSUME NEW i \in DOMAIN deltas
             PROVE  Given(i)' = IF IsCloneOfInput(i) THEN Size
                                ELSE IF i = index THEN unit ELSE Given(i)
  OBVIOUS
<1>5. i \in 1 .. LastIndex
  BY <1>1
<1>6. Given(i) = IF IsCloneOfInput(i) THEN Size ELSE IF i < index THEN unit ELSE unit - 1
  BY DEF Given
<1>9. CASE IsCloneOfInput(i)
  BY <1>2, <1>3, <1>4, <1>9 DEF Given
<1>7. CASE pc' = "rotate"
  <2>1. Given(i)' = IF IsCloneOfInput(i) THEN Size ELSE IF i < index' THEN unit' ELSE unit' - 1
    BY <1>3, <1>7 DEF Given
  <2> QED
    BY <1>1, <1>2, <1>4, <1>5, <1>6, <1>7, <1>9, <2>1
<1>8. CASE pc' # "rotate"
  <2>1. Given(i)' = Size
    BY <1>2, <1>3, <1>4, <1>8 DEF Given
  <2> QED
    BY <1>1, <1>4, <1>5, <1>6, <1>8, <1>9, <2>1
<1> QED
  BY <1>7, <1>8

LEMMA GivenByCloneZero ==
    ASSUME PhaseInv, pc = "clone_zero", NextDelta("rotate"), entry' = entry, deltas' = deltas
    PROVE  \A i \in DOMAIN deltas :
              Given(i)' = IF i = index THEN IF IsCloneOfInput(i) THEN Size ELSE 0 ELSE Given(i)
<1>1. /\ Size \in Nat \ {0} /\ LastIndex \in Nat \ {0} /\ DOMAIN deltas = 1 .. LastIndex
      /\ unit \in 1 .. Size /\ index \in 1 .. LastIndex
  BY CallTyped
<1>2. Size' = Size /\ \A i : IsCloneOfInput(i)' <=> IsCloneOfInput(i)
  BY CallSame DEF IsCloneOfInput
<1>3. /\ \/ /\ index < LastIndex /\ index' = index + 1
            /\ unit' = unit /\ pc' = pc
         \/ /\ index = LastIndex /\ index' = 1
            /\ pc = "rotate" /\ unit < Size /\ unit' = unit + 1 /\ pc' = pc
         \/ /\ index = LastIndex /\ index' = 1
            /\ (pc = "rotate" => unit = Size) /\ unit' = 1 /\ pc' = "rotate"
  BY LoopMoves
<1> SUFFICES ASSUME NEW i \in DOMAIN deltas
             PROVE  Given(i)' = IF i = index THEN IF IsCloneOfInput(i) THEN Size ELSE 0 ELSE Given(i)
  OBVIOUS
<1>4. i \in 1 .. LastIndex
  BY <1>1
<1>5. Given(i) = IF IsCloneOfInput(i) /\ i < index THEN Size ELSE 0
  BY DEF Given
<1>6. CASE pc' = "rotate"
  <2>1. Given(i)' = IF IsCloneOfInput(i) THEN Size ELSE IF i < index' THEN unit' ELSE unit' - 1
    BY <1>2, <1>6 DEF Given
  <2> QED
    BY <1>1, <1>2, <1>3, <1>4, <1>5, <1>6, <2>1
<1>7. CASE pc' = "clone_zero"
  <2>1. Given(i)' = IF IsCloneOfInput(i) /\ i < index' THEN Size ELSE 0
    BY <1>2, <1>7 DEF Given
  <2> QED
    BY <1>1, <1>3, <1>4, <1>5, <1>7, <2>1
<1> QED
  BY <1>3, <1>6, <1>7

LEMMA GivenAtEnd ==
    ASSUME pc \notin {"prepare", "clone_zero", "rotate"}
    PROVE  \A i : Given(i) = Size
BY DEF Given

-----------------------------------------------------------------------------
(***************************************************************************)
(* What the parts of the invariant ask of a step that makes objects.        *)
(***************************************************************************)
LEMMA HeapGrown ==
    ASSUME HeapInv, NEW more, Grows(more), NEW added, added \in Seq(Id)',
           temp_data' = temp_data \o added, rotate_input' = rotate_input, pc' # "prepare"
    PROVE  HeapInv'
<1>1. entry' = entry /\ deltas' = deltas
  BY DEF Grows
<1>2. heap \in Seq(Objects) /\ temp_data \in Seq(Id)
  BY DEF HeapInv
<1>3. /\ heap' \in Seq(Objects)' /\ \A id \in Id : id \in Id' /\ heap'[id] = heap[id]
      /\ \A id, u, d : IsText(id, u, d) => IsText(id, u, d)'
  BY <1>2, Grown
<1>4. Size' = Size
  BY <1>1, CallSame
<1>5. temp_data' \in Seq(Id)'
  <2>1. temp_data \in Seq(Id')
    BY <1>2, <1>3
  <2> HIDE DEF Id
  <2> QED
    BY <2>1
<1>6. \A u \in 1 .. Size : IsText(rotate_input[u], u, 0) /\ rotate_input[u] \in Id
                           /\ heap[rotate_input[u]].made \in {"input", "converted"}
  BY DEF HeapInv, IsText
<1>7. \A u \in 1 .. Size : IsText(rotate_input[u], u, 0)'
                           /\ heap'[rotate_input'[u]].made \in {"input", "converted"}
  <2> TAKE u \in 1 .. Size
  <2>1. PICK id : id = rotate_input[u]
    OBVIOUS
  <2>2. IsText(id, u, 0) /\ heap'[id].made \in {"input", "converted"} /\ rotate_input'[u] = id
    BY <1>3, <1>6, <2>1
  <2> QED
    BY <1>3, <2>2 DEF IsText
<1>8. DOMAIN rotate_input = 1 .. Size
  BY DEF HeapInv
<1> QED
  BY <1>3, <1>4, <1>5, <1>7, <1>8 DEF HeapInv

MapsGrow ==
    /\ DOMAIN rotated' = 1 .. Size /\ DOMAIN decomposed' = 1 .. Size
    /\ \A u \in 1 .. Size : \A d \in DOMAIN rotated[u] :
          d \in DOMAIN rotated'[u] /\ rotated'[u][d] = rotated[u][d]
    /\ \A u \in 1 .. Size : \A d \in DOMAIN decomposed[u] :
          d \in DOMAIN decomposed'[u] /\ decomposed'[u][d] = decomposed[u][d]

LEMMA MapGrown ==
    ASSUME HeapInv, MapInv, entry # "chain", pc # "prepare",
           NEW more, Grows(more), rotate_input' = rotate_input, MapsGrow,
           \A u \in 1 .. Size : \A d \in DOMAIN rotated'[u] \ DOMAIN rotated[u] :
              IsText(rotated[u][d], u, d)' /\ heap'[rotated'[u][d]].made = "rotated",
           \A u \in 1 .. Size : \A d \in DOMAIN decomposed'[u] \ DOMAIN decomposed[u] :
              IsText(decomposed[u][d], u, d)' /\ heap'[decomposed'[u][d]].made = "decomposed",
           \A n \in 1 .. Len(more) : more[n].made = "decomposed" =>
              /\ more[n].delta \in DOMAIN decomposed'[more[n].unit]
              /\ decomposed'[more[n].unit][more[n].delta] = Len(heap) + n,
           entry # "fixed" => \A n \in 1 .. Len(more) : more[n].made = "rotated" =>
              /\ more[n].delta \in DOMAIN rotated'[more[n].unit] \ {0}
              /\ rotated'[more[n].unit][more[n].delta] = Len(heap) + n
    PROVE  MapInv'
<1>1. entry' = entry /\ deltas' = deltas
  BY DEF Grows
<1>2. heap \in Seq(Objects)
  BY DEF HeapInv
<1>3. /\ \A id \in Id : id \in Id' /\ heap'[id] = heap[id]
      /\ \A id, u, d : IsText(id, u, d) => IsText(id, u, d)'
      /\ \A n \in 1 .. Len(more) : heap'[Len(heap) + n] = more[n]
      /\ \A id \in Id' : id \in Id \/ \E n \in 1 .. Len(more) : id = Len(heap) + n
  BY <1>2, Grown
<1>4. Size' = Size
  BY <1>1, CallSame
<1>5. /\ DOMAIN rotated' = 1 .. Size /\ DOMAIN decomposed' = 1 .. Size
      /\ \A u \in 1 .. Size : \A d \in DOMAIN rotated[u] :
            d \in DOMAIN rotated'[u] /\ rotated'[u][d] = rotated[u][d]
      /\ \A u \in 1 .. Size : \A d \in DOMAIN decomposed[u] :
            d \in DOMAIN decomposed'[u] /\ decomposed'[u][d] = decomposed[u][d]
  BY DEF MapsGrow
<1>6. /\ \A u \in 1 .. Size : 0 \in DOMAIN rotated[u] /\ rotated[u][0] = rotate_input[u]
      /\ \A u \in 1 .. Size : \A d \in DOMAIN rotated[u] :
              /\ IsText(rotated[u][d], u, d)
              /\ d # 0 => heap[rotated[u][d]].made = "rotated"
      /\ \A u \in 1 .. Size : \A d \in DOMAIN decomposed[u] :
              /\ IsText(decomposed[u][d], u, d)
              /\ heap[decomposed[u][d]].made = "decomposed"
      /\ \A id \in Id : heap[id].made = "decomposed" =>
              LET map == decomposed[heap[id].unit]
              IN  heap[id].delta \in DOMAIN map /\ map[heap[id].delta] = id
      /\ entry # "fixed" => \A id \in Id : heap[id].made = "rotated" =>
              LET map == rotated[heap[id].unit]
              IN  heap[id].delta \in DOMAIN map \ {0} /\ map[heap[id].delta] = id
  BY DEF MapInv
<1>7. \A id \in Id : heap[id].unit \in 1 .. Size
  <2>1. \A id \in Id : heap[id] \in Objects
    BY <1>2 DEF Id
  <2> QED
    BY <2>1 DEF Objects
<1>8. \A u \in 1 .. Size : \A d \in DOMAIN rotated'[u] :
         /\ IsText(rotated[u][d], u, d)'
         /\ d # 0 => heap'[rotated'[u][d]].made = "rotated"
  <2> SUFFICES ASSUME NEW u \in 1 .. Size, NEW d \in DOMAIN rotated'[u]
               PROVE  /\ IsText(rotated[u][d], u, d)'
                      /\ d # 0 => heap'[rotated'[u][d]].made = "rotated"
    OBVIOUS
  <2>1. CASE d \notin DOMAIN rotated[u]
    BY <2>1
  <2>2. CASE d \in DOMAIN rotated[u]
    <3>1. PICK id : id = rotated[u][d]
      OBVIOUS
    <3>2. IsText(id, u, d) /\ (d # 0 => heap[id].made = "rotated") /\ id \in Id
      BY <1>6, <2>2, <3>1 DEF IsText
    <3>3. IsText(id, u, d)' /\ (d # 0 => heap'[id].made = "rotated")
      BY <1>3, <3>2
    <3>4. rotated'[u][d] = id
      BY <1>5, <2>2, <3>1
    <3> QED
      BY <3>3, <3>4 DEF IsText
  <2> QED
    BY <2>1, <2>2
<1>9. \A u \in 1 .. Size : \A d \in DOMAIN decomposed'[u] :
         /\ IsText(decomposed[u][d], u, d)'
         /\ heap'[decomposed'[u][d]].made = "decomposed"
  <2> SUFFICES ASSUME NEW u \in 1 .. Size, NEW d \in DOMAIN decomposed'[u]
               PROVE  /\ IsText(decomposed[u][d], u, d)'
                      /\ heap'[decomposed'[u][d]].made = "decomposed"
    OBVIOUS
  <2>1. CASE d \notin DOMAIN decomposed[u]
    BY <2>1
  <2>2. CASE d \in DOMAIN decomposed[u]
    <3>1. PICK id : id = decomposed[u][d]
      OBVIOUS
    <3>2. IsText(id, u, d) /\ heap[id].made = "decomposed" /\ id \in Id
      BY <1>6, <2>2, <3>1 DEF IsText
    <3>3. IsText(id, u, d)' /\ heap'[id].made = "decomposed"
      BY <1>3, <3>2
    <3>4. decomposed'[u][d] = id
      BY <1>5, <2>2, <3>1
    <3> QED
      BY <3>3, <3>4 DEF IsText
  <2> QED
    BY <2>1, <2>2
<1>10. \A id \in Id' : heap'[id].made = "decomposed" =>
           LET map == decomposed'[heap'[id].unit]
           IN  heap'[id].delta \in DOMAIN map /\ map[heap'[id].delta] = id
  <2> SUFFICES ASSUME NEW id \in Id', heap'[id].made = "decomposed"
               PROVE  /\ heap'[id].delta \in DOMAIN decomposed'[heap'[id].unit]
                      /\ decomposed'[heap'[id].unit][heap'[id].delta] = id
    OBVIOUS
  <2>1. CASE id \in Id
    <3>1. heap'[id] = heap[id] /\ heap[id].unit \in 1 .. Size
      BY <1>3, <1>7, <2>1
    <3>2. /\ heap[id].delta \in DOMAIN decomposed[heap[id].unit]
          /\ decomposed[heap[id].unit][heap[id].delta] = id
      BY <1>6, <2>1, <3>1
    <3> QED
      BY <1>5, <3>1, <3>2
  <2>2. ASSUME NEW n \in 1 .. Len(more), id = Len(heap) + n
        PROVE  /\ heap'[id].delta \in DOMAIN decomposed'[heap'[id].unit]
               /\ decomposed'[heap'[id].unit][heap'[id].delta] = id
    <3>1. heap'[id] = more[n]
      BY <1>3, <2>2
    <3> QED
      BY <2>2, <3>1
  <2> QED
    BY <1>3, <2>1, <2>2
<1>11. entry # "fixed" => \A id \in Id' : heap'[id].made = "rotated" =>
           LET map == rotated'[heap'[id].unit]
           IN  heap'[id].delta \in DOMAIN map \ {0} /\ map[heap'[id].delta] = id
  <2> SUFFICES ASSUME entry # "fixed", NEW id \in Id', heap'[id].made = "rotated"
               PROVE  /\ heap'[id].delta \in DOMAIN rotated'[heap'[id].unit] \ {0}
                      /\ rotated'[heap'[id].unit][heap'[id].delta] = id
    OBVIOUS
  <2>1. CASE id \in Id
    <3>1. heap'[id] = heap[id] /\ heap[id].unit \in 1 .. Size
      BY <1>3, <1>7, <2>1
    <3>2. /\ heap[id].delta \in DOMAIN rotated[heap[id].unit] \ {0}
          /\ rotated[heap[id].unit][heap[id].delta] = id
      BY <1>6, <2>1, <3>1
    <3> QED
      BY <1>5, <3>1, <3>2
  <2>2. ASSUME NEW n \in 1 .. Len(more), id = Len(heap) + n
        PROVE  /\ heap'[id].delta \in DOMAIN rotated'[heap'[id].unit] \ {0}
               /\ rotated'[heap'[id].unit][heap'[id].delta] = id
    <3>1. heap'[id] = more[n]
      BY <1>3, <2>2
    <3> QED
      BY <2>2, <3>1
  <2> QED
    BY <1>3, <2>1, <2>2
<1>12. \A u \in 1 .. Size : 0 \in DOMAIN rotated'[u] /\ rotated'[u][0] = rotate_input'[u]
  BY <1>5, <1>6
<1> QED
  BY <1>1, <1>4, <1>5, <1>8, <1>9, <1>10, <1>11, <1>12 DEF MapInv

LEMMA OwnedGrown ==
    ASSUME HeapInv, OwnedInv, entry # "chain", NEW more, Grows(more),
           Cleared' <=> Cleared,
           Cleared => temp_data' = temp_data /\ \A n \in 1 .. Len(more) : ~Temporary(more[n]),
           ~Cleared => \A id : id \in ToSet(temp_data') <=>
              \/ id \in ToSet(temp_data)
              \/ \E n \in 1 .. Len(more) : id = Len(heap) + n /\ Temporary(more[n])
    PROVE  OwnedInv'
<1>1. entry' = entry /\ deltas' = deltas /\ \A n \in 1 .. Len(more) : more[n].deletions = 0
  BY DEF Grows
<1>2. heap \in Seq(Objects)
  BY DEF HeapInv
<1>3. /\ \A id \in Id : id \in Id' /\ heap'[id] = heap[id]
      /\ \A n \in 1 .. Len(more) : Len(heap) + n \in Id' /\ Len(heap) + n \notin Id
                                   /\ heap'[Len(heap) + n] = more[n]
      /\ \A id \in Id' : id \in Id \/ \E n \in 1 .. Len(more) : id = Len(heap) + n
  BY <1>2, Grown
<1>4. \A object : Temporary(object)' <=> Temporary(object)
  BY <1>1, CallSame
<1>5. \A id \in Id' : Temporary(heap[id])' <=> Temporary(heap'[id])
  BY <1>1 DEF Temporary, Batched, Requested
<1>6. CASE Cleared
  <2>1. temp_data = <<>> /\ \A id \in Id : IsAlive(id) <=> ~Temporary(heap[id])
    BY <1>6 DEF OwnedInv
  <2>2. ASSUME NEW id \in Id' PROVE IsAlive(id)' <=> ~Temporary(heap'[id])
    <3>1. CASE id \in Id
      BY <1>3, <2>1, <3>1 DEF IsAlive
    <3>2. ASSUME NEW n \in 1 .. Len(more), id = Len(heap) + n
          PROVE  IsAlive(id)' <=> ~Temporary(heap'[id])
      <4>1. heap'[id] = more[n] /\ more[n].deletions = 0 /\ ~Temporary(more[n])
        BY <1>1, <1>3, <1>6, <3>2
      <4> QED
        BY <4>1 DEF IsAlive
    <3> QED
      BY <1>3, <3>1, <3>2
  <2>3. \A id \in Id' : IsAlive(id)' <=> ~Temporary(heap[id])'
    BY <1>5, <2>2
  <2> QED
    BY <1>1, <1>6, <2>1, <2>3 DEF OwnedInv
<1>7. CASE ~Cleared
  <2>1. ToSet(temp_data) = {id \in Id : Temporary(heap[id])} /\ \A id \in Id : IsAlive(id)
    BY <1>7 DEF OwnedInv
  <2>2. \A id \in Id' : IsAlive(id)'
    <3> TAKE id \in Id'
    <3>1. heap'[id].deletions = 0
      <4>1. CASE id \in Id
        BY <1>3, <2>1, <4>1 DEF IsAlive
      <4>2. ASSUME NEW n \in 1 .. Len(more), id = Len(heap) + n
            PROVE  heap'[id].deletions = 0
        <5>1. heap'[id] = more[n] /\ more[n].deletions = 0
          BY <1>1, <1>3, <4>2
        <5> QED
          BY <5>1
      <4> QED
        BY <1>3, <4>1, <4>2
    <3> QED
      BY <3>1 DEF IsAlive
  <2>3. \A id : id \in ToSet(temp_data') <=> id \in Id' /\ Temporary(heap'[id])
    <3> TAKE id
    <3>1. CASE id \in Id
      <4>1. \A n \in 1 .. Len(more) : id # Len(heap) + n
        BY <1>3, <3>1
      <4> QED
        BY <1>3, <1>7, <2>1, <3>1, <4>1
    <3>2. ASSUME NEW n \in 1 .. Len(more), id = Len(heap) + n
          PROVE  id \in ToSet(temp_data') <=> id \in Id' /\ Temporary(heap'[id])
      <4>1. heap'[id] = more[n] /\ id \in Id' /\ id \notin ToSet(temp_data)
        BY <1>3, <2>1, <3>2
      <4>2. id \in ToSet(temp_data') <=> \E m \in 1 .. Len(more) : id = Len(heap) + m /\ Temporary(more[m])
        BY <1>7, <4>1
      <4>3. \A m \in 1 .. Len(more) : id = Len(heap) + m => heap'[id] = more[m]
        BY <1>3
      <4> QED
        BY <3>2, <4>1, <4>2, <4>3
    <3>3. CASE id \notin Id'
      BY <1>3, <1>7, <2>1, <3>3
    <3> QED
      BY <1>3, <3>1, <3>2, <3>3
  <2>4. ToSet(temp_data)' = {id \in Id : Temporary(heap[id])}'
    <3>1. ToSet(temp_data)' = ToSet(temp_data')
      BY DEF ToSet
    <3>2. \A id \in Id' : Temporary(heap'[id]) <=> Temporary(heap[id])'
      BY <1>5
    <3> QED
      BY <2>3, <3>1, <3>2
  <2> QED
    BY <1>1, <1>7, <2>2, <2>4 DEF OwnedInv
<1> QED
  BY <1>6, <1>7

LEMMA OutputGrown ==
    ASSUME HeapInv, OutputInv, PlaceInv, PhaseInv, entry # "chain",
           NEW more, Grows(more), MapsGrow, DOMAIN output' = DOMAIN deltas,
           \A i \in DOMAIN deltas : Given(i)' \in 0 .. Size,
           \A i \in DOMAIN deltas :
              /\ output'[i] \in Seq(Id)' /\ Len(output'[i]) = Given(i)'
              /\ \A u \in 1 .. Given(i)' :
                    \/ u \in 1 .. Given(i) /\ output'[i][u] = output[i][u]
                    \/ IsText(output[i][u], u, Normalized(deltas[i]))' /\ Placed(output[i][u], u, i)'
    PROVE  OutputInv' /\ PlaceInv'
<1>1. entry' = entry /\ deltas' = deltas
  BY DEF Grows
<1>2. heap \in Seq(Objects)
  BY DEF HeapInv
<1>3. /\ \A id \in Id : id \in Id' /\ heap'[id] = heap[id]
      /\ \A id, u, d : IsText(id, u, d) => IsText(id, u, d)'
  BY <1>2, Grown
<1>4. \A u \in 1 .. Size : \A d \in DOMAIN rotated[u] :
         d \in DOMAIN rotated'[u] /\ rotated'[u][d] = rotated[u][d]
  BY DEF MapsGrow
<1>5. \A i \in DOMAIN deltas : Given(i) \in 0 .. Size
  BY GivenTyped
<1>6. Size \in Nat
  BY CallTyped
<1>7. \A i \in DOMAIN deltas : \A u \in 1 .. Given(i)' :
         IsText(output[i][u], u, Normalized(deltas[i]))' /\ Placed(output[i][u], u, i)'
  <2> SUFFICES ASSUME NEW i \in DOMAIN deltas, NEW u \in 1 .. Given(i)',
                      u \in 1 .. Given(i), output'[i][u] = output[i][u]
               PROVE  IsText(output[i][u], u, Normalized(deltas[i]))' /\ Placed(output[i][u], u, i)'
    OBVIOUS
  <2>1. PICK id : id = output[i][u]
    OBVIOUS
  <2>2. PICK d : d = Normalized(deltas[i])
    OBVIOUS
  <2>3. IsText(id, u, d) /\ Placed(id, u, i) /\ id \in Id
    BY <2>1, <2>2 DEF OutputInv, PlaceInv, IsText
  <2>4. IsText(id, u, d)'
    BY <1>3, <2>3
  <2>5. u \in 1 .. Size
    BY <1>5, <1>6
  <2>6. Placed(id, u, i)'
    BY <1>1, <1>3, <1>4, <2>3, <2>5 DEF Placed, Cloned, Batched, IsCloneOfInput
  <2>7. output'[i][u] = id
    BY <2>1
  <2> QED
    BY <1>1, <2>2, <2>4, <2>6, <2>7 DEF IsText, Placed, Cloned, Batched, IsCloneOfInput
<1> QED
  BY <1>1, <1>7 DEF OutputInv, PlaceInv

-----------------------------------------------------------------------------
LEMMA PrefixZero ==
    ASSUME NEW delta \in Nat
    PROVE  0 \in PrefixesOf(delta)
<1>1. 1 \in Keys
  BY KeysTyped
<1>2. delta % 1 = 0
  OBVIOUS
<1> QED
  BY <1>1, <1>2 DEF PrefixesOf

(* Between two deltas no chain is under way. *)
LEMMA BetweenDeltas ==
    ASSUME PhaseInv, entry # "chain", entry' = entry, deltas' = deltas, pc' # "prepare", previous' = 0,
           PhaseInv', HeapInv', MapInv', OwnedInv', OutputInv', PlaceInv'
    PROVE  ValueInv'
<1>1. Delta' \in 0 .. SlotCount - 1 /\ unit' \in (1 .. Size)'
  <2>1. \A i \in DOMAIN deltas : Normalized(deltas[i]) \in 0 .. SlotCount - 1
    BY CallTyped
  <2>2. index' \in DOMAIN deltas /\ unit' \in (1 .. Size)'
    BY DEF PhaseInv
  <2>3. Delta' = Normalized(deltas[index'])
    BY DEF Delta
  <2> QED
    BY <2>1, <2>2, <2>3
<1>2. 0 \in PrefixesOf(Delta')
  BY <1>1, KeysTyped, PrefixZero
<1>3. 0 \in DOMAIN rotated'[unit']
  BY <1>1 DEF MapInv
<1>4. ChainInv'
  BY <1>2, <1>3 DEF ChainInv, PrefixesOf
<1> QED
  BY <1>4 DEF ValueInv, SingleInv, SingleOwnedInv

(* What a list of copies holds. *)
AreCopies(more, source, d, made) ==
    /\ more = [u \in 1 .. Size |-> more[u]]
    /\ \A u \in 1 .. Size :
          more[u] = Copy(source[u], made) /\ IsText(source[u], u, d) /\ IsAlive(source[u])

LEMMA CopiesMade ==
    ASSUME PhaseInv, HeapInv, NEW made \in Made, NEW d, NEW source, NEW more,
           AreCopies(more, source, d, made)
    PROVE  /\ more \in Seq(Objects) /\ Len(more) = Size
           /\ \A u \in 1 .. Size : more[u] = Object(u, d, made)
           /\ \A n \in 1 .. Len(more) : more[n].deletions = 0
<1>1. Size \in Nat
  BY CallTyped
<1>2. \A u \in 1 .. Size : more[u] = Object(u, d, made)
  BY DEF AreCopies, Copy, IsText
<1>3. \A u \in 1 .. Size : d \in 0 .. SlotCount - 1
  <2> TAKE u \in 1 .. Size
  <2>1. PICK id : id = source[u] /\ IsText(id, u, d)
    BY DEF AreCopies
  <2>2. heap[id] \in Objects
    BY <2>1 DEF HeapInv, IsText, Id
  <2> QED
    BY <2>1, <2>2 DEF IsText, Objects
<1>4. \A u \in 1 .. Size : Object(u, d, made) \in Objects
  BY <1>3 DEF Object, Objects
<1>5. more \in [1 .. Size -> Objects]
  BY <1>2, <1>4 DEF AreCopies
<1> HIDE DEF Objects
<1>6. more \in Seq(Objects) /\ Len(more) = Size
  BY <1>1, <1>5
<1>7. \A n \in 1 .. Len(more) : more[n].deletions = 0
  <2>1. \A u \in 1 .. Size : Object(u, d, made).deletions = 0
    BY DEF Object
  <2> QED
    BY <1>2, <1>6, <2>1
<1> QED
  BY <1>2, <1>6, <1>7

(* Where new objects are. *)
LEMMA NewIdsFresh ==
    ASSUME PhaseInv, HeapInv, NEW made, NEW d, NEW more, Grows(more), Len(more) = Size,
           \A u \in 1 .. Size : more[u] = Object(u, d, made)
    PROVE  /\ NewIds(Size) \in Seq(Id') /\ Len(NewIds(Size)) = Size
           /\ \A u \in 1 .. Size :
                /\ NewIds(Size)[u] = Len(heap) + u
                /\ heap'[NewIds(Size)[u]] = Object(u, d, made)
                /\ NewIds(Size)[u] \in Id' /\ NewIds(Size)[u] \notin Id
<1>1. Size \in Nat
  BY CallTyped
<1>2. \A n \in 1 .. Size : Len(heap) + n \in Id' /\ Len(heap) + n \notin Id
                           /\ heap'[Len(heap) + n] = more[n]
  BY Grown DEF HeapInv
<1>3. \A n \in 1 .. Size : NewIds(Size)[n] = Len(heap) + n
  BY DEF NewIds
<1>4. NewIds(Size) \in [1 .. Size -> Id']
  BY <1>2, <1>3 DEF NewIds
<1>5. NewIds(Size) \in Seq(Id') /\ Len(NewIds(Size)) = Size
  <2> HIDE DEF NewIds, Id
  <2> QED
    BY <1>1, <1>4
<1> QED
  BY <1>2, <1>3, <1>5

(* A clone of the text of each unit, for the delta at hand. *)
LEMMA ClonesKept ==
    ASSUME ValueInv, entry # "chain", pc # "prepare", pc' # "prepare",
           NEW more, Grows(more), Len(more) = Size,
           \A u \in 1 .. Size : more[u] = Object(u, Delta, "cloned"),
           NEW ids, ids = NewIds(Size), DOMAIN output' = DOMAIN deltas, output'[index] = ids,
           \A i \in DOMAIN deltas \ {index} : output'[i] = output[i],
           rotate_input' = rotate_input, temp_data' = temp_data,
           rotated' = rotated, decomposed' = decomposed,
           Cleared' <=> Cleared,
           \A i \in DOMAIN deltas : Given(i)' = IF i = index THEN Size ELSE Given(i)
    PROVE  HeapInv' /\ MapInv' /\ OwnedInv' /\ OutputInv' /\ PlaceInv'
<1>1. PhaseInv /\ HeapInv /\ MapInv /\ OwnedInv /\ OutputInv /\ PlaceInv
  BY DEF ValueInv
<1>2. entry' = entry /\ deltas' = deltas
  BY DEF Grows
<1>3. \A n \in 1 .. Len(more) : more[n].made = "cloned" /\ ~Temporary(more[n])
  BY DEF Object, Temporary
<1>4. Size \in Nat /\ index \in DOMAIN deltas
  BY <1>1, CallTyped DEF PhaseInv
<1>5. HeapInv'
  <2>1. <<>> \in Seq(Id)' /\ temp_data' = temp_data \o <<>>
    BY <1>1 DEF HeapInv
  <2> QED
    BY <1>1, <2>1, HeapGrown
<1>6. MapsGrow
  BY <1>1 DEF MapsGrow, MapInv
<1>7. MapInv'
  BY <1>1, <1>3, <1>6, MapGrown
<1>8. OwnedInv'
  <2>1. \A id : id \in ToSet(temp_data') <=>
              \/ id \in ToSet(temp_data)
              \/ \E n \in 1 .. Len(more) : id = Len(heap) + n /\ Temporary(more[n])
    BY <1>3
  <2> QED
    BY <1>1, <1>3, <2>1, OwnedGrown
<1>9. PICK d : d = Delta
  OBVIOUS
<1>10. /\ ids \in Seq(Id') /\ Len(ids) = Size
       /\ \A u \in 1 .. Size : ids[u] \in Id' /\ heap'[ids[u]] = Object(u, d, "cloned")
  BY <1>1, <1>9, NewIdsFresh
<1>11. \A i \in DOMAIN deltas : Given(i)' \in 0 .. Size
  <2>1. \A i \in DOMAIN deltas : Given(i) \in 0 .. Size
    BY <1>1, GivenTyped
  <2> QED
    BY <1>4, <2>1
<1>12. \A i \in DOMAIN deltas :
              /\ output'[i] \in Seq(Id)' /\ Len(output'[i]) = Given(i)'
              /\ \A u \in 1 .. Given(i)' :
                    \/ u \in 1 .. Given(i) /\ output'[i][u] = output[i][u]
                    \/ IsText(output[i][u], u, Normalized(deltas[i]))' /\ Placed(output[i][u], u, i)'
  <2> SUFFICES ASSUME NEW i \in DOMAIN deltas
               PROVE  /\ output'[i] \in Seq(Id)' /\ Len(output'[i]) = Given(i)'
                      /\ \A u \in 1 .. Given(i)' :
                         \/ u \in 1 .. Given(i) /\ output'[i][u] = output[i][u]
                         \/ /\ IsText(output[i][u], u, Normalized(deltas[i]))'
                            /\ Placed(output[i][u], u, i)'
    OBVIOUS
  <2>1. CASE i # index
    <3>1. output'[i] = output[i] /\ Given(i)' = Given(i)
      BY <2>1
    <3>2. output[i] \in Seq(Id) /\ Len(output[i]) = Given(i)
      BY <1>1 DEF OutputInv
    <3>3. output[i] \in Seq(Id')
      <4>1. \A id \in Id : id \in Id'
        BY <1>1, Grown DEF HeapInv
      <4> HIDE DEF Id
      <4> QED
        BY <3>2, <4>1
    <3> QED
      BY <3>1, <3>2, <3>3
  <2>2. CASE i = index
    <3>1. output'[i] = ids /\ Given(i)' = Size
      BY <2>2
    <3>2. Normalized(deltas'[i]) = d
      BY <1>2, <1>9, <2>2 DEF Delta
    <3>3. ASSUME NEW u \in 1 .. Size
          PROVE  IsText(output[i][u], u, Normalized(deltas[i]))' /\ Placed(output[i][u], u, i)'
      <4>1. heap'[output'[i][u]] = Object(u, d, "cloned") /\ output'[i][u] \in Id'
        BY <1>10, <3>1
      <4> QED
        BY <3>2, <4>1 DEF IsText, Placed, Cloned, Object
    <3> QED
      BY <1>10, <3>1, <3>3
  <2> QED
    BY <2>1, <2>2
<1>13. OutputInv' /\ PlaceInv'
  BY <1>1, <1>6, <1>11, <1>12, OutputGrown
<1> QED
  BY <1>5, <1>7, <1>8, <1>13

(* The delta at hand is given new clones, in place of what it had, or nothing. *)
ClonesGiven(more) ==
    /\ Grows(more) /\ Len(more) = Size
    /\ \A u \in 1 .. Size : more[u] = Object(u, Delta, "cloned")
    /\ DOMAIN output' = DOMAIN deltas /\ output'[index] = NewIds(Size)
    /\ \A i \in DOMAIN deltas \ {index} : output'[i] = output[i]

NothingGiven == heap' = heap /\ output' = output /\ counter' = counter

-----------------------------------------------------------------------------
(* A step that makes nothing. *)
LEMMA NoneMade ==
    ASSUME ValueInv, entry # "chain", pc # "prepare", pc' # "prepare",
           heap' = heap, entry' = entry, deltas' = deltas, rotate_input' = rotate_input,
           rotated' = rotated, decomposed' = decomposed, Cleared' <=> Cleared,
           NEW added, added \in Seq(Id), temp_data' = temp_data \o added,
           ToSet(added) \subseteq ToSet(temp_data), Cleared => added = <<>>
    PROVE  Grows(<<>>) /\ MapsGrow /\ HeapInv' /\ MapInv' /\ OwnedInv'
<1>1. PhaseInv /\ HeapInv /\ MapInv /\ OwnedInv
  BY DEF ValueInv
<1>2. Grows(<<>>) /\ Len(<<>>) = 0
  <2>1. heap \in Seq(Objects)
    BY <1>1 DEF HeapInv
  <2> HIDE DEF Objects
  <2>2. heap \o <<>> = heap /\ <<>> \in Seq(Objects)
    BY <2>1
  <2> QED
    BY <2>2 DEF Grows
<1>3. PICK none : none = <<>>
  OBVIOUS
<1>4. Grows(none) /\ 1 .. Len(none) = {}
  BY <1>2, <1>3
<1>5. HeapInv'
  <2>1. added \in Seq(Id)'
    BY DEF Id
  <2> QED
    BY <1>1, <1>4, <2>1, HeapGrown
<1>6. MapsGrow
  BY <1>1 DEF MapsGrow, MapInv
<1>7. MapInv'
  <2>2. \A u \in 1 .. Size : DOMAIN rotated'[u] \ DOMAIN rotated[u] = {}
                             /\ DOMAIN decomposed'[u] \ DOMAIN decomposed[u] = {}
    OBVIOUS
  <2> QED
    BY <1>1, <1>4, <1>6, <2>2, MapGrown
<1>8. temp_data \in Seq(Id)
  BY <1>1 DEF HeapInv
<1>9. ToSet(temp_data') = ToSet(temp_data) /\ (added = <<>> => temp_data' = temp_data)
  <2> HIDE DEF Id
  <2>1. ToSet(temp_data \o added) = ToSet(temp_data) \cup ToSet(added)
    BY <1>8, Joined
  <2> QED
    BY <1>8, <2>1
<1>10. OwnedInv'
  <2>1. Cleared => temp_data' = temp_data /\ \A n \in 1 .. Len(none) : ~Temporary(none[n])
    BY <1>4, <1>9
  <2>2. ~Cleared => \A id : id \in ToSet(temp_data') <=>
              \/ id \in ToSet(temp_data)
              \/ \E n \in 1 .. Len(none) : id = Len(heap) + n /\ Temporary(none[n])
    BY <1>4, <1>9
  <2> QED
    BY <1>1, <1>4, <2>1, <2>2, OwnedGrown
<1> QED
  BY <1>2, <1>5, <1>6, <1>7, <1>10

(* The places that a step does not touch. *)
LEMMA PlaceStays ==
    ASSUME OutputInv, HeapInv, entry # "chain", NEW more, Grows(more),
           NEW i \in DOMAIN deltas, output'[i] = output[i], Given(i)' = Given(i)
    PROVE  /\ output'[i] \in Seq(Id)' /\ Len(output'[i]) = Given(i)'
           /\ \A u \in 1 .. Given(i)' : u \in 1 .. Given(i) /\ output'[i][u] = output[i][u]
<1>1. output[i] \in Seq(Id) /\ Len(output[i]) = Given(i)
  BY DEF OutputInv
<1>2. \A id \in Id : id \in Id'
  BY Grown DEF HeapInv
<1>3. output[i] \in Seq(Id')
  <2> HIDE DEF Id
  <2> QED
    BY <1>1, <1>2
<1> QED
  BY <1>1, <1>3

LEMMA CloneZeroKeeps ==
    ASSUME ValueInv, CloneZero
    PROVE  /\ ValueInv'
           /\ IF Delta = 0 THEN \E more : ClonesGiven(more) ELSE NothingGiven
<1> USE DEF CloneZero
<1>1. PhaseInv /\ HeapInv /\ MapInv /\ OwnedInv /\ OutputInv /\ PlaceInv
  BY DEF ValueInv
<1>2. entry = "long" /\ pc = "clone_zero"
  BY <1>1 DEF PhaseInv, Phase, Entry
<1>3. /\ NextDelta("rotate") /\ entry' = entry /\ deltas' = deltas /\ rotate_input' = rotate_input
      /\ temp_data' = temp_data /\ rotated' = rotated /\ decomposed' = decomposed
  OBVIOUS
<1>4. PhaseInv' /\ previous' = 0 /\ pc' \in {"clone_zero", "rotate"}
  <2>1. "rotate" \in Phase[entry]
    BY <1>2 DEF Phase
  <2> QED
    BY <1>1, <1>2, <1>3, <2>1, PhaseMoves, LoopMoves
<1>5. /\ Cleared' <=> Cleared
      /\ pc # "prepare" /\ pc' # "prepare" /\ entry # "chain" /\ ~Cleared
  BY <1>2, <1>3, <1>4 DEF Cleared
<1>6. \A i \in DOMAIN deltas :
         Given(i)' = IF i = index THEN IF IsCloneOfInput(i) THEN Size ELSE 0 ELSE Given(i)
  BY <1>1, <1>2, <1>3, GivenByCloneZero
<1>7. index \in DOMAIN deltas /\ (IsCloneOfInput(index) <=> Delta = 0) /\ DOMAIN output = DOMAIN deltas
      /\ Size \in Nat \ {0}
  BY <1>1, <1>2, CallTyped DEF PhaseInv, IsCloneOfInput, Delta, OutputInv
<1>8. /\ HeapInv' /\ MapInv' /\ OwnedInv' /\ OutputInv' /\ PlaceInv'
      /\ IF Delta = 0 THEN \E more : ClonesGiven(more) ELSE NothingGiven
  <2>1. CASE Delta = 0
    <3>1. PICK more : more = [u \in 1 .. Size |-> Copy(rotate_input[u], "cloned")]
      OBVIOUS
    <3>2. heap' = heap \o more
      BY <2>1, <3>1
    <3>3. \A u \in 1 .. Size : IsText(rotate_input[u], u, 0) /\ IsAlive(rotate_input[u])
      <4>1. \A id \in Id : IsAlive(id)
        BY <1>1, <1>5 DEF OwnedInv
      <4>2. \A u \in 1 .. Size : IsText(rotate_input[u], u, 0)
        BY <1>1 DEF HeapInv
      <4> QED
        BY <4>1, <4>2 DEF IsText
    <3>4. PICK source : source = rotate_input
      OBVIOUS
    <3>5. /\ more \in Seq(Objects) /\ Len(more) = Size
          /\ \A u \in 1 .. Size : more[u] = Object(u, 0, "cloned")
          /\ \A n \in 1 .. Len(more) : more[n].deletions = 0
      <4>1. "cloned" \in Made
        BY DEF Made
      <4>2. AreCopies(more, source, 0, "cloned")
        BY <3>1, <3>3, <3>4 DEF AreCopies
      <4> HIDE DEF CloneZero
      <4> QED
        BY <1>1, <4>1, <4>2, CopiesMade
    <3>6. Grows(more)
      BY <1>3, <3>2, <3>5 DEF Grows
    <3>7. PICK ids : ids = NewIds(Size)
      OBVIOUS
    <3>8. DOMAIN output' = DOMAIN deltas /\ output'[index] = ids
          /\ \A i \in DOMAIN deltas \ {index} : output'[i] = output[i]
      BY <1>7, <2>1, <3>7
    <3>9. \A i \in DOMAIN deltas : Given(i)' = IF i = index THEN Size ELSE Given(i)
      BY <1>6, <1>7, <2>1
    <3> HIDE DEF CloneZero
    <3>10. ClonesGiven(more)
      BY <2>1, <3>5, <3>6, <3>7, <3>8 DEF ClonesGiven
    <3>11. HeapInv' /\ MapInv' /\ OwnedInv' /\ OutputInv' /\ PlaceInv'
      BY <1>3, <1>5, <2>1, <3>5, <3>6, <3>7, <3>8, <3>9, ClonesKept
    <3> QED
      BY <2>1, <3>10, <3>11
  <2>2. CASE Delta # 0
    <3>1. heap' = heap /\ output' = output
      BY <2>2
    <3>2. <<>> \in Seq(Id) /\ temp_data' = temp_data \o <<>> /\ ToSet(<<>>) \subseteq ToSet(temp_data)
      BY <1>1, <1>3 DEF HeapInv, ToSet
    <3> HIDE DEF CloneZero
    <3>3. Grows(<<>>) /\ MapsGrow /\ HeapInv' /\ MapInv' /\ OwnedInv'
      BY <1>3, <1>5, <3>1, <3>2, NoneMade
    <3>4. \A i \in DOMAIN deltas : Given(i)' = Given(i) /\ Given(i)' \in 0 .. Size
      <4>1. \A i \in DOMAIN deltas : Given(i) \in 0 .. Size
        BY <1>1, GivenTyped
      <4>2. PICK k : k = index
        OBVIOUS
      <4>3. ~IsCloneOfInput(k) /\ k \in DOMAIN deltas
        BY <1>7, <2>2, <4>2
      <4>4. Given(k) = 0
        BY <1>2, <4>3 DEF Given
      <4>5. Given(k)' = 0
        BY <1>6, <4>2, <4>3
      <4> QED
        BY <1>6, <4>1, <4>2, <4>4, <4>5
    <3>5. \A i \in DOMAIN deltas :
              /\ output'[i] \in Seq(Id)' /\ Len(output'[i]) = Given(i)'
              /\ \A u \in 1 .. Given(i)' : u \in 1 .. Given(i) /\ output'[i][u] = output[i][u]
      BY <1>1, <1>5, <3>1, <3>3, <3>4, PlaceStays
    <3>6. OutputInv' /\ PlaceInv'
      <4>1. DOMAIN output' = DOMAIN deltas
        BY <1>7, <3>1
      <4> QED
        BY <1>1, <1>5, <3>3, <3>4, <3>5, <4>1, OutputGrown
    <3>7. NothingGiven
      BY <2>2 DEF CloneZero, NothingGiven
    <3> QED
      BY <2>2, <3>3, <3>6, <3>7
  <2> QED
    BY <2>1, <2>2
<1> HIDE DEF CloneZero
<1> QED
  BY <1>1, <1>3, <1>4, <1>5, <1>8, BetweenDeltas

-----------------------------------------------------------------------------
(* The text of one unit, for the delta at hand. *)
LEMMA UnitGiven ==
    ASSUME ValueInv, pc = "rotate", NextDelta(AfterRotate), NEW more, Grows(more), MapsGrow,
           NEW text, NEW w, NEW k, w = unit, k = index, ~IsCloneOfInput(k),
           IsText(text, w, Normalized(deltas[k]))', Placed(text, w, k)',
           DOMAIN output' = DOMAIN deltas, output'[k] = Append(output[k], text),
           \A i \in DOMAIN deltas \ {k} : output'[i] = output[i]
    PROVE  OutputInv' /\ PlaceInv'
<1>1. PhaseInv /\ HeapInv /\ OutputInv /\ PlaceInv
  BY DEF ValueInv
<1>2. entry' = entry /\ deltas' = deltas
  BY DEF Grows
<1>3. entry # "chain"
  BY <1>1, AfterRotateInPhase
<1>4. /\ Size \in Nat \ {0} /\ w \in 1 .. Size /\ k \in DOMAIN deltas
      /\ \A i \in DOMAIN deltas : Given(i) \in 0 .. Size
  BY <1>1, CallTyped, GivenTyped DEF PhaseInv
<1>5. \A i \in DOMAIN deltas :
         Given(i)' = IF IsCloneOfInput(i) THEN Size ELSE IF i = k THEN w ELSE Given(i)
  BY <1>1, <1>2, GivenByRotate
<1>6. \A i \in DOMAIN deltas : IsCloneOfInput(i) => Given(i) = Size
  BY DEF Given
<1>7. Given(k) = w - 1 /\ Given(k)' = w
  <2>1. Given(k) = IF k < k THEN w ELSE w - 1
    BY DEF Given
  <2>2. ~(k < k)
    <3>1. k \in Int
      BY <1>1, CallTyped
    <3> QED
      BY <3>1
  <2> QED
    BY <1>4, <1>5, <2>1, <2>2
<1>8. \A i \in DOMAIN deltas : Given(i)' \in 0 .. Size
  BY <1>4, <1>5
<1>9. \A i \in DOMAIN deltas :
              /\ output'[i] \in Seq(Id)' /\ Len(output'[i]) = Given(i)'
              /\ \A u \in 1 .. Given(i)' :
                    \/ u \in 1 .. Given(i) /\ output'[i][u] = output[i][u]
                    \/ IsText(output[i][u], u, Normalized(deltas[i]))' /\ Placed(output[i][u], u, i)'
  <2> SUFFICES ASSUME NEW i \in DOMAIN deltas
               PROVE  /\ output'[i] \in Seq(Id)' /\ Len(output'[i]) = Given(i)'
                      /\ \A u \in 1 .. Given(i)' :
                         \/ u \in 1 .. Given(i) /\ output'[i][u] = output[i][u]
                         \/ /\ IsText(output[i][u], u, Normalized(deltas[i]))'
                            /\ Placed(output[i][u], u, i)'
    OBVIOUS
  <2>1. CASE i # k
    <3>1. output'[i] = output[i] /\ Given(i)' = Given(i)
      BY <1>5, <1>6, <2>1
    <3> QED
      BY <1>1, <1>3, <3>1, PlaceStays
  <2>2. CASE i = k
    <3>1. output[k] \in Seq(Id) /\ Len(output[k]) = w - 1
      BY <1>1, <1>3, <1>4, <1>7 DEF OutputInv
    <3>2. \A id \in Id : id \in Id'
      BY <1>1, Grown DEF HeapInv
    <3>3. text \in Id'
      BY DEF IsText
    <3>4. /\ output'[k] \in Seq(Id') /\ Len(output'[k]) = w
          /\ \A u \in 1 .. w - 1 : output'[k][u] = output[k][u]
          /\ output'[k][w] = text
      <4>1. output[k] \in Seq(Id')
        <5> HIDE DEF Id
        <5> QED
          BY <3>1, <3>2
      <4> DEFINE s == output[k]
      <4>2. s \in Seq(Id') /\ Len(s) = w - 1 /\ output'[k] = Append(s, text)
        BY <3>1, <4>1
      <4>3. w \in Nat
        BY <1>4
      <4> HIDE DEF Id, s
      <4>4. /\ Append(s, text) \in Seq(Id') /\ Len(Append(s, text)) = w
            /\ \A u \in 1 .. w - 1 : Append(s, text)[u] = s[u]
            /\ Append(s, text)[w] = text
        BY <3>3, <4>2, <4>3
      <4> QED
        BY <4>2, <4>4 DEF s
    <3>5. ASSUME NEW u \in 1 .. w, u \notin 1 .. w - 1
          PROVE  IsText(output[k][u], u, Normalized(deltas[k]))' /\ Placed(output[k][u], u, k)'
      <4>1. u = w
        BY <1>4, <3>5
      <4>2. output'[k][u] = text
        BY <3>4, <4>1
      <4> QED
        BY <4>1, <4>2 DEF IsText, Placed, Cloned
    <3> QED
      BY <1>7, <2>2, <3>4, <3>5
  <2> QED
    BY <2>1, <2>2
<1>10. DOMAIN output' = DOMAIN deltas
  OBVIOUS
<1> QED
  BY <1>1, <1>3, <1>8, <1>9, OutputGrown

LEMMA ReuseRotatedKeeps ==
    ASSUME ValueInv, ReuseRotated
    PROVE  ValueInv'
<1> USE DEF ReuseRotated
<1>1. PhaseInv /\ HeapInv /\ MapInv /\ OwnedInv /\ OutputInv /\ PlaceInv
  BY DEF ValueInv
<1>2. /\ NextDelta(AfterRotate) /\ entry' = entry /\ deltas' = deltas
      /\ rotate_input' = rotate_input /\ temp_data' = temp_data /\ heap' = heap
      /\ rotated' = rotated /\ decomposed' = decomposed
      /\ pc = "rotate" /\ entry \in {"unit", "long"} /\ entry # "chain" /\ pc # "prepare"
  OBVIOUS
<1>3. PhaseInv' /\ previous' = 0 /\ pc' \in {"rotate", AfterRotate}
  <2>1. AfterRotate \in Phase[entry]
    BY <1>1, <1>2, AfterRotateInPhase
  <2> QED
    BY <1>1, <1>2, <2>1, PhaseMoves, LoopMoves
<1>4. (Cleared' <=> Cleared) /\ ~Cleared /\ pc' # "prepare"
  BY <1>2, <1>3 DEF Cleared, AfterRotate
<1>5. <<>> \in Seq(Id) /\ temp_data' = temp_data \o <<>> /\ ToSet(<<>>) \subseteq ToSet(temp_data)
  BY <1>1, <1>2 DEF HeapInv, ToSet
<1>6. Grows(<<>>) /\ MapsGrow /\ HeapInv' /\ MapInv' /\ OwnedInv'
  <2> HIDE DEF ReuseRotated
  <2> QED
    BY <1>2, <1>4, <1>5, NoneMade
<1>7. index \in DOMAIN deltas /\ unit \in 1 .. Size /\ DOMAIN output = DOMAIN deltas
  BY <1>1, <1>2 DEF PhaseInv, OutputInv
<1>8. PICK k, w, none : k = index /\ w = unit /\ none = <<>>
  OBVIOUS
<1>9. OutputInv' /\ PlaceInv'
  <2>1. CASE IsCloneOfInput(k)
    <3>1. output' = output
      BY <1>8, <2>1 DEF IsCloneOfInput, Delta
    <3>2. \A i \in DOMAIN deltas : Given(i)' = Given(i) /\ Given(i)' \in 0 .. Size
      <4>1. \A i \in DOMAIN deltas : Given(i) \in 0 .. Size
        BY <1>1, GivenTyped
      <4>2. \A i \in DOMAIN deltas :
              Given(i)' = IF IsCloneOfInput(i) THEN Size ELSE IF i = k THEN unit ELSE Given(i)
        BY <1>1, <1>2, <1>8, GivenByRotate
      <4>3. \A i \in DOMAIN deltas : IsCloneOfInput(i) => Given(i) = Size
        BY <1>2 DEF Given
      <4> QED
        BY <2>1, <4>1, <4>2, <4>3
    <3> HIDE DEF ReuseRotated
    <3>3. \A i \in DOMAIN deltas :
              /\ output'[i] \in Seq(Id)' /\ Len(output'[i]) = Given(i)'
              /\ \A u \in 1 .. Given(i)' : u \in 1 .. Given(i) /\ output'[i][u] = output[i][u]
      BY <1>1, <1>2, <1>6, <3>1, <3>2, PlaceStays
    <3>4. DOMAIN output' = DOMAIN deltas
      BY <1>7, <3>1
    <3> QED
      BY <1>1, <1>2, <1>6, <3>2, <3>3, <3>4, OutputGrown
  <2>2. CASE ~IsCloneOfInput(k)
    <3>1. PICK text : text = rotated[unit][Delta]
      OBVIOUS
    <3>2. /\ DOMAIN output' = DOMAIN deltas /\ output'[k] = Append(output[k], text)
          /\ \A i \in DOMAIN deltas \ {k} : output'[i] = output[i]
      <4>1. output' = [output EXCEPT ![k] = Append(@, text)]
        BY <1>8, <2>2, <3>1 DEF IsCloneOfInput, Delta
      <4> HIDE DEF ReuseRotated
      <4> QED
        BY <1>7, <1>8, <4>1
    <3>3. Normalized(deltas[k]) = Delta /\ Delta \in DOMAIN rotated[unit]
      BY <1>8 DEF Delta, IsRotated
    <3>4. IsText(text, w, Normalized(deltas[k]))
      BY <1>1, <1>2, <1>7, <1>8, <3>1, <3>3 DEF MapInv
    <3> HIDE DEF ReuseRotated
    <3>5. IsText(text, w, Normalized(deltas[k]))'
      BY <1>2, <3>4 DEF IsText, Id
    <3>6. Placed(text, w, k)'
      <4>1. Placed(text, w, k)
        BY <1>2, <1>8, <2>2, <3>1, <3>3 DEF Placed, Batched
      <4> QED
        BY <1>2, <4>1 DEF Placed, Cloned, Batched, IsCloneOfInput
    <3>7. Grows(none)
      BY <1>6, <1>8
    <3> QED
      BY <1>2, <1>6, <1>8, <2>2, <3>2, <3>5, <3>6, <3>7, UnitGiven
  <2> QED
    BY <2>1, <2>2
<1> HIDE DEF ReuseRotated
<1> QED
  BY <1>1, <1>2, <1>3, <1>4, <1>6, <1>9, BetweenDeltas

LEMMA CloneDuplicateKeeps ==
    ASSUME ValueInv, CloneDuplicate
    PROVE  /\ ValueInv'
           /\ IF counter[Delta] > 1 THEN \E more : ClonesGiven(more) ELSE NothingGiven
<1> DEFINE next == IF entry = "unit" THEN "clear" ELSE "done"
<1> USE DEF CloneDuplicate
<1>1. PhaseInv /\ HeapInv /\ MapInv /\ OwnedInv /\ OutputInv /\ PlaceInv
  BY DEF ValueInv
<1>2. /\ NextDelta(next) /\ entry' = entry /\ deltas' = deltas /\ rotate_input' = rotate_input
      /\ temp_data' = temp_data /\ rotated' = rotated /\ decomposed' = decomposed
      /\ pc = "clone" /\ pc # "prepare"
  OBVIOUS
<1>3. entry \in {"unit", "long"} /\ entry # "chain"
  BY <1>1, <1>2 DEF PhaseInv, Phase, Entry
<1>4. PhaseInv' /\ previous' = 0 /\ pc' \in {"clone", next}
  <2>1. next \in Phase[entry]
    BY <1>3 DEF Phase
  <2> HIDE DEF next
  <2> QED
    BY <1>1, <1>2, <2>1, PhaseMoves, LoopMoves
<1>5. (Cleared' <=> Cleared) /\ pc' # "prepare" /\ (Cleared <=> entry = "long")
  BY <1>2, <1>3, <1>4 DEF Cleared
<1>6. \A i \in DOMAIN deltas : Given(i)' = Size /\ Given(i) = Size
  <2>1. Size' = Size
    BY <1>2, CallSame
  <2>2. \A i : Given(i) = Size
    BY <1>2, GivenAtEnd
  <2>3. pc' \notin {"prepare", "clone_zero", "rotate"}
    BY <1>4
  <2>4. \A i : Given(i)' = Size'
    BY <2>3 DEF Given
  <2> QED
    BY <2>1, <2>2, <2>4
<1>7. index \in DOMAIN deltas /\ DOMAIN output = DOMAIN deltas /\ Size \in Nat \ {0}
      /\ Delta = Normalized(deltas[index])
  BY <1>1, CallTyped DEF PhaseInv, OutputInv, Delta
<1> HIDE DEF CloneDuplicate
<1>8. /\ HeapInv' /\ MapInv' /\ OwnedInv' /\ OutputInv' /\ PlaceInv'
      /\ IF counter[Delta] > 1 THEN \E more : ClonesGiven(more) ELSE NothingGiven
  <2>1. CASE counter[Delta] > 1
    <3>1. PICK more : more = [u \in 1 .. Size |-> Copy(output[index][u], "cloned")]
      OBVIOUS
    <3>2. /\ heap' = heap \o more
          /\ output' = [output EXCEPT ![index] = NewIds(Size)]
      BY <2>1, <3>1 DEF CloneDuplicate
    <3>3. PICK source, d : source = output[index] /\ d = Delta
      OBVIOUS
    <3>4. \A u \in 1 .. Size : IsText(source[u], u, d) /\ Placed(source[u], u, index)
      BY <1>1, <1>3, <1>6, <1>7, <3>3 DEF OutputInv, PlaceInv
    <3>5. \A u \in 1 .. Size : IsAlive(source[u])
      <4>1. CASE entry = "unit"
        <5>1. \A id \in Id : IsAlive(id)
          BY <1>1, <1>5, <4>1 DEF OwnedInv
        <5> QED
          BY <3>4, <5>1 DEF IsText
      <4>2. CASE entry = "long"
        <5> SUFFICES ASSUME NEW u \in 1 .. Size PROVE IsAlive(source[u])
          OBVIOUS
        <5>1. PICK id : id = source[u]
          OBVIOUS
        <5>2. id \in Id /\ heap[id].delta = d /\ Placed(id, u, index)
          BY <3>4, <5>1 DEF IsText
        <5>3. d \in Requested
          BY <1>7, <3>3, <4>2 DEF Requested, ToSet
        <5>4. heap[id].made = "cloned" \/ heap[id].made = "rotated"
          <6>1. ASSUME ~Cloned(id) PROVE heap[id].made = "rotated"
            <7>1. d # 0 /\ d \in DOMAIN rotated[u] /\ id = rotated[u][d]
              BY <1>7, <3>3, <4>2, <5>2, <6>1 DEF Placed, IsCloneOfInput
            <7> QED
              BY <1>1, <1>2, <1>3, <7>1 DEF MapInv
          <6> QED
            BY <6>1 DEF Cloned
        <5>5. ~Temporary(heap[id])
          BY <5>2, <5>3, <5>4 DEF Temporary
        <5>6. IsAlive(id)
          BY <1>1, <1>3, <1>5, <4>2, <5>2, <5>5 DEF OwnedInv
        <5> QED
          BY <5>1, <5>6
      <4> QED
        BY <1>3, <4>1, <4>2
    <3>6. /\ more \in Seq(Objects) /\ Len(more) = Size
          /\ \A u \in 1 .. Size : more[u] = Object(u, d, "cloned")
          /\ \A n \in 1 .. Len(more) : more[n].deletions = 0
      <4>1. "cloned" \in Made
        BY DEF Made
      <4>2. AreCopies(more, source, d, "cloned")
        BY <3>1, <3>3, <3>4, <3>5 DEF AreCopies
      <4> QED
        BY <1>1, <4>1, <4>2, CopiesMade
    <3>7. Grows(more)
      BY <1>2, <3>2, <3>6 DEF Grows
    <3>8. PICK ids : ids = NewIds(Size)
      OBVIOUS
    <3>9. DOMAIN output' = DOMAIN deltas /\ output'[index] = ids
          /\ \A i \in DOMAIN deltas \ {index} : output'[i] = output[i]
      BY <1>7, <3>2, <3>8
    <3>10. \A i \in DOMAIN deltas : Given(i)' = IF i = index THEN Size ELSE Given(i)
      BY <1>6
    <3>11. \A u \in 1 .. Size : more[u] = Object(u, Delta, "cloned")
      BY <3>3, <3>6
    <3>12. HeapInv' /\ MapInv' /\ OwnedInv' /\ OutputInv' /\ PlaceInv'
      BY <1>2, <1>3, <1>5, <3>6, <3>7, <3>8, <3>9, <3>10, <3>11, ClonesKept
    <3>13. ClonesGiven(more)
      BY <3>6, <3>7, <3>8, <3>9, <3>11 DEF ClonesGiven
    <3> QED
      BY <2>1, <3>12, <3>13
  <2>2. CASE ~(counter[Delta] > 1)
    <3>1. heap' = heap /\ output' = output
      BY <2>2 DEF CloneDuplicate
    <3>2. <<>> \in Seq(Id) /\ temp_data' = temp_data \o <<>> /\ ToSet(<<>>) \subseteq ToSet(temp_data)
      BY <1>1, <1>2 DEF HeapInv, ToSet
    <3>3. Grows(<<>>) /\ MapsGrow /\ HeapInv' /\ MapInv' /\ OwnedInv'
      BY <1>2, <1>3, <1>5, <3>1, <3>2, NoneMade
    <3>4. \A i \in DOMAIN deltas : Given(i)' = Given(i) /\ Given(i)' \in 0 .. Size
      BY <1>6, <1>7
    <3>5. \A i \in DOMAIN deltas :
              /\ output'[i] \in Seq(Id)' /\ Len(output'[i]) = Given(i)'
              /\ \A u \in 1 .. Given(i)' : u \in 1 .. Given(i) /\ output'[i][u] = output[i][u]
      BY <1>1, <1>3, <3>1, <3>3, <3>4, PlaceStays
    <3>6. DOMAIN output' = DOMAIN deltas
      BY <1>7, <3>1
    <3>7. OutputInv' /\ PlaceInv'
      BY <1>1, <1>3, <3>3, <3>4, <3>5, <3>6, OutputGrown
    <3>8. NothingGiven
      BY <2>2 DEF CloneDuplicate, NothingGiven
    <3> QED
      BY <2>2, <3>3, <3>7, <3>8
  <2> QED
    BY <2>1, <2>2
<1> QED
  BY <1>1, <1>2, <1>3, <1>4, <1>5, <1>8, BetweenDeltas

-----------------------------------------------------------------------------
(***************************************************************************)
(* A rotation of a text, after a decomposition of it if there is none.      *)
(***************************************************************************)
RotationOf(result, source, parts, split, key, w, d) ==
    /\ IsText(source, w, d) /\ IsAlive(source)
    /\ \/ parts = <<>> /\ IsText(split, w, d)
       \/ parts = NewIds(1) /\ split = Len(heap) + 1
    /\ LET heap1 == heap \o [n \in DOMAIN parts |-> Copy(source, "decomposed")]
       IN  result = Append(heap1, Rotation(heap1[source], heap1[split], key))

LEMMA RotationMade ==
    ASSUME PhaseInv, HeapInv, NEW result, NEW source, NEW parts, NEW split, NEW key \in Int,
           NEW w, NEW d, RotationOf(result, source, parts, split, key, w, d)
    PROVE  \E more \in Seq(Objects) :
              /\ result = heap \o more
              /\ \A n \in 1 .. Len(more) : more[n].deletions = 0
              /\ Len(more) = IF parts = <<>> THEN 1 ELSE 2
              /\ more[Len(more)] = Object(w, Normalized(d + key), "rotated")
              /\ parts # <<>> => more[1] = Object(w, d, "decomposed")
<1> DEFINE part == Object(w, d, "decomposed")
           turned == Object(w, Normalized(d + key), "rotated")
<1> USE DEF RotationOf
<1>1. heap \in Seq(Objects) /\ source \in Id /\ heap[source].unit = w /\ heap[source].delta = d
  BY DEF HeapInv, IsText
<1>2. heap[source] \in Objects /\ Len(heap) \in Nat /\ source \in 1 .. Len(heap)
  <2> HIDE DEF Objects
  <2> QED
    BY <1>1 DEF Id
<1>3. w \in 1 .. Size /\ d \in 0 .. SlotCount - 1
  BY <1>1, <1>2 DEF Objects
<1>4. part \in Objects /\ part.deletions = 0 /\ part.unit = w /\ part.delta = d
  BY <1>3 DEF Object, Objects, Made
<1>5. turned \in Objects /\ turned.deletions = 0
  <2>1. Normalized(d + key) \in 0 .. SlotCount - 1
    <3>1. PICK sum : sum = d + key
      OBVIOUS
    <3>2. sum \in Int
      BY <1>3, <3>1, KeysTyped
    <3> QED
      BY <3>1, <3>2, NormalizedRange
  <2> QED
    BY <1>3, <2>1 DEF Object, Objects, Made
<1>6. Copy(source, "decomposed") = part
  BY <1>1 DEF Copy
<1>7. \A text, of : text.unit = w /\ text.delta = d /\ of.delta = d => Rotation(text, of, key) = turned
  <2>1. d # Garbage
    BY <1>3, KeysTyped DEF Garbage
  <2> QED
    BY <2>1 DEF Rotation
<1> HIDE DEF part, turned, Objects
<1>8. CASE parts = <<>>
  <2>1. PICK made : made = [n \in DOMAIN parts |-> Copy(source, "decomposed")]
    OBVIOUS
  <2>2. made = <<>>
    BY <1>8, <2>1
  <2>3. heap \o made = heap
    BY <1>1, <2>2
  <2>4. IsText(split, w, d)
    <3>1. NewIds(1) # <<>>
      <4>1. 1 \in DOMAIN NewIds(1) /\ 1 \notin DOMAIN <<>>
        BY DEF NewIds
      <4> QED
        BY <4>1
    <3> QED
      BY <1>8, <3>1
  <2>5. result = Append(heap, Rotation(heap[source], heap[split], key))
    BY <2>1, <2>3
  <2>6. result = Append(heap, turned)
    BY <1>1, <1>7, <2>4, <2>5 DEF IsText
  <2> HIDE DEF RotationOf
  <2>7. /\ <<turned>> \in Seq(Objects) /\ Len(<<turned>>) = 1 /\ <<turned>>[1] = turned
        /\ heap \o <<turned>> = Append(heap, turned)
    BY <1>1, <1>5
  <2>8. PICK more : more = <<turned>>
    OBVIOUS
  <2>9. /\ more \in Seq(Objects) /\ Len(more) = 1 /\ more[1] = turned
        /\ result = heap \o more
    BY <2>6, <2>7, <2>8
  <2>10. \A n \in 1 .. Len(more) : more[n].deletions = 0
    BY <1>5, <2>9
  <2> QED
    BY <1>8, <2>9, <2>10 DEF turned
<1>9. CASE parts # <<>>
  <2>1. parts = NewIds(1) /\ split = Len(heap) + 1 /\ DOMAIN parts = {1}
    BY <1>9 DEF NewIds
  <2>2. PICK made : made = [n \in DOMAIN parts |-> Copy(source, "decomposed")]
    OBVIOUS
  <2>3. made = <<part>>
    BY <1>6, <2>1, <2>2
  <2>4. PICK heap1 : heap1 = heap \o made
    OBVIOUS
  <2>5. result = Append(heap1, Rotation(heap1[source], heap1[split], key))
    BY <2>2, <2>4
  <2> HIDE DEF RotationOf
  <2>6. /\ heap1 \in Seq(Objects) /\ Len(heap1) = Len(heap) + 1
        /\ heap1[source] = heap[source] /\ heap1[split] = part
    BY <1>1, <1>2, <1>4, <2>1, <2>3, <2>4
  <2>7. result = Append(heap1, turned)
    BY <1>1, <1>4, <1>7, <2>5, <2>6
  <2>8. /\ <<part, turned>> \in Seq(Objects) /\ Len(<<part, turned>>) = 2
        /\ <<part, turned>>[1] = part /\ <<part, turned>>[2] = turned
        /\ heap \o <<part, turned>> = Append(heap1, turned)
    BY <1>1, <1>4, <1>5, <2>3, <2>4, <2>6
  <2>9. PICK more : more = <<part, turned>>
    OBVIOUS
  <2>10. /\ more \in Seq(Objects) /\ Len(more) = 2 /\ more[1] = part /\ more[2] = turned
         /\ result = heap \o more
    BY <2>7, <2>8, <2>9
  <2>11. \A n \in 1 .. Len(more) : more[n].deletions = 0
    BY <1>4, <1>5, <2>10
  <2> QED
    BY <1>9, <2>10, <2>11 DEF turned, part
<1> QED
  BY <1>8, <1>9

Distinct(list) == \A m, n \in DOMAIN list : list[m] = list[n] => m = n

(***************************************************************************)
(* What such a step makes of the maps and of temp_data_: more is what it    *)
(* makes, its last the rotation by r of the unit w.                         *)
(***************************************************************************)
Rotates(more, text, w, d, r) ==
    LET temporary == {Len(heap) + n : n \in {m \in 1 .. Len(more) : Temporary(more[m])}}
    IN  /\ Grows(more) /\ text = Len(heap) + Len(more)
        /\ more[Len(more)] = Object(w, r, "rotated")
        /\ DOMAIN decomposed' = 1 .. Size
        /\ \A u \in (1 .. Size) \ {w} : decomposed'[u] = decomposed[u]
        /\ \/ Len(more) = 1 /\ decomposed'[w] = decomposed[w]
           \/ /\ Len(more) = 2 /\ more[1] = Object(w, d, "decomposed")
              /\ d \notin DOMAIN decomposed[w]
              /\ decomposed'[w] = With(decomposed[w], d, Len(heap) + 1)
        /\ IF entry = "fixed" THEN rotated' = rotated
           ELSE /\ r \notin DOMAIN rotated[w] /\ DOMAIN rotated' = 1 .. Size
                /\ \A u \in (1 .. Size) \ {w} : rotated'[u] = rotated[u]
                /\ rotated'[w] = With(rotated[w], r, text)
        /\ \E added \in Seq(Id') : temp_data' = temp_data \o added /\ ToSet(added) = temporary
                                       /\ Distinct(added)
        /\ rotate_input' = rotate_input /\ pc' # "prepare"

LEMMA RotationKept ==
    ASSUME ValueInv, pc = "rotate", entry # "chain", Cleared' <=> Cleared,
           NEW w \in 1 .. Size, NEW d, NEW r, NEW more, NEW text, Rotates(more, text, w, d, r)
    PROVE  /\ Grows(more) /\ MapsGrow /\ HeapInv' /\ MapInv' /\ OwnedInv'
           /\ IsText(text, w, r)' /\ heap'[text].made = "rotated"
<1> USE DEF Rotates
<1>1. PhaseInv /\ HeapInv /\ MapInv /\ OwnedInv
  BY DEF ValueInv
<1>2. /\ Grows(more) /\ rotate_input' = rotate_input /\ pc' # "prepare" /\ pc # "prepare"
      /\ Len(more) \in {1, 2} /\ more[Len(more)] = Object(w, r, "rotated")
  OBVIOUS
<1>3. text = Len(heap) + Len(more)
  OBVIOUS
<1>4. /\ Len(heap) \in Nat /\ heap \in Seq(Objects)
      /\ \A n \in 1 .. Len(more) : Len(heap) + n \in Id' /\ heap'[Len(heap) + n] = more[n]
  BY <1>1, <1>2, Grown DEF HeapInv
<1>5. /\ text \in Id' /\ heap'[text] = Object(w, r, "rotated")
      /\ 1 \in 1 .. Len(more) /\ Len(more) \in 1 .. Len(more)
  <2> HIDE DEF Rotates
  <2>1. 1 \in 1 .. Len(more) /\ Len(more) \in 1 .. Len(more)
    <3>1. PICK n : n = Len(more)
      OBVIOUS
    <3>2. n \in {1, 2}
      BY <1>2, <3>1
    <3>3. 1 \in 1 .. n /\ n \in 1 .. n
      BY <3>2
    <3> QED
      BY <3>1, <3>3
  <2> QED
    BY <1>2, <1>3, <1>4, <2>1
<1>6. \A n \in 1 .. Len(more) : n = Len(more) \/ (n = 1 /\ Len(more) = 2)
  BY <1>2
<1>7. /\ DOMAIN rotated = 1 .. Size /\ DOMAIN decomposed = 1 .. Size
      /\ \A u \in 1 .. Size : 0 \in DOMAIN rotated[u]
  BY <1>1, <1>2 DEF MapInv
<1>8. \/ /\ entry = "fixed" /\ rotated' = rotated
      \/ /\ entry # "fixed" /\ r \notin DOMAIN rotated[w] /\ r # 0
         /\ DOMAIN rotated' = 1 .. Size
         /\ DOMAIN rotated'[w] = DOMAIN rotated[w] \cup {r} /\ rotated'[w][r] = text
         /\ \A d1 \in DOMAIN rotated[w] : rotated'[w][d1] = rotated[w][d1]
         /\ \A u \in (1 .. Size) \ {w} : rotated'[u] = rotated[u]
  <2>1. CASE entry = "fixed"
    BY <2>1
  <2>2. CASE entry # "fixed"
    <3>1. r \notin DOMAIN rotated[w]
      BY <2>2
    <3>2. DOMAIN rotated' = 1 .. Size /\ rotated'[w] = With(rotated[w], r, text)
          /\ \A u \in (1 .. Size) \ {w} : rotated'[u] = rotated[u]
      BY <2>2
    <3> HIDE DEF Rotates
    <3>3. PICK map, grown : map = rotated[w] /\ grown = With(map, r, text)
      OBVIOUS
    <3>6. /\ DOMAIN grown = DOMAIN map \cup {r} /\ grown[r] = text
          /\ \A k \in DOMAIN map \ {r} : grown[k] = map[k]
      BY <3>3 DEF With
    <3>7. rotated'[w] = grown
      BY <3>2, <3>3
    <3>4. /\ DOMAIN rotated'[w] = DOMAIN map \cup {r} /\ rotated'[w][r] = text
          /\ \A k \in DOMAIN map \ {r} : rotated'[w][k] = map[k]
      BY <3>6, <3>7
    <3>5. r # 0
      BY <1>7, <3>1
    <3> QED
      BY <2>2, <3>1, <3>2, <3>3, <3>4, <3>5
  <2> QED
    BY <2>1, <2>2
<1>9. \/ /\ Len(more) = 1 /\ DOMAIN decomposed' = 1 .. Size
         /\ \A u \in 1 .. Size : decomposed'[u] = decomposed[u]
      \/ /\ Len(more) = 2 /\ more[1] = Object(w, d, "decomposed") /\ d \notin DOMAIN decomposed[w]
         /\ DOMAIN decomposed' = 1 .. Size
         /\ DOMAIN decomposed'[w] = DOMAIN decomposed[w] \cup {d}
         /\ decomposed'[w][d] = Len(heap) + 1
         /\ \A d1 \in DOMAIN decomposed[w] : decomposed'[w][d1] = decomposed[w][d1]
         /\ \A u \in (1 .. Size) \ {w} : decomposed'[u] = decomposed[u]
  <2>1. CASE Len(more) = 1
    BY <2>1
  <2>2. CASE Len(more) = 2
    <3>1. d \notin DOMAIN decomposed[w] /\ more[1] = Object(w, d, "decomposed")
      BY <2>2
    <3>2. DOMAIN decomposed' = 1 .. Size /\ decomposed'[w] = With(decomposed[w], d, Len(heap) + 1)
          /\ \A u \in (1 .. Size) \ {w} : decomposed'[u] = decomposed[u]
      BY <2>2
    <3> HIDE DEF Rotates
    <3>3. PICK map, id, grown : map = decomposed[w] /\ id = Len(heap) + 1 /\ grown = With(map, d, id)
      OBVIOUS
    <3>6. /\ DOMAIN grown = DOMAIN map \cup {d} /\ grown[d] = id
          /\ \A k \in DOMAIN map \ {d} : grown[k] = map[k]
      BY <3>3 DEF With
    <3>7. decomposed'[w] = grown
      BY <3>2, <3>3
    <3>4. /\ DOMAIN decomposed'[w] = DOMAIN map \cup {d} /\ decomposed'[w][d] = id
          /\ \A k \in DOMAIN map \ {d} : decomposed'[w][k] = map[k]
      BY <3>6, <3>7
    <3> QED
      BY <2>2, <3>1, <3>2, <3>3, <3>4
  <2> QED
    BY <1>2, <2>1, <2>2
<1>10. PICK added \in Seq(Id') : temp_data' = temp_data \o added
          /\ ToSet(added) = {Len(heap) + n : n \in {m \in 1 .. Len(more) : Temporary(more[m])}}
  OBVIOUS
<1> HIDE DEF Rotates
<1>11. MapsGrow
  <2>1. DOMAIN rotated' = 1 .. Size /\ DOMAIN decomposed' = 1 .. Size
    BY <1>7, <1>8, <1>9
  <2>2. \A u \in 1 .. Size : \A d1 \in DOMAIN rotated[u] :
           d1 \in DOMAIN rotated'[u] /\ rotated'[u][d1] = rotated[u][d1]
    BY <1>8
  <2>3. \A u \in 1 .. Size : \A d1 \in DOMAIN decomposed[u] :
           d1 \in DOMAIN decomposed'[u] /\ decomposed'[u][d1] = decomposed[u][d1]
    BY <1>9
  <2> QED
    BY <2>1, <2>2, <2>3 DEF MapsGrow
<1>12. HeapInv'
  <2>1. added \in Seq(Id)'
    OBVIOUS
  <2> QED
    BY <1>1, <1>2, <1>10, <2>1, HeapGrown
<1>13. MapInv'
  <2>1. \A u \in 1 .. Size : \A d1 \in DOMAIN rotated'[u] \ DOMAIN rotated[u] :
              IsText(rotated[u][d1], u, d1)' /\ heap'[rotated'[u][d1]].made = "rotated"
    <3> SUFFICES ASSUME NEW u \in 1 .. Size, NEW d1 \in DOMAIN rotated'[u] \ DOMAIN rotated[u]
                 PROVE  IsText(rotated[u][d1], u, d1)' /\ heap'[rotated'[u][d1]].made = "rotated"
      OBVIOUS
    <3>1. u = w /\ d1 = r /\ rotated'[u][d1] = text
      BY <1>8
    <3> QED
      BY <1>5, <3>1 DEF IsText, Object
  <2>2. \A u \in 1 .. Size : \A d1 \in DOMAIN decomposed'[u] \ DOMAIN decomposed[u] :
              IsText(decomposed[u][d1], u, d1)' /\ heap'[decomposed'[u][d1]].made = "decomposed"
    <3> SUFFICES ASSUME NEW u \in 1 .. Size, NEW d1 \in DOMAIN decomposed'[u] \ DOMAIN decomposed[u]
                 PROVE  IsText(decomposed[u][d1], u, d1)' /\ heap'[decomposed'[u][d1]].made = "decomposed"
      OBVIOUS
    <3>1. u = w /\ d1 = d /\ decomposed'[u][d1] = Len(heap) + 1 /\ more[1] = Object(w, d, "decomposed")
      BY <1>9
    <3>2. Len(heap) + 1 \in Id' /\ heap'[Len(heap) + 1] = Object(w, d, "decomposed")
      BY <1>4, <1>5, <3>1
    <3> QED
      BY <3>1, <3>2 DEF IsText, Object
  <2>3. \A n \in 1 .. Len(more) : more[n].made = "decomposed" =>
              /\ more[n].delta \in DOMAIN decomposed'[more[n].unit]
              /\ decomposed'[more[n].unit][more[n].delta] = Len(heap) + n
    <3> SUFFICES ASSUME NEW n \in 1 .. Len(more), more[n].made = "decomposed"
                 PROVE  /\ more[n].delta \in DOMAIN decomposed'[more[n].unit]
                        /\ decomposed'[more[n].unit][more[n].delta] = Len(heap) + n
      OBVIOUS
    <3>1. n # Len(more)
      BY <1>2 DEF Object
    <3>2. n = 1 /\ Len(more) = 2
      BY <1>6, <3>1
    <3>3. more[n] = Object(w, d, "decomposed") /\ d \in DOMAIN decomposed'[w]
          /\ decomposed'[w][d] = Len(heap) + 1
      BY <1>9, <3>2
    <3> QED
      BY <3>2, <3>3 DEF Object
  <2>4. entry # "fixed" => \A n \in 1 .. Len(more) : more[n].made = "rotated" =>
              /\ more[n].delta \in DOMAIN rotated'[more[n].unit] \ {0}
              /\ rotated'[more[n].unit][more[n].delta] = Len(heap) + n
    <3> SUFFICES ASSUME entry # "fixed", NEW n \in 1 .. Len(more), more[n].made = "rotated"
                 PROVE  /\ more[n].delta \in DOMAIN rotated'[more[n].unit] \ {0}
                        /\ rotated'[more[n].unit][more[n].delta] = Len(heap) + n
      OBVIOUS
    <3>1. n = Len(more)
      <4>1. ASSUME n = 1, Len(more) = 2 PROVE FALSE
        <5>1. more[n] = Object(w, d, "decomposed")
          BY <1>9, <4>1
        <5> QED
          BY <5>1 DEF Object
      <4> QED
        BY <1>6, <4>1
    <3>2. more[n] = Object(w, r, "rotated") /\ Len(heap) + n = text
      BY <1>2, <1>3, <3>1
    <3> QED
      BY <1>8, <3>2 DEF Object
  <2> QED
    BY <1>1, <1>2, <1>11, <2>1, <2>2, <2>3, <2>4, MapGrown
<1>14. OwnedInv'
  <2>1. ~Cleared
    BY DEF Cleared
  <2>2. temp_data \in Seq(Id') /\ added \in Seq(Id')
    <3>1. temp_data \in Seq(Id)
      BY <1>1 DEF HeapInv
    <3>2. \A id \in Id : id \in Id'
      BY <1>2, <1>4, Grown
    <3> HIDE DEF Id
    <3> QED
      BY <3>1, <3>2
  <2>3. ToSet(temp_data') = ToSet(temp_data) \cup ToSet(added)
    <3> HIDE DEF Id
    <3> QED
      BY <1>10, <2>2, Joined
  <2>4. \A id : id \in ToSet(temp_data') <=>
              \/ id \in ToSet(temp_data)
              \/ \E n \in 1 .. Len(more) : id = Len(heap) + n /\ Temporary(more[n])
    BY <1>10, <2>3
  <2> QED
    BY <1>1, <1>2, <2>1, <2>4, OwnedGrown
<1>15. IsText(text, w, r)' /\ heap'[text].made = "rotated"
  BY <1>5 DEF IsText, Object
<1> QED
  BY <1>2, <1>11, <1>12, <1>13, <1>14, <1>15

(* What a step does that rotates one unit. *)
Turns(source, parts, split, key, last, text, w, d, r) ==
    /\ entry' = entry /\ deltas' = deltas /\ rotate_input' = rotate_input /\ pc' # "prepare"
    /\ RotationOf(heap', source, parts, split, key, w, d)
    /\ r = Normalized(d + key) /\ text = Len(heap')
    /\ DOMAIN decomposed' = 1 .. Size
    /\ \A u \in (1 .. Size) \ {w} : decomposed'[u] = decomposed[u]
    /\ IF d \in DOMAIN decomposed[w]
         THEN parts = <<>> /\ decomposed'[w] = decomposed[w]
         ELSE parts = NewIds(1) /\ decomposed'[w] = With(decomposed[w], d, Len(heap) + 1)
    /\ IF entry = "fixed" THEN rotated' = rotated
       ELSE /\ r \notin DOMAIN rotated[w] /\ DOMAIN rotated' = 1 .. Size
            /\ \A u \in (1 .. Size) \ {w} : rotated'[u] = rotated[u]
            /\ rotated'[w] = With(rotated[w], r, text)
    /\ last = IF Batched /\ r \notin Requested THEN <<text>> ELSE <<>>
    /\ temp_data' = temp_data \o (parts \o last)

LEMMA TurnsRotates ==
    ASSUME PhaseInv, HeapInv, NEW source, NEW parts, NEW split, NEW key \in Int, NEW last,
           NEW text, NEW w, NEW d, NEW r, Turns(source, parts, split, key, last, text, w, d, r)
    PROVE  \E more : /\ Rotates(more, text, w, d, r)
                     /\ Len(more) = IF parts = <<>> THEN 1 ELSE 2
<1>1. PICK result : result = heap'
  OBVIOUS
<1>2. RotationOf(result, source, parts, split, key, w, d)
  BY <1>1 DEF Turns
<1>3. PICK more \in Seq(Objects) :
              /\ result = heap \o more
              /\ \A n \in 1 .. Len(more) : more[n].deletions = 0
              /\ Len(more) = IF parts = <<>> THEN 1 ELSE 2
              /\ more[Len(more)] = Object(w, Normalized(d + key), "rotated")
              /\ parts # <<>> => more[1] = Object(w, d, "decomposed")
  BY <1>2, RotationMade
<1>4. Grows(more)
  BY <1>1, <1>3 DEF Grows, Turns
<1>5. heap \in Seq(Objects)
  BY DEF HeapInv
<1>6. text = Len(heap) + Len(more)
  BY <1>4, <1>5, Grown DEF Turns
<1>7. r = Normalized(d + key)
  BY DEF Turns
<1>8. (parts = <<>> <=> d \in DOMAIN decomposed[w]) /\ (parts # <<>> => parts = NewIds(1))
  <2>1. NewIds(1) # <<>>
    <3>1. 1 \in DOMAIN NewIds(1) /\ 1 \notin DOMAIN <<>>
      BY DEF NewIds
    <3> QED
      BY <3>1
  <2> QED
    BY <2>1 DEF Turns
<1>9. \/ Len(more) = 1 /\ decomposed'[w] = decomposed[w]
      \/ /\ Len(more) = 2 /\ more[1] = Object(w, d, "decomposed")
         /\ d \notin DOMAIN decomposed[w]
         /\ decomposed'[w] = With(decomposed[w], d, Len(heap) + 1)
  BY <1>3, <1>8 DEF Turns
<1>10. /\ Len(heap) \in Nat /\ Len(more) \in Nat
       /\ \A n \in 1 .. Len(more) : Len(heap) + n \in Id'
  BY <1>4, <1>5, Grown
<1>11. PICK added : added = parts \o last
  OBVIOUS
<1>12. added \in Seq(Id')
          /\ ToSet(added) = {Len(heap) + n : n \in {m \in 1 .. Len(more) : Temporary(more[m])}}
  <2> DEFINE count == Len(more)
  <2>1. last = IF Temporary(more[count]) THEN <<text>> ELSE <<>>
    BY <1>3, <1>7 DEF Turns, Temporary, Object
  <2>2. CASE parts = <<>>
    <3>1. count = 1 /\ added = last /\ text \in Id'
      BY <1>3, <1>6, <1>10, <1>11, <2>1, <2>2
    <3>2. {m \in 1 .. Len(more) : Temporary(more[m])} = IF Temporary(more[1]) THEN {1} ELSE {}
      BY <3>1
    <3>3. ToSet(<<text>>) = {text} /\ ToSet(<<>>) = {}
      BY DEF ToSet
    <3>4. text = Len(heap) + 1
      BY <1>6, <3>1
    <3> HIDE DEF Id, count
    <3> QED
      BY <2>1, <3>1, <3>2, <3>3, <3>4
  <2>3. CASE parts # <<>>
    <3>1. count = 2 /\ parts = <<Len(heap) + 1>> /\ text \in Id' /\ Len(heap) + 1 \in Id'
          /\ Temporary(more[1])
      <4>1. count = 2 /\ parts = NewIds(1)
        BY <1>3, <1>8, <2>3
      <4>2. NewIds(1) = <<Len(heap) + 1>>
        BY <1>10 DEF NewIds
      <4>3. Temporary(more[1])
        BY <1>3, <2>3 DEF Temporary, Object
      <4> QED
        BY <1>6, <1>10, <4>1, <4>2, <4>3
    <3>2. {m \in 1 .. Len(more) : Temporary(more[m])} = IF Temporary(more[2]) THEN {1, 2} ELSE {1}
      BY <3>1
    <3>3. text = Len(heap) + 2
      BY <1>6, <3>1
    <3>4. PICK a : a = Len(heap) + 1
      OBVIOUS
    <3>5. added = IF Temporary(more[2]) THEN <<a, text>> ELSE <<a>>
      BY <1>11, <2>1, <3>1, <3>4
    <3>6. ToSet(<<a, text>>) = {a, text} /\ ToSet(<<a>>) = {a}
      BY DEF ToSet
    <3>7. PICK base : base = Len(heap)
      OBVIOUS
    <3>8. {base + n : n \in {1, 2}} = {a, text} /\ {base + n : n \in {1}} = {a}
      BY <3>3, <3>4, <3>7
    <3> DEFINE chosen == {m \in 1 .. Len(more) : Temporary(more[m])}
    <3>9. ToSet(added) = {base + n : n \in chosen}
      <4> HIDE DEF chosen, Id, count
      <4>1. chosen = IF Temporary(more[2]) THEN {1, 2} ELSE {1}
        BY <3>2 DEF chosen
      <4> QED
        BY <3>5, <3>6, <3>8, <4>1
    <3>10. added \in Seq(Id')
      <4> HIDE DEF Id
      <4> QED
        BY <3>1, <3>4, <3>5
    <3> QED
      BY <3>7, <3>9, <3>10
  <2> QED
    BY <2>2, <2>3
<1>17. Distinct(added)
  <2>1. CASE parts = <<>>
    <3>1. added = last /\ (last = <<text>> \/ last = <<>>)
      BY <1>11, <2>1 DEF Turns
    <3> QED
      BY <3>1 DEF Distinct
  <2>2. CASE parts # <<>>
    <3>1. Len(more) = 2 /\ parts = <<Len(heap) + 1>>
      <4>1. NewIds(1) = <<Len(heap) + 1>>
        BY <1>10 DEF NewIds
      <4> QED
        BY <1>3, <1>8, <2>2, <4>1
    <3>2. PICK a : a = Len(heap) + 1
      OBVIOUS
    <3>3. a # text
      BY <1>6, <1>10, <3>1, <3>2
    <3>4. added = parts \o last /\ (last = <<text>> \/ last = <<>>)
      BY <1>11 DEF Turns
    <3>5. a \in Int /\ text \in Int
      BY <1>6, <1>10, <3>2
    <3>6. CASE last = <<text>>
      <4>1. parts \in Seq(Int) /\ last \in Seq(Int) /\ Len(parts) = 1 /\ Len(last) = 1
            /\ parts[1] = a /\ last[1] = text
        BY <3>1, <3>2, <3>5, <3>6
      <4>2. added \in Seq(Int) /\ Len(added) = 2 /\ added[1] = a /\ added[2] = text
        <5>1. /\ parts \o last \in Seq(Int) /\ Len(parts \o last) = 1 + 1
              /\ \A n \in 1 .. 1 : (parts \o last)[n] = parts[n]
              /\ \A n \in 1 .. 1 : (parts \o last)[1 + n] = last[n]
          <6> HIDE DEF Objects, Id
          <6> QED
            BY <4>1, Joined
        <5> QED
          BY <3>4, <4>1, <5>1
      <4>3. DOMAIN added = {1, 2}
        BY <4>2
      <4> QED
        BY <3>3, <4>2, <4>3 DEF Distinct
    <3>7. CASE last = <<>>
      <4>1. added = <<a>>
        BY <3>1, <3>2, <3>4, <3>5, <3>7
      <4> QED
        BY <4>1 DEF Distinct
    <3> QED
      BY <3>4, <3>6, <3>7
  <2> QED
    BY <2>1, <2>2
<1>13. /\ DOMAIN decomposed' = 1 .. Size
       /\ \A u \in (1 .. Size) \ {w} : decomposed'[u] = decomposed[u]
       /\ rotate_input' = rotate_input /\ pc' # "prepare"
       /\ temp_data' = temp_data \o added
  BY <1>11 DEF Turns
<1>14. IF entry = "fixed" THEN rotated' = rotated
       ELSE /\ r \notin DOMAIN rotated[w] /\ DOMAIN rotated' = 1 .. Size
            /\ \A u \in (1 .. Size) \ {w} : rotated'[u] = rotated[u]
            /\ rotated'[w] = With(rotated[w], r, text)
  BY DEF Turns
<1>15. more[Len(more)] = Object(w, r, "rotated")
  BY <1>3, <1>7
<1>16. Rotates(more, text, w, d, r)
  BY <1>4, <1>6, <1>9, <1>12, <1>13, <1>14, <1>15, <1>17 DEF Rotates
<1> QED
  BY <1>3, <1>16

(* The text is delivered, or the chain goes on. *)
Gives(text) ==
    /\ NextDelta(AfterRotate)
    /\ DOMAIN output' = DOMAIN deltas /\ output'[index] = Append(output[index], text)
    /\ \A i \in DOMAIN deltas \ {index} : output'[i] = output[i]

Stays(current) ==
    /\ previous' = current /\ output' = output /\ unit' = unit /\ index' = index /\ pc' = pc

-----------------------------------------------------------------------------
LEMMA RotateByFixedKeyKeeps ==
    ASSUME ValueInv, RotateByFixedKey
    PROVE  /\ ValueInv'
           /\ \E more, text : Rotates(more, text, unit, 0, Delta) /\ Gives(text)
<1>1. PhaseInv /\ HeapInv /\ MapInv /\ OwnedInv /\ OutputInv /\ PlaceInv
  BY DEF ValueInv
<1>2. /\ NextDelta(AfterRotate) /\ entry' = entry /\ deltas' = deltas
      /\ rotate_input' = rotate_input /\ rotated' = rotated
      /\ pc = "rotate" /\ entry = "fixed" /\ entry # "chain" /\ pc # "prepare"
  BY DEF RotateByFixedKey
<1>3. PhaseInv' /\ previous' = 0 /\ pc' \in {"rotate", AfterRotate}
  <2>1. AfterRotate \in Phase[entry]
    BY <1>1, <1>2, AfterRotateInPhase
  <2> QED
    BY <1>1, <1>2, <2>1, PhaseMoves, LoopMoves
<1>4. (Cleared' <=> Cleared) /\ ~Cleared /\ pc' # "prepare"
  BY <1>2, <1>3 DEF Cleared, AfterRotate
<1>5. index \in DOMAIN deltas /\ unit \in 1 .. Size /\ DOMAIN output = DOMAIN deltas
      /\ Delta \in 0 .. SlotCount - 1 /\ DOMAIN decomposed = 1 .. Size
  BY <1>1, <1>2, CallTyped DEF PhaseInv, OutputInv, MapInv
<1>6. PICK k, w, r, d, source, last, text :
         /\ k = index /\ w = unit /\ r = Delta /\ d = 0 /\ source = rotate_input[unit]
         /\ last = <<>> /\ text = Len(heap')
  OBVIOUS
<1>7. PICK parts, split :
         /\ parts = IF d \in DOMAIN decomposed[w] THEN <<>> ELSE NewIds(1)
         /\ split = IF d \in DOMAIN decomposed[w] THEN decomposed[w][d] ELSE Len(heap) + 1
  OBVIOUS
<1> DEFINE isSplit == d \in DOMAIN decomposed[w]
             map == IF isSplit THEN decomposed[w] ELSE With(decomposed[w], d, parts[1])
             heap1 == heap \o [n \in DOMAIN parts |-> Copy(source, "decomposed")]
<1>9. /\ heap' = Append(heap1, Rotation(heap1[source], heap1[map[d]], r))
      /\ decomposed' = [decomposed EXCEPT ![w] = map]
      /\ temp_data' = temp_data \o parts
      /\ output' = [output EXCEPT ![k] = Append(@, text)]
  BY <1>6, <1>7 DEF RotateByFixedKey
<1>10. map[d] = split /\ (~isSplit => map = With(decomposed[w], d, Len(heap) + 1))
  <2>1. NewIds(1)[1] = Len(heap) + 1
    BY DEF NewIds
  <2> QED
    BY <1>7, <2>1 DEF With
<1>11. IsText(source, w, d) /\ IsAlive(source)
  <2>1. IsText(source, w, d)
    BY <1>1, <1>5, <1>6 DEF HeapInv
  <2>2. \A id \in Id : IsAlive(id)
    BY <1>1, <1>2, <1>4 DEF OwnedInv
  <2> QED
    BY <2>1, <2>2 DEF IsText
<1>12. PICK result : result = heap'
  OBVIOUS
<1>13. RotationOf(result, source, parts, split, r, w, d)
  <2>1. result = Append(heap1, Rotation(heap1[source], heap1[split], r))
    BY <1>9, <1>10, <1>12
  <2>2. \/ parts = <<>> /\ IsText(split, w, d)
        \/ parts = NewIds(1) /\ split = Len(heap) + 1
    BY <1>1, <1>2, <1>5, <1>6, <1>7 DEF MapInv
  <2> HIDE DEF heap1
  <2> QED
    BY <1>11, <2>1, <2>2 DEF RotationOf, heap1
<1>14. /\ DOMAIN decomposed' = 1 .. Size
       /\ \A u \in (1 .. Size) \ {w} : decomposed'[u] = decomposed[u]
       /\ IF d \in DOMAIN decomposed[w]
            THEN parts = <<>> /\ decomposed'[w] = decomposed[w]
            ELSE parts = NewIds(1) /\ decomposed'[w] = With(decomposed[w], d, Len(heap) + 1)
  <2>1. DOMAIN decomposed' = 1 .. Size /\ decomposed'[w] = map
        /\ \A u \in (1 .. Size) \ {w} : decomposed'[u] = decomposed[u]
    <3> HIDE DEF map
    <3> QED
      BY <1>5, <1>6, <1>9
  <2> QED
    BY <1>7, <1>10, <2>1
<1>15. r = Normalized(d + r) /\ r \in Int
  <2>1. r \in 0 .. SlotCount - 1 /\ d + r = r
    BY <1>5, <1>6, KeysTyped
  <2> QED
    BY <2>1, KeysTyped, NormalizedRange
<1>16. parts \o last = parts /\ temp_data' = temp_data \o (parts \o last)
  <2>1. parts \in Seq(Int)
    <3>1. NewIds(1) \in Seq(Int)
      <4>1. Len(heap) \in Nat
        BY <1>1 DEF HeapInv
      <4> QED
        BY <4>1 DEF NewIds
    <3> QED
      BY <1>7, <3>1
  <2>2. parts \o last = parts
    BY <1>6, <2>1
  <2> QED
    BY <1>9, <2>2
<1>17. Turns(source, parts, split, r, last, text, w, d, r)
  BY <1>2, <1>4, <1>6, <1>12, <1>13, <1>14, <1>15, <1>16 DEF Turns, Batched
<1> HIDE DEF isSplit, map, heap1
<1>18. PICK more : Rotates(more, text, w, d, r)
  BY <1>1, <1>15, <1>17, TurnsRotates
<1>19. /\ Grows(more) /\ MapsGrow /\ HeapInv' /\ MapInv' /\ OwnedInv'
       /\ IsText(text, w, r)' /\ heap'[text].made = "rotated"
  BY <1>2, <1>4, <1>5, <1>6, <1>18, RotationKept
<1>20. OutputInv' /\ PlaceInv'
  <2>1. IsText(text, w, Normalized(deltas[k]))'
    BY <1>2, <1>6, <1>19 DEF Delta, IsText
  <2>2. Placed(text, w, k)'
    BY <1>2, <1>19 DEF Placed
  <2>3. ~IsCloneOfInput(k)
    BY <1>2 DEF IsCloneOfInput
  <2>4. DOMAIN output' = DOMAIN deltas /\ output'[k] = Append(output[k], text)
        /\ \A i \in DOMAIN deltas \ {k} : output'[i] = output[i]
    BY <1>5, <1>6, <1>9
  <2> QED
    BY <1>2, <1>6, <1>19, <2>1, <2>2, <2>3, <2>4, UnitGiven
<1>21. Gives(text)
  <2>1. DOMAIN output' = DOMAIN deltas /\ output'[k] = Append(output[k], text)
        /\ \A i \in DOMAIN deltas \ {k} : output'[i] = output[i]
    BY <1>5, <1>6, <1>9
  <2> QED
    BY <1>2, <1>6, <2>1 DEF Gives
<1>22. ValueInv'
  BY <1>1, <1>2, <1>3, <1>4, <1>19, <1>20, BetweenDeltas
<1> QED
  BY <1>6, <1>18, <1>21, <1>22

-----------------------------------------------------------------------------
(* The key that is at hand in the chain to a delta. *)
LEMMA ChainStep ==
    ASSUME ValueInv, pc = "rotate", entry # "chain", previous = 0 => ~IsRotated(Delta),
           NEW d, NEW key, NEW w, d = previous, key = NextKey(Delta, previous), w = unit
    PROVE  /\ key \in Int /\ d \in DOMAIN rotated[w] /\ IsText(rotated[w][d], w, d)
           /\ d + key \in 1 .. SlotCount - 1 /\ d < d + key /\ d + key =< Delta
           /\ d + key # Delta => d + key \in PrefixesOf(Delta)
           /\ Delta \notin DOMAIN rotated[w] /\ Delta # 0
           /\ Delta \in 0 .. SlotCount - 1 /\ d \in PrefixesOf(Delta)
<1>1. PhaseInv /\ HeapInv /\ MapInv /\ ChainInv
  BY DEF ValueInv
<1>2. w \in 1 .. Size /\ Delta \in 0 .. SlotCount - 1
  BY <1>1, CallTyped
<1>3. d \in PrefixesOf(Delta) /\ d \in DOMAIN rotated[w]
  BY <1>1 DEF ChainInv
<1>4. 0 \in DOMAIN rotated[w] /\ IsText(rotated[w][d], w, d)
  BY <1>1, <1>2, <1>3 DEF MapInv
<1>5. Delta \notin DOMAIN rotated[w] /\ Delta # 0 /\ d # Delta
  <2>1. CASE previous = 0
    BY <1>4, <2>1 DEF IsRotated
  <2>2. CASE previous # 0
    BY <1>1, <1>4, <2>2 DEF ChainInv
  <2> QED
    BY <2>1, <2>2
<1>6. PICK delta : delta = Delta
  OBVIOUS
<1>7. /\ key \in Keys /\ d \in 0 .. SlotCount - 1
      /\ d + key \in 1 .. SlotCount - 1 /\ d + key =< delta /\ d < d + key
      /\ d + key # delta => d + key \in PrefixesOf(delta)
  BY <1>2, <1>3, <1>5, <1>6, NextKeyFacts
<1>8. key \in Int
  BY <1>7, KeysTyped
<1> QED
  BY <1>2, <1>3, <1>4, <1>5, <1>6, <1>7, <1>8

(* A step that stays at its delta. *)
LEMMA SameDelta ==
    ASSUME ValueInv, pc = "rotate", entry # "chain", NEW more, Grows(more), MapsGrow,
           HeapInv', MapInv', OwnedInv', NEW d, NEW w, d = previous', w = unit,
           output' = output, unit' = unit, index' = index, pc' = pc,
           d \in DOMAIN rotated'[w], d \in PrefixesOf(Delta), d # Delta,
           Delta \notin DOMAIN rotated'[w], entry # "fixed"
    PROVE  ValueInv'
<1>1. PhaseInv /\ HeapInv /\ MapInv /\ OwnedInv /\ OutputInv /\ PlaceInv
  BY DEF ValueInv
<1>2. entry' = entry /\ deltas' = deltas
  BY DEF Grows
<1>3. Size' = Size /\ Delta' = Delta
  BY <1>2, CallSame DEF Delta
<1>4. PhaseInv'
  BY <1>1, <1>2, <1>3 DEF PhaseInv
<1>5. ChainInv'
  BY <1>3, <1>2 DEF ChainInv, PrefixesOf
<1>6. \A i \in DOMAIN deltas : Given(i)' = Given(i) /\ Given(i)' \in 0 .. Size
  <2>1. \A i : Given(i)' = Given(i)
    BY <1>2, <1>3 DEF Given, IsCloneOfInput
  <2> QED
    BY <1>1, <2>1, GivenTyped
<1>7. \A i \in DOMAIN deltas :
              /\ output'[i] \in Seq(Id)' /\ Len(output'[i]) = Given(i)'
              /\ \A u \in 1 .. Given(i)' : u \in 1 .. Given(i) /\ output'[i][u] = output[i][u]
  BY <1>1, <1>6, PlaceStays
<1>8. OutputInv' /\ PlaceInv'
  <2>1. DOMAIN output' = DOMAIN deltas
    BY <1>1 DEF OutputInv
  <2> QED
    BY <1>1, <1>6, <1>7, <2>1, OutputGrown
<1> QED
  BY <1>2, <1>4, <1>5, <1>8 DEF ValueInv, SingleInv, SingleOwnedInv

(* A text that is found in the map is put in temp_data_ all the same. *)
Passes(current) ==
    /\ current \in DOMAIN rotated[unit] /\ current # Delta
    /\ heap' = heap /\ rotated' = rotated /\ Stays(current)
    /\ temp_data' =
          temp_data \o (IF current \notin Requested THEN <<rotated[unit][current]>> ELSE <<>>)

LEMMA RotateByKeyKeeps ==
    ASSUME ValueInv, RotateByKey
    PROVE  /\ ValueInv'
           /\ \E current \in (PrefixesOf(Delta) \cup {Delta}) \ {0} :
                 /\ previous < current
                 /\ \/ Passes(current)
                    \/ \E more, text :
                          /\ Rotates(more, text, unit, previous, current)
                          /\ IF current = Delta THEN Gives(text) ELSE Stays(current)
<1>1. PhaseInv /\ HeapInv /\ MapInv /\ OwnedInv /\ OutputInv /\ PlaceInv
  BY DEF ValueInv
<1>2. /\ entry' = entry /\ deltas' = deltas /\ rotate_input' = rotate_input
      /\ pc = "rotate" /\ entry # "chain" /\ entry # "fixed" /\ entry \in {"unit", "long"}
      /\ pc # "prepare" /\ (previous = 0 => ~IsRotated(Delta))
  BY DEF RotateByKey
<1>3. PICK k, w, d, key, current :
         /\ k = index /\ w = unit /\ d = previous /\ key = NextKey(Delta, previous)
         /\ current = d + key
  OBVIOUS
<1>4. /\ key \in Int /\ d \in DOMAIN rotated[w] /\ IsText(rotated[w][d], w, d)
      /\ current \in 1 .. SlotCount - 1 /\ current =< Delta /\ previous < current
      /\ current # Delta => current \in PrefixesOf(Delta)
      /\ Delta \notin DOMAIN rotated[w] /\ Delta # 0 /\ Delta \in 0 .. SlotCount - 1
  BY <1>2, <1>3, ChainStep
<1>5. k \in DOMAIN deltas /\ w \in 1 .. Size /\ DOMAIN output = DOMAIN deltas
      /\ DOMAIN decomposed = 1 .. Size /\ DOMAIN rotated = 1 .. Size
  BY <1>1, <1>2, <1>3, CallTyped DEF PhaseInv, OutputInv, MapInv
<1>6. PICK known : known = (current \in DOMAIN rotated[w])
  OBVIOUS
<1>7. PICK source, parts, split, text, last :
         /\ source = rotated[w][d]
         /\ parts = IF d \in DOMAIN decomposed[w] THEN <<>> ELSE NewIds(1)
         /\ split = IF d \in DOMAIN decomposed[w] THEN decomposed[w][d] ELSE Len(heap) + 1
         /\ text = IF known THEN rotated[w][current] ELSE Len(heap')
         /\ last = IF current \notin Requested THEN <<text>> ELSE <<>>
  OBVIOUS
<1> DEFINE map == IF d \in DOMAIN decomposed[w] THEN decomposed[w] ELSE With(decomposed[w], d, parts[1])
           heap1 == heap \o [n \in DOMAIN parts |-> Copy(source, "decomposed")]
<1>8. CASE known
  <2>1. /\ temp_data' = temp_data \o last /\ heap' = heap /\ rotated' = rotated
        /\ decomposed' = decomposed
    BY <1>3, <1>6, <1>7, <1>8 DEF RotateByKey, IsRotated, IsTemporary
  <2>2. current # Delta
    BY <1>4, <1>6, <1>8
  <2>3. /\ previous' = current /\ output' = output /\ unit' = unit /\ index' = index /\ pc' = pc
    BY <1>3, <2>2 DEF RotateByKey
  <2>4. last \in Seq(Id) /\ ToSet(last) \subseteq ToSet(temp_data)
    <3>1. IsText(text, w, current) /\ heap[text].made = "rotated"
      <4>1. current # 0
        BY <1>4
      <4> QED
        BY <1>1, <1>2, <1>5, <1>6, <1>7, <1>8, <4>1 DEF MapInv
    <3>2. CASE current \notin Requested
      <4>1. Temporary(heap[text]) /\ text \in Id
        BY <1>2, <3>1, <3>2 DEF Temporary, Batched, IsText
      <4>2. ~Cleared
        BY <1>2 DEF Cleared
      <4>3. text \in ToSet(temp_data)
        BY <1>1, <1>2, <4>1, <4>2 DEF OwnedInv
      <4>4. ToSet(<<text>>) = {text}
        BY DEF ToSet
      <4> HIDE DEF Id
      <4> QED
        BY <1>7, <3>2, <4>1, <4>3, <4>4
    <3>3. CASE current \in Requested
      <4>1. last = <<>> /\ ToSet(<<>>) = {}
        BY <1>7, <3>3 DEF ToSet
      <4> QED
        BY <4>1
    <3> QED
      BY <3>2, <3>3
  <2>5. /\ Cleared' <=> Cleared
        /\ ~Cleared /\ pc' # "prepare"
    BY <1>2, <2>3 DEF Cleared
  <2>6. Grows(<<>>) /\ MapsGrow /\ HeapInv' /\ MapInv' /\ OwnedInv'
    BY <1>2, <2>1, <2>4, <2>5, NoneMade
  <2>7. PICK none : none = <<>> /\ Grows(none)
    BY <2>6
  <2>8. current \in DOMAIN rotated'[w] /\ Delta \notin DOMAIN rotated'[w]
    BY <1>4, <1>6, <1>8, <2>1
  <2>9. ValueInv'
    BY <1>2, <1>3, <1>4, <2>2, <2>3, <2>6, <2>7, <2>8, SameDelta
  <2>10. Passes(current)
    BY <1>3, <1>6, <1>7, <1>8, <2>1, <2>2, <2>3 DEF Passes, Stays
  <2>11. current \in (PrefixesOf(Delta) \cup {Delta}) \ {0} /\ previous < current
    BY <1>4
  <2> QED
    BY <2>9, <2>10, <2>11
<1>9. CASE ~known
  <2>1. PICK place : place = Len(heap1) + 1
    OBVIOUS
  <2>2. /\ heap' = Append(heap1, Rotation(heap1[source], heap1[map[d]], key))
        /\ decomposed' = [decomposed EXCEPT ![w] = map]
        /\ temp_data' = (temp_data \o parts) \o (IF current \notin Requested THEN <<place>> ELSE <<>>)
        /\ current = Delta => /\ output' = [output EXCEPT ![k] = Append(@, place)]
                              /\ NextDelta(AfterRotate)
        /\ current # Delta => /\ previous' = current
                              /\ output' = output /\ unit' = unit /\ index' = index /\ pc' = pc
    BY <1>3, <1>6, <1>7, <1>9, <2>1 DEF RotateByKey, IsRotated, IsTemporary
  <2>3. DOMAIN rotated' = 1 .. Size /\ rotated'[w] = With(rotated[w], current, place)
        /\ \A u \in (1 .. Size) \ {w} : rotated'[u] = rotated[u]
    <3>1. rotated' = [rotated EXCEPT ![w] = With(@, current, Len(heap1) + 1)]
      BY <1>3, <1>6, <1>7, <1>9 DEF RotateByKey, IsRotated
    <3> HIDE DEF heap1
    <3> QED
      BY <1>5, <2>1, <3>1
  <2>4. IsText(source, w, d) /\ IsAlive(source)
    <3>1. \A id \in Id : IsAlive(id)
      BY <1>1, <1>2 DEF OwnedInv, Cleared
    <3> QED
      BY <1>4, <1>7, <3>1 DEF IsText
  <2>5. heap1 \in Seq(Objects) /\ place = Len(heap1) + 1
    <3>1. Copy(source, "decomposed") \in Objects
      <4>1. heap[source] \in Objects
        BY <1>1, <2>4 DEF HeapInv, IsText, Id
      <4> QED
        BY <2>4, <4>1 DEF Copy, Object, Objects, Made
    <3>2. PICK made : made = [n \in DOMAIN parts |-> Copy(source, "decomposed")]
      OBVIOUS
    <3>3. DOMAIN parts = 1 .. 0 \/ DOMAIN parts = 1 .. 1
      BY <1>7 DEF NewIds
    <3> HIDE DEF Objects
    <3>4. made \in Seq(Objects)
      <4>1. made \in [DOMAIN parts -> Objects]
        BY <3>1, <3>2
      <4> QED
        BY <3>3, <4>1
    <3> QED
      BY <1>1, <2>1, <3>2, <3>4 DEF HeapInv
  <2>6. place = Len(heap') /\ text = place
    <3> HIDE DEF heap1, Objects
    <3>1. Len(heap') = Len(heap1) + 1
      BY <2>2, <2>5
    <3> QED
      BY <1>7, <1>9, <2>5, <3>1
  <2>7. map[d] = split /\ (d \notin DOMAIN decomposed[w] => map = With(decomposed[w], d, Len(heap) + 1))
    <3>1. NewIds(1)[1] = Len(heap) + 1
      BY DEF NewIds
    <3> QED
      BY <1>7, <3>1 DEF With
  <2>8. PICK result : result = heap'
    OBVIOUS
  <2>9. RotationOf(result, source, parts, split, key, w, d)
    <3>1. result = Append(heap1, Rotation(heap1[source], heap1[split], key))
      BY <2>2, <2>7, <2>8
    <3>2. \/ parts = <<>> /\ IsText(split, w, d)
          \/ parts = NewIds(1) /\ split = Len(heap) + 1
      BY <1>1, <1>2, <1>5, <1>7 DEF MapInv
    <3> HIDE DEF heap1
    <3> QED
      BY <2>4, <3>1, <3>2 DEF RotationOf, heap1
  <2>10. /\ DOMAIN decomposed' = 1 .. Size
         /\ \A u \in (1 .. Size) \ {w} : decomposed'[u] = decomposed[u]
         /\ IF d \in DOMAIN decomposed[w]
              THEN parts = <<>> /\ decomposed'[w] = decomposed[w]
              ELSE parts = NewIds(1) /\ decomposed'[w] = With(decomposed[w], d, Len(heap) + 1)
    <3>1. DOMAIN decomposed' = 1 .. Size /\ decomposed'[w] = map
          /\ \A u \in (1 .. Size) \ {w} : decomposed'[u] = decomposed[u]
      <4> HIDE DEF map
      <4> QED
        BY <1>5, <2>2
    <3> QED
      BY <1>7, <2>7, <3>1
  <2>11. current = Normalized(d + key)
    <3>1. current \in 0 .. SlotCount - 1 /\ current \in Int
      BY <1>4, KeysTyped
    <3> QED
      BY <1>3, <3>1, NormalizedRange
  <2>12. last = (IF Batched /\ current \notin Requested THEN <<text>> ELSE <<>>)
         /\ temp_data' = temp_data \o (parts \o last)
    <3>1. parts \in Seq(Int)
      <4>1. NewIds(1) \in Seq(Int)
        <5>1. Len(heap) \in Nat
          BY <1>1 DEF HeapInv
        <5> QED
          BY <5>1 DEF NewIds
      <4> QED
        BY <1>7, <4>1
    <3>2. temp_data \in Seq(Int)
      <4>1. temp_data \in Seq(Id) /\ \A id \in Id : id \in Int
        BY <1>1 DEF HeapInv, Id
      <4> HIDE DEF Id
      <4> QED
        BY <4>1
    <3>3. last \in Seq(Int)
      <4>1. place \in Int
        <5> HIDE DEF heap1, Objects
        <5> QED
          BY <2>5
      <4> QED
        BY <1>7, <2>6, <4>1
    <3>4. temp_data' = (temp_data \o parts) \o last
      BY <1>7, <2>2, <2>6
    <3>5. (temp_data \o parts) \o last = temp_data \o (parts \o last)
      BY <3>1, <3>2, <3>3
    <3> QED
      BY <1>2, <1>7, <3>4, <3>5 DEF Batched
  <2>13. pc' # "prepare" /\ (Cleared' <=> Cleared)
    <3>1. pc' \in {"rotate", AfterRotate}
      <4>1. current = Delta => pc' \in {"rotate", AfterRotate}
        BY <1>1, <1>2, <2>2, LoopMoves
      <4> QED
        BY <1>2, <2>2, <4>1
    <3> QED
      BY <1>2, <3>1 DEF Cleared, AfterRotate
  <2>14. Turns(source, parts, split, key, last, text, w, d, current)
    BY <1>2, <1>6, <1>9, <2>3, <2>6, <2>8, <2>9, <2>10, <2>11, <2>12, <2>13 DEF Turns
  <2> HIDE DEF map, heap1
  <2>15. PICK more : Rotates(more, text, w, d, current)
    BY <1>1, <1>4, <2>14, TurnsRotates
  <2>16. /\ Grows(more) /\ MapsGrow /\ HeapInv' /\ MapInv' /\ OwnedInv'
         /\ IsText(text, w, current)' /\ heap'[text].made = "rotated"
    BY <1>2, <1>5, <2>13, <2>15, RotationKept
  <2>17. DOMAIN rotated'[w] = DOMAIN rotated[w] \cup {current} /\ rotated'[w][current] = text
    BY <2>3, <2>6 DEF With
  <2>20. current \in (PrefixesOf(Delta) \cup {Delta}) \ {0} /\ previous < current
    BY <1>4
  <2>18. CASE current = Delta
    <3>1. PhaseInv' /\ previous' = 0
      <4>1. AfterRotate \in Phase[entry]
        BY <1>1, <1>2, AfterRotateInPhase
      <4> QED
        BY <1>1, <1>2, <2>2, <2>18, <4>1, PhaseMoves, LoopMoves
    <3>2. ~IsCloneOfInput(k)
      BY <1>3, <1>4 DEF IsCloneOfInput, Delta
    <3>3. Normalized(deltas'[k]) = current
      BY <1>2, <1>3, <2>18 DEF Delta
    <3>4. IsText(text, w, Normalized(deltas[k]))'
      BY <2>16, <3>3 DEF IsText
    <3>5. Placed(text, w, k)'
      BY <1>2, <2>17, <3>2, <3>3 DEF Placed, Batched, IsCloneOfInput
    <3>6. DOMAIN output' = DOMAIN deltas /\ output'[k] = Append(output[k], text)
          /\ \A i \in DOMAIN deltas \ {k} : output'[i] = output[i]
      BY <1>5, <2>2, <2>6, <2>18
    <3>7. OutputInv' /\ PlaceInv'
      BY <1>2, <1>3, <2>2, <2>16, <2>18, <3>2, <3>4, <3>5, <3>6, UnitGiven
    <3>8. ValueInv'
      BY <1>1, <1>2, <2>13, <2>16, <3>1, <3>7, BetweenDeltas
    <3>9. Gives(text)
      BY <1>3, <2>2, <2>18, <3>6 DEF Gives
    <3> QED
      BY <1>3, <2>15, <2>18, <2>20, <3>8, <3>9
  <2>19. CASE current # Delta
    <3>1. Delta \notin DOMAIN rotated'[w] /\ current \in DOMAIN rotated'[w]
      BY <1>4, <2>17, <2>19
    <3>2. ValueInv'
      BY <1>2, <1>3, <1>4, <2>2, <2>16, <2>19, <3>1, SameDelta
    <3>3. Stays(current)
      BY <2>2, <2>19 DEF Stays
    <3> QED
      BY <1>3, <2>15, <2>19, <2>20, <3>2, <3>3
  <2> QED
    BY <2>18, <2>19
<1> QED
  BY <1>8, <1>9

-----------------------------------------------------------------------------
(* What is deleted as often as it is in a list. *)
Listed(list, id) == {n \in DOMAIN list : list[n] = id}

LEMMA ListedFacts ==
    ASSUME NEW T, NEW list \in Seq(T), NEW id
    PROVE  /\ Cardinality(Listed(list, id)) \in Nat
           /\ id \notin ToSet(list) => Cardinality(Listed(list, id)) = 0
           /\ id \in ToSet(list) => Cardinality(Listed(list, id)) > 0
           /\ (\A m, n \in DOMAIN list : list[m] = list[n] => m = n) =>
                 Cardinality(Listed(list, id)) =< 1
<1>1. IsFiniteSet(Listed(list, id))
  <2>1. IsFiniteSet(1 .. Len(list))
    BY FS_Interval
  <2>2. Listed(list, id) \subseteq 1 .. Len(list)
    BY DEF Listed
  <2> QED
    BY <2>1, <2>2, FS_Subset
<1>2. Cardinality(Listed(list, id)) \in Nat
      /\ (Cardinality(Listed(list, id)) = 0 <=> Listed(list, id) = {})
  BY <1>1, FS_CardinalityType, FS_EmptySet
<1>3. id \in ToSet(list) <=> Listed(list, id) # {}
  BY DEF Listed, ToSet
<1>4. ASSUME \A m, n \in DOMAIN list : list[m] = list[n] => m = n
      PROVE  Cardinality(Listed(list, id)) =< 1
  <2>1. CASE Listed(list, id) = {}
    BY <1>2, <2>1
  <2>2. ASSUME NEW n \in Listed(list, id) PROVE Cardinality(Listed(list, id)) = 1
    <3>1. Listed(list, id) = {n}
      BY <1>4, <2>2 DEF Listed
    <3> QED
      BY <3>1, FS_Singleton
  <2> QED
    BY <2>1, <2>2
<1> QED
  BY <1>2, <1>3, <1>4

LEMMA DeletedFacts ==
    ASSUME NEW objects \in Seq(Objects), NEW list \in Seq(1 .. Len(objects)),
           NEW result, result = Deleted(objects, list)
    PROVE  /\ result \in Seq(Objects) /\ Len(result) = Len(objects)
           /\ \A id \in 1 .. Len(objects) :
                 /\ result[id].unit = objects[id].unit /\ result[id].delta = objects[id].delta
                 /\ result[id].made = objects[id].made
                 /\ result[id].deletions = objects[id].deletions + Cardinality(Listed(list, id))
                 /\ objects[id].deletions \in Nat
<1>1. /\ Len(objects) \in Nat /\ DOMAIN objects = 1 .. Len(objects)
      /\ \A id \in 1 .. Len(objects) : objects[id] \in Objects
  <2> HIDE DEF Objects
  <2> QED
    OBVIOUS
<1>2. DOMAIN result = 1 .. Len(objects) /\ result = [id \in 1 .. Len(objects) |-> result[id]]
  BY <1>1 DEF Deleted
<1>3. ASSUME NEW id \in 1 .. Len(objects)
      PROVE  /\ result[id] \in Objects
             /\ result[id].unit = objects[id].unit /\ result[id].delta = objects[id].delta
             /\ result[id].made = objects[id].made
             /\ result[id].deletions = objects[id].deletions + Cardinality(Listed(list, id))
             /\ objects[id].deletions \in Nat
  <2>1. PICK object : object = objects[id]
    OBVIOUS
  <2>2. PICK times : times = Cardinality(Listed(list, id))
    OBVIOUS
  <2>3. times \in Nat
    BY <2>2, ListedFacts
  <2>4. object \in Objects
    BY <1>1, <2>1
  <2>5. result[id] = [object EXCEPT !.deletions = @ + times]
    BY <1>1, <2>1, <2>2 DEF Deleted, Listed
  <2>6. /\ result[id].unit = object.unit /\ result[id].delta = object.delta
        /\ result[id].made = object.made /\ result[id].deletions = object.deletions + times
        /\ object.deletions \in Nat /\ result[id] \in Objects
    <3>1. /\ object.unit \in 1 .. Size /\ object.delta \in 0 .. SlotCount - 1 /\ object.made \in Made
          /\ object.deletions \in Nat
          /\ DOMAIN object = {"unit", "delta", "made", "deletions"}
      BY <2>4 DEF Objects
    <3>2. PICK sum : sum = object.deletions + times
      OBVIOUS
    <3>3. sum \in Nat
      BY <2>3, <3>1, <3>2
    <3>4. result[id] = [object EXCEPT !.deletions = sum]
      BY <2>5, <3>2
    <3>5. result[id] \in Objects
      BY <2>4, <3>3, <3>4 DEF Objects
    <3>6. /\ result[id].unit = object.unit /\ result[id].delta = object.delta
          /\ result[id].made = object.made /\ result[id].deletions = sum
      BY <3>1, <3>4
    <3> QED
      BY <3>1, <3>2, <3>5, <3>6
  <2> QED
    BY <2>1, <2>2, <2>6
<1>4. result \in [1 .. Len(objects) -> Objects]
  BY <1>2, <1>3
<1>5. result \in Seq(Objects) /\ Len(result) = Len(objects)
  <2> HIDE DEF Objects
  <2> QED
    BY <1>1, <1>4
<1> QED
  BY <1>3, <1>5

LEMMA ClearTempDataKeeps ==
    ASSUME ValueInv, ClearTempData
    PROVE  ValueInv'
<1> USE DEF ClearTempData
<1>1. PhaseInv /\ HeapInv /\ MapInv /\ OwnedInv /\ OutputInv /\ PlaceInv
  BY DEF ValueInv
<1>2. /\ entry' = entry /\ deltas' = deltas /\ rotate_input' = rotate_input /\ temp_data' = <<>>
      /\ rotated' = rotated /\ decomposed' = decomposed /\ output' = output
      /\ unit' = unit /\ index' = index /\ previous' = previous
      /\ pc = "clear" /\ pc' = IF entry = "long" THEN "clone" ELSE "done"
  OBVIOUS
<1>3. /\ entry \in {"unit", "long", "fixed"} /\ entry # "chain" /\ pc' \in Phase[entry]
      /\ pc' \in {"clone", "done"} /\ pc' # "prepare"
  BY <1>1, <1>2 DEF PhaseInv, Phase, Entry
<1>4. Size' = Size /\ Objects' = Objects
  BY <1>2, CallSame
<1>5. PhaseInv' /\ previous' = 0
  BY <1>1, <1>2, <1>3, <1>4 DEF PhaseInv
<1>6. PICK list, result : list = temp_data /\ result = heap'
  OBVIOUS
<1>7. heap \in Seq(Objects) /\ list \in Seq(1 .. Len(heap)) /\ result = Deleted(heap, list)
  BY <1>1, <1>6 DEF HeapInv, Id
<1>8. /\ result \in Seq(Objects) /\ Len(result) = Len(heap)
      /\ \A id \in 1 .. Len(heap) :
            /\ result[id].unit = heap[id].unit /\ result[id].delta = heap[id].delta
            /\ result[id].made = heap[id].made
            /\ result[id].deletions = heap[id].deletions + Cardinality(Listed(list, id))
            /\ heap[id].deletions \in Nat
  <2> HIDE DEF Objects
  <2>1. PICK objects : objects = heap
    OBVIOUS
  <2> QED
    BY <1>7, <2>1, DeletedFacts
<1>9. Id' = Id /\ heap' \in Seq(Objects)
      /\ \A id \in Id : heap'[id].unit = heap[id].unit /\ heap'[id].delta = heap[id].delta
                        /\ heap'[id].made = heap[id].made
  BY <1>6, <1>8 DEF Id
<1> HIDE DEF ClearTempData
<1>10. \A id, u, d : IsText(id, u, d)' <=> IsText(id, u, d)
  BY <1>9 DEF IsText
<1>11. \A id \in Id : Temporary(heap[id])' <=> Temporary(heap[id])
  BY <1>2, <1>9 DEF Temporary, Batched, Requested
<1>12. HeapInv'
  <2>1. temp_data' \in Seq(Id)'
    BY <1>2
  <2>2. \A u \in 1 .. Size : IsText(rotate_input[u], u, 0)'
                            /\ heap'[rotate_input'[u]].made \in {"input", "converted"}
    <3> TAKE u \in 1 .. Size
    <3>1. PICK id : id = rotate_input[u]
      OBVIOUS
    <3>2. IsText(id, u, 0) /\ id \in Id /\ heap[id].made \in {"input", "converted"}
      BY <1>1, <3>1 DEF HeapInv, IsText
    <3> QED
      BY <1>2, <1>9, <3>1, <3>2 DEF IsText
  <2>3. DOMAIN rotate_input = 1 .. Size
    BY <1>1 DEF HeapInv
  <2> QED
    BY <1>2, <1>3, <1>4, <1>9, <2>1, <2>2, <2>3 DEF HeapInv
<1>13. MapInv'
  <2>1. /\ DOMAIN rotated = 1 .. Size /\ DOMAIN decomposed = 1 .. Size
        /\ \A u \in 1 .. Size : 0 \in DOMAIN rotated[u] /\ rotated[u][0] = rotate_input[u]
        /\ \A u \in 1 .. Size : \A d \in DOMAIN rotated[u] :
              /\ IsText(rotated[u][d], u, d)
              /\ d # 0 => heap[rotated[u][d]].made = "rotated"
        /\ \A u \in 1 .. Size : \A d \in DOMAIN decomposed[u] :
              /\ IsText(decomposed[u][d], u, d)
              /\ heap[decomposed[u][d]].made = "decomposed"
        /\ \A id \in Id : heap[id].made = "decomposed" =>
              LET map == decomposed[heap[id].unit]
              IN  heap[id].delta \in DOMAIN map /\ map[heap[id].delta] = id
        /\ entry # "fixed" => \A id \in Id : heap[id].made = "rotated" =>
              LET map == rotated[heap[id].unit]
              IN  heap[id].delta \in DOMAIN map \ {0} /\ map[heap[id].delta] = id
    BY <1>1, <1>2, <1>3 DEF MapInv
  <2>2. \A u \in 1 .. Size : \A d \in DOMAIN rotated[u] :
           /\ IsText(rotated[u][d], u, d)'
           /\ d # 0 => heap'[rotated'[u][d]].made = "rotated"
    BY <1>2, <1>9, <2>1 DEF IsText
  <2>3. \A u \in 1 .. Size : \A d \in DOMAIN decomposed[u] :
           /\ IsText(decomposed[u][d], u, d)'
           /\ heap'[decomposed'[u][d]].made = "decomposed"
    BY <1>2, <1>9, <2>1 DEF IsText
  <2>4. \A id \in Id : heap'[id].made = "decomposed" =>
              LET map == decomposed[heap'[id].unit]
              IN  heap'[id].delta \in DOMAIN map /\ map[heap'[id].delta] = id
    BY <1>9, <2>1
  <2>5. entry # "fixed" => \A id \in Id : heap'[id].made = "rotated" =>
              LET map == rotated[heap'[id].unit]
              IN  heap'[id].delta \in DOMAIN map \ {0} /\ map[heap'[id].delta] = id
    BY <1>9, <2>1
  <2> QED
    BY <1>2, <1>4, <1>9, <2>1, <2>2, <2>3, <2>4, <2>5 DEF MapInv
<1>14. OwnedInv'
  <2>1. Cleared' /\ ~Cleared
    BY <1>2, <1>3 DEF Cleared
  <2>2. ToSet(temp_data) = {id \in Id : Temporary(heap[id])} /\ \A id \in Id : IsAlive(id)
    BY <1>1, <1>3, <2>1 DEF OwnedInv
  <2>3. ASSUME NEW id \in Id PROVE IsAlive(id)' <=> ~Temporary(heap[id])
    <3>1. PICK times : times = Cardinality(Listed(list, id))
      OBVIOUS
    <3>2. times \in Nat /\ (id \notin ToSet(list) => times = 0) /\ (id \in ToSet(list) => times > 0)
      BY <1>7, <3>1, ListedFacts
    <3>3. heap'[id].deletions = heap[id].deletions + times /\ heap[id].deletions = 0
      BY <1>6, <1>8, <2>2, <3>1 DEF Id, IsAlive
    <3>4. IsAlive(id)' <=> times = 0
      BY <3>2, <3>3 DEF IsAlive
    <3> QED
      BY <1>6, <2>2, <3>2, <3>4
  <2> QED
    BY <1>2, <1>9, <1>11, <2>1, <2>3 DEF OwnedInv
<1>15. OutputInv' /\ PlaceInv'
  <2>1. \A i \in DOMAIN deltas : Given(i) = Size
    BY <1>2, GivenAtEnd
  <2>2. \A i \in DOMAIN deltas : Given(i)' = Size
    BY <1>3, <1>4 DEF Given
  <2>3. \A i \in DOMAIN deltas : \A u \in 1 .. Size :
           IsText(output[i][u], u, Normalized(deltas[i])) /\ Placed(output[i][u], u, i)
    BY <1>1, <1>3, <2>1 DEF OutputInv, PlaceInv
  <2>4. \A i \in DOMAIN deltas : \A u \in 1 .. Size :
           IsText(output[i][u], u, Normalized(deltas[i]))' /\ Placed(output[i][u], u, i)'
    <3> SUFFICES ASSUME NEW i \in DOMAIN deltas, NEW u \in 1 .. Size
                 PROVE  IsText(output[i][u], u, Normalized(deltas[i]))' /\ Placed(output[i][u], u, i)'
      OBVIOUS
    <3>1. PICK id, d : id = output[i][u] /\ d = Normalized(deltas[i])
      OBVIOUS
    <3>2. IsText(id, u, d) /\ Placed(id, u, i) /\ id \in Id
      BY <2>3, <3>1 DEF IsText
    <3>3. IsText(id, u, d)' /\ Placed(id, u, i)'
      BY <1>2, <1>9, <1>10, <3>2 DEF Placed, Cloned, Batched, IsCloneOfInput
    <3> QED
      BY <1>2, <3>1, <3>3 DEF IsText, Placed, Cloned
  <2>5. \A i \in DOMAIN deltas : output[i] \in Seq(Id) /\ Len(output[i]) = Size
    BY <1>1, <1>3, <2>1 DEF OutputInv
  <2>6. DOMAIN output = DOMAIN deltas
    BY <1>1 DEF OutputInv
  <2> QED
    BY <1>2, <1>9, <2>2, <2>4, <2>5, <2>6 DEF OutputInv, PlaceInv
<1> QED
  BY <1>1, <1>2, <1>3, <1>5, <1>12, <1>13, <1>14, <1>15, BetweenDeltas

-----------------------------------------------------------------------------
(* A request for one rotation has one delta. *)
LEMMA ChainTyped ==
    ASSUME PhaseInv, entry = "chain"
    PROVE  DOMAIN deltas = {1} /\ index = 1 /\ LastIndex = 1
<1>1. deltas \in Request["chain"] /\ index \in DOMAIN deltas
  BY DEF PhaseInv
<1>2. LastIndex = 1
  BY <1>1, RequestAssumption DEF LastIndex
<1>3. DOMAIN deltas = 1 .. LastIndex
  BY CallTyped
<1> QED
  BY <1>1, <1>2, <1>3

LEMMA RotateChainKeeps ==
    ASSUME ValueInv, RotateChain
    PROVE  ValueInv'
<1>1. PhaseInv /\ HeapInv /\ OutputInv /\ SingleInv /\ SingleOwnedInv
  BY DEF ValueInv
<1>2. /\ entry' = entry /\ deltas' = deltas /\ rotate_input' = rotate_input /\ temp_data' = <<>>
      /\ unit' = unit /\ index' = index /\ pc = "chain"
  BY DEF RotateChain
<1>3. entry = "chain"
  BY <1>1, <1>2 DEF PhaseInv, Phase, Entry
<1>4. Size' = Size /\ Objects' = Objects /\ Delta' = Delta
  BY <1>2, CallSame DEF Delta
<1>5. /\ Size \in Nat \ {0} /\ Delta \in 0 .. SlotCount - 1 /\ DOMAIN deltas = {1}
      /\ DOMAIN output = {1}
  BY <1>1, <1>3, CallTyped, ChainTyped DEF OutputInv
<1>6. PICK delta, d, key, source, list, next :
         /\ delta = Delta /\ d = previous /\ next = d + key
         /\ key = IF Delta = 0 THEN 0 ELSE NextKey(Delta, previous)
         /\ source = IF output[1] = <<>> THEN rotate_input ELSE output[1]
         /\ list = temp_data \o output[1]
  OBVIOUS
<1>7. PICK new : new = [u \in 1 .. Size |-> Rotation(Copy(source[u], "rotated"),
                                                   Copy(source[u], "rotated"), key)]
  OBVIOUS
<1>8. /\ heap' = Deleted(heap \o new, list) /\ output' = <<NewIds(Size)>>
      /\ previous' = next /\ pc' = IF next = delta THEN "done" ELSE "chain"
  BY <1>2, <1>6, <1>7 DEF RotateChain
<1>9. /\ d \in PrefixesOf(delta) /\ (d = delta => delta = 0)
      /\ output[1] = <<>> => d = 0
  BY <1>1, <1>2, <1>3, <1>6 DEF SingleInv
<1>10. /\ key \in Int /\ next \in 0 .. SlotCount - 1 /\ Normalized(next) = next
       /\ next # delta => next \in PrefixesOf(delta) /\ (next = delta => delta = 0)
  <2>1. CASE delta = 0
    <3>1. \A k \in Keys : 0 % k = 0
      BY KeysTyped
    <3>2. d = 0 /\ key = 0
      BY <1>6, <1>9, <2>1, <3>1 DEF PrefixesOf
    <3>3. next = 0 /\ 0 \in 0 .. SlotCount - 1
      BY <1>6, <3>2, KeysTyped
    <3> QED
      BY <2>1, <3>2, <3>3, NormalizedRange
  <2>2. CASE delta # 0
    <3>1. d # delta /\ key = NextKey(delta, d)
      BY <1>6, <1>9, <2>2
    <3>2. /\ key \in Keys /\ next \in 1 .. SlotCount - 1
          /\ next # delta => next \in PrefixesOf(delta)
      BY <1>5, <1>6, <1>9, <3>1, NextKeyFacts
    <3>3. key \in Int /\ next \in 0 .. SlotCount - 1 /\ next \in Int
      BY <3>2, KeysTyped
    <3> QED
      BY <3>2, <3>3, NormalizedRange
  <2> QED
    BY <2>1, <2>2
<1>11. d \in 0 .. SlotCount - 1 /\ d # Garbage
  <2>1. \A k \in Keys : delta % k \in 0 .. k - 1
    <3> TAKE k \in Keys
    <3>1. k \in Nat \ {0} /\ delta \in Int
      BY <1>5, <1>6, KeysTyped
    <3> QED
      BY <3>1, Divided
  <2> QED
    BY <1>9, <2>1, KeysTyped DEF PrefixesOf, Garbage
<1>12. /\ \A id \in Id : heap[id].deletions <= 1
       /\ {id \in Id : IsAlive(id)} = Input \cup ToSet(temp_data) \cup ToSet(output[1])
       /\ \A m, n \in DOMAIN temp_data : temp_data[m] = temp_data[n] => m = n
       /\ ToSet(temp_data) \cap Input = {}
       /\ output[1] = <<>> => \A id \in Id : IsAlive(id)
       /\ output[1] # <<>> =>
              /\ temp_data = <<>> /\ ToSet(output[1]) \cap Input = {}
              /\ \A u, v \in 1 .. Size : output[1][u] = output[1][v] => u = v
  BY <1>1, <1>3 DEF SingleOwnedInv
<1>13. output[1] # <<>> =>
              /\ output[1] \in Seq(Id) /\ Len(output[1]) = Size
              /\ \A u \in 1 .. Size : IsText(output[1][u], u, previous)
  BY <1>1, <1>3 DEF SingleInv
<1>14. \A u \in 1 .. Size : IsText(source[u], u, d) /\ IsAlive(source[u])
  <2>1. CASE output[1] = <<>>
    <3>1. \A u \in 1 .. Size : IsText(source[u], u, d)
      BY <1>1, <1>6, <1>9, <2>1 DEF HeapInv
    <3> QED
      BY <1>12, <2>1, <3>1 DEF IsText
  <2>2. CASE output[1] # <<>>
    <3>1. \A u \in 1 .. Size : IsText(source[u], u, d)
      BY <1>6, <1>13, <2>2
    <3>2. \A u \in 1 .. Size : source[u] \in ToSet(output[1])
      BY <1>6, <1>13, <2>2 DEF ToSet
    <3> QED
      BY <1>12, <3>1, <3>2
  <2> QED
    BY <2>1, <2>2
<1>15. \A u \in 1 .. Size : new[u] = Object(u, next, "rotated")
  <2>1. \A u \in 1 .. Size : Copy(source[u], "rotated") = Object(u, d, "rotated")
    BY <1>14 DEF Copy, IsText
  <2>2. \A u \in 1 .. Size : new[u] = Rotation(Object(u, d, "rotated"), Object(u, d, "rotated"), key)
    BY <1>7, <2>1
  <2>3. \A u : Rotation(Object(u, d, "rotated"), Object(u, d, "rotated"), key) = Object(u, Normalized(next), "rotated")
    BY <1>6, <1>11 DEF Rotation, Object
  <2> QED
    BY <1>10, <2>2, <2>3
<1>16. new \in Seq(Objects) /\ Len(new) = Size
  <2>1. \A u \in 1 .. Size : Object(u, next, "rotated") \in Objects
    BY <1>10 DEF Object, Objects, Made
  <2>2. new \in [1 .. Size -> Objects]
    BY <1>7, <1>15, <2>1
  <2> HIDE DEF Objects
  <2> QED
    BY <1>5, <2>2
<1>17. PICK grown, result : grown = heap \o new /\ result = heap'
  OBVIOUS
<1>18. /\ grown \in Seq(Objects) /\ Len(grown) = Len(heap) + Size /\ Len(heap) \in Nat
       /\ \A id \in 1 .. Len(heap) : grown[id] = heap[id]
       /\ \A u \in 1 .. Size : grown[Len(heap) + u] = new[u]
       /\ \A i \in 1 .. Len(heap) + Size :
            i \in 1 .. Len(heap) \/ \E n \in 1 .. Size : i = Len(heap) + n
  <2>1. heap \in Seq(Objects)
    BY <1>1 DEF HeapInv
  <2>2. PICK base : base = heap
    OBVIOUS
  <2> HIDE DEF Objects
  <2>3. base \in Seq(Objects) /\ new \in Seq(Objects) /\ grown = base \o new
    BY <1>16, <1>17, <2>1, <2>2
  <2>4. /\ grown \in Seq(Objects) /\ Len(grown) = Len(base) + Len(new)
        /\ Len(base) \in Nat
        /\ \A i \in 1 .. Len(base) : grown[i] = base[i]
        /\ \A n \in 1 .. Len(new) : grown[Len(base) + n] = new[n]
        /\ \A i \in 1 .. Len(base) + Len(new) :
             i \in 1 .. Len(base) \/ \E n \in 1 .. Len(new) : i = Len(base) + n
    BY <2>3, Joined
  <2> QED
    BY <1>16, <2>2, <2>4
<1>19. Id \subseteq 1 .. Len(grown) /\ Id = 1 .. Len(heap)
  <2>1. \A id \in 1 .. Len(heap) : id \in 1 .. Len(heap) + Size
    BY <1>5, <1>18
  <2> QED
    BY <1>18, <2>1 DEF Id
<1>20. /\ temp_data \in Seq(Id) /\ output[1] \in Seq(Id) /\ list \in Seq(Id)
       /\ ToSet(list) = ToSet(temp_data) \cup ToSet(output[1])
  <2>1. temp_data \in Seq(Id) /\ output[1] \in Seq(Id)
    <3>1. <<>> \in Seq(Id)
      OBVIOUS
    <3> QED
      BY <1>1, <1>13, <3>1 DEF HeapInv
  <2> HIDE DEF Id
  <2> QED
    BY <1>6, <2>1, Joined
<1>21. list \in Seq(1 .. Len(grown))
  <2>1. PICK places : places = 1 .. Len(grown)
    OBVIOUS
  <2>2. \A id \in Id : id \in places
    BY <1>19, <2>1
  <2> HIDE DEF Id
  <2>3. list \in Seq(places)
    BY <1>20, <2>2
  <2> QED
    BY <2>1, <2>3
<1>22. \A m, n \in DOMAIN list : list[m] = list[n] => m = n
  <2>1. CASE output[1] = <<>>
    <3>1. list = temp_data
      <4> HIDE DEF Id
      <4> QED
        BY <1>6, <1>20, <2>1
    <3> QED
      BY <1>12, <3>1
  <2>2. CASE output[1] # <<>>
    <3>1. list = output[1]
      <4>1. PICK given : given = output[1]
        OBVIOUS
      <4>2. given \in Seq(Id) /\ list = <<>> \o given
        BY <1>6, <1>12, <1>20, <2>2, <4>1
      <4> HIDE DEF Id
      <4>3. <<>> \o given = given
        BY <4>2
      <4> QED
        BY <4>1, <4>2, <4>3
    <3>2. DOMAIN list = 1 .. Size
      BY <1>13, <2>2, <3>1
    <3> QED
      BY <1>12, <2>2, <3>1, <3>2
  <2> QED
    BY <2>1, <2>2
<1>23. result = Deleted(grown, list)
  BY <1>8, <1>17
<1>24. /\ result \in Seq(Objects) /\ Len(result) = Len(grown)
       /\ \A id \in 1 .. Len(grown) :
            /\ result[id].unit = grown[id].unit /\ result[id].delta = grown[id].delta
            /\ result[id].made = grown[id].made
            /\ result[id].deletions = grown[id].deletions + Cardinality(Listed(list, id))
            /\ grown[id].deletions \in Nat
  <2> HIDE DEF Objects
  <2> QED
    BY <1>18, <1>21, <1>23, DeletedFacts
<1>25. Id' = 1 .. Len(heap) + Size
  BY <1>17, <1>18, <1>24 DEF Id
<1>26. \A id \in Id : /\ id \in Id' /\ heap'[id].unit = heap[id].unit /\ heap'[id].delta = heap[id].delta
                      /\ heap'[id].made = heap[id].made
                      /\ heap'[id].deletions = heap[id].deletions + Cardinality(Listed(list, id))
                      /\ heap[id].deletions \in Nat
  BY <1>17, <1>18, <1>19, <1>24, <1>25
<1>27. \A u \in 1 .. Size :
          /\ Len(heap) + u \in Id' /\ Len(heap) + u \notin Id
          /\ heap'[Len(heap) + u].unit = u /\ heap'[Len(heap) + u].delta = next
          /\ heap'[Len(heap) + u].made = "rotated" /\ heap'[Len(heap) + u].deletions = 0
  <2> TAKE u \in 1 .. Size
  <2>1. PICK id : id = Len(heap) + u
    OBVIOUS
  <2>2. id \in 1 .. Len(grown) /\ id \in Id' /\ id \notin Id
    BY <1>5, <1>18, <1>25, <2>1 DEF Id
  <2>3. grown[id] = Object(u, next, "rotated")
    BY <1>15, <1>18, <2>1
  <2>4. grown[id].unit = u /\ grown[id].delta = next /\ grown[id].made = "rotated"
        /\ grown[id].deletions = 0
    BY <2>3 DEF Object
  <2>5. id \notin ToSet(list)
    BY <1>20, <2>2 DEF ToSet
  <2>6. Cardinality(Listed(list, id)) = 0
    BY <1>20, <2>5, ListedFacts
  <2>7. heap'[id].deletions = 0
    <3>1. heap'[id].deletions = grown[id].deletions + 0
      BY <1>17, <1>24, <2>2, <2>6
    <3> QED
      BY <2>4, <3>1
  <2>8. heap'[id].unit = u /\ heap'[id].delta = next /\ heap'[id].made = "rotated"
    BY <1>17, <1>24, <2>2, <2>4
  <2> QED
    BY <2>1, <2>2, <2>7, <2>8
<1>28. \A id \in Id' : id \in Id \/ \E u \in 1 .. Size : id = Len(heap) + u
  BY <1>18, <1>19, <1>25
<1> HIDE DEF Id
<1>29. \A id, u, amount : IsText(id, u, amount) => IsText(id, u, amount)'
  BY <1>26 DEF IsText
<1>30. PhaseInv'
  BY <1>1, <1>2, <1>3, <1>4, <1>8 DEF PhaseInv, Phase
<1>31. HeapInv'
  <2>1. heap' \in Seq(Objects) /\ temp_data' \in Seq(Id)'
    BY <1>2, <1>17, <1>24
  <2>2. \A u \in 1 .. Size : IsText(rotate_input[u], u, 0)'
                            /\ heap'[rotate_input'[u]].made \in {"input", "converted"}
    <3> TAKE u \in 1 .. Size
    <3>1. PICK id : id = rotate_input[u]
      OBVIOUS
    <3>2. IsText(id, u, 0) /\ id \in Id /\ heap[id].made \in {"input", "converted"}
      BY <1>1, <3>1 DEF HeapInv, IsText
    <3> QED
      BY <1>2, <1>26, <1>29, <3>1, <3>2 DEF IsText
  <2>3. DOMAIN rotate_input = 1 .. Size
    BY <1>1 DEF HeapInv
  <2>4. pc' # "prepare"
    BY <1>8
  <2> QED
    BY <1>2, <1>4, <2>1, <2>2, <2>3, <2>4 DEF HeapInv
<1>32. PICK ids : ids = NewIds(Size)
  OBVIOUS
<1>33. /\ ids \in Seq(Id') /\ Len(ids) = Size /\ DOMAIN ids = 1 .. Size
       /\ \A u \in 1 .. Size : ids[u] = Len(heap) + u
  <2>1. \A u \in 1 .. Size : ids[u] = Len(heap) + u
    BY <1>32 DEF NewIds
  <2>2. ids \in [1 .. Size -> Id']
    BY <1>27, <1>32, <2>1 DEF NewIds
  <2> QED
    BY <1>5, <2>1, <2>2
<1>34. output' = <<ids>> /\ output'[1] = ids /\ ids # <<>> /\ DOMAIN output' = {1}
  <2>1. 1 \in DOMAIN ids
    BY <1>5, <1>33
  <2>2. ids # <<>>
    BY <2>1
  <2> QED
    BY <1>8, <1>32, <2>2
<1>35. OutputInv'
  BY <1>2, <1>3, <1>5, <1>34 DEF OutputInv
<1>36. SingleInv'
  <2>1. ids \in Seq(Id)' /\ Len(ids) = Size'
    BY <1>4, <1>33
  <2>2. \A u \in 1 .. Size : IsText(output[1][u], u, previous)'
    BY <1>8, <1>27, <1>33, <1>34 DEF IsText
  <2>3. pc' = "chain" => next \in PrefixesOf(delta) /\ next # delta
    BY <1>8, <1>10
  <2>4. pc' = "done" => next = delta
    BY <1>8
  <2>5. pc' # "prepare"
    BY <1>8
  <2> QED
    BY <1>3, <1>4, <1>6, <1>8, <1>34, <2>1, <2>2, <2>3, <2>4, <2>5 DEF SingleInv, PrefixesOf
<1>37. \A id \in Id : /\ (id \in ToSet(list) => ~IsAlive(id)') /\ (id \notin ToSet(list) => heap'[id].deletions = heap[id].deletions)
                      /\ heap'[id].deletions <= 1
  <2> TAKE id \in Id
  <2>1. PICK times : times = Cardinality(Listed(list, id))
    OBVIOUS
  <2>2. times \in Nat /\ (id \notin ToSet(list) => times = 0) /\ (id \in ToSet(list) => times > 0) /\ times =< 1
    BY <1>20, <1>22, <2>1, ListedFacts
  <2>3. id \in ToSet(list) => heap[id].deletions = 0
    BY <1>12, <1>20 DEF IsAlive
  <2>4. heap'[id].deletions = heap[id].deletions + times /\ heap[id].deletions \in Nat
        /\ heap[id].deletions <= 1
    BY <1>12, <1>26, <2>1
  <2> QED
    BY <2>2, <2>3, <2>4 DEF IsAlive
<1>38. Input' = Input
  <2>1. \A id \in Id' : heap'[id].made = "input" <=> (id \in Id /\ heap[id].made = "input")
    BY <1>26, <1>27, <1>28
  <2> QED
    BY <1>26, <2>1 DEF Input
<1>39. SingleOwnedInv'
  <2>1. \A id \in Id' : heap'[id].deletions <= 1
    BY <1>27, <1>28, <1>37
  <2>2. ToSet(ids) = {Len(heap) + u : u \in 1 .. Size}
    BY <1>33 DEF ToSet
  <2>3. ASSUME NEW id \in Id' PROVE IsAlive(id)' <=> id \in Input \cup ToSet(ids)
    <3>1. CASE id \in Id
      <4>1. id \notin ToSet(ids)
        BY <1>27, <2>2, <3>1
      <4>2. CASE id \in ToSet(list)
        <5>1. ToSet(output[1]) \cap Input = {}
          <6>1. ToSet(<<>>) = {}
            BY DEF ToSet
          <6> QED
            BY <1>12, <6>1
        <5>2. id \notin Input
          BY <1>12, <1>20, <4>2, <5>1
        <5> QED
          BY <1>37, <3>1, <4>1, <4>2, <5>2
      <4>3. CASE id \notin ToSet(list)
        <5>1. IsAlive(id)' <=> IsAlive(id)
          BY <1>37, <3>1, <4>3 DEF IsAlive
        <5>2. IsAlive(id) <=> id \in Input
          BY <1>12, <1>20, <3>1, <4>3
        <5> QED
          BY <4>1, <5>1, <5>2
      <4> QED
        BY <4>2, <4>3
    <3>2. ASSUME NEW u \in 1 .. Size, id = Len(heap) + u
          PROVE  IsAlive(id)' <=> id \in Input \cup ToSet(ids)
      BY <1>27, <2>2, <3>2 DEF IsAlive
    <3> QED
      BY <1>28, <3>1, <3>2
  <2>4. {id \in Id' : IsAlive(id)'} = Input' \cup ToSet(<<>>) \cup ToSet(ids)
    <3>1. Input \subseteq Id' /\ ToSet(ids) \subseteq Id' /\ ToSet(<<>>) = {}
      BY <1>26, <1>27, <2>2 DEF Input, ToSet
    <3> QED
      BY <1>38, <2>3, <3>1
  <2>5. ToSet(ids) \cap Input' = {}
    BY <1>27, <1>38, <2>2 DEF Input
  <2>6. \A u, v \in 1 .. Size : ids[u] = ids[v] => u = v
    BY <1>18, <1>33
  <2>7. ToSet(temp_data)' = ToSet(<<>>) /\ ToSet(output[1])' = ToSet(ids) /\ ToSet(<<>>) = {}
    BY <1>2, <1>34 DEF ToSet
  <2>8. \A m, n \in DOMAIN temp_data' : temp_data'[m] = temp_data'[n] => m = n
    BY <1>2
  <2> QED
    BY <1>2, <1>4, <1>34, <2>1, <2>4, <2>5, <2>6, <2>7, <2>8 DEF SingleOwnedInv
<1> QED
  BY <1>2, <1>3, <1>8, <1>30, <1>31, <1>35, <1>36, <1>39
     DEF ValueInv, MapInv, ChainInv, OwnedInv, PlaceInv

-----------------------------------------------------------------------------
(* The units of the converted texts. *)
LEMMA UnitOfConverted ==
    ASSUME NEW size \in Nat \ {0}, NEW c \in Nat
    PROVE  /\ \A n \in 1 .. c * size : (((n - 1) % size) + 1) \in 1 .. size
           /\ c # 0 => \A u \in 1 .. size :
                 /\ ((c - 1) * size) + u \in 1 .. c * size
                 /\ ((((c - 1) * size) + u - 1) % size) + 1 = u
<1>1. c * size \in Nat
  OBVIOUS
<1>2. ASSUME NEW n \in 1 .. c * size PROVE (((n - 1) % size) + 1) \in 1 .. size
  <2>1. n - 1 \in Int
    BY <1>1
  <2>2. (n - 1) % size \in 0 .. size - 1
    BY <2>1, Divided
  <2> QED
    BY <2>2
<1>3. ASSUME c # 0, NEW u \in 1 .. size
      PROVE  /\ ((c - 1) * size) + u \in 1 .. c * size
             /\ ((((c - 1) * size) + u - 1) % size) + 1 = u
  <2>1. PICK w \in Nat : w = c - 1
    BY <1>3
  <2>2. c * size = (size * w) + size /\ w * size = size * w /\ size * w \in Nat
    BY <1>3, <2>1
  <2>3. (size * w) + u \in 1 .. (size * w) + size
    BY <2>2
  <2>4. PICK r : r = u - 1
    OBVIOUS
  <2>5. r \in 0 .. size - 1 /\ w \in Int
    BY <2>4
  <2>6. ((size * w) + r) % size = r
    BY <2>5, DividedUnique
  <2>7. (size * w) + u - 1 = (size * w) + r
    BY <2>2, <2>4
  <2> QED
    BY <2>1, <2>2, <2>3, <2>4, <2>6, <2>7
<1> QED
  BY <1>2, <1>3

(* What the conversions make. *)
LEMMA ConversionsMade ==
    ASSUME ValueInv, Prepare
    PROVE  \E more, ids :
              /\ more \in Seq(Objects)
              /\ Grows(more) /\ temp_data' = ids
              /\ ids \in Seq(Id') /\ Len(ids) = Len(more)
              /\ \A n \in 1 .. Len(more) : /\ ids[n] = Len(heap) + n
                                           /\ more[n].delta = 0 /\ more[n].made = "converted"
              /\ DOMAIN rotate_input' = 1 .. Size
              /\ \A u \in 1 .. Size : /\ IsText(rotate_input[u], u, 0)'
                                     /\ heap'[rotate_input'[u]].made \in {"input", "converted"}
<1>1. PhaseInv /\ HeapInv
  BY DEF ValueInv
<1>2. pc = "prepare" /\ entry' = entry /\ deltas' = deltas
  BY DEF Prepare
<1>3. PICK c \in Nat :
         LET ids == NewIds(c * Size)
             last == [u \in 1 .. Size |-> Len(heap) + (c - 1) * Size + u]
         IN  /\ heap' = heap \o [n \in DOMAIN ids |-> Copy(((n - 1) % Size) + 1, "converted")]
             /\ temp_data' = temp_data \o ids
             /\ rotate_input' = IF c = 0 THEN rotate_input ELSE last
  <2>1. PICK c \in IF entry = "chain" /\ Delta = 0 THEN {0} ELSE 0 .. MaxConversions :
         LET ids == NewIds(c * Size)
             last == [u \in 1 .. Size |-> Len(heap) + (c - 1) * Size + u]
         IN  /\ heap' = heap \o [n \in DOMAIN ids |-> Copy(((n - 1) % Size) + 1, "converted")]
             /\ temp_data' = temp_data \o ids
             /\ rotate_input' = IF c = 0 THEN rotate_input ELSE last
    BY Zenon DEF Prepare
  <2>2. c \in Nat
    BY SizeAssumption
  <2> QED
    BY <2>1, <2>2, Zenon
<1>4. Size \in Nat \ {0}
  BY <1>1, CallTyped
<1>5. /\ heap = [u \in 1 .. Size |-> Object(u, 0, "input")] /\ temp_data = <<>>
      /\ rotate_input = [u \in 1 .. Size |-> u]
  BY <1>1, <1>2 DEF HeapInv
<1>6. heap \in Seq(Objects) /\ Len(heap) = Size
  BY <1>1, <1>4, <1>5 DEF HeapInv
<1>7. PICK total : total = c * Size
  OBVIOUS
<1>8. total \in Nat /\ \A n \in 1 .. total : (((n - 1) % Size) + 1) \in 1 .. Size
  <2>1. PICK size : size = Size
    OBVIOUS
  <2> QED
    BY <1>4, <1>7, <2>1, UnitOfConverted
<1>9. PICK ids, more : /\ ids = NewIds(total)
                       /\ more = [n \in DOMAIN ids |-> Copy(((n - 1) % Size) + 1, "converted")]
  OBVIOUS
<1>10. DOMAIN ids = 1 .. total /\ \A n \in 1 .. total : ids[n] = Len(heap) + n
  BY <1>9 DEF NewIds
<1>11. \A u \in 1 .. Size : Copy(u, "converted") = Object(u, 0, "converted")
  <2>1. \A u \in 1 .. Size : heap[u].unit = u /\ heap[u].delta = 0 /\ heap[u].deletions = 0
    BY <1>5 DEF Object
  <2> QED
    BY <2>1 DEF Copy, IsAlive
<1>12. \A n \in 1 .. total : more[n] = Object(((n - 1) % Size) + 1, 0, "converted")
  BY <1>8, <1>9, <1>10, <1>11
<1>13. \A u \in 1 .. Size : Object(u, 0, "converted") \in Objects
  BY KeysTyped DEF Object, Objects, Made
<1>14. more \in Seq(Objects) /\ Len(more) = total
  <2>1. more \in [1 .. total -> Objects]
    <3>1. \A n \in 1 .. total : more[n] \in Objects
      BY <1>8, <1>12, <1>13
    <3> QED
      BY <1>9, <1>10, <3>1
  <2> HIDE DEF Objects
  <2> QED
    BY <1>8, <2>1
<1>15. \A n \in 1 .. total : /\ more[n].delta = 0 /\ more[n].made = "converted"
                             /\ more[n].deletions = 0 /\ more[n].unit = ((n - 1) % Size) + 1
  <2>1. \A u \in 1 .. Size : LET object == Object(u, 0, "converted")
                            IN  /\ object.delta = 0 /\ object.made = "converted"
                                /\ object.deletions = 0 /\ object.unit = u
    BY DEF Object
  <2> SUFFICES ASSUME NEW n \in 1 .. total
               PROVE  /\ more[n].delta = 0 /\ more[n].made = "converted"
                      /\ more[n].deletions = 0 /\ more[n].unit = ((n - 1) % Size) + 1
    OBVIOUS
  <2>2. PICK u \in 1 .. Size : u = ((n - 1) % Size) + 1
    BY <1>8
  <2>3. more[n] = Object(u, 0, "converted")
    BY <1>12, <2>2
  <2> QED
    BY <2>1, <2>2, <2>3
<1>16. Grows(more)
  <2>1. heap' = heap \o more
    BY <1>3, <1>7, <1>9
  <2> QED
    BY <1>2, <1>14, <1>15, <2>1 DEF Grows
<1>17. \A n \in 1 .. total : Len(heap) + n \in Id' /\ heap'[Len(heap) + n] = more[n]
  BY <1>6, <1>14, <1>16, Grown
<1>18. ids \in Seq(Id')
  <2>1. ids \in [1 .. total -> Id']
    BY <1>9, <1>10, <1>17 DEF NewIds
  <2> HIDE DEF Id
  <2> QED
    BY <1>8, <2>1
<1>19. temp_data' = ids
  <2>1. temp_data' = <<>> \o ids
    BY <1>3, <1>5, <1>7, <1>9
  <2> HIDE DEF Id
  <2>2. <<>> \o ids = ids
    BY <1>18
  <2> QED
    BY <2>1, <2>2
<1>20. Len(ids) = total
  BY <1>8, <1>10, <1>18
<1>21. /\ DOMAIN rotate_input' = 1 .. Size
       /\ \A u \in 1 .. Size : /\ IsText(rotate_input[u], u, 0)'
                               /\ heap'[rotate_input'[u]].made \in {"input", "converted"}
  <2>1. CASE c = 0
    <3>1. rotate_input' = rotate_input
      BY <1>3, <2>1
    <3>2. \A u \in 1 .. Size : u \in Id' /\ heap'[u] = Object(u, 0, "input")
      <4>1. \A id \in Id : id \in Id' /\ heap'[id] = heap[id]
        BY <1>6, <1>16, Grown
      <4> QED
        BY <1>5, <1>6, <4>1 DEF Id
    <3> QED
      BY <1>5, <3>1, <3>2 DEF IsText, Object
  <2>2. CASE c # 0
    <3>1. rotate_input' = [u \in 1 .. Size |-> Len(heap) + (c - 1) * Size + u]
      BY <1>3, <2>2
    <3> SUFFICES ASSUME NEW u \in 1 .. Size
                 PROVE  /\ IsText(rotate_input[u], u, 0)'
                        /\ heap'[rotate_input'[u]].made \in {"input", "converted"}
      BY <3>1
    <3>2. PICK n : n = ((c - 1) * Size) + u
      OBVIOUS
    <3>3. n \in 1 .. total /\ ((n - 1) % Size) + 1 = u
      <4>1. PICK size : size = Size
        OBVIOUS
      <4>2. /\ ((c - 1) * size) + u \in 1 .. c * size
            /\ ((((c - 1) * size) + u - 1) % size) + 1 = u
        BY <1>4, <2>2, <4>1, UnitOfConverted
      <4>3. n \in 1 .. total
        BY <1>7, <3>2, <4>1, <4>2
      <4>4. ((n - 1) % size) + 1 = u
        <5>1. PICK m : m = ((c - 1) * size) + u - 1
          OBVIOUS
        <5>2. (m % size) + 1 = u
          BY <4>2, <5>1, Zenon
        <5>3. n - 1 = m
          <6>1. n = ((c - 1) * size) + u
            BY <3>2, <4>1
          <6>2. PICK start \in Int : start = (c - 1) * size
            BY <1>4, <4>1
          <6>3. n = start + u /\ m = (start + u) - 1
            BY <5>1, <6>1, <6>2
          <6> QED
            BY <6>3
        <5> QED
          BY <5>2, <5>3, Zenon
      <4> QED
        BY <4>1, <4>3, <4>4
    <3>4. rotate_input'[u] = Len(heap) + n
      <4>1. (c - 1) * Size \in Int
        BY <1>4
      <4> QED
        BY <1>4, <1>6, <3>1, <3>2, <4>1
    <3> QED
      BY <1>15, <1>17, <3>3, <3>4 DEF IsText
  <2> QED
    BY <2>1, <2>2
<1> QED
  BY <1>10, <1>14, <1>15, <1>16, <1>18, <1>19, <1>20, <1>21

LEMMA PrepareKeeps ==
    ASSUME ValueInv, Prepare
    PROVE  ValueInv'
<1>1. PhaseInv /\ HeapInv /\ MapInv /\ OwnedInv /\ OutputInv /\ PlaceInv /\ SingleInv /\ SingleOwnedInv
  BY DEF ValueInv
<1>2. /\ pc = "prepare" /\ entry' = entry /\ deltas' = deltas
      /\ unit' = unit /\ index' = index /\ previous' = previous
      /\ decomposed' = decomposed /\ output' = output
      /\ rotated' = [u \in 1 .. Size |-> [d \in {0} |-> rotate_input'[u]]]
      /\ pc' = CASE entry = "long" -> "clone_zero"
               [] entry = "chain" -> "chain"
               [] OTHER -> "rotate"
  BY DEF Prepare
<1>3. PICK more, ids :
              /\ more \in Seq(Objects)
              /\ Grows(more) /\ temp_data' = ids
              /\ ids \in Seq(Id') /\ Len(ids) = Len(more)
              /\ \A n \in 1 .. Len(more) : /\ ids[n] = Len(heap) + n
                                           /\ more[n].delta = 0 /\ more[n].made = "converted"
              /\ DOMAIN rotate_input' = 1 .. Size
              /\ \A u \in 1 .. Size : /\ IsText(rotate_input[u], u, 0)'
                                     /\ heap'[rotate_input'[u]].made \in {"input", "converted"}
  BY ConversionsMade
<1>4. /\ Size' = Size /\ Objects' = Objects
      /\ Size \in Nat \ {0} /\ DOMAIN deltas = 1 .. LastIndex /\ LastIndex \in Nat \ {0}
      /\ unit = 1 /\ index = 1 /\ previous = 0
  BY <1>1, <1>2, CallSame, CallTyped DEF PhaseInv
<1>5. /\ heap = [u \in 1 .. Size |-> Object(u, 0, "input")] /\ temp_data = <<>>
      /\ decomposed = [u \in 1 .. Size |-> <<>>]
  BY <1>1, <1>2 DEF HeapInv
<1>6. pc' # "prepare" /\ pc' \in Phase[entry] /\ pc' \notin {"clear", "clone", "done"}
  BY <1>1, <1>2 DEF PhaseInv, Phase, Entry
<1>7. PhaseInv'
  BY <1>1, <1>2, <1>4, <1>6 DEF PhaseInv
<1>8. /\ heap' \in Seq(Objects) /\ \A id \in Id : id \in Id' /\ heap'[id] = heap[id]
      /\ \A n \in 1 .. Len(more) : Len(heap) + n \in Id' /\ Len(heap) + n \notin Id
                                   /\ heap'[Len(heap) + n] = more[n]
      /\ \A id \in Id' : id \in Id \/ \E n \in 1 .. Len(more) : id = Len(heap) + n
      /\ Len(heap) \in Nat /\ Len(more) \in Nat
  BY <1>1, <1>3, <1>4, Grown DEF HeapInv
<1>9. \A id \in Id : heap[id].made = "input" /\ heap[id].deletions = 0
  <2>1. Id = 1 .. Size
    BY <1>4, <1>5 DEF Id
  <2> QED
    BY <1>5, <2>1 DEF Object
<1>10. \A n \in 1 .. Len(more) : more[n].deletions = 0 /\ more[n].made = "converted"
  BY <1>3 DEF Grows
<1>11. \A id \in Id' : heap'[id].made \in {"input", "converted"} /\ heap'[id].deletions = 0
  <2> SUFFICES ASSUME NEW id \in Id'
               PROVE  heap'[id].made \in {"input", "converted"} /\ heap'[id].deletions = 0
    OBVIOUS
  <2>1. CASE id \in Id
    BY <1>8, <1>9, <2>1
  <2>2. ASSUME NEW n \in 1 .. Len(more), id = Len(heap) + n
        PROVE  heap'[id].made \in {"input", "converted"} /\ heap'[id].deletions = 0
    <3>1. heap'[id] = more[n]
      BY <1>8, <2>2
    <3> QED
      BY <1>10, <3>1
  <2> QED
    BY <1>8, <2>1, <2>2
<1>12. HeapInv'
  BY <1>2, <1>3, <1>4, <1>6, <1>8 DEF HeapInv
<1>13. ToSet(ids) = {Len(heap) + n : n \in 1 .. Len(more)}
  <2>1. DOMAIN ids = 1 .. Len(more)
    BY <1>3
  <2> QED
    BY <1>3, <2>1 DEF ToSet
<1>14. CASE entry # "chain"
  <2>1. MapInv'
    <3>1. \A u \in 1 .. Size : DOMAIN rotated'[u] = {0} /\ rotated'[u][0] = rotate_input'[u]
      BY <1>2
    <3>2. DOMAIN rotated' = 1 .. Size /\ DOMAIN decomposed' = 1 .. Size
          /\ \A u \in 1 .. Size : DOMAIN decomposed'[u] = {}
      BY <1>2, <1>5
    <3>3. \A u \in 1 .. Size : \A d \in DOMAIN rotated'[u] : IsText(rotated[u][d], u, d)'
      BY <1>3, <3>1 DEF IsText
    <3>4. \A id \in Id' : heap'[id].made # "decomposed" /\ heap'[id].made # "rotated"
      BY <1>11
    <3> QED
      BY <1>2, <1>4, <3>1, <3>2, <3>3, <3>4 DEF MapInv
  <2>2. OwnedInv'
    <3>1. ~Cleared /\ ~Cleared'
      BY <1>2, <1>6 DEF Cleared
    <3>2. \A n \in 1 .. Len(more) : Temporary(more[n])
      BY <1>3 DEF Temporary
    <3>3. ToSet(temp_data) = {} /\ ToSet(temp_data') = ToSet(ids)
      BY <1>3, <1>5 DEF ToSet
    <3>4. \A id : id \in ToSet(temp_data') <=>
              \/ id \in ToSet(temp_data)
              \/ \E n \in 1 .. Len(more) : id = Len(heap) + n /\ Temporary(more[n])
      BY <1>13, <3>2, <3>3
    <3> QED
      BY <1>1, <1>3, <1>14, <3>1, <3>4, OwnedGrown
  <2>3. OutputInv' /\ PlaceInv'
    <3>1. \A i \in DOMAIN deltas : Given(i) = 0
      BY <1>2 DEF Given
    <3>2. \A i \in DOMAIN deltas : Given(i)' = 0
      <4> SUFFICES ASSUME NEW i \in DOMAIN deltas PROVE Given(i)' = 0
        OBVIOUS
      <4>1. CASE entry = "long"
        <5>1. pc' = "clone_zero" /\ index' = 1 /\ ~(i < 1)
          BY <1>2, <1>4, <4>1
        <5> QED
          BY <5>1 DEF Given
      <4>2. CASE entry # "long"
        <5>1. pc' = "rotate" /\ index' = 1 /\ unit' = 1 /\ entry' # "long" /\ ~(i < 1)
          BY <1>2, <1>4, <1>14, <4>2
        <5>2. Given(i)' = unit' - 1
          BY <5>1 DEF Given, IsCloneOfInput
        <5> QED
          BY <5>1, <5>2
      <4> QED
        BY <4>1, <4>2
    <3>3. DOMAIN output = DOMAIN deltas
          /\ \A i \in DOMAIN deltas : output[i] \in Seq(Id) /\ Len(output[i]) = 0
      BY <1>1, <1>14, <3>1 DEF OutputInv
    <3>4. \A i \in DOMAIN deltas : output[i] \in Seq(Id')
      <4> HIDE DEF Id
      <4> QED
        BY <1>8, <3>3
    <3> QED
      BY <1>2, <3>2, <3>3, <3>4 DEF OutputInv, PlaceInv
  <2> QED
    BY <1>1, <1>2, <1>4, <1>6, <1>7, <1>12, <1>14, <2>1, <2>2, <2>3, BetweenDeltas
<1>15. CASE entry = "chain"
  <2>1. output[1] = <<>> /\ DOMAIN output = DOMAIN deltas /\ pc' = "chain"
    BY <1>1, <1>2, <1>15 DEF SingleInv, OutputInv
  <2>2. OutputInv'
    BY <1>2, <1>15, <2>1 DEF OutputInv
  <2>3. Delta' = Delta /\ Delta \in 0 .. SlotCount - 1 /\ 0 \in PrefixesOf(Delta)
    <3>1. Delta \in 0 .. SlotCount - 1 /\ Delta' = Delta
      BY <1>1, <1>2, CallTyped DEF Delta
    <3> QED
      BY <3>1, KeysTyped, PrefixZero
  <2>4. SingleInv'
    BY <1>2, <1>4, <2>1, <2>3 DEF SingleInv, PrefixesOf
  <2>5. SingleOwnedInv'
    <3>1. \A id \in Id' : heap'[id].deletions <= 1 /\ heap'[id].deletions = 0
      BY <1>11
    <3>2. {id \in Id : IsAlive(id)}' = Id'
      BY <3>1 DEF IsAlive
    <3>3. Input' = Id
      <4>1. \A id \in Id' : heap'[id].made = "input" <=> id \in Id
        <5> TAKE id \in Id'
        <5>1. CASE id \in Id
          BY <1>8, <1>9, <5>1
        <5>2. ASSUME NEW n \in 1 .. Len(more), id = Len(heap) + n
              PROVE  heap'[id].made = "input" <=> id \in Id
          <6>1. heap'[id].made = "converted" /\ id \notin Id
            BY <1>8, <1>10, <5>2
          <6> QED
            BY <6>1
        <5> QED
          BY <1>8, <5>1, <5>2
      <4> QED
        BY <1>8, <4>1 DEF Input
    <3>4. Id' = Id \cup ToSet(ids)
      BY <1>8, <1>13
    <3>5. ToSet(temp_data)' = ToSet(ids) /\ ToSet(output[1])' = {}
      BY <1>2, <1>3, <2>1 DEF ToSet
    <3>6. ToSet(ids) \cap Id = {}
      BY <1>8, <1>13
    <3>7. \A m, n \in DOMAIN ids : ids[m] = ids[n] => m = n
      <4>1. DOMAIN ids = 1 .. Len(more)
        BY <1>3
      <4> QED
        BY <1>3, <1>8, <4>1
    <3>8. \A m, n \in DOMAIN temp_data' : temp_data'[m] = temp_data'[n] => m = n
      BY <1>3, <3>7
    <3>9. {id \in Id : IsAlive(id)}' = Input' \cup ToSet(temp_data)' \cup ToSet(output[1])'
      BY <3>2, <3>3, <3>4, <3>5
    <3>10. ToSet(temp_data)' \cap Input' = {}
      BY <3>3, <3>5, <3>6
    <3>11. output'[1] = <<>> /\ \A id \in Id' : IsAlive(id)'
      BY <1>2, <2>1, <3>1 DEF IsAlive
    <3> QED
      BY <3>1, <3>8, <3>9, <3>10, <3>11 DEF SingleOwnedInv
  <2> QED
    BY <1>2, <1>7, <1>12, <1>15, <2>1, <2>2, <2>4, <2>5
       DEF ValueInv, MapInv, ChainInv, OwnedInv, PlaceInv
<1> QED
  BY <1>14, <1>15

-----------------------------------------------------------------------------
LEMMA InitValues == Init => ValueInv
<1> SUFFICES ASSUME Init
             PROVE  ValueInv
  OBVIOUS
<1>1. /\ entry \in Entry /\ deltas \in Request[entry] /\ pc = "prepare"
      /\ heap = [u \in 1 .. Size |-> Object(u, 0, "input")]
      /\ rotate_input = [u \in 1 .. Size |-> u]
      /\ temp_data = <<>> /\ unit = 1 /\ index = 1 /\ previous = 0
      /\ rotated = [u \in 1 .. Size |-> <<>>]
      /\ decomposed = [u \in 1 .. Size |-> <<>>]
      /\ output = [i \in DOMAIN deltas |-> <<>>]
  BY DEF Init
<1>2. Size \in Nat \ {0} /\ Size \in Nat /\ 1 \in 1 .. Size
  BY <1>1, SizeAssumption DEF Size
<1>3. deltas \in Seq(Int) \ {<<>>} /\ (entry = "chain" => Len(deltas) = 1)
  BY <1>1, RequestAssumption DEF Entry
<1>4. 1 \in DOMAIN deltas
  BY <1>3
<1>5. PhaseInv
  BY <1>1, <1>2, <1>4 DEF PhaseInv, Phase, Entry
<1>6. \A u \in 1 .. Size : Object(u, 0, "input") \in Objects
  BY KeysTyped DEF Object, Objects, Made
<1>7. heap \in Seq(Objects) /\ Id = 1 .. Size
  <2>1. heap \in [1 .. Size -> Objects]
    BY <1>1, <1>6
  <2> HIDE DEF Objects
  <2>2. heap \in Seq(Objects) /\ Len(heap) = Size
    BY <1>2, <2>1
  <2> QED
    BY <2>2 DEF Id
<1>8. \A id \in Id : /\ heap[id].unit = id /\ heap[id].delta = 0
                     /\ heap[id].made = "input" /\ heap[id].deletions = 0
  BY <1>1, <1>7 DEF Object
<1>9. HeapInv
  <2>1. \A u \in 1 .. Size : /\ IsText(rotate_input[u], u, 0)
                             /\ heap[rotate_input[u]].made \in {"input", "converted"}
    BY <1>1, <1>7, <1>8 DEF IsText
  <2>2. temp_data \in Seq(Id)
    BY <1>1
  <2>3. DOMAIN rotate_input = 1 .. Size
    BY <1>1
  <2> QED
    BY <1>1, <1>7, <2>1, <2>2, <2>3 DEF HeapInv
<1>10. MapInv
  <2>1. DOMAIN rotated = 1 .. Size /\ DOMAIN decomposed = 1 .. Size
        /\ \A u \in 1 .. Size : DOMAIN decomposed[u] = {}
    BY <1>1
  <2> QED
    BY <1>1, <1>8, <2>1 DEF MapInv
<1>11. ChainInv
  BY <1>1 DEF ChainInv
<1>12. \A i \in DOMAIN deltas : Given(i) = 0
  BY <1>1 DEF Given
<1>13. DOMAIN output = DOMAIN deltas /\ \A i \in DOMAIN deltas : output[i] = <<>>
  BY <1>1
<1>14. OutputInv
  <2>1. \A i \in DOMAIN deltas : output[i] \in Seq(Id) /\ Len(output[i]) = 0
    <3> HIDE DEF Id
    <3>1. <<>> \in Seq(Id) /\ Len(<<>>) = 0
      OBVIOUS
    <3> QED
      BY <1>13, <3>1
  <2> QED
    BY <1>12, <1>13, <2>1 DEF OutputInv
<1>15. ToSet(temp_data) = {} /\ \A id \in Id : IsAlive(id)
  <2>1. DOMAIN temp_data = {}
    BY <1>1
  <2>2. ToSet(temp_data) = {}
    BY <2>1 DEF ToSet
  <2> QED
    BY <1>8, <2>2 DEF IsAlive
<1>16. OwnedInv
  <2>1. ~Cleared
    BY <1>1 DEF Cleared
  <2>2. \A id \in Id : ~Temporary(heap[id])
    BY <1>8 DEF Temporary
  <2> QED
    BY <1>15, <2>1, <2>2 DEF OwnedInv
<1>17. PlaceInv
  BY <1>12 DEF PlaceInv
<1>18. SingleInv
  BY <1>1, <1>4, <1>13 DEF SingleInv
<1>19. SingleOwnedInv
  <2>1. Input = Id /\ {id \in Id : IsAlive(id)} = Id
    BY <1>8, <1>15 DEF Input
  <2>2. output[1] = <<>> /\ ToSet(output[1]) = {}
    BY <1>4, <1>13 DEF ToSet
  <2>3. \A m, n \in DOMAIN temp_data : temp_data[m] = temp_data[n] => m = n
    BY <1>1
  <2>4. \A id \in Id : heap[id].deletions <= 1
    BY <1>8
  <2> QED
    BY <1>15, <2>1, <2>2, <2>3, <2>4 DEF SingleOwnedInv
<1> QED
  BY <1>5, <1>9, <1>10, <1>11, <1>14, <1>16, <1>17, <1>18, <1>19 DEF ValueInv

LEMMA ValuesStay ==
    ASSUME ValueInv, UNCHANGED vars
    PROVE  ValueInv'
<1>1. /\ entry' = entry /\ deltas' = deltas /\ pc' = pc /\ heap' = heap
      /\ rotate_input' = rotate_input /\ temp_data' = temp_data /\ unit' = unit /\ index' = index
      /\ previous' = previous /\ rotated' = rotated /\ decomposed' = decomposed
      /\ output' = output
  BY DEF vars
<1>2. /\ Size' = Size /\ Objects' = Objects /\ Id' = Id /\ Delta' = Delta /\ Input' = Input
      /\ (Cleared' <=> Cleared) /\ (Batched' <=> Batched) /\ Requested' = Requested
  BY <1>1, CallSame DEF Id, Delta, Input, Cleared
<1>3. PhaseInv'
  BY <1>1, <1>2 DEF ValueInv, PhaseInv
<1>4. HeapInv'
  BY <1>1, <1>2 DEF ValueInv, HeapInv, IsText
<1>5. MapInv' /\ ChainInv'
  BY <1>1, <1>2 DEF ValueInv, MapInv, ChainInv, IsText
<1>6. \A i : (IsCloneOfInput(i)' <=> IsCloneOfInput(i)) /\ Given(i)' = Given(i)
  BY <1>1, <1>2 DEF IsCloneOfInput, Given
<1>7. OutputInv'
  BY <1>1, <1>2, <1>6 DEF ValueInv, OutputInv, IsText
<1>8. \A id : (IsAlive(id)' <=> IsAlive(id)) /\ (Cloned(id)' <=> Cloned(id))
  BY <1>1 DEF IsAlive, Cloned
<1>9. \A id : Temporary(heap[id])' <=> Temporary(heap[id])
  BY <1>1, <1>2 DEF Temporary
<1>10. OwnedInv'
  <2>1. {id \in Id : Temporary(heap[id])}' = {id \in Id : Temporary(heap[id])}
    BY <1>2, <1>9
  <2> QED
    BY <1>1, <1>2, <1>8, <1>9, <2>1 DEF ValueInv, OwnedInv
<1>11. PlaceInv'
  <2>1. \A id, u, i : Placed(id, u, i)' <=> Placed(id, u, i)
    BY <1>1, <1>2, <1>6, <1>8 DEF Placed
  <2> QED
    BY <1>1, <1>2, <1>6, <2>1 DEF ValueInv, PlaceInv
<1>12. SingleInv'
  BY <1>1, <1>2 DEF ValueInv, SingleInv, IsText
<1>13. SingleOwnedInv'
  <2>1. {id \in Id : IsAlive(id)}' = {id \in Id : IsAlive(id)}
    BY <1>2, <1>8
  <2> QED
    BY <1>1, <1>2, <1>8, <2>1 DEF ValueInv, SingleOwnedInv
<1> QED
  BY <1>3, <1>4, <1>5, <1>7, <1>10, <1>11, <1>12, <1>13 DEF ValueInv

(* In every call the maps of the loops lead from a delta to a text that is  *)
(* rotated by it, temp_data_ holds what nobody asked for, and a delta has   *)
(* got as many units as the loop has come to.                               *)
THEOREM ValueKept == Spec => []ValueInv
<1>1. ValueInv /\ [Next]_vars => ValueInv'
  BY PrepareKeeps, CloneZeroKeeps, ReuseRotatedKeeps, RotateByKeyKeeps, RotateByFixedKeyKeeps,
     RotateChainKeeps, ClearTempDataKeeps, CloneDuplicateKeeps, ValuesStay DEF Next, Returned
<1> QED
  BY InitValues, <1>1, PTL DEF Spec

(* The text returned for a delta is the input rotated by that delta, unit   *)
(* by unit, for any request, also where a text or a decomposition was made  *)
(* for an earlier delta, and for deltas below 0 or beyond the slots.        *)
THEOREM AlwaysRotated == Spec => []OutputsRotated
<1>1. ValueInv => OutputsRotated
  <2> SUFFICES ASSUME ValueInv, pc = "done", NEW i \in DOMAIN deltas, NEW u \in 1 .. Size
               PROVE  /\ heap[output[i][u]].unit = u
                      /\ heap[output[i][u]].delta = deltas[i] % SlotCount
    BY DEF OutputsRotated
  <2>1. CASE entry # "chain"
    <3>1. Given(i) = Size
      BY DEF Given
    <3> QED
      BY <2>1, <3>1 DEF ValueInv, OutputInv, IsText, Normalized
  <2>2. CASE entry = "chain"
    <3>1. i = 1 /\ index = 1
      BY <2>2, ChainTyped DEF ValueInv
    <3> QED
      BY <2>2, <3>1 DEF ValueInv, SingleInv, IsText, Delta, Normalized
  <2> QED
    BY <2>1, <2>2
<1> QED
  BY ValueKept, <1>1, PTL

(* The two overloads with a RotationKey rotate no unit twice by the same    *)
(* amount and decompose no text twice, whatever was requested.              *)
THEOREM NoWorkRepeated == Spec => []NoWorkTwice
<1>1. ValueInv => NoWorkTwice
  BY DEF ValueInv, MapInv, NoWorkTwice
<1> QED
  BY ValueKept, <1>1, PTL

-----------------------------------------------------------------------------
(***************************************************************************)
(* What is made for one place of the output is at no other: what it takes   *)
(* for a step at one delta, the k-th, to keep it so.                        *)
(***************************************************************************)
KeepsMade == \A id \in Id : id \in Id' /\ heap'[id].made = heap[id].made

SamePlace(i, u) == u \in 1 .. Given(i) /\ output'[i][u] = output[i][u]

OtherPlaces(k) ==
    /\ k \in DOMAIN deltas
    /\ \A i \in DOMAIN deltas \ {k} :
          Given(i)' = Given(i) /\ \A u \in 1 .. Given(i) : output'[i][u] = output[i][u]

PlacesMade(k) ==
    /\ \A u \in 1 .. Given(k) : MadeForPlace(output[k][u]) =>
          u \in 1 .. Given(k)' /\ output'[k][u] = output[k][u]
    /\ \A u \in 1 .. Given(k)' :
          SamePlace(k, u) \/ output'[k][u] \notin Id \/ ~MadeForPlace(output[k][u])'
    /\ \A id \in Id' : id \in Id \/ ~MadeForPlace(id)'
                       \/ \E u \in 1 .. Given(k)' : output'[k][u] = id

LEMMA PlaceTyped ==
    ASSUME ValueInv, entry # "chain", NEW i \in DOMAIN deltas, NEW u \in 1 .. Given(i)
    PROVE  /\ output[i][u] \in Id /\ IsText(output[i][u], u, Normalized(deltas[i]))
           /\ Placed(output[i][u], u, i) /\ u \in 1 .. Size
<1>1. OutputInv /\ PlaceInv /\ PhaseInv
  BY DEF ValueInv
<1>2. Given(i) \in 0 .. Size /\ Size \in Nat
  BY <1>1, GivenTyped, CallTyped
<1> QED
  BY <1>1, <1>2 DEF OutputInv, PlaceInv, IsText

LEMMA PlaceTypedNext ==
    ASSUME ValueInv', entry' # "chain", NEW i \in DOMAIN deltas', NEW u \in 1 .. Given(i)'
    PROVE  /\ output'[i][u] \in Id' /\ heap'[output'[i][u]].unit = u
           /\ heap'[output'[i][u]].delta = Normalized(deltas'[i])
<1>1. OutputInv'
  BY DEF ValueInv
<1> QED
  BY <1>1 DEF OutputInv, IsText

LEMMA MadeKept ==
    ASSUME ValueInv, ValueInv', MadeInv, entry # "chain", entry' = entry, deltas' = deltas,
           KeepsMade, NEW k, OtherPlaces(k), PlacesMade(k)
    PROVE  MadeInv'
<1>1. \A id \in Id : id \in Id' /\ (MadeForPlace(id)' <=> MadeForPlace(id))
  BY DEF KeepsMade, MadeForPlace, Cloned
<1>2. /\ \A id \in Id : MadeForPlace(id) =>
            \E i \in DOMAIN deltas : \E u \in 1 .. Given(i) : output[i][u] = id
      /\ \A i, j \in DOMAIN deltas : \A u \in 1 .. Given(i), v \in 1 .. Given(j) :
            MadeForPlace(output[i][u]) /\ output[i][u] = output[j][v] => i = j /\ u = v
  BY DEF MadeInv
<1>3. k \in DOMAIN deltas /\ \A i \in DOMAIN deltas \ {k} :
         Given(i)' = Given(i) /\ \A u \in 1 .. Given(i) : output'[i][u] = output[i][u]
  BY DEF OtherPlaces
<1>4. \A id \in Id' : MadeForPlace(id)' =>
            \E i \in DOMAIN deltas : \E u \in 1 .. Given(i)' : output'[i][u] = id
  <2> SUFFICES ASSUME NEW id \in Id', MadeForPlace(id)'
               PROVE  \E i \in DOMAIN deltas : \E u \in 1 .. Given(i)' : output'[i][u] = id
    OBVIOUS
  <2>1. CASE id \in Id
    <3>4. PICK i \in DOMAIN deltas : \E u \in 1 .. Given(i) : output[i][u] = id
      BY <1>1, <1>2, <2>1
    <3>1. PICK u \in 1 .. Given(i) : output[i][u] = id
      BY <3>4
    <3>2. MadeForPlace(output[i][u])
      BY <1>1, <2>1, <3>1
    <3>3. u \in 1 .. Given(i)' /\ output'[i][u] = id
      BY <1>3, <3>1, <3>2 DEF PlacesMade
    <3> QED
      BY <3>3
  <2>2. CASE id \notin Id
    BY <1>3, <2>2 DEF PlacesMade
  <2> QED
    BY <2>1, <2>2
<1>5. ASSUME NEW i \in DOMAIN deltas, NEW j \in DOMAIN deltas,
             NEW u \in 1 .. Given(i)', NEW v \in 1 .. Given(j)', NEW id, id = output'[i][u],
             MadeForPlace(id)', id = output'[j][v]
      PROVE  i = j /\ u = v
  <2>1. u = v
    BY <1>5, PlaceTypedNext
  <2>2. id \in Id'
    BY <1>5, PlaceTypedNext
  <2>3. ASSUME NEW a \in DOMAIN deltas, a # k, NEW b \in 1 .. Given(a)', output'[a][b] = id
        PROVE  SamePlace(a, b) /\ id \in Id
    <3>1. b \in 1 .. Given(a) /\ output'[a][b] = output[a][b]
      BY <1>3, <2>3
    <3>2. output[a][b] \in Id
      BY <3>1, PlaceTyped
    <3> QED
      BY <2>3, <3>1, <3>2 DEF SamePlace
  <2>4. ASSUME NEW b \in 1 .. Given(k)', output'[k][b] = id
        PROVE  SamePlace(k, b) \/ id \notin Id
    BY <1>5, <2>4 DEF PlacesMade, MadeForPlace, Cloned
  <2>5. CASE i # j
    <3>1. SamePlace(i, u) /\ SamePlace(j, v) /\ id \in Id
      BY <1>5, <2>3, <2>4, <2>5
    <3>2. /\ u \in 1 .. Given(i) /\ output[i][u] = id
          /\ v \in 1 .. Given(j) /\ output[j][v] = id /\ MadeForPlace(id)
      BY <1>1, <1>5, <3>1 DEF SamePlace
    <3> QED
      BY <1>2, <3>2
  <2> QED
    BY <2>1, <2>5
<1>6. \A i, j \in DOMAIN deltas : \A u \in 1 .. Given(i)', v \in 1 .. Given(j)' :
         MadeForPlace(output[i][u])' /\ output'[i][u] = output'[j][v] => i = j /\ u = v
  <2> SUFFICES ASSUME NEW i \in DOMAIN deltas, NEW j \in DOMAIN deltas,
                      NEW u \in 1 .. Given(i)', NEW v \in 1 .. Given(j)',
                      MadeForPlace(output[i][u])', output'[i][u] = output'[j][v]
               PROVE  i = j /\ u = v
    OBVIOUS
  <2>1. PICK id : id = output'[i][u]
    OBVIOUS
  <2>2. MadeForPlace(id)'
    BY <2>1 DEF MadeForPlace, Cloned
  <2> QED
    BY <1>5, <2>1, <2>2
<1> QED
  BY <1>4, <1>6 DEF MadeInv

-----------------------------------------------------------------------------
(***************************************************************************)
(* Until the last loop begins, only a delta 0 of a Ciphertext has clones.   *)
(***************************************************************************)
Twins(i) == {j \in DOMAIN deltas : Normalized(deltas[j]) = Normalized(deltas[i])}

AllCloned(j) == \A u \in 1 .. Size : Cloned(output[j][u])

HasRotated(j, d) == \A u \in 1 .. Size : output[j][u] = rotated[u][d]

LEMMA SettledParts ==
    ASSUME Batched
    PROVE  SettledInv <=>
             \A i \in DOMAIN deltas :
                /\ ~Settled(i) => \A u \in 1 .. Given(i) : Cloned(output[i][u]) <=> IsCloneOfInput(i)
                /\ Settled(i) => AllCloned(i) \/ (Normalized(deltas[i]) # 0 /\ 
                      \A j \in Twins(i) \ {i} : Settled(j) /\ AllCloned(j))
                /\ Normalized(deltas[i]) # 0 =>
                      \E j \in Twins(i) : ~Settled(j) \/ HasRotated(j, Normalized(deltas[i]))
BY DEF SettledInv, IsCloneOfInput, AllCloned, HasRotated, Twins

NewPlaces(k) ==
    \A u \in 1 .. Given(k)' : SamePlace(k, u) \/ (Cloned(output[k][u])' <=> IsCloneOfInput(k))

LEMMA SettledLater ==
    ASSUME ValueInv, ValueInv', SettledInv, Batched, entry' = entry, deltas' = deltas,
           KeepsMade, NEW k, OtherPlaces(k), NewPlaces(k),
           \A i \in DOMAIN deltas : ~Settled(i) /\ ~Settled(i)'
    PROVE  SettledInv'
<1>1. entry # "chain" /\ Batched' /\ DOMAIN deltas' = DOMAIN deltas
  BY DEF Batched
<1>2. \A i : IsCloneOfInput(i)' <=> IsCloneOfInput(i)
  BY DEF IsCloneOfInput
<1>3. \A i \in DOMAIN deltas : \A u \in 1 .. Given(i) : Cloned(output[i][u]) <=> IsCloneOfInput(i)
  BY DEF SettledInv, IsCloneOfInput
<1>4. ASSUME NEW i \in DOMAIN deltas, NEW u \in 1 .. Given(i)'
      PROVE  Cloned(output[i][u])' <=> IsCloneOfInput(i)
  <2>1. SamePlace(i, u) \/ (Cloned(output[i][u])' <=> IsCloneOfInput(i))
    <3>1. CASE i = k
      BY <3>1 DEF NewPlaces
    <3>2. CASE i # k
      BY <3>2 DEF OtherPlaces, SamePlace
    <3> QED
      BY <3>1, <3>2
  <2>2. CASE SamePlace(i, u)
    <3>1. u \in 1 .. Given(i) /\ output'[i][u] = output[i][u]
      BY <2>2 DEF SamePlace
    <3>2. output[i][u] \in Id
      BY <1>1, <3>1, PlaceTyped
    <3>3. heap'[output'[i][u]].made = heap[output[i][u]].made
      BY <3>1, <3>2 DEF KeepsMade
    <3> QED
      BY <1>3, <3>1, <3>3 DEF Cloned
  <2> QED
    BY <2>1, <2>2
<1>5. \A i \in DOMAIN deltas' : i \in Twins(i)'
  BY DEF Twins
<1>6. \A i \in DOMAIN deltas' : ~Settled(i)'
  BY <1>1
<1>7. SettledInv' <=>
             \A i \in DOMAIN deltas' :
                /\ ~Settled(i)' => \A u \in 1 .. Given(i)' : Cloned(output[i][u])' <=> IsCloneOfInput(i)'
                /\ Settled(i)' => AllCloned(i)' \/ (Normalized(deltas[i])' # 0 /\ 
                      \A j \in Twins(i)' \ {i} : Settled(j)' /\ AllCloned(j)')
                /\ Normalized(deltas[i])' # 0 =>
                      \E j \in Twins(i)' : ~Settled(j)' \/ HasRotated(j, Normalized(deltas[i]))'
  BY <1>1 DEF SettledInv, IsCloneOfInput, AllCloned, HasRotated, Twins
<1> QED
  BY <1>1, <1>2, <1>4, <1>5, <1>6, <1>7

LEMMA NotSettled ==
    ASSUME PhaseInv, pc \in {"prepare", "clone_zero", "rotate"} \/ (pc = "clear" /\ entry # "unit")
                     \/ (pc = "clone" /\ index = 1)
    PROVE  \A i \in DOMAIN deltas : ~Settled(i)
<1>1. \A i \in DOMAIN deltas : ~(i < 1)
  BY CallTyped
<1> QED
  BY <1>1 DEF Settled

LEMMA NotSettledNext ==
    ASSUME PhaseInv', entry' = entry, deltas' = deltas,
           pc' \in {"prepare", "clone_zero", "rotate"} \/ (pc' = "clear" /\ entry # "unit")
                     \/ (pc' = "clone" /\ index' = 1)
    PROVE  \A i \in DOMAIN deltas : ~Settled(i)'
<1>1. DOMAIN deltas = DOMAIN deltas' /\ \A i \in DOMAIN deltas : ~(i < 1)
  <2>1. deltas' \in Seq(Int)
    BY RequestAssumption DEF PhaseInv
  <2>2. DOMAIN deltas' = 1 .. Len(deltas')
    BY <2>1
  <2>3. \A i \in DOMAIN deltas' : ~(i < 1)
    BY <2>2
  <2> QED
    BY <2>3
<1> QED
  BY <1>1 DEF Settled

-----------------------------------------------------------------------------
(***************************************************************************)
(* The ways in which a step changes the places: not at all, by one text for *)
(* the delta at hand, or by a clone of each unit for it.                    *)
(***************************************************************************)
LEMMA StillPlaces ==
    ASSUME output' = output, \A i \in DOMAIN deltas : Given(i)' = Given(i),
           \A id \in Id' : id \in Id \/ ~MadeForPlace(id)',
           NEW k \in DOMAIN deltas
    PROVE  OtherPlaces(k) /\ PlacesMade(k) /\ NewPlaces(k)
BY DEF OtherPlaces, PlacesMade, NewPlaces, SamePlace

LEMMA GivenPlaces ==
    ASSUME ValueInv, pc = "rotate", entry' = entry, deltas' = deltas,
           NEW text, Gives(text), NEW k, k = index, ~IsCloneOfInput(k), ~Cloned(text)',
           text \notin Id \/ ~MadeForPlace(text)',
           \A id \in Id' : id \in Id \/ ~MadeForPlace(id)' \/ id = text
    PROVE  OtherPlaces(k) /\ PlacesMade(k) /\ NewPlaces(k)
<1>1. PhaseInv /\ OutputInv /\ entry # "chain"
  BY AfterRotateInPhase DEF ValueInv
<1>2. /\ NextDelta(AfterRotate) /\ k \in DOMAIN deltas /\ output'[k] = Append(output[k], text)
      /\ \A i \in DOMAIN deltas \ {k} : output'[i] = output[i]
  BY <1>1 DEF Gives, PhaseInv
<1>3. PICK w : w = unit
  OBVIOUS
<1>4. w \in Nat \ {0} /\ k \in Int
  BY <1>1, <1>3, CallTyped
<1>5. \A i \in DOMAIN deltas :
         Given(i)' = IF IsCloneOfInput(i) THEN Size ELSE IF i = k THEN w ELSE Given(i)
  BY <1>1, <1>2, <1>3, GivenByRotate
<1>6. \A i \in DOMAIN deltas : IsCloneOfInput(i) => Given(i) = Size
  BY DEF Given
<1>7. Given(k) = w - 1 /\ Given(k)' = w
  <2>1. Given(k) = IF k < k THEN w ELSE w - 1
    BY <1>3 DEF Given
  <2>2. ~(k < k)
    BY <1>4
  <2> QED
    BY <1>2, <1>5, <2>1, <2>2
<1>8. OtherPlaces(k)
  BY <1>2, <1>5, <1>6 DEF OtherPlaces
<1>9. output[k] \in Seq(Id) /\ Len(output[k]) = w - 1
  BY <1>1, <1>2, <1>7 DEF OutputInv
<1>10. output'[k][w] = text /\ \A u \in 1 .. w - 1 : output'[k][u] = output[k][u]
  <2> DEFINE s == output[k]
  <2>1. s \in Seq(Id) /\ Len(s) = w - 1 /\ output'[k] = Append(s, text)
    BY <1>2, <1>9
  <2> HIDE DEF Id, s
  <2>2. Append(s, text)[w] = text /\ \A u \in 1 .. w - 1 : Append(s, text)[u] = s[u]
    BY <1>4, <2>1
  <2> QED
    BY <2>1, <2>2 DEF s
<1>11. \A u \in 1 .. w : u = w \/ SamePlace(k, u)
  BY <1>4, <1>7, <1>10 DEF SamePlace
<1>12. MadeForPlace(output[k][w])' <=> MadeForPlace(text)'
  BY <1>10 DEF MadeForPlace, Cloned
<1>13. Cloned(output[k][w])' <=> Cloned(text)'
  BY <1>10 DEF Cloned
<1>14. PlacesMade(k)
  <2>1. \A u \in 1 .. Given(k) : u \in 1 .. Given(k)' /\ output'[k][u] = output[k][u]
    BY <1>4, <1>7, <1>10
  <2>2. w \in 1 .. Given(k)'
    BY <1>4, <1>7
  <2> QED
    BY <1>7, <1>10, <1>11, <1>12, <2>1, <2>2 DEF PlacesMade
<1>15. NewPlaces(k)
  BY <1>7, <1>11, <1>13 DEF NewPlaces
<1> QED
  BY <1>8, <1>14, <1>15

LEMMA ClonedPlaces ==
    ASSUME ValueInv, NEW more, ClonesGiven(more), NEW k, k = index, entry # "chain",
           \A i \in DOMAIN deltas : Given(i)' = IF i = k THEN Size ELSE Given(i),
           \A u \in 1 .. Given(k) : ~MadeForPlace(output[k][u])
    PROVE  /\ KeepsMade /\ OtherPlaces(k) /\ PlacesMade(k)
           /\ \A u \in 1 .. Size : Cloned(output[k][u])' /\ output'[k][u] \in Id'
           /\ Given(k)' = Size
<1>1. PhaseInv /\ HeapInv /\ entry' = entry /\ deltas' = deltas /\ k \in DOMAIN deltas
  BY DEF ValueInv, PhaseInv, ClonesGiven, Grows
<1>2. Grows(more) /\ Len(more) = Size /\ Size \in Nat
  BY <1>1, CallTyped DEF ClonesGiven
<1>3. PICK d : d = Delta
  OBVIOUS
<1>4. \A u \in 1 .. Size : more[u] = Object(u, d, "cloned")
  BY <1>3 DEF ClonesGiven
<1>5. PICK ids : ids = NewIds(Size)
  OBVIOUS
<1>6. \A u \in 1 .. Size : /\ ids[u] = Len(heap) + u
                           /\ heap'[ids[u]] = Object(u, d, "cloned")
                           /\ ids[u] \in Id' /\ ids[u] \notin Id
  BY <1>1, <1>2, <1>4, <1>5, NewIdsFresh
<1>7. output'[k] = ids /\ \A i \in DOMAIN deltas \ {k} : output'[i] = output[i]
  BY <1>5 DEF ClonesGiven
<1>8. KeepsMade
  <2>1. heap \in Seq(Objects)
    BY <1>1 DEF HeapInv
  <2>2. \A id \in Id : id \in Id' /\ heap'[id] = heap[id]
    BY <1>2, <2>1, Grown
  <2> QED
    BY <2>2 DEF KeepsMade
<1>9. OtherPlaces(k)
  BY <1>1, <1>7 DEF OtherPlaces
<1>10. Given(k)' = Size
  BY <1>1
<1>11. \A u \in 1 .. Size : heap'[ids[u]].made = "cloned"
  <2>1. \A u \in 1 .. Size : Object(u, d, "cloned").made = "cloned"
    BY DEF Object
  <2> QED
    BY <1>6, <2>1
<1>12. \A u \in 1 .. Size : Cloned(output[k][u])' /\ output'[k][u] \in Id' /\ output'[k][u] \notin Id
  BY <1>6, <1>7, <1>11 DEF Cloned
<1>13. \A id \in Id' : id \in Id \/ \E u \in 1 .. Size : output'[k][u] = id
  <2>1. heap \in Seq(Objects)
    BY <1>1 DEF HeapInv
  <2>2. \A id \in Id' : id \in Id \/ \E n \in 1 .. Len(more) : id = Len(heap) + n
    BY <1>2, <2>1, Grown
  <2> QED
    BY <1>2, <1>6, <1>7, <2>2
<1>14. PlacesMade(k)
  BY <1>10, <1>12, <1>13 DEF PlacesMade
<1> QED
  BY <1>8, <1>9, <1>10, <1>12, <1>14

(* What a rotation makes. *)
LEMMA RotatesMakes ==
    ASSUME HeapInv, NEW more, NEW text, NEW w, NEW d, NEW r, Rotates(more, text, w, d, r)
    PROVE  /\ KeepsMade /\ text \in Id' /\ text \notin Id /\ heap'[text].made = "rotated"
           /\ \A id \in Id' : \/ id \in Id \/ id = text
                              \/ heap'[id].made = "decomposed"
<1>1. /\ Grows(more) /\ text = Len(heap) + Len(more)
      /\ more[Len(more)] = Object(w, r, "rotated")
      /\ \/ Len(more) = 1
         \/ Len(more) = 2 /\ more[1] = Object(w, d, "decomposed")
  BY DEF Rotates
<1>2. heap \in Seq(Objects)
  BY DEF HeapInv
<1>3. /\ \A id \in Id : id \in Id' /\ heap'[id] = heap[id]
      /\ \A n \in 1 .. Len(more) : Len(heap) + n \in Id' /\ Len(heap) + n \notin Id
                                   /\ heap'[Len(heap) + n] = more[n]
      /\ \A id \in Id' : id \in Id \/ \E n \in 1 .. Len(more) : id = Len(heap) + n
  BY <1>1, <1>2, Grown
<1>4. Len(more) \in 1 .. Len(more)
  BY <1>1
<1>5. text \in Id' /\ text \notin Id /\ heap'[text] = Object(w, r, "rotated")
  BY <1>1, <1>3, <1>4
<1>6. ASSUME NEW id \in Id', id \notin Id, id # text
      PROVE  heap'[id].made = "decomposed"
  <2>1. PICK n \in 1 .. Len(more) : id = Len(heap) + n
    BY <1>3, <1>6
  <2>2. n # Len(more)
    BY <1>1, <1>6, <2>1
  <2>3. n = 1 /\ Len(more) = 2
    BY <1>1, <2>2
  <2>4. heap'[id] = Object(w, d, "decomposed")
    BY <1>1, <1>3, <2>1, <2>3
  <2> QED
    BY <2>4 DEF Object
<1>7. heap'[text].made = "rotated"
  BY <1>5 DEF Object
<1> QED
  BY <1>3, <1>5, <1>6, <1>7 DEF KeepsMade

-----------------------------------------------------------------------------
(* The steps before the last loop settle nothing. *)
LEMMA LaterKept ==
    ASSUME ValueInv, ValueInv', MadeInv, SettledInv, entry # "chain",
           entry' = entry, deltas' = deltas, KeepsMade,
           NEW k, OtherPlaces(k), PlacesMade(k), NewPlaces(k),
           \A i \in DOMAIN deltas : ~Settled(i) /\ ~Settled(i)'
    PROVE  MadeInv' /\ SettledInv'
<1>1. MadeInv'
  BY MadeKept
<1>2. CASE Batched
  <2>1. SettledInv'
    BY <1>2, SettledLater
  <2> QED
    BY <1>1, <2>1
<1>3. CASE ~Batched
  <2>1. SettledInv'
    BY <1>3 DEF SettledInv, Batched
  <2> QED
    BY <1>1, <2>1
<1> QED
  BY <1>2, <1>3

LEMMA RotateSettlesNone ==
    ASSUME PhaseInv, PhaseInv', pc = "rotate", entry' = entry, deltas' = deltas,
           NextDelta(AfterRotate) \/ pc' = pc
    PROVE  \A i \in DOMAIN deltas : ~Settled(i) /\ ~Settled(i)'
<1>1. \A i \in DOMAIN deltas : ~Settled(i)
  BY NotSettled
<1>2. CASE pc' = pc
  BY <1>1, <1>2, NotSettledNext
<1>3. CASE NextDelta(AfterRotate)
  <2>1. pc' = pc \/ (pc' = AfterRotate /\ index' = 1)
    BY <1>3, LoopMoves
  <2>2. pc' = "rotate" \/ (pc' = "clear" /\ entry # "unit") \/ (pc' = "clone" /\ index' = 1)
    BY <2>1 DEF AfterRotate
  <2> QED
    BY <1>1, <2>2, NotSettledNext
<1> QED
  BY <1>2, <1>3

LEMMA PrepareSettles ==
    ASSUME ValueInv, ValueInv', MadeInv, SettledInv, entry # "chain", Prepare
    PROVE  MadeInv' /\ SettledInv'
<1>1. /\ pc = "prepare" /\ entry' = entry /\ deltas' = deltas /\ output' = output
      /\ index' = index /\ unit' = unit
      /\ pc' = CASE entry = "long" -> "clone_zero"
               [] entry = "chain" -> "chain"
               [] OTHER -> "rotate"
  BY DEF Prepare
<1>2. PhaseInv /\ PhaseInv' /\ HeapInv /\ pc' \in {"clone_zero", "rotate"}
  BY <1>1 DEF ValueInv
<1>3. PICK more, ids :
              /\ more \in Seq(Objects)
              /\ Grows(more)
              /\ \A n \in 1 .. Len(more) : /\ ids[n] = Len(heap) + n
                                           /\ more[n].delta = 0 /\ more[n].made = "converted"
  BY ConversionsMade
<1>4. /\ \A id \in Id : id \in Id' /\ heap'[id] = heap[id]
      /\ \A n \in 1 .. Len(more) : heap'[Len(heap) + n] = more[n]
      /\ \A id \in Id' : id \in Id \/ \E n \in 1 .. Len(more) : id = Len(heap) + n
  BY <1>2, <1>3, Grown DEF HeapInv
<1>5. KeepsMade
  BY <1>4 DEF KeepsMade
<1>6. \A id \in Id' : id \in Id \/ ~MadeForPlace(id)'
  <2> SUFFICES ASSUME NEW id \in Id', id \notin Id
               PROVE  ~MadeForPlace(id)'
    OBVIOUS
  <2>1. heap'[id].made = "converted"
    BY <1>3, <1>4
  <2> QED
    BY <2>1 DEF MadeForPlace, Cloned
<1>7. \A i \in DOMAIN deltas : Given(i)' = Given(i)
  <2>1. index = 1 /\ unit = 1
    BY <1>1, <1>2 DEF PhaseInv
  <2>2. \A i \in DOMAIN deltas : ~(i < 1)
    BY <1>2, CallTyped
  <2>3. \A i \in DOMAIN deltas : Given(i)' = 0
    BY <1>1, <1>2, <2>1, <2>2 DEF Given, IsCloneOfInput
  <2>4. \A i \in DOMAIN deltas : Given(i) = 0
    BY <1>1 DEF Given
  <2> QED
    BY <2>3, <2>4
<1>8. PICK k \in DOMAIN deltas : k = index
  BY <1>2 DEF PhaseInv
<1>9. OtherPlaces(k) /\ PlacesMade(k) /\ NewPlaces(k)
  BY <1>1, <1>6, <1>7, StillPlaces
<1>10. \A i \in DOMAIN deltas : ~Settled(i) /\ ~Settled(i)'
  BY <1>1, <1>2, NotSettled, NotSettledNext
<1> QED
  BY <1>1, <1>5, <1>9, <1>10, LaterKept

LEMMA CloneZeroSettles ==
    ASSUME ValueInv, ValueInv', MadeInv, SettledInv, CloneZero
    PROVE  MadeInv' /\ SettledInv'
<1>1. /\ pc = "clone_zero" /\ entry' = entry /\ deltas' = deltas /\ NextDelta("rotate")
  BY DEF CloneZero
<1>2. PhaseInv /\ PhaseInv' /\ HeapInv /\ entry = "long" /\ entry # "chain" /\ entry # "fixed"
  BY <1>1 DEF ValueInv, PhaseInv, Phase, Entry
<1>3. pc' \in {"clone_zero", "rotate"}
  BY <1>1, <1>2, LoopMoves
<1>4. \A i \in DOMAIN deltas : ~Settled(i) /\ ~Settled(i)'
  BY <1>1, <1>2, <1>3, NotSettled, NotSettledNext
<1>5. \A i \in DOMAIN deltas :
         Given(i)' = IF i = index THEN IF IsCloneOfInput(i) THEN Size ELSE 0 ELSE Given(i)
  BY <1>1, <1>2, GivenByCloneZero
<1>6. PICK k \in DOMAIN deltas : k = index
  BY <1>2 DEF PhaseInv
<1>7. (IsCloneOfInput(k) <=> Delta = 0) /\ Given(k) = 0
  <2>1. ~(k < k)
    BY <1>2, CallTyped
  <2> QED
    BY <1>1, <1>2, <1>6, <2>1 DEF IsCloneOfInput, Delta, Given
<1>8. IF Delta = 0 THEN \E more : ClonesGiven(more) ELSE NothingGiven
  BY CloneZeroKeeps
<1>9. CASE Delta = 0
  <2>1. PICK more : ClonesGiven(more)
    BY <1>8, <1>9
  <2>2. \A i \in DOMAIN deltas : Given(i)' = IF i = k THEN Size ELSE Given(i)
    BY <1>5, <1>6, <1>7, <1>9
  <2>3. \A u \in 1 .. Given(k) : ~MadeForPlace(output[k][u])
    BY <1>7
  <2>4. /\ KeepsMade /\ OtherPlaces(k) /\ PlacesMade(k) /\ Given(k)' = Size
        /\ \A u \in 1 .. Size : Cloned(output[k][u])'
    BY <1>2, <1>6, <2>1, <2>2, <2>3, ClonedPlaces
  <2>5. NewPlaces(k)
    BY <1>7, <1>9, <2>4 DEF NewPlaces
  <2> QED
    BY <1>1, <1>2, <1>4, <2>4, <2>5, LaterKept
<1>10. CASE Delta # 0
  <2>1. heap' = heap /\ output' = output
    BY <1>8, <1>10 DEF NothingGiven
  <2>2. KeepsMade /\ \A id \in Id' : id \in Id \/ ~MadeForPlace(id)'
    BY <2>1 DEF KeepsMade, Id
  <2>3. \A i \in DOMAIN deltas : Given(i)' = Given(i)
    BY <1>5, <1>6, <1>7, <1>10
  <2>4. OtherPlaces(k) /\ PlacesMade(k) /\ NewPlaces(k)
    BY <2>1, <2>2, <2>3, StillPlaces
  <2> QED
    BY <1>1, <1>2, <1>4, <2>2, <2>4, LaterKept
<1> QED
  BY <1>9, <1>10

LEMMA ReuseRotatedSettles ==
    ASSUME ValueInv, ValueInv', MadeInv, SettledInv, ReuseRotated
    PROVE  MadeInv' /\ SettledInv'
<1>1. /\ pc = "rotate" /\ entry \in {"unit", "long"} /\ entry # "chain" /\ entry # "fixed"
      /\ entry' = entry /\ deltas' = deltas /\ heap' = heap /\ NextDelta(AfterRotate)
      /\ Delta \in DOMAIN rotated[unit]
      /\ output' = IF entry = "long" /\ Delta = 0 THEN output
                   ELSE [output EXCEPT ![index] = Append(@, rotated[unit][Delta])]
  BY DEF ReuseRotated, IsRotated
<1>2. PhaseInv /\ PhaseInv' /\ HeapInv /\ MapInv /\ OutputInv
  BY DEF ValueInv
<1>3. \A i \in DOMAIN deltas : ~Settled(i) /\ ~Settled(i)'
  BY <1>1, <1>2, RotateSettlesNone
<1>4. PICK k \in DOMAIN deltas : k = index
  BY <1>2 DEF PhaseInv
<1>5. KeepsMade /\ \A id \in Id' : id \in Id
  BY <1>1 DEF KeepsMade, Id
<1>6. \A i \in DOMAIN deltas :
         Given(i)' = IF IsCloneOfInput(i) THEN Size ELSE IF i = index THEN unit ELSE Given(i)
  BY <1>1, <1>2, GivenByRotate
<1>7. CASE IsCloneOfInput(k)
  <2>1. output' = output
    BY <1>1, <1>4, <1>7 DEF IsCloneOfInput, Delta
  <2>2. \A i \in DOMAIN deltas : IsCloneOfInput(i) => Given(i) = Size
    BY <1>1 DEF Given
  <2>3. \A i \in DOMAIN deltas : Given(i)' = Given(i)
    BY <1>4, <1>6, <1>7, <2>2
  <2>4. OtherPlaces(k) /\ PlacesMade(k) /\ NewPlaces(k)
    BY <1>5, <2>1, <2>3, StillPlaces
  <2> QED
    BY <1>1, <1>3, <1>5, <2>4, LaterKept
<1>8. CASE ~IsCloneOfInput(k)
  <2>0. PICK w \in 1 .. Size : w = unit
    BY <1>2 DEF PhaseInv
  <2>1. PICK text, d : text = rotated[w][d] /\ d = Delta
    OBVIOUS
  <2>2. output' = [output EXCEPT ![k] = Append(@, text)]
    BY <1>1, <1>4, <1>8, <2>0, <2>1 DEF IsCloneOfInput, Delta
  <2>3. DOMAIN output = DOMAIN deltas
    BY <1>2 DEF OutputInv
  <2>4. Gives(text)
    BY <1>1, <1>4, <2>2, <2>3 DEF Gives
  <2>5. /\ text \in Id
        /\ d # 0 => heap[text].made = "rotated"
        /\ d = 0 => text = rotate_input[w]
    BY <1>1, <1>2, <2>0, <2>1 DEF MapInv, IsText
  <2>6. heap[text].made \in {"rotated", "input", "converted"}
    BY <1>2, <2>1, <2>5 DEF HeapInv
  <2>7. ~Cloned(text)' /\ ~MadeForPlace(text)'
    BY <1>1, <2>6 DEF MadeForPlace, Cloned
  <2>8. \A id \in Id' : id \in Id \/ ~MadeForPlace(id)' \/ id = text
    BY <1>5
  <2>9. OtherPlaces(k) /\ PlacesMade(k) /\ NewPlaces(k)
    BY <1>1, <1>4, <1>8, <2>4, <2>7, <2>8, GivenPlaces
  <2> QED
    BY <1>1, <1>3, <1>5, <2>9, LaterKept
<1> QED
  BY <1>7, <1>8

-----------------------------------------------------------------------------
(* A rotation that is given to the delta at hand, or that is on its way. *)
LEMMA RotationSettles ==
    ASSUME ValueInv, ValueInv', MadeInv, SettledInv, pc = "rotate", entry # "chain",
           NEW more, NEW text, NEW d, NEW r, Rotates(more, text, unit, d, r),
           Gives(text) \/ (Stays(r) /\ entry # "fixed"),
           \A i : i = index => ~IsCloneOfInput(i)
    PROVE  MadeInv' /\ SettledInv'
<1>1. PhaseInv /\ PhaseInv' /\ HeapInv /\ entry' = entry /\ deltas' = deltas
  BY DEF ValueInv, Rotates, Grows
<1>2. PICK k \in DOMAIN deltas : k = index
  BY <1>1 DEF PhaseInv
<1>3. /\ KeepsMade /\ text \in Id' /\ text \notin Id /\ heap'[text].made = "rotated"
      /\ \A id \in Id' : id \in Id \/ id = text \/ heap'[id].made = "decomposed"
  <2>1. PICK w : w = unit
    OBVIOUS
  <2>2. Rotates(more, text, w, d, r)
    BY <2>1
  <2> QED
    BY <1>1, <2>2, RotatesMakes
<1>4. \A i \in DOMAIN deltas : ~Settled(i) /\ ~Settled(i)'
  BY <1>1, RotateSettlesNone DEF Gives, Stays
<1>5. \A id \in Id' : id \in Id \/ id = text \/ ~MadeForPlace(id)'
  BY <1>3 DEF MadeForPlace, Cloned
<1>6. ~Cloned(text)'
  BY <1>3 DEF Cloned
<1>7. CASE Gives(text)
  <2>1. ~IsCloneOfInput(k)
    BY <1>2
  <2>2. OtherPlaces(k) /\ PlacesMade(k) /\ NewPlaces(k)
    BY <1>1, <1>2, <1>3, <1>5, <1>6, <1>7, <2>1, GivenPlaces
  <2> QED
    BY <1>1, <1>3, <1>4, <2>2, LaterKept
<1>8. CASE Stays(r) /\ entry # "fixed"
  <2>1. output' = output /\ unit' = unit /\ index' = index /\ pc' = pc
    BY <1>8 DEF Stays
  <2>2. \A i \in DOMAIN deltas : Given(i)' = Given(i)
    BY <1>1, <2>1, CallSame DEF Given, IsCloneOfInput
  <2>3. ~MadeForPlace(text)'
    BY <1>1, <1>3, <1>8 DEF MadeForPlace, Cloned
  <2>4. OtherPlaces(k) /\ PlacesMade(k) /\ NewPlaces(k)
    BY <1>5, <2>1, <2>2, <2>3, StillPlaces
  <2> QED
    BY <1>1, <1>3, <1>4, <2>4, LaterKept
<1> QED
  BY <1>7, <1>8

LEMMA RotateByFixedKeySettles ==
    ASSUME ValueInv, ValueInv', MadeInv, SettledInv, RotateByFixedKey
    PROVE  MadeInv' /\ SettledInv'
<1>1. pc = "rotate" /\ entry = "fixed"
  BY DEF RotateByFixedKey
<1>2. PICK more : \E text : Rotates(more, text, unit, 0, Delta) /\ Gives(text)
  BY RotateByFixedKeyKeeps
<1>3. PICK text : Rotates(more, text, unit, 0, Delta) /\ Gives(text)
  BY <1>2
<1>4. PICK r : r = Delta
  OBVIOUS
<1>5. \A i : ~IsCloneOfInput(i)
  BY <1>1 DEF IsCloneOfInput
<1>6. Rotates(more, text, unit, 0, r)
  BY <1>3, <1>4
<1> QED
  BY <1>1, <1>3, <1>5, <1>6, RotationSettles

LEMMA RotateByKeySettles ==
    ASSUME ValueInv, ValueInv', MadeInv, SettledInv, RotateByKey
    PROVE  MadeInv' /\ SettledInv'
<1>1. pc = "rotate" /\ entry \in {"unit", "long"} /\ entry # "chain" /\ entry # "fixed"
      /\ entry' = entry /\ deltas' = deltas
      /\ (previous = 0 => Delta \notin DOMAIN rotated[unit])
  BY DEF RotateByKey, IsRotated
<1>2. PhaseInv /\ PhaseInv' /\ HeapInv
  BY DEF ValueInv
<1>3. PICK current :
                 \/ Passes(current)
                 \/ \E more, text :
                       /\ Rotates(more, text, unit, previous, current)
                       /\ IF current = Delta THEN Gives(text) ELSE Stays(current)
  BY RotateByKeyKeeps
<1>4. CASE Passes(current)
  <2>1. /\ heap' = heap /\ output' = output /\ unit' = unit /\ index' = index /\ pc' = pc
    BY <1>4 DEF Passes, Stays
  <2>2. \A i \in DOMAIN deltas : Given(i)' = Given(i)
    BY <1>1, <2>1, CallSame DEF Given, IsCloneOfInput
  <2>3. KeepsMade /\ \A id \in Id' : id \in Id \/ ~MadeForPlace(id)'
    BY <2>1 DEF KeepsMade, Id
  <2>4. PICK k \in DOMAIN deltas : k = index
    BY <1>2 DEF PhaseInv
  <2>5. OtherPlaces(k) /\ PlacesMade(k) /\ NewPlaces(k)
    BY <2>1, <2>2, <2>3, StillPlaces
  <2>6. \A i \in DOMAIN deltas : ~Settled(i) /\ ~Settled(i)'
    BY <1>1, <1>2, <2>1, RotateSettlesNone
  <2> QED
    BY <1>1, <2>3, <2>5, <2>6, LaterKept
<1>5. CASE ~Passes(current)
  <2>1. PICK more : \E text : /\ Rotates(more, text, unit, previous, current)
                              /\ IF current = Delta THEN Gives(text) ELSE Stays(current)
    BY <1>3, <1>5
  <2>2. PICK text : /\ Rotates(more, text, unit, previous, current)
                    /\ IF current = Delta THEN Gives(text) ELSE Stays(current)
    BY <2>1
  <2>3. \A i : i = index => ~IsCloneOfInput(i)
    <3>1. Delta # 0
      <4>1. 0 \in DOMAIN rotated[unit]
        BY <1>1, <1>2 DEF ValueInv, MapInv, PhaseInv
      <4>2. previous # 0 => Delta # 0
        <5>1. previous \in PrefixesOf(Delta)
          BY <1>1 DEF ValueInv, ChainInv
        <5>2. PICK key \in Keys : previous = Delta % key
          BY <5>1 DEF PrefixesOf
        <5>3. key \in Nat \ {0}
          BY KeysTyped
        <5>4. 0 % key = 0
          BY <5>3
        <5> QED
          BY <5>2, <5>4
      <4> QED
        BY <1>1, <4>1, <4>2
    <3> QED
      BY <3>1 DEF IsCloneOfInput, Delta
  <2>4. PICK d : d = previous
    OBVIOUS
  <2>5. Rotates(more, text, unit, d, current) /\ (Gives(text) \/ (Stays(current) /\ entry # "fixed"))
    BY <1>1, <2>2, <2>4
  <2> QED
    BY <1>1, <2>3, <2>5, RotationSettles
<1> QED
  BY <1>4, <1>5

LEMMA ClearTempDataSettles ==
    ASSUME ValueInv, ValueInv', MadeInv, SettledInv, ClearTempData
    PROVE  MadeInv' /\ SettledInv'
<1>1. /\ entry' = entry /\ deltas' = deltas /\ rotated' = rotated /\ output' = output
      /\ index' = index /\ pc = "clear" /\ pc' = IF entry = "long" THEN "clone" ELSE "done"
      /\ heap' = Deleted(heap, temp_data)
  BY DEF ClearTempData
<1>2. PhaseInv /\ PhaseInv' /\ HeapInv /\ entry # "chain"
  BY <1>1 DEF ValueInv, PhaseInv, Phase, Entry
<1>3. KeepsMade /\ Id' = Id
  <2>1. PICK objects, list, result : objects = heap /\ list = temp_data /\ result = heap'
    OBVIOUS
  <2>2. objects \in Seq(Objects) /\ list \in Seq(1 .. Len(objects)) /\ result = Deleted(objects, list)
    BY <1>1, <1>2, <2>1 DEF HeapInv, Id
  <2>3. Len(result) = Len(objects)
        /\ \A id \in 1 .. Len(objects) : result[id].made = objects[id].made
    BY <2>2, DeletedFacts
  <2> QED
    BY <2>1, <2>3 DEF KeepsMade, Id
<1>4. \A i \in DOMAIN deltas : Given(i)' = Given(i)
  <2>1. Size' = Size
    BY <1>1, CallSame
  <2> QED
    BY <1>1, <2>1 DEF Given
<1>5. PICK k \in DOMAIN deltas : k = index
  BY <1>2 DEF PhaseInv
<1>6. OtherPlaces(k) /\ PlacesMade(k) /\ NewPlaces(k)
  <2>1. \A id \in Id' : id \in Id \/ ~MadeForPlace(id)'
    BY <1>3
  <2> QED
    BY <1>1, <1>4, <2>1, StillPlaces
<1>7. CASE entry = "unit"
  <2>1. MadeInv'
    BY <1>1, <1>2, <1>3, <1>6, MadeKept
  <2>2. \A i : Settled(i) /\ Settled(i)'
    BY <1>1, <1>7 DEF Settled
  <2>3. Batched /\ Batched'
    BY <1>1, <1>7 DEF Batched
  <2>4. \A i \in DOMAIN deltas : \A u \in 1 .. Size : Cloned(output[i][u])' <=> Cloned(output[i][u])
    <3> SUFFICES ASSUME NEW i \in DOMAIN deltas, NEW u \in 1 .. Size
                 PROVE  Cloned(output[i][u])' <=> Cloned(output[i][u])
      OBVIOUS
    <3>1. Given(i) = Size
      BY <1>1 DEF Given
    <3>2. output[i][u] \in Id
      BY <1>2, <3>1, PlaceTyped
    <3> QED
      BY <1>1, <1>3, <3>2 DEF KeepsMade, Cloned
  <2>5. Size' = Size
    BY <1>1, CallSame
  <2>6. SettledInv'
    BY <1>1, <2>2, <2>3, <2>4, <2>5 DEF SettledInv
  <2> QED
    BY <2>1, <2>6
<1>8. CASE entry # "unit"
  <2>1. CASE entry = "long"
    <3>1. pc' = "clone" /\ index' = 1
      BY <1>1, <1>2, <2>1 DEF PhaseInv
    <3>2. \A i \in DOMAIN deltas : ~Settled(i) /\ ~Settled(i)'
      BY <1>1, <1>2, <1>8, <3>1, NotSettled, NotSettledNext
    <3> QED
      BY <1>1, <1>2, <1>3, <1>6, <3>2, LaterKept
  <2>2. CASE entry # "long"
    <3>1. MadeInv'
      BY <1>1, <1>2, <1>3, <1>6, MadeKept
    <3>2. SettledInv'
      BY <1>1, <1>8, <2>2 DEF SettledInv, Batched
    <3> QED
      BY <3>1, <3>2
  <2> QED
    BY <2>1, <2>2
<1> QED
  BY <1>7, <1>8

-----------------------------------------------------------------------------
(***************************************************************************)
(* The counts.                                                              *)
(***************************************************************************)
Left(d, first) == Cardinality(Places(d, first))

LEMMA PlacesFacts ==
    ASSUME PhaseInv, NEW d, NEW k \in DOMAIN deltas
    PROVE  /\ Left(d, k) \in Nat /\ Left(d, k + 1) \in Nat
           /\ Left(d, k) = IF Normalized(deltas[k]) = d THEN Left(d, k + 1) + 1 ELSE Left(d, k + 1)
           /\ k = LastIndex => Left(d, k + 1) = 0
           /\ Left(d, k + 1) > 0 <=> \E j \in DOMAIN deltas : j > k /\ Normalized(deltas[j]) = d
<1>1. DOMAIN deltas = 1 .. LastIndex /\ LastIndex \in Nat \ {0} /\ k \in Int
  BY CallTyped
<1>2. IsFiniteSet(Places(d, k)) /\ IsFiniteSet(Places(d, k + 1))
  <2>1. IsFiniteSet(1 .. LastIndex)
    BY <1>1, FS_Interval
  <2>2. Places(d, k) \subseteq 1 .. LastIndex /\ Places(d, k + 1) \subseteq 1 .. LastIndex
    BY <1>1 DEF Places
  <2> QED
    BY <2>1, <2>2, FS_Subset
<1>3. \A j \in DOMAIN deltas : (j >= k <=> j = k \/ j >= k + 1) /\ ~(k >= k + 1) /\ (j > k <=> j >= k + 1)
  BY <1>1
<1>4. Places(d, k) = IF Normalized(deltas[k]) = d THEN Places(d, k + 1) \cup {k} ELSE Places(d, k + 1)
  BY <1>3 DEF Places
<1>5. k \notin Places(d, k + 1)
  BY <1>3 DEF Places
<1>6. Cardinality(Places(d, k + 1) \cup {k}) = Cardinality(Places(d, k + 1)) + 1
  BY <1>2, <1>5, FS_AddElement
<1>7. Left(d, k) \in Nat /\ Left(d, k + 1) \in Nat
  BY <1>2, FS_CardinalityType DEF Left
<1>8. Left(d, k + 1) = 0 <=> Places(d, k + 1) = {}
  BY <1>2, FS_EmptySet DEF Left
<1>9. k = LastIndex => Places(d, k + 1) = {}
  BY <1>1 DEF Places
<1>10. Places(d, k + 1) # {} <=> \E j \in DOMAIN deltas : j > k /\ Normalized(deltas[j]) = d
  BY <1>3 DEF Places
<1>11. Left(d, k + 1) > 0 <=> Left(d, k + 1) # 0
  BY <1>7
<1> QED
  BY <1>4, <1>6, <1>7, <1>8, <1>9, <1>10, <1>11 DEF Left

(* The parts of the invariant. *)
Counting == Batched /\ (pc \in {"clone_zero", "rotate", "clone"} \/ (entry = "long" /\ pc = "clear"))

IsCount(c, d, left) ==
    CASE d = 0 /\ entry = "unit" -> c = left + 1
      [] d = 0 /\ entry = "long" -> c = IF pc = "clone_zero" THEN left ELSE 0
      [] OTHER -> left > 0 => c = left

FirstOf(d) == IF pc = "clone" \/ (pc = "clone_zero" /\ d = 0) THEN index ELSE 1

AreCounts ==
    /\ DOMAIN counter = {Normalized(d) : d \in ToSet(deltas)}
    /\ \A d \in DOMAIN counter : IsCount(counter[d], d, Left(d, FirstOf(d)))

LEMMA CounterParts == CounterInv <=> (Counting => AreCounts)
BY DEF CounterInv, Counting, AreCounts, IsCount, FirstOf, Left

LEMMA LeftSame ==
    ASSUME deltas' = deltas
    PROVE  \A d, first : Left(d, first)' = Left(d, first)
BY DEF Left, Places

LEMMA Counted ==
    ASSUME PhaseInv
    PROVE  \A d : d \in {Normalized(e) : e \in ToSet(deltas)} <=>
                     \E i \in DOMAIN deltas : d = Normalized(deltas[i])
BY DEF ToSet

(* The loop of the rotations does not count. *)
LEMMA CountsStay ==
    ASSUME PhaseInv, CounterInv, Counting, pc \in {"rotate", "clear"},
           entry' = entry, deltas' = deltas, counter' = counter,
           pc' \in {"rotate", "clear", "clone", "done"}, pc' = "clone" => index' = 1
    PROVE  CounterInv'
<1>1. AreCounts /\ \A d : FirstOf(d) = 1
  BY CounterParts DEF FirstOf
<1>2. \A d : FirstOf(d)' = 1
  BY DEF FirstOf
<1>3. \A d, c : IsCount(c, d, Left(d, 1)) => IsCount(c, d, Left(d, 1))'
  BY LeftSame DEF IsCount
<1>4. ASSUME NEW d \in DOMAIN counter
      PROVE  IsCount(counter[d], d, Left(d, FirstOf(d)))'
  <2>1. IsCount(counter[d], d, Left(d, 1))
    BY <1>1 DEF AreCounts
  <2> QED
    BY <1>2, <2>1, LeftSame DEF IsCount
<1>5. AreCounts'
  BY <1>1, <1>4 DEF AreCounts
<1>6. CounterInv' <=> (Counting' => AreCounts')
  BY DEF CounterInv, Counting, AreCounts, IsCount, FirstOf, Left
<1> QED
  BY <1>5, <1>6

-----------------------------------------------------------------------------
LEMMA CounterPartsNext == CounterInv' <=> (Counting' => AreCounts')
BY DEF CounterInv, Counting, AreCounts, IsCount, FirstOf, Left

LEMMA PrepareCounts ==
    ASSUME ValueInv, ValueInv', Prepare
    PROVE  CounterInv'
<1>1. /\ pc = "prepare" /\ entry' = entry /\ deltas' = deltas /\ index' = index
      /\ counter' = IF entry \in {"unit", "long"} THEN Count ELSE <<>>
  BY DEF Prepare
<1>2. PhaseInv /\ index = 1
  BY <1>1 DEF ValueInv, PhaseInv
<1>3. SUFFICES ASSUME Batched PROVE AreCounts'
  BY <1>1, CounterPartsNext DEF Counting, Batched
<1>4. counter' = Count
  BY <1>1, <1>3 DEF Batched
<1>5. \A d : FirstOf(d)' = 1
  BY <1>1, <1>2 DEF FirstOf
<1>6. \A d : Places(d, 1) = {i \in DOMAIN deltas : Normalized(deltas[i]) = d}
  <2>1. \A i \in DOMAIN deltas : i >= 1
    BY <1>2, CallTyped
  <2> QED
    BY <2>1 DEF Places
<1>7. \A d \in DOMAIN Count : Count[d] = Left(d, 1) + IF entry = "unit" /\ d = 0 THEN 1 ELSE 0
  BY <1>6 DEF Count, Left
<1>8. \A d : Left(d, 1) \in Nat
  <2>1. 1 \in DOMAIN deltas
    BY <1>2 DEF PhaseInv
  <2> QED
    BY <1>2, <2>1, PlacesFacts
<1>9. \A d \in DOMAIN Count : IsCount(counter[d], d, Left(d, 1))'
  <2> SUFFICES ASSUME NEW d \in DOMAIN Count
               PROVE  IsCount(counter[d], d, Left(d, 1))'
    OBVIOUS
  <2>0. Left(d, 1)' = Left(d, 1)
    BY <1>1, LeftSame
  <2>1. PICK left : left = Left(d, 1)
    OBVIOUS
  <2>2. left \in Nat /\ counter'[d] = left + IF entry = "unit" /\ d = 0 THEN 1 ELSE 0
    BY <1>4, <1>7, <1>8, <2>1
  <2>3. CASE entry = "unit"
    <3>1. d = 0 => counter'[d] = left + 1
      BY <2>2, <2>3
    <3>2. d # 0 => counter'[d] = left
      BY <2>2
    <3> QED
      BY <1>1, <2>0, <2>1, <2>3, <3>1, <3>2 DEF IsCount
  <2>4. CASE entry = "long"
    <3>1. counter'[d] = left /\ pc' = "clone_zero"
      BY <1>1, <2>2, <2>4 DEF Prepare
    <3> QED
      BY <1>1, <2>0, <2>1, <2>4, <3>1 DEF IsCount
  <2> QED
    BY <1>3, <2>3, <2>4 DEF Batched
<1>10. DOMAIN Count = {Normalized(d) : d \in ToSet(deltas)}
  BY DEF Count
<1> QED
  BY <1>1, <1>4, <1>5, <1>9, <1>10 DEF AreCounts, IsCount

(* A clone is taken out of the count. *)
LEMMA CloneCounts ==
    ASSUME PhaseInv, PhaseInv', CounterInv, Batched, entry' = entry, deltas' = deltas,
           pc \in {"clone_zero", "clone"}, NEW next, NextDelta(next),
           next = IF pc = "clone_zero" THEN "rotate" ELSE IF entry = "unit" THEN "clear" ELSE "done",
           pc = "clone_zero" => entry = "long",
           NEW d, d = Delta, DOMAIN counter' = DOMAIN counter,
           \A e \in DOMAIN counter \ {d} : counter'[e] = counter[e],
           counter'[d] = IF IF pc = "clone_zero" THEN d = 0 ELSE counter[d] > 1
                         THEN counter[d] - 1 ELSE counter[d]
    PROVE  CounterInv'
<1>1. PICK k \in DOMAIN deltas : k = index
  BY DEF PhaseInv
<1>2. Counting /\ AreCounts
  BY CounterParts DEF Counting
<1>3. \/ index' = k + 1 /\ pc' = pc
      \/ index' = 1 /\ pc' = next /\ k = LastIndex
  BY <1>1, LoopMoves
<1>4. SUFFICES ASSUME Counting' PROVE AreCounts'
  BY CounterPartsNext
<1>5. (pc' = pc /\ index' = k + 1) \/ (pc = "clone_zero" /\ pc' = "rotate" /\ k = LastIndex)
  BY <1>3, <1>4 DEF Counting, Batched
<1>6. DOMAIN counter' = {Normalized(e) : e \in ToSet(deltas')}
  BY <1>2 DEF AreCounts
<1>7. ASSUME NEW e \in DOMAIN counter
      PROVE  IsCount(counter[e], e, Left(e, FirstOf(e)))'
  <2>1. PICK left, right :
           left = Left(e, IF pc = "clone_zero" /\ e # 0 THEN 1 ELSE k)
           /\ right = Left(e, IF pc = "clone_zero" /\ e # 0 THEN 1 ELSE k + 1)
    OBVIOUS
  <2>2. left \in Nat /\ right \in Nat
    <3>1. 1 \in DOMAIN deltas
      BY CallTyped
    <3> QED
      BY <2>1, <3>1, PlacesFacts
  <2>3. pc = "clone_zero" /\ e # 0 => left = right
    BY <2>1
  <2>4. ~(pc = "clone_zero" /\ e # 0) => left = IF e = d THEN right + 1 ELSE right
    <3>1. Normalized(deltas[k]) = d
      BY <1>1 DEF Delta
    <3>2. Left(e, k) = IF Normalized(deltas[k]) = e THEN Left(e, k + 1) + 1 ELSE Left(e, k + 1)
      BY PlacesFacts
    <3> QED
      BY <2>1, <3>1, <3>2
  <2>5. k = LastIndex /\ ~(pc = "clone_zero" /\ e # 0) => right = 0
    BY <2>1, PlacesFacts
  <2>6. IsCount(counter[e], e, left)
    <3>1. FirstOf(e) = IF pc = "clone_zero" /\ e # 0 THEN 1 ELSE k
      BY <1>1 DEF FirstOf
    <3> QED
      BY <1>2, <2>1, <3>1 DEF AreCounts
  <2>7. /\ pc' = pc => Left(e, FirstOf(e))' = right
        /\ pc' = "rotate" /\ e # 0 => Left(e, FirstOf(e))' = right
    <3>1. pc' = pc => FirstOf(e)' = IF pc = "clone_zero" /\ e # 0 THEN 1 ELSE k + 1
      BY <1>5 DEF FirstOf
    <3>2. pc' = "rotate" => FirstOf(e)' = 1 /\ pc = "clone_zero"
      BY <1>5 DEF FirstOf
    <3> QED
      BY <2>1, <3>1, <3>2, LeftSame DEF Left, Places
  <2>8. CASE e = 0 /\ entry = "unit"
    <3>1. pc = "clone" /\ pc' = "clone" /\ counter[e] = left + 1
      BY <1>5, <2>6, <2>8 DEF IsCount
    <3>2. counter'[e] = right + 1
      BY <2>2, <2>4, <2>8, <3>1
    <3> QED
      BY <2>7, <2>8, <3>1, <3>2 DEF IsCount
  <2>9. CASE e = 0 /\ entry = "long"
    <3>1. CASE pc = "clone_zero"
      <4>1. counter[e] = left
        BY <2>6, <2>9, <3>1 DEF IsCount
      <4>2. counter'[e] = right
        BY <2>2, <2>4, <2>9, <3>1, <4>1
      <4>3. pc' # "clone_zero" => right = 0
        BY <1>5, <2>5, <2>9, <3>1
      <4> QED
        BY <1>5, <2>7, <2>9, <3>1, <4>2, <4>3 DEF IsCount
    <3>2. CASE pc = "clone"
      <4>1. counter[e] = 0
        BY <2>6, <2>9, <3>2 DEF IsCount
      <4>2. counter'[e] = 0
        BY <3>2, <4>1
      <4> QED
        BY <1>5, <2>9, <3>2, <4>2 DEF IsCount
    <3> QED
      BY <3>1, <3>2
  <2>10. CASE e # 0
    <3>1. left > 0 => counter[e] = left
      BY <2>6, <2>10 DEF IsCount
    <3>2. right > 0 => counter'[e] = right
      <4>1. CASE pc = "clone_zero"
        <5>1. counter'[e] = counter[e]
          BY <2>10, <4>1
        <5> QED
          BY <2>3, <2>10, <3>1, <4>1, <5>1
      <4>2. CASE pc = "clone" /\ e # d
        BY <2>4, <3>1, <4>2
      <4>3. CASE pc = "clone" /\ e = d
        <5>1. left = right + 1
          BY <2>4, <4>3
        <5> QED
          BY <2>2, <3>1, <4>3, <5>1
      <4> QED
        BY <4>1, <4>2, <4>3
    <3>3. Left(e, FirstOf(e))' = right
      BY <1>5, <2>7, <2>10
    <3> QED
      BY <2>10, <3>2, <3>3 DEF IsCount
  <2> QED
    BY <2>8, <2>9, <2>10 DEF Batched
<1> QED
  BY <1>6, <1>7 DEF AreCounts

-----------------------------------------------------------------------------
(***************************************************************************)
(* The last loop settles one delta at a time: it clones the text as long as *)
(* another delta is still to be settled that shares it.                     *)
(***************************************************************************)
LEMMA CloneDuplicateMoves ==
    ASSUME ValueInv, CloneDuplicate
    PROVE  /\ Batched /\ entry # "chain" /\ entry # "fixed" /\ pc = "clone"
           /\ entry' = entry /\ deltas' = deltas /\ rotated' = rotated
           /\ \A i \in DOMAIN deltas : Given(i) = Size /\ Given(i)' = Size
           /\ \A i \in DOMAIN deltas : /\ Settled(i) <=> i < index
                                       /\ Settled(i)' <=> Settled(i) \/ i = index
<1>1. PhaseInv /\ pc = "clone" /\ entry' = entry /\ deltas' = deltas /\ rotated' = rotated
      /\ NextDelta(IF entry = "unit" THEN "clear" ELSE "done")
  BY DEF ValueInv, CloneDuplicate
<1>2. entry \in {"unit", "long"} /\ Batched
  BY <1>1 DEF PhaseInv, Phase, Entry, Batched
<1>3. PICK next : next = IF entry = "unit" THEN "clear" ELSE "done"
  OBVIOUS
<1>4. /\ \/ index < LastIndex /\ index' = index + 1 /\ pc' = pc
         \/ index = LastIndex /\ pc' = next
      /\ DOMAIN deltas = 1 .. LastIndex /\ LastIndex \in Nat \ {0} /\ index \in 1 .. LastIndex
  <2>1. NextDelta(next)
    BY <1>1, <1>3
  <2> QED
    BY <1>1, <2>1, LoopMoves, CallTyped
<1>5. \A i \in DOMAIN deltas : Given(i) = Size /\ Given(i)' = Size
  <2>1. Size' = Size
    BY <1>1, CallSame
  <2>2. pc' \notin {"prepare", "clone_zero", "rotate"}
    BY <1>1, <1>3, <1>4
  <2> QED
    BY <1>1, <2>1, <2>2 DEF Given
<1>6. \A i \in DOMAIN deltas : Settled(i) <=> i < index
  BY <1>1 DEF Settled
<1>7. ASSUME NEW i \in DOMAIN deltas PROVE Settled(i)' <=> i < index \/ i = index
  <2>1. CASE index < LastIndex /\ index' = index + 1 /\ pc' = pc
    <3>1. Settled(i)' <=> i < index + 1
      BY <1>1, <2>1 DEF Settled
    <3> QED
      BY <1>4, <3>1
  <2>2. CASE index = LastIndex /\ pc' = next
    <3>1. Settled(i)'
      BY <1>1, <1>2, <1>3, <2>2 DEF Settled
    <3>2. i < index \/ i = index
      BY <1>4, <2>2
    <3> QED
      BY <3>1, <3>2
  <2> QED
    BY <1>4, <2>1, <2>2
<1> QED
  BY <1>1, <1>2, <1>5, <1>6, <1>7

LEMMA SettledPartsNext ==
    ASSUME Batched', deltas' = deltas,
           \A i \in DOMAIN deltas :
                /\ ~Settled(i)' => \A u \in 1 .. Given(i)' : Cloned(output[i][u])' <=> IsCloneOfInput(i)'
                /\ Settled(i)' => AllCloned(i)' \/ (Normalized(deltas[i]) # 0 /\
                      \A j \in Twins(i) \ {i} : Settled(j)' /\ AllCloned(j)')
                /\ \A e : e = Normalized(deltas[i]) /\ e # 0 =>
                      \E j \in Twins(i) : ~Settled(j)' \/ HasRotated(j, e)'
    PROVE  SettledInv'
<1>1. SettledInv' <=>
             \A i \in DOMAIN deltas' :
                /\ ~Settled(i)' => \A u \in 1 .. Given(i)' : Cloned(output[i][u])' <=> IsCloneOfInput(i)'
                /\ Settled(i)' => AllCloned(i)' \/ (Normalized(deltas[i])' # 0 /\
                      \A j \in Twins(i)' \ {i} : Settled(j)' /\ AllCloned(j)')
                /\ Normalized(deltas[i])' # 0 =>
                      \E j \in Twins(i)' : ~Settled(j)' \/ HasRotated(j, Normalized(deltas[i]))'
  BY DEF SettledInv, IsCloneOfInput, AllCloned, HasRotated, Twins
<1>2. \A i : Twins(i)' = Twins(i) /\ Normalized(deltas[i])' = Normalized(deltas[i])
  BY DEF Twins
<1>3. ASSUME NEW i \in DOMAIN deltas, Normalized(deltas[i]) # 0
      PROVE  \E j \in Twins(i) : ~Settled(j)' \/ HasRotated(j, Normalized(deltas[i]))'
  <2>1. PICK e : e = Normalized(deltas[i])
    OBVIOUS
  <2>2. PICK j \in Twins(i) : ~Settled(j)' \/ HasRotated(j, e)'
    BY <1>3, <2>1
  <2>3. HasRotated(j, e)' => HasRotated(j, Normalized(deltas[i]))'
    BY <1>2, <2>1 DEF HasRotated
  <2> QED
    BY <2>2, <2>3
<1> QED
  BY <1>1, <1>2, <1>3

(* What is known of the delta at hand before it is settled. *)
LEMMA ToSettle ==
    ASSUME ValueInv, SettledInv, CounterInv, Batched, pc = "clone",
           NEW k \in DOMAIN deltas, k = index, NEW d, d = Delta
    PROVE  /\ Normalized(deltas[k]) = d /\ ~Settled(k) /\ d \in DOMAIN counter
           /\ \A u \in 1 .. Size : Cloned(output[k][u]) <=> IsCloneOfInput(k)
           /\ counter[d] > 1 => ~IsCloneOfInput(k)
           /\ d = 0 /\ ~(counter[d] > 1) => IsCloneOfInput(k)
           /\ d # 0 => (counter[d] > 1 <=> \E j \in DOMAIN deltas : j > k /\ Normalized(deltas[j]) = d)
<1>1. PhaseInv
  BY DEF ValueInv
<1>2. Normalized(deltas[k]) = d
  BY DEF Delta
<1>3. ~Settled(k)
  <2>1. ~(k < k)
    BY <1>1, CallTyped
  <2> QED
    BY <2>1 DEF Settled, PhaseInv
<1>4. Given(k) = Size
  BY <1>1, GivenAtEnd
<1>5. \A u \in 1 .. Size : Cloned(output[k][u]) <=> IsCloneOfInput(k)
  BY <1>3, <1>4 DEF SettledInv, IsCloneOfInput
<1>6. AreCounts
  BY CounterParts DEF Counting
<1>7. d \in DOMAIN counter
  BY <1>1, <1>2, <1>6, Counted DEF AreCounts
<1>8. FirstOf(d) = k
  BY DEF FirstOf
<1>9. PICK left, right : left = Left(d, k) /\ right = Left(d, k + 1)
  OBVIOUS
<1>10. /\ left \in Nat /\ right \in Nat /\ left = right + 1
       /\ right > 0 <=> \E j \in DOMAIN deltas : j > k /\ Normalized(deltas[j]) = d
  BY <1>1, <1>2, <1>9, PlacesFacts
<1>11. IsCount(counter[d], d, left)
  BY <1>6, <1>7, <1>8, <1>9 DEF AreCounts
<1>12. CASE d = 0 /\ entry = "unit"
  <2>1. counter[d] = left + 1 /\ ~IsCloneOfInput(k)
    BY <1>11, <1>12 DEF IsCount, IsCloneOfInput
  <2>2. counter[d] > 1
    BY <1>10, <2>1
  <2> QED
    BY <1>2, <1>3, <1>5, <1>7, <1>12, <2>1, <2>2
<1>13. CASE d = 0 /\ entry = "long"
  <2>1. counter[d] = 0 /\ IsCloneOfInput(k)
    BY <1>2, <1>11, <1>13 DEF IsCount, IsCloneOfInput
  <2> QED
    BY <1>2, <1>3, <1>5, <1>7, <1>13, <2>1
<1>14. CASE d # 0
  <2>1. counter[d] = left /\ ~IsCloneOfInput(k)
    BY <1>2, <1>10, <1>11, <1>14 DEF IsCount, IsCloneOfInput
  <2>2. counter[d] > 1 <=> right > 0
    BY <1>10, <2>1
  <2> QED
    BY <1>2, <1>3, <1>5, <1>7, <1>10, <1>14, <2>1, <2>2
<1> QED
  BY <1>12, <1>13, <1>14 DEF Batched

(* The delta at hand has clones now, or the text itself. *)
LEMMA CloneDuplicateSettles ==
    ASSUME ValueInv, ValueInv', ReturnInv, CloneDuplicate
    PROVE  MadeInv' /\ SettledInv'
<1>1. PhaseInv /\ HeapInv /\ PhaseInv' /\ PlaceInv /\ OutputInv /\ MadeInv /\ SettledInv /\ CounterInv
  BY DEF ValueInv, ReturnInv
<1>2. /\ Batched /\ entry # "chain" /\ entry # "fixed" /\ pc = "clone"
      /\ entry' = entry /\ deltas' = deltas /\ rotated' = rotated
      /\ \A i \in DOMAIN deltas : Given(i) = Size /\ Given(i)' = Size
      /\ \A i \in DOMAIN deltas : /\ Settled(i) <=> i < index
                                  /\ Settled(i)' <=> Settled(i) \/ i = index
  BY CloneDuplicateMoves
<1>3. PICK k \in DOMAIN deltas : k = index
  BY <1>1 DEF PhaseInv
<1>4. PICK d : d = Delta
  OBVIOUS
<1>5. /\ Normalized(deltas[k]) = d /\ ~Settled(k)
      /\ \A u \in 1 .. Size : Cloned(output[k][u]) <=> IsCloneOfInput(k)
      /\ counter[d] > 1 => ~IsCloneOfInput(k)
      /\ d = 0 /\ ~(counter[d] > 1) => IsCloneOfInput(k)
      /\ d # 0 => (counter[d] > 1 <=> \E j \in DOMAIN deltas : j > k /\ Normalized(deltas[j]) = d)
  BY <1>1, <1>2, <1>3, <1>4, ToSettle
<1>6. IF counter[d] > 1 THEN \E more : ClonesGiven(more) ELSE NothingGiven
  BY <1>4, CloneDuplicateKeeps
<1>7. /\ KeepsMade /\ OtherPlaces(k) /\ PlacesMade(k)
      /\ \A i \in DOMAIN deltas \ {k} : output'[i] = output[i]
      /\ counter[d] > 1 => \A u \in 1 .. Size : Cloned(output[k][u])'
      /\ ~(counter[d] > 1) => output' = output
  <2>1. CASE counter[d] > 1
    <3>1. PICK more : ClonesGiven(more)
      BY <1>6, <2>1
    <3>2. \A u \in 1 .. Given(k) : ~MadeForPlace(output[k][u])
      BY <1>2, <1>5, <2>1 DEF MadeForPlace
    <3>3. \A i \in DOMAIN deltas : Given(i)' = IF i = k THEN Size ELSE Given(i)
      BY <1>2
    <3>4. /\ KeepsMade /\ OtherPlaces(k) /\ PlacesMade(k)
          /\ \A u \in 1 .. Size : Cloned(output[k][u])'
      BY <1>2, <1>3, <3>1, <3>2, <3>3, ClonedPlaces
    <3>5. \A i \in DOMAIN deltas \ {k} : output'[i] = output[i]
      BY <1>3, <3>1 DEF ClonesGiven
    <3> QED
      BY <2>1, <3>4, <3>5
  <2>2. CASE ~(counter[d] > 1)
    <3>1. heap' = heap /\ output' = output
      BY <1>6, <2>2 DEF NothingGiven
    <3>2. KeepsMade /\ \A id \in Id' : id \in Id \/ ~MadeForPlace(id)'
      BY <3>1 DEF KeepsMade, Id
    <3>3. OtherPlaces(k) /\ PlacesMade(k)
      BY <1>2, <3>1, <3>2, StillPlaces
    <3> QED
      BY <2>2, <3>1, <3>2, <3>3
  <2> QED
    BY <2>1, <2>2
<1>8. MadeInv'
  BY <1>1, <1>2, <1>7, MadeKept
<1>9. /\ \A i \in DOMAIN deltas \ {k} : \A u \in 1 .. Size : Cloned(output[i][u])' <=> Cloned(output[i][u])
      /\ ~(counter[d] > 1) => \A u \in 1 .. Size : Cloned(output[k][u])' <=> Cloned(output[k][u])
  <2>1. ASSUME NEW i \in DOMAIN deltas, NEW u \in 1 .. Size, output'[i] = output[i]
        PROVE  Cloned(output[i][u])' <=> Cloned(output[i][u])
    <3>1. output[i][u] \in Id
      BY <1>2, PlaceTyped
    <3> QED
      BY <1>7, <2>1, <3>1 DEF KeepsMade, Cloned
  <2> QED
    BY <1>3, <1>7, <2>1
<1>10. \A i \in DOMAIN deltas \ {k} : AllCloned(i)' <=> AllCloned(i)
  <2>1. Size' = Size
    BY <1>2, CallSame
  <2> QED
    BY <1>9, <2>1 DEF AllCloned
<1>11. /\ \A i \in DOMAIN deltas :
            /\ ~Settled(i) => \A u \in 1 .. Given(i) : Cloned(output[i][u]) <=> IsCloneOfInput(i)
            /\ Settled(i) => AllCloned(i) \/ (Normalized(deltas[i]) # 0 /\
                  \A j \in Twins(i) \ {i} : Settled(j) /\ AllCloned(j))
            /\ Normalized(deltas[i]) # 0 =>
                  \E j \in Twins(i) : ~Settled(j) \/ HasRotated(j, Normalized(deltas[i]))
  BY <1>1, <1>2, SettledParts
<1>12. \A i, j \in DOMAIN deltas : j \in Twins(i) <=> Normalized(deltas[j]) = Normalized(deltas[i])
  BY DEF Twins
<1>13. \A i : Twins(i) \subseteq DOMAIN deltas
  BY DEF Twins
<1>14. AllCloned(k)' \/ (d # 0 /\ \A j \in Twins(k) \ {k} : Settled(j) /\ AllCloned(j))
  <2>0. Size' = Size
    BY <1>2, CallSame
  <2>1. CASE counter[d] > 1
    BY <1>7, <2>0, <2>1 DEF AllCloned
  <2>2. CASE ~(counter[d] > 1) /\ d = 0
    BY <1>5, <1>9, <2>0, <2>2 DEF AllCloned
  <2>3. CASE ~(counter[d] > 1) /\ d # 0
    <3> SUFFICES ASSUME NEW j \in Twins(k) \ {k} PROVE Settled(j) /\ AllCloned(j)
      BY <2>3
    <3>1. j \in DOMAIN deltas /\ Normalized(deltas[j]) = d /\ j # k
      BY <1>5 DEF Twins
    <3>2. Settled(j)
      <4>1. ~(j > k)
        BY <1>5, <2>3, <3>1
      <4>2. j \in Int /\ k \in Int
        BY <1>1, <3>1, CallTyped
      <4> QED
        BY <1>2, <1>3, <3>1, <4>1, <4>2
    <3>3. k \in Twins(j) \ {j}
      BY <1>5, <3>1 DEF Twins
    <3> QED
      BY <1>5, <1>11, <3>1, <3>2, <3>3
  <2> QED
    BY <2>1, <2>2, <2>3
<1>15. ASSUME NEW i \in DOMAIN deltas
       PROVE  /\ ~Settled(i)' => \A u \in 1 .. Given(i)' : Cloned(output[i][u])' <=> IsCloneOfInput(i)'
              /\ Settled(i)' => AllCloned(i)' \/ (Normalized(deltas[i]) # 0 /\
                      \A j \in Twins(i) \ {i} : Settled(j)' /\ AllCloned(j)')
  <2>1. CASE i = k
    <3>1. Settled(i)'
      BY <1>2, <1>3, <2>1
    <3>2. \A j \in Twins(k) \ {k} : Settled(j) /\ AllCloned(j) => Settled(j)' /\ AllCloned(j)'
      BY <1>2, <1>10, <1>13
    <3> QED
      BY <1>5, <1>14, <2>1, <3>1, <3>2
  <2>2. CASE i # k
    <3>1. Settled(i)' <=> Settled(i)
      BY <1>2, <1>3, <2>2
    <3>2. IsCloneOfInput(i)' <=> IsCloneOfInput(i)
      BY <1>2 DEF IsCloneOfInput
    <3>3. ~Settled(i)' => \A u \in 1 .. Given(i)' : Cloned(output[i][u])' <=> IsCloneOfInput(i)'
      BY <1>2, <1>9, <1>11, <2>2, <3>1, <3>2
    <3>4. ASSUME Settled(i), ~AllCloned(i), NEW j \in Twins(i) \ {i}
          PROVE  Settled(j)' /\ AllCloned(j)'
      <4>1. Settled(j) /\ AllCloned(j)
        BY <1>11, <3>4
      <4>2. j # k
        BY <1>5, <4>1
      <4> QED
        BY <1>2, <1>10, <1>13, <4>1, <4>2
    <3> QED
      BY <1>10, <1>11, <2>2, <3>1, <3>3, <3>4
  <2> QED
    BY <2>1, <2>2
<1>16. ASSUME NEW i \in DOMAIN deltas, NEW e, e = Normalized(deltas[i]), e # 0
       PROVE  \E j \in Twins(i) : ~Settled(j)' \/ HasRotated(j, e)'
  <2>1. PICK j \in Twins(i) : ~Settled(j) \/ HasRotated(j, e)
    BY <1>11, <1>16
  <2>2. j \in DOMAIN deltas /\ Normalized(deltas[j]) = e
    BY <1>16 DEF Twins
  <2>3. Size' = Size
    BY <1>2, CallSame
  <2>4. CASE j # k
    <3>1. Settled(j)' <=> Settled(j)
      BY <1>2, <1>3, <2>2, <2>4
    <3>2. HasRotated(j, e)' <=> HasRotated(j, e)
      BY <1>2, <1>7, <2>2, <2>3, <2>4 DEF HasRotated
    <3> QED
      BY <2>1, <3>1, <3>2
  <2>5. CASE j = k /\ counter[d] > 1
    <3>1. e = d
      BY <1>5, <2>2, <2>5
    <3>2. PICK l \in DOMAIN deltas : l > k /\ Normalized(deltas[l]) = d
      BY <1>5, <1>16, <2>5, <3>1
    <3>3. ~(l < k) /\ l # k
      BY <1>1, <3>2, CallTyped
    <3>4. ~Settled(l)'
      BY <1>2, <1>3, <3>3
    <3>5. l \in Twins(i)
      BY <1>16, <3>1, <3>2 DEF Twins
    <3> QED
      BY <3>4, <3>5
  <2>6. CASE j = k /\ ~(counter[d] > 1)
    <3>1. e = d
      BY <1>5, <2>2, <2>6
    <3>2. \A u \in 1 .. Size : Placed(output[k][u], u, k)
      BY <1>2, PlaceTyped
    <3>3. ~IsCloneOfInput(k)
      BY <1>5, <1>16, <3>1 DEF IsCloneOfInput
    <3>4. \A u \in 1 .. Size : output[k][u] = rotated[u][e]
      BY <1>2, <1>5, <3>1, <3>2, <3>3 DEF Placed
    <3>5. HasRotated(k, e)'
      BY <1>2, <1>7, <2>3, <2>6, <3>4 DEF HasRotated
    <3> QED
      BY <2>6, <3>5
  <2> QED
    BY <2>4, <2>5, <2>6
<1>17. Batched'
  BY <1>2 DEF Batched
<1>18. SettledInv'
  BY <1>2, <1>15, <1>16, <1>17, SettledPartsNext
<1> QED
  BY <1>8, <1>18

-----------------------------------------------------------------------------
LEMMA InitReturns == Init => ReturnInv
<1> SUFFICES ASSUME Init
             PROVE  ReturnInv
  OBVIOUS
<1>1. pc = "prepare" /\ heap = [u \in 1 .. Size |-> Object(u, 0, "input")]
  BY DEF Init
<1>2. ValueInv
  BY InitValues
<1>3. PhaseInv /\ HeapInv
  BY <1>2 DEF ValueInv
<1>4. CounterInv
  BY <1>1 DEF CounterInv
<1>5. \A i \in DOMAIN deltas : ~Settled(i) /\ Given(i) = 0
  BY <1>1, <1>3, NotSettled DEF Given
<1>6. \A i \in DOMAIN deltas : i \in Twins(i)
  BY DEF Twins
<1>7. SettledInv
  <2>1. CASE Batched
    BY <1>5, <1>6, <2>1, SettledParts
  <2>2. CASE ~Batched
    BY <2>2 DEF SettledInv
  <2> QED
    BY <2>1, <2>2
<1>8. Id = 1 .. Size
  <2>1. Size \in Nat
    BY <1>3, CallTyped
  <2>2. Len(heap) = Size
    BY <1>1, <2>1
  <2> QED
    BY <2>2 DEF Id
<1>9. \A id \in Id : ~MadeForPlace(id)
  <2>1. \A u \in 1 .. Size : Object(u, 0, "input").made = "input"
    BY DEF Object
  <2>2. \A id \in Id : heap[id].made = "input"
    BY <1>1, <1>8, <2>1
  <2> QED
    BY <2>2 DEF MadeForPlace, Cloned
<1>10. MadeInv
  BY <1>5, <1>9 DEF MadeInv
<1> QED
  BY <1>4, <1>7, <1>10 DEF ReturnInv

LEMMA ReturnsStay ==
    ASSUME ReturnInv, UNCHANGED vars
    PROVE  ReturnInv'
<1>1. /\ entry' = entry /\ deltas' = deltas /\ pc' = pc /\ heap' = heap
      /\ unit' = unit /\ index' = index /\ rotated' = rotated /\ output' = output
      /\ counter' = counter
  BY DEF vars
<1>2. Size' = Size /\ Id' = Id /\ (Batched' <=> Batched)
  BY <1>1, CallSame DEF Id
<1>3. /\ \A d, first : Left(d, first)' = Left(d, first)
      /\ \A i : (Settled(i)' <=> Settled(i)) /\ Given(i)' = Given(i)
      /\ \A id : (Cloned(id)' <=> Cloned(id)) /\ (MadeForPlace(id)' <=> MadeForPlace(id))
  BY <1>1, <1>2, LeftSame DEF Settled, Given, IsCloneOfInput, Cloned, MadeForPlace
<1>4. CounterInv'
  <2>1. Counting' <=> Counting
    BY <1>1, <1>2 DEF Counting
  <2>2. ASSUME Counting, AreCounts PROVE AreCounts'
    <3>1. \A d : FirstOf(d)' = FirstOf(d)
      BY <1>1 DEF FirstOf
    <3>2. ASSUME NEW d \in DOMAIN counter PROVE IsCount(counter[d], d, Left(d, FirstOf(d)))'
      <4>1. IsCount(counter[d], d, Left(d, FirstOf(d)))
        BY <2>2 DEF AreCounts
      <4>2. Left(d, FirstOf(d))' = Left(d, FirstOf(d))
        BY <1>1 DEF Left, Places, FirstOf
      <4> QED
        BY <1>1, <4>1, <4>2 DEF IsCount
    <3> QED
      BY <1>1, <2>2, <3>2 DEF AreCounts
  <2> QED
    BY <2>1, <2>2, CounterParts, CounterPartsNext DEF ReturnInv
<1>5. SettledInv'
  <2>1. \A i, u : Cloned(output[i][u])' <=> Cloned(output[i][u])
    BY <1>1 DEF Cloned
  <2> QED
    BY <1>1, <1>2, <1>3, <2>1 DEF ReturnInv, SettledInv
<1>6. MadeInv'
  <2>1. \A i, u : MadeForPlace(output[i][u])' <=> MadeForPlace(output[i][u])
    BY <1>1 DEF MadeForPlace, Cloned
  <2> QED
    BY <1>1, <1>2, <1>3, <2>1 DEF ReturnInv, MadeInv
<1> QED
  BY <1>4, <1>5, <1>6 DEF ReturnInv

(* A chain makes one result, and counts nothing. *)
LEMMA ChainReturns ==
    ASSUME entry' = "chain"
    PROVE  ReturnInv'
BY DEF ReturnInv, CounterInv, SettledInv, MadeInv, Batched

LEMMA CounterKept ==
    ASSUME ValueInv, ValueInv', ReturnInv, entry # "chain", Next
    PROVE  CounterInv'
<1>1. PhaseInv /\ PhaseInv' /\ CounterInv
  BY DEF ValueInv, ReturnInv
<1>2. CASE Prepare
  BY <1>2, PrepareCounts
<1>3. CASE CloneZero
  <2>1. /\ pc = "clone_zero" /\ entry' = entry /\ deltas' = deltas /\ NextDelta("rotate")
        /\ counter' = IF Delta = 0 THEN [counter EXCEPT ![0] = @ - 1] ELSE counter
    BY <1>3 DEF CloneZero
  <2>2. entry = "long" /\ Batched
    BY <1>1, <2>1 DEF PhaseInv, Phase, Entry, Batched
  <2>3. PICK d, next : d = Delta /\ next = "rotate"
    OBVIOUS
  <2>4. d \in DOMAIN counter
    <3>1. AreCounts
      BY <1>1, <2>1, <2>2, CounterParts DEF Counting
    <3>2. index \in DOMAIN deltas /\ d = Normalized(deltas[index])
      BY <1>1, <2>3 DEF PhaseInv, Delta
    <3> QED
      BY <1>1, <3>1, <3>2, Counted DEF AreCounts
  <2>5. /\ DOMAIN counter' = DOMAIN counter
        /\ \A e \in DOMAIN counter \ {d} : counter'[e] = counter[e]
        /\ counter'[d] = IF IF pc = "clone_zero" THEN d = 0 ELSE counter[d] > 1
                         THEN counter[d] - 1 ELSE counter[d]
    BY <2>1, <2>3, <2>4
  <2> QED
    BY <1>1, <2>1, <2>2, <2>3, <2>5, CloneCounts
<1>4. CASE ReuseRotated \/ RotateByKey \/ RotateByFixedKey
  <2>1. /\ pc = "rotate" /\ entry' = entry /\ deltas' = deltas /\ counter' = counter
        /\ NextDelta(AfterRotate) \/ (pc' = pc /\ index' = index)
    BY <1>4 DEF ReuseRotated, RotateByKey, RotateByFixedKey
  <2>2. pc' = "rotate" \/ (pc' = AfterRotate /\ index' = 1)
    BY <1>1, <2>1, LoopMoves
  <2>3. pc' \in {"rotate", "clear", "clone", "done"} /\ (pc' = "clone" => index' = 1)
    BY <2>2 DEF AfterRotate
  <2>4. CASE Batched
    BY <1>1, <2>1, <2>3, <2>4, CountsStay DEF Counting
  <2>5. CASE ~Batched
    BY <2>1, <2>5 DEF CounterInv, Batched
  <2> QED
    BY <2>4, <2>5
<1>5. CASE RotateChain
  BY <1>1, <1>5 DEF RotateChain, PhaseInv, Phase, Entry
<1>6. CASE ClearTempData
  <2>1. /\ pc = "clear" /\ entry' = entry /\ deltas' = deltas /\ counter' = counter
        /\ index' = index /\ pc' = IF entry = "long" THEN "clone" ELSE "done"
    BY <1>6 DEF ClearTempData
  <2>2. CASE entry = "long"
    <3>1. index' = 1
      BY <1>1, <2>1 DEF PhaseInv
    <3> QED
      BY <1>1, <2>1, <2>2, <3>1, CountsStay DEF Counting, Batched
  <2>3. CASE entry # "long"
    BY <2>1, <2>3 DEF CounterInv
  <2> QED
    BY <2>2, <2>3
<1>7. CASE CloneDuplicate
  <2>1. /\ pc = "clone" /\ entry' = entry /\ deltas' = deltas
        /\ NextDelta(IF entry = "unit" THEN "clear" ELSE "done")
        /\ counter' = IF counter[Delta] > 1 THEN [counter EXCEPT ![Delta] = @ - 1] ELSE counter
    BY <1>7 DEF CloneDuplicate
  <2>2. Batched
    BY <1>1, <2>1 DEF PhaseInv, Phase, Entry, Batched
  <2>3. PICK d, next : d = Delta /\ next = IF entry = "unit" THEN "clear" ELSE "done"
    OBVIOUS
  <2>4. d \in DOMAIN counter
    <3>1. AreCounts
      BY <1>1, <2>1, <2>2, CounterParts DEF Counting
    <3>2. index \in DOMAIN deltas /\ d = Normalized(deltas[index])
      BY <1>1, <2>3 DEF PhaseInv, Delta
    <3> QED
      BY <1>1, <3>1, <3>2, Counted DEF AreCounts
  <2>5. /\ DOMAIN counter' = DOMAIN counter
        /\ \A e \in DOMAIN counter \ {d} : counter'[e] = counter[e]
        /\ counter'[d] = IF IF pc = "clone_zero" THEN d = 0 ELSE counter[d] > 1
                         THEN counter[d] - 1 ELSE counter[d]
    BY <2>1, <2>3, <2>4
  <2> QED
    BY <1>1, <2>1, <2>2, <2>3, <2>5, CloneCounts
<1>8. CASE Returned
  BY <1>8, ReturnsStay DEF Returned, ReturnInv
<1> QED
  BY <1>2, <1>3, <1>4, <1>5, <1>6, <1>7, <1>8 DEF Next

LEMMA ReturnsKept ==
    ASSUME ValueInv, ValueInv', ReturnInv, [Next]_vars
    PROVE  ReturnInv'
<1>1. MadeInv /\ SettledInv
  BY DEF ReturnInv
<1>2. CASE UNCHANGED vars
  BY <1>2, ReturnsStay
<1>3. CASE Next /\ entry = "chain"
  <2>1. entry' = "chain"
    BY <1>3 DEF Next, Prepare, CloneZero, ReuseRotated, RotateByKey, RotateByFixedKey,
                RotateChain, ClearTempData, CloneDuplicate, Returned, vars
  <2> QED
    BY <2>1, ChainReturns
<1>4. CASE Next /\ entry # "chain"
  <2>1. CounterInv'
    BY <1>4, CounterKept
  <2>2. MadeInv' /\ SettledInv'
    <3>1. ~RotateChain
      BY <1>4 DEF ValueInv, RotateChain, PhaseInv, Phase, Entry
    <3>2. Returned => MadeInv' /\ SettledInv'
      BY ReturnsStay DEF Returned, ReturnInv
    <3> QED
      BY <1>1, <1>4, <3>1, <3>2, PrepareSettles, CloneZeroSettles, ReuseRotatedSettles,
         RotateByKeySettles, RotateByFixedKeySettles, ClearTempDataSettles,
         CloneDuplicateSettles DEF Next
  <2> QED
    BY <2>1, <2>2 DEF ReturnInv
<1> QED
  BY <1>2, <1>3, <1>4

(* delta_counter counts the places of a delta that are left, so the loop    *)
(* that clones leaves the text of the map to exactly one of them, and what  *)
(* was cloned for one place is at no other.                                 *)
THEOREM ReturnKept == Spec => [](ValueInv /\ ReturnInv)
<1>1. ValueInv /\ ValueInv' /\ ReturnInv /\ [Next]_vars => ReturnInv'
  BY ReturnsKept
<1>2. Spec => []ReturnInv
  BY InitReturns, ValueKept, <1>1, PTL DEF Spec
<1> QED
  BY ValueKept, <1>2, PTL

(* What is returned is alive, and what is alive is returned. *)
LEMMA ReturnedOrTemporary ==
    ASSUME ValueInv, ReturnInv, NormalizedUnits, pc = "done", entry # "chain"
    PROVE  \A id \in Id : ~Temporary(heap[id]) <=> id \in Input \cup OutputIds
<1>1. PhaseInv /\ HeapInv /\ MapInv /\ OutputInv /\ PlaceInv /\ SettledInv /\ MadeInv
  BY DEF ValueInv, ReturnInv
<1>2. \A i \in DOMAIN deltas : Given(i) = Size /\ Settled(i)
  BY DEF Given, Settled
<1>3. DOMAIN output = DOMAIN deltas /\ \A i \in DOMAIN deltas : DOMAIN output[i] = 1 .. Size
  <2>1. \A i \in DOMAIN deltas : output[i] \in Seq(Id) /\ Len(output[i]) = Size
    BY <1>1, <1>2 DEF OutputInv
  <2> HIDE DEF Id
  <2> QED
    BY <1>1, <2>1 DEF OutputInv
<1>4. \A id : id \in OutputIds <=> \E i \in DOMAIN deltas : \E u \in 1 .. Size : output[i][u] = id
  <2>1. \A id : id \in OutputIds <=> \E i \in DOMAIN deltas : id \in ToSet(output[i])
    BY DEF OutputIds
  <2>2. \A id : \A i \in DOMAIN deltas : id \in ToSet(output[i]) <=> \E u \in 1 .. Size : output[i][u] = id
    BY <1>3 DEF ToSet
  <2> QED
    BY <2>1, <2>2
<1>5. entry \in {"unit", "long"} =>
         \A d : d \in Requested <=> \E i \in DOMAIN deltas : d = Normalized(deltas[i])
  <2>1. entry = "unit" => \A d \in ToSet(deltas) : d = Normalized(d)
    BY <1>1 DEF NormalizedUnits, IsNormalized, PhaseInv
  <2>2. \A d : d \in ToSet(deltas) <=> \E i \in DOMAIN deltas : d = deltas[i]
    BY DEF ToSet
  <2> QED
    BY <2>1, <2>2 DEF Requested
<1> SUFFICES ASSUME NEW id \in Id
             PROVE  ~Temporary(heap[id]) <=> id \in Input \cup OutputIds
  OBVIOUS
<1>6. PICK object : object = heap[id]
  OBVIOUS
<1>7. object.made \in Made /\ object.unit \in 1 .. Size
  <2>1. object \in Objects
    <3> HIDE DEF Objects
    <3> QED
      BY <1>1, <1>6 DEF HeapInv, Id
  <2> QED
    BY <2>1 DEF Objects
<1>8. ASSUME ~Temporary(object) PROVE id \in Input \cup OutputIds
  <2>1. CASE object.made = "input"
    BY <1>6, <2>1 DEF Input
  <2>2. CASE MadeForPlace(id)
    BY <1>1, <1>2, <1>4, <2>2 DEF MadeInv
  <2>3. CASE object.made = "rotated" /\ entry # "fixed"
    <3>1. Batched
      BY <1>1, <2>3 DEF PhaseInv, Entry, Batched
    <3>0. PICK w \in 1 .. Size : w = object.unit
      BY <1>7
    <3>2. PICK d : d = object.delta
      OBVIOUS
    <3>3. d \in DOMAIN rotated[w] \ {0} /\ rotated[w][d] = id
      BY <1>1, <1>6, <2>3, <3>0, <3>2 DEF MapInv
    <3>4. PICK i \in DOMAIN deltas : d = Normalized(deltas[i])
      BY <1>5, <1>8, <2>3, <3>1, <3>2 DEF Temporary, Batched
    <3>5. PICK j \in Twins(i) : ~Settled(j) \/ HasRotated(j, Normalized(deltas[i]))
      BY <1>1, <3>1, <3>3, <3>4, SettledParts
    <3>6. j \in DOMAIN deltas /\ output[j][w] = rotated[w][d]
      BY <1>2, <3>4, <3>5 DEF Twins, HasRotated
    <3> QED
      BY <1>4, <3>3, <3>6
  <2> QED
    BY <1>6, <1>7, <1>8, <2>1, <2>2, <2>3 DEF Made, MadeForPlace, Cloned, Temporary
<1>9. ASSUME id \in Input PROVE ~Temporary(object)
  BY <1>6, <1>9 DEF Input, Temporary
<1>10. ASSUME id \in OutputIds PROVE ~Temporary(object)
  <2>1. PICK i \in DOMAIN deltas : \E u \in 1 .. Size : output[i][u] = id
    BY <1>4, <1>10
  <2>2. PICK u \in 1 .. Size : output[i][u] = id
    BY <2>1
  <2>3. PICK d : d = Normalized(deltas[i])
    OBVIOUS
  <2>4. Placed(id, u, i) /\ object.delta = d
    BY <1>2, <1>6, <2>2, <2>3, PlaceTyped DEF IsText
  <2>5. CASE Cloned(id)
    BY <1>6, <2>5 DEF Cloned, Temporary
  <2>6. CASE entry = "fixed" /\ object.made = "rotated"
    BY <2>6 DEF Temporary, Batched
  <2>7. CASE Batched /\ ~IsCloneOfInput(i) /\ d \in DOMAIN rotated[u] /\ id = rotated[u][d] /\ ~Cloned(id)
    <3>1. d # 0
      <4>1. AllCloned(i) \/ d # 0
        BY <1>1, <1>2, <2>3, <2>7, SettledParts
      <4>2. ~AllCloned(i)
        BY <2>2, <2>7 DEF AllCloned
      <4> QED
        BY <4>1, <4>2
    <3>2. object.made = "rotated"
      BY <1>1, <1>6, <2>7, <3>1 DEF MapInv
    <3>3. d \in Requested
      BY <1>5, <2>3, <2>7 DEF Batched
    <3> QED
      BY <2>4, <3>2, <3>3 DEF Temporary
  <2> QED
    BY <1>6, <2>3, <2>4, <2>5, <2>6, <2>7 DEF Placed
<1> QED
  BY <1>6, <1>8, <1>9, <1>10

(* When rotate or rotate_batch returns, what is alive is the input and what *)
(* is returned, if a UnitCiphertext is only asked for normalized deltas:    *)
(* that overload looks for them among the deltas as they were given.        *)
THEOREM NothingLost == NormalizedUnits => (Spec => []NothingLeaked)
<1> SUFFICES ASSUME NormalizedUnits
             PROVE  Spec => []NothingLeaked
  OBVIOUS
<1>1. ValueInv /\ ReturnInv => NothingLeaked
  <2> SUFFICES ASSUME ValueInv, ReturnInv, pc = "done"
               PROVE  temp_data = <<>> /\ {id \in Id : IsAlive(id)} = Input \cup OutputIds
    BY DEF NothingLeaked
  <2>1. CASE entry # "chain"
    <3>1. temp_data = <<>> /\ \A id \in Id : IsAlive(id) <=> ~Temporary(heap[id])
      BY <2>1 DEF ValueInv, OwnedInv, Cleared
    <3>2. \A id \in Id : ~Temporary(heap[id]) <=> id \in Input \cup OutputIds
      BY <2>1, ReturnedOrTemporary
    <3>3. Input \cup OutputIds \subseteq Id
      <4>1. \A i \in DOMAIN deltas : output[i] \in Seq(Id)
        BY <2>1 DEF ValueInv, OutputInv
      <4>2. \A i \in DOMAIN deltas : ToSet(output[i]) \subseteq Id
        <5> HIDE DEF Id
        <5> QED
          BY <4>1 DEF ToSet
      <4> QED
        BY <4>2 DEF Input, OutputIds
    <3> QED
      BY <3>1, <3>2, <3>3
  <2>2. CASE entry = "chain"
    <3>1. DOMAIN deltas = {1}
      BY <2>2, ChainTyped DEF ValueInv
    <3>2. OutputIds = ToSet(output[1])
      BY <3>1 DEF OutputIds
    <3>3. output[1] # <<>>
      BY <2>2 DEF ValueInv, SingleInv
    <3>4. temp_data = <<>> /\ ToSet(temp_data) = {}
      BY <2>2, <3>3 DEF ValueInv, SingleOwnedInv, ToSet
    <3> QED
      BY <2>2, <3>2, <3>4 DEF ValueInv, SingleOwnedInv
  <2> QED
    BY <2>1, <2>2
<1> QED
  BY ReturnKept, <1>1, PTL

-----------------------------------------------------------------------------
(***************************************************************************)
(* The rotated texts of a unit are on the way to the deltas that the loop   *)
(* has come to.                                                             *)
(***************************************************************************)
Leads(i, d) ==
    d \in PrefixesOf(Normalized(deltas[i])) \cup {Normalized(deltas[i])}

Come(i, d) == i < index \/ (i = index /\ d =< previous)

LEMMA ReachedParts ==
    ReachedInv <=>
        /\ entry = "long" /\ pc = "clone_zero" => \A u \in 1 .. Size : DOMAIN rotated[u] = {0}
        /\ Batched /\ pc = "rotate" =>
            /\ \A u \in 1 .. Size : u > unit => DOMAIN rotated[u] = {0}
            /\ \A i \in DOMAIN deltas : i < index => Normalized(deltas[i]) \in DOMAIN rotated[unit]
            /\ \A d \in DOMAIN rotated[unit] \ {0} : \E i \in DOMAIN deltas : Come(i, d) /\ Leads(i, d)
BY DEF ReachedInv, Come, Leads

LEMMA ReachedPartsNext ==
    ReachedInv' <=>
        /\ entry' = "long" /\ pc' = "clone_zero" => \A u \in 1 .. Size' : DOMAIN rotated'[u] = {0}
        /\ Batched' /\ pc' = "rotate" =>
            /\ \A u \in 1 .. Size' : u > unit' => DOMAIN rotated'[u] = {0}
            /\ \A i \in DOMAIN deltas' :
                  i < index' => Normalized(deltas'[i]) \in DOMAIN rotated'[unit']
            /\ \A d \in DOMAIN rotated'[unit'] \ {0} :
                  \E i \in DOMAIN deltas' : Come(i, d)' /\ Leads(i, d)'
BY DEF ReachedInv, Come, Leads

(* A delta that a chain has come to is positive. *)
LEMMA PrefixesTyped ==
    ASSUME NEW delta \in 0 .. SlotCount - 1, NEW d \in PrefixesOf(delta) \cup {delta}
    PROVE  d \in Nat /\ PrefixesOf(delta) \subseteq Nat
<1>1. \A key \in Keys : delta % key \in Nat
  <2> TAKE key \in Keys
  <2>1. key \in Nat \ {0} /\ delta \in Int
    BY KeysTyped
  <2> QED
    BY <2>1, Divided
<1> QED
  BY <1>1, KeysTyped DEF PrefixesOf

(* Where the rotation of a unit begins. *)
LEMMA ReachedFirst ==
    ASSUME ValueInv, PhaseInv', entry' = entry, deltas' = deltas, pc' = "rotate",
           NEW w \in 1 .. Size, index' = 1, unit' = w,
           \A u \in 1 .. Size : u >= w => DOMAIN rotated'[u] = {0}
    PROVE  ReachedInv'
<1>1. PhaseInv /\ Size' = Size /\ Size \in Nat
  BY CallSame, CallTyped DEF ValueInv
<1>2. \A i \in DOMAIN deltas : ~(i < 1)
  BY <1>1, CallTyped
<1>3. DOMAIN rotated'[w] = {0} /\ \A u \in 1 .. Size : u > w => DOMAIN rotated'[u] = {0}
  BY <1>1
<1> QED
  BY <1>1, <1>2, <1>3, ReachedPartsNext

(* The loop goes on to the next delta, whose chain begins. *)
LEMMA ReachedNext ==
    ASSUME ValueInv, ReachedInv, Batched, pc = "rotate", entry' = entry, deltas' = deltas,
           PhaseInv', NextDelta(AfterRotate),
           NEW k, k = index, NEW w, w = unit,
           \A u \in 1 .. Size : u # w => rotated'[u] = rotated[u],
           DOMAIN rotated'[w] = DOMAIN rotated[w] \cup {Delta}
    PROVE  ReachedInv'
<1>1. PhaseInv /\ Size' = Size /\ Size \in Nat /\ w \in 1 .. Size /\ (Batched' <=> Batched)
  BY CallSame, CallTyped DEF ValueInv
<1>2. /\ previous' = 0
      /\ \/ index < LastIndex /\ index' = index + 1 /\ unit' = unit /\ pc' = pc
         \/ index' = 1 /\ unit < Size /\ unit' = unit + 1 /\ pc' = pc
         \/ pc' = AfterRotate
  BY <1>1, LoopMoves
<1>3. /\ \A u \in 1 .. Size : u > w => DOMAIN rotated[u] = {0}
      /\ \A i \in DOMAIN deltas : i < index => Normalized(deltas[i]) \in DOMAIN rotated[unit]
      /\ \A d \in DOMAIN rotated[unit] \ {0} : \E i \in DOMAIN deltas : Come(i, d) /\ Leads(i, d)
  BY ReachedParts
<1>4. k \in DOMAIN deltas /\ DOMAIN deltas \subseteq Int /\ Normalized(deltas[k]) = Delta
  <2>1. DOMAIN deltas = 1 .. LastIndex
    BY <1>1, CallTyped
  <2> QED
    BY <1>1, <2>1 DEF PhaseInv, Delta
<1>5. CASE index' = index + 1 /\ unit' = unit /\ pc' = pc
  <2>1. \A i \in DOMAIN deltas : i < index' <=> i < k \/ i = k
    BY <1>4, <1>5
  <2>2. \A u \in 1 .. Size : u > w => DOMAIN rotated'[u] = {0}
    BY <1>1, <1>3
  <2>3. \A i \in DOMAIN deltas : i < index' => Normalized(deltas[i]) \in DOMAIN rotated'[w]
    BY <1>3, <1>4, <2>1
  <2>4. \A i, d : Leads(i, d)' <=> Leads(i, d)
    BY DEF Leads, PrefixesOf
  <2>5. \A i \in DOMAIN deltas : \A d : Come(i, d) => Come(i, d)'
    BY <2>1 DEF Come
  <2>6. Leads(k, Delta)
    BY <1>4 DEF Leads
  <2>7. \A d : Come(k, d)'
    BY <1>4, <2>1 DEF Come
  <2>8. \A d \in DOMAIN rotated'[w] \ {0} : \E i \in DOMAIN deltas : Come(i, d)' /\ Leads(i, d)'
    BY <1>3, <1>4, <2>4, <2>5, <2>6, <2>7
  <2> QED
    BY <1>1, <1>5, <2>2, <2>3, <2>8, ReachedPartsNext
<1>6. CASE index' = 1 /\ unit < Size /\ unit' = unit + 1 /\ pc' = pc
  <2>1. w + 1 \in 1 .. Size /\ \A u \in 1 .. Size : u >= w + 1 => u > w /\ u # w
    BY <1>1, <1>6
  <2>2. \A u \in 1 .. Size : u >= w + 1 => DOMAIN rotated'[u] = {0}
    BY <1>3, <2>1
  <2>3. PICK next : next = w + 1
    OBVIOUS
  <2> QED
    BY <1>6, <2>1, <2>2, <2>3, ReachedFirst
<1>7. CASE pc' = AfterRotate
  <2>1. pc' \notin {"rotate", "clone_zero"}
    BY <1>7 DEF AfterRotate
  <2> QED
    BY <2>1, ReachedPartsNext
<1> QED
  BY <1>2, <1>5, <1>6, <1>7

(* The chain goes on. *)
LEMMA ReachedFurther ==
    ASSUME ValueInv, ReachedInv, Batched, pc = "rotate", entry' = entry, deltas' = deltas,
           NEW current \in PrefixesOf(Delta) \cup {Delta}, previous < current, Stays(current),
           NEW w, w = unit, NEW k, k = index,
           \A u \in 1 .. Size : u # w => rotated'[u] = rotated[u],
           DOMAIN rotated'[w] = DOMAIN rotated[w] \cup {current}
    PROVE  ReachedInv'
<1>1. PhaseInv /\ Size' = Size /\ Size \in Nat /\ w \in 1 .. Size /\ (Batched' <=> Batched)
      /\ ChainInv /\ Delta \in 0 .. SlotCount - 1
  BY CallSame, CallTyped DEF ValueInv
<1>2. previous' = current /\ unit' = w /\ index' = k /\ pc' = "rotate"
  BY DEF Stays
<1>3. /\ \A u \in 1 .. Size : u > w => DOMAIN rotated[u] = {0}
      /\ \A i \in DOMAIN deltas : i < index => Normalized(deltas[i]) \in DOMAIN rotated[unit]
      /\ \A d \in DOMAIN rotated[unit] \ {0} : \E i \in DOMAIN deltas : Come(i, d) /\ Leads(i, d)
  BY ReachedParts
<1>4. k \in DOMAIN deltas /\ Normalized(deltas[k]) = Delta
      /\ \A i \in DOMAIN deltas : Normalized(deltas[i]) \in 0 .. SlotCount - 1
  BY <1>1, CallTyped DEF PhaseInv, Delta
<1>5. current \in Nat /\ previous \in Nat
  <2>1. previous \in PrefixesOf(Delta)
    BY <1>1 DEF ChainInv
  <2> QED
    BY <1>1, <2>1, PrefixesTyped
<1>6. \A i, d : Leads(i, d)' <=> Leads(i, d)
  BY DEF Leads, PrefixesOf
<1>7. ASSUME NEW i \in DOMAIN deltas, NEW d, Come(i, d), Leads(i, d)
      PROVE  Come(i, d)'
  <2>1. PICK delta \in 0 .. SlotCount - 1 : delta = Normalized(deltas[i])
    BY <1>4
  <2>2. d \in Nat
    BY <1>7, <2>1, PrefixesTyped DEF Leads
  <2> QED
    BY <1>2, <1>5, <1>7, <2>2 DEF Come
<1>8. Leads(k, current)
  BY <1>4 DEF Leads
<1>9. Come(k, current)'
  BY <1>2, <1>5 DEF Come
<1>10. \A d \in DOMAIN rotated'[w] \ {0} : \E i \in DOMAIN deltas : Come(i, d)' /\ Leads(i, d)'
  BY <1>3, <1>4, <1>6, <1>7, <1>8, <1>9
<1>11. \A u \in 1 .. Size : u > w => DOMAIN rotated'[u] = {0}
  BY <1>1, <1>3
<1> QED
  BY <1>1, <1>2, <1>3, <1>10, <1>11, ReachedPartsNext

-----------------------------------------------------------------------------
LEMMA ReachedLast ==
    ASSUME pc' \notin {"clone_zero", "rotate"}
    PROVE  ReachedInv'
BY ReachedPartsNext

LEMMA PrepareReaches ==
    ASSUME ValueInv, ValueInv', entry # "chain", Prepare
    PROVE  ReachedInv'
<1>1. /\ entry' = entry /\ deltas' = deltas /\ index' = index /\ unit' = unit
      /\ rotated' = [u \in 1 .. Size |-> [d \in {0} |-> rotate_input'[u]]]
      /\ pc = "prepare"
      /\ pc' = CASE entry = "long" -> "clone_zero"
                 [] entry = "chain" -> "chain"
                 [] OTHER -> "rotate"
  BY DEF Prepare
<1>2. PhaseInv /\ PhaseInv' /\ Size' = Size /\ 1 \in 1 .. Size
  <2>1. PhaseInv /\ PhaseInv' /\ Size' = Size
    BY <1>1, CallSame DEF ValueInv
  <2> QED
    BY <2>1, CallTyped
<1>3. \A u \in 1 .. Size : DOMAIN rotated'[u] = {0}
  BY <1>1
<1>4. unit = 1 /\ index = 1
  BY <1>1, <1>2 DEF PhaseInv
<1>5. CASE pc' = "rotate"
  BY <1>1, <1>2, <1>3, <1>4, <1>5, ReachedFirst
<1>6. CASE pc' # "rotate"
  BY <1>1, <1>2, <1>3, <1>6, ReachedPartsNext
<1> QED
  BY <1>5, <1>6

LEMMA CloneZeroReaches ==
    ASSUME ValueInv, ValueInv', ReachedInv, CloneZero
    PROVE  ReachedInv'
<1>1. /\ entry' = entry /\ deltas' = deltas /\ rotated' = rotated /\ pc = "clone_zero"
      /\ NextDelta("rotate")
  BY DEF CloneZero
<1>2. PhaseInv /\ PhaseInv' /\ Size' = Size /\ 1 \in 1 .. Size /\ entry = "long"
  <2>1. PhaseInv /\ PhaseInv' /\ Size' = Size
    BY <1>1, CallSame DEF ValueInv
  <2>2. 1 \in 1 .. Size
    BY <2>1, CallTyped
  <2>3. entry = "long"
    BY <1>1, <2>1 DEF PhaseInv, Phase, Entry
  <2> QED
    BY <2>1, <2>2, <2>3
<1>3. \A u \in 1 .. Size : DOMAIN rotated'[u] = {0}
  BY <1>1, <1>2, ReachedParts
<1>4. pc' = pc \/ (pc' = "rotate" /\ index' = 1 /\ unit' = 1)
  BY <1>1, <1>2, LoopMoves
<1>5. CASE pc' = "rotate"
  BY <1>1, <1>2, <1>3, <1>4, <1>5, ReachedFirst
<1>6. CASE pc' # "rotate"
  BY <1>1, <1>2, <1>3, <1>6, ReachedPartsNext
<1> QED
  BY <1>5, <1>6

LEMMA ReuseRotatedReaches ==
    ASSUME ValueInv, ValueInv', ReachedInv, ReuseRotated
    PROVE  ReachedInv'
<1>1. /\ entry' = entry /\ deltas' = deltas /\ rotated' = rotated /\ pc = "rotate"
      /\ NextDelta(AfterRotate) /\ entry \in {"unit", "long"} /\ Delta \in DOMAIN rotated[unit]
  BY DEF ReuseRotated, IsRotated
<1>2. PICK k, w : k = index /\ w = unit
  OBVIOUS
<1>3. /\ DOMAIN rotated'[w] = DOMAIN rotated[w] \cup {Delta}
      /\ \A u \in 1 .. Size : u # w => rotated'[u] = rotated[u]
  BY <1>1, <1>2
<1> QED
  BY <1>1, <1>2, <1>3, ReachedNext DEF ValueInv, Batched

LEMMA RotateByKeyReaches ==
    ASSUME ValueInv, ValueInv', ReachedInv, RotateByKey
    PROVE  ReachedInv'
<1>1. /\ entry' = entry /\ deltas' = deltas /\ pc = "rotate"
      /\ entry \in {"unit", "long"} /\ Batched /\ entry # "fixed"
  BY DEF RotateByKey, Batched
<1>2. PICK k, w : k = index /\ w = unit
  OBVIOUS
<1>3. PICK current \in (PrefixesOf(Delta) \cup {Delta}) \ {0} :
         /\ previous < current
         /\ \/ Passes(current)
            \/ \E more, text :
                  /\ Rotates(more, text, unit, previous, current)
                  /\ IF current = Delta THEN Gives(text) ELSE Stays(current)
  BY RotateByKeyKeeps
<1>4. current \in PrefixesOf(Delta) \cup {Delta}
  OBVIOUS
<1>5. CASE Passes(current)
  <2>1. /\ DOMAIN rotated'[w] = DOMAIN rotated[w] \cup {current} /\ Stays(current)
        /\ \A u \in 1 .. Size : u # w => rotated'[u] = rotated[u]
    BY <1>2, <1>5 DEF Passes
  <2> QED
    BY <1>1, <1>2, <1>3, <1>4, <2>1, ReachedFurther
<1>6. CASE ~Passes(current)
  <2>1. PICK more : \E text : /\ Rotates(more, text, unit, previous, current)
                              /\ IF current = Delta THEN Gives(text) ELSE Stays(current)
    BY <1>3, <1>6
  <2>2. PICK text : /\ Rotates(more, text, unit, previous, current)
                    /\ IF current = Delta THEN Gives(text) ELSE Stays(current)
    BY <2>1
  <2>3. /\ rotated'[w] = With(rotated[w], current, text)
        /\ \A u \in (1 .. Size) \ {w} : rotated'[u] = rotated[u]
    BY <1>1, <1>2, <2>2 DEF Rotates
  <2>4. /\ DOMAIN rotated'[w] = DOMAIN rotated[w] \cup {current}
        /\ \A u \in 1 .. Size : u # w => rotated'[u] = rotated[u]
    BY <2>3 DEF With
  <2>5. CASE current = Delta
    <3>1. NextDelta(AfterRotate)
      BY <2>2, <2>5 DEF Gives
    <3>2. DOMAIN rotated'[w] = DOMAIN rotated[w] \cup {Delta}
      BY <2>4, <2>5
    <3> QED
      BY <1>1, <1>2, <2>4, <3>1, <3>2, ReachedNext DEF ValueInv
  <2>6. CASE current # Delta
    <3>1. Stays(current)
      BY <2>2, <2>6
    <3> QED
      BY <1>1, <1>2, <1>3, <1>4, <2>4, <3>1, ReachedFurther
  <2> QED
    BY <2>5, <2>6
<1> QED
  BY <1>5, <1>6

LEMMA ReachedStays ==
    ASSUME ReachedInv, UNCHANGED vars
    PROVE  ReachedInv'
<1>1. /\ entry' = entry /\ deltas' = deltas /\ pc' = pc /\ unit' = unit /\ index' = index
      /\ previous' = previous /\ rotated' = rotated
  BY DEF vars
<1>2. Size' = Size /\ (Batched' <=> Batched)
  BY <1>1, CallSame
<1> QED
  BY <1>1, <1>2 DEF ReachedInv, PrefixesOf

LEMMA ReachedKept ==
    ASSUME ValueInv, ValueInv', ReachedInv, [Next]_vars
    PROVE  ReachedInv'
<1>1. PhaseInv
  BY DEF ValueInv
<1>2. CASE UNCHANGED vars
  BY <1>2, ReachedStays
<1>3. CASE Prepare
  <2>1. CASE entry = "chain"
    BY <1>3, <2>1, ReachedLast DEF Prepare
  <2> QED
    BY <1>3, <2>1, PrepareReaches
<1>4. CASE CloneZero \/ ReuseRotated \/ RotateByKey
  BY <1>4, CloneZeroReaches, ReuseRotatedReaches, RotateByKeyReaches
<1>5. CASE RotateByFixedKey
  <2>1. entry' = "fixed"
    BY <1>5 DEF RotateByFixedKey
  <2> QED
    BY <2>1, ReachedPartsNext DEF Batched
<1>6. CASE RotateChain
  <2>1. pc' \in {"chain", "done"}
    BY <1>6 DEF RotateChain
  <2> QED
    BY <2>1, ReachedLast
<1>7. CASE ClearTempData
  BY <1>7, ReachedLast DEF ClearTempData
<1>8. CASE CloneDuplicate
  <2>1. pc' \in {"clone", "clear", "done"}
    <3>1. NextDelta(IF entry = "unit" THEN "clear" ELSE "done") /\ pc = "clone"
          /\ entry' = entry /\ deltas' = deltas
      BY <1>8 DEF CloneDuplicate
    <3>2. PICK next : next = IF entry = "unit" THEN "clear" ELSE "done"
      OBVIOUS
    <3>3. pc' = pc \/ pc' = next
      BY <1>1, <3>1, <3>2, LoopMoves
    <3> QED
      BY <3>1, <3>2, <3>3
  <2> QED
    BY <2>1, ReachedLast
<1>9. CASE Returned
  BY <1>9, ReachedStays DEF Returned
<1> QED
  BY <1>2, <1>3, <1>4, <1>5, <1>6, <1>7, <1>8, <1>9 DEF Next

-----------------------------------------------------------------------------
(***************************************************************************)
(* No object is listed twice.                                               *)
(***************************************************************************)
LEMMA JoinedDistinct ==
    ASSUME NEW T, NEW s \in Seq(T), NEW more \in Seq(T), Distinct(s), Distinct(more),
           ToSet(s) \cap ToSet(more) = {}
    PROVE  Distinct(s \o more)
<1>1. /\ s \o more \in Seq(T) /\ Len(s \o more) = Len(s) + Len(more)
      /\ Len(s) \in Nat /\ Len(more) \in Nat
      /\ \A i \in 1 .. Len(s) : (s \o more)[i] = s[i]
      /\ \A n \in 1 .. Len(more) : (s \o more)[Len(s) + n] = more[n]
      /\ \A i \in 1 .. Len(s) + Len(more) :
            i \in 1 .. Len(s) \/ \E n \in 1 .. Len(more) : i = Len(s) + n
  BY Joined
<1>2. DOMAIN s = 1 .. Len(s) /\ DOMAIN more = 1 .. Len(more)
      /\ DOMAIN (s \o more) = 1 .. Len(s) + Len(more)
  <2>1. PICK both : both = s \o more
    OBVIOUS
  <2>2. both \in Seq(T) /\ Len(both) = Len(s) + Len(more)
    BY <1>1, <2>1
  <2>3. DOMAIN both = 1 .. Len(s) + Len(more)
    BY <2>2
  <2> QED
    BY <2>1, <2>3
<1>3. \A i \in DOMAIN s, n \in DOMAIN more : s[i] # more[n]
  BY DEF ToSet
<1> SUFFICES ASSUME NEW i \in 1 .. Len(s) + Len(more), NEW j \in 1 .. Len(s) + Len(more),
                    (s \o more)[i] = (s \o more)[j]
             PROVE  i = j
  BY <1>2 DEF Distinct
<1>4. CASE i \in 1 .. Len(s) /\ j \in 1 .. Len(s)
  BY <1>1, <1>2, <1>4 DEF Distinct
<1>5. CASE i \notin 1 .. Len(s) /\ j \notin 1 .. Len(s)
  <2>1. PICK m \in 1 .. Len(more) : i = Len(s) + m
    BY <1>1, <1>5
  <2>2. PICK n \in 1 .. Len(more) : j = Len(s) + n
    BY <1>1, <1>5
  <2>3. (s \o more)[i] = more[m] /\ (s \o more)[j] = more[n]
    BY <1>1, <2>1, <2>2
  <2>4. more[m] = more[n]
    BY <2>3
  <2>5. m = n
    BY <1>2, <2>4 DEF Distinct
  <2> QED
    BY <2>1, <2>2, <2>5
<1>6. CASE i \in 1 .. Len(s) /\ j \notin 1 .. Len(s)
  <2>1. PICK n \in 1 .. Len(more) : j = Len(s) + n
    BY <1>1, <1>6
  <2>2. (s \o more)[i] = s[i] /\ (s \o more)[j] = more[n]
    BY <1>1, <1>6, <2>1
  <2> QED
    BY <1>2, <1>3, <1>6, <2>2
<1>7. CASE j \in 1 .. Len(s) /\ i \notin 1 .. Len(s)
  <2>1. PICK n \in 1 .. Len(more) : i = Len(s) + n
    BY <1>1, <1>7
  <2>2. (s \o more)[j] = s[j] /\ (s \o more)[i] = more[n]
    BY <1>1, <1>7, <2>1
  <2> QED
    BY <1>2, <1>3, <1>7, <2>2
<1> QED
  BY <1>4, <1>5, <1>6, <1>7

LEMMA UniqueGrown ==
    ASSUME ValueInv, ValueInv', UniqueInv, entry # "chain",
           NEW more, Grows(more), NEW added, temp_data' = temp_data \o added,
           added \in Seq(Id)', Distinct(added), ToSet(added) \cap Id = {}
    PROVE  UniqueInv'
<1>1. heap \in Seq(Objects) /\ temp_data \in Seq(Id) /\ \A id \in Id : id \in Id'
  BY Grown DEF ValueInv, HeapInv
<1>2. \A id \in Id' : heap'[id].deletions <= 1
  <2>1. \A id \in Id : heap[id].deletions <= 1
    BY DEF UniqueInv
  <2>2. \A id \in Id' : (id \in Id /\ heap'[id] = heap[id]) \/ heap'[id].deletions = 0
    BY <1>1, Grown
  <2> QED
    BY <2>1, <2>2
<1>3. Distinct(temp_data \o added)
  <2>1. PICK all : all = Id'
    OBVIOUS
  <2>2. temp_data \in Seq(all) /\ added \in Seq(all) /\ ToSet(temp_data) \subseteq Id
    <3> HIDE DEF Id
    <3>1. ToSet(temp_data) \subseteq Id
      BY <1>1 DEF ToSet
    <3>2. temp_data \in Seq(all)
      BY <1>1, <2>1
    <3> QED
      BY <2>1, <3>1, <3>2
  <2>3. Distinct(temp_data)
    BY DEF UniqueInv, Distinct
  <2>4. ToSet(temp_data) \cap ToSet(added) = {}
    BY <2>2
  <2> QED
    BY <2>2, <2>3, <2>4, JoinedDistinct
<1>4. \A m, n \in DOMAIN temp_data' : temp_data'[m] = temp_data'[n] => m = n
  BY <1>3 DEF Distinct
<1> QED
  BY <1>2, <1>4 DEF UniqueInv

LEMMA UniqueStays ==
    ASSUME ValueInv, UniqueInv, entry # "chain", temp_data' = temp_data,
           heap' = heap \/ \E more : Grows(more)
    PROVE  UniqueInv'
<1>1. \A id \in Id : heap[id].deletions <= 1
  BY DEF UniqueInv
<1>2. \A id \in Id' : heap'[id].deletions <= 1
  <2>1. CASE heap' = heap
    BY <1>1, <2>1 DEF Id
  <2>2. CASE \E more : Grows(more)
    <3>1. PICK more : Grows(more)
      BY <2>2
    <3>2. \A id \in Id' : (id \in Id /\ heap'[id] = heap[id]) \/ heap'[id].deletions = 0
      BY <3>1, Grown DEF ValueInv, HeapInv
    <3> QED
      BY <1>1, <3>2
  <2> QED
    BY <2>1, <2>2
<1> QED
  BY <1>2 DEF UniqueInv

LEMMA RotatesUnique ==
    ASSUME ValueInv, ValueInv', UniqueInv, entry # "chain",
           NEW more, NEW text, NEW w, NEW d, NEW r, Rotates(more, text, w, d, r)
    PROVE  UniqueInv'
<1>1. Grows(more) /\ \E added \in Seq(Id') :
         /\ temp_data' = temp_data \o added /\ Distinct(added)
         /\ ToSet(added) = {Len(heap) + n : n \in {m \in 1 .. Len(more) : Temporary(more[m])}}
  BY DEF Rotates
<1>2. PICK added \in Seq(Id') :
         /\ temp_data' = temp_data \o added /\ Distinct(added)
         /\ ToSet(added) = {Len(heap) + n : n \in {m \in 1 .. Len(more) : Temporary(more[m])}}
  BY <1>1
<1>3. ToSet(added) \cap Id = {}
  <2>1. \A n \in 1 .. Len(more) : Len(heap) + n \notin Id
    BY <1>1, Grown DEF ValueInv, HeapInv
  <2> QED
    BY <1>2, <2>1
<1>4. added \in Seq(Id)'
  OBVIOUS
<1> QED
  BY <1>1, <1>2, <1>3, <1>4, UniqueGrown

LEMMA PrepareUnique ==
    ASSUME ValueInv, ValueInv', UniqueInv, entry # "chain", Prepare
    PROVE  UniqueInv'
<1>1. PICK more, ids :
              /\ more \in Seq(Objects)
              /\ Grows(more) /\ temp_data' = ids
              /\ ids \in Seq(Id') /\ Len(ids) = Len(more)
              /\ \A n \in 1 .. Len(more) : ids[n] = Len(heap) + n
  BY ConversionsMade
<1>2. /\ heap \in Seq(Objects) /\ Len(heap) \in Nat /\ Len(more) \in Nat
      /\ \A n \in 1 .. Len(more) : Len(heap) + n \notin Id
  BY <1>1, Grown DEF ValueInv, HeapInv
<1>3. DOMAIN ids = 1 .. Len(more)
  <2> HIDE DEF Id
  <2> QED
    BY <1>1
<1>4. Distinct(ids)
  BY <1>1, <1>2, <1>3 DEF Distinct
<1>5. ToSet(ids) \cap Id = {}
  BY <1>1, <1>2, <1>3 DEF ToSet
<1>6. temp_data' = temp_data \o ids
  <2>1. temp_data = <<>>
    BY DEF Prepare, ValueInv, HeapInv
  <2>2. <<>> \o ids = ids
    <3> HIDE DEF Id
    <3> QED
      BY <1>1
  <2> QED
    BY <1>1, <2>1, <2>2
<1>7. ids \in Seq(Id)'
  BY <1>1
<1> QED
  BY <1>1, <1>4, <1>5, <1>6, <1>7, UniqueGrown

LEMMA ClearTempDataUnique ==
    ASSUME ValueInv, ValueInv', UniqueInv, entry # "chain", ClearTempData
    PROVE  UniqueInv'
<1>1. /\ pc = "clear" /\ heap' = Deleted(heap, temp_data) /\ temp_data' = <<>>
  BY DEF ClearTempData
<1>2. PICK objects, list : objects = heap /\ list = temp_data
  OBVIOUS
<1>3. objects \in Seq(Objects) /\ list \in Seq(1 .. Len(objects)) /\ Id = 1 .. Len(objects)
  BY <1>2 DEF ValueInv, HeapInv, Id
<1>4. PICK result : result = Deleted(objects, list)
  OBVIOUS
<1>5. /\ Len(result) = Len(objects)
      /\ \A id \in 1 .. Len(objects) :
            result[id].deletions = objects[id].deletions + Cardinality(Listed(list, id))
  BY <1>3, <1>4, DeletedFacts
<1>6. \A id \in Id : objects[id].deletions = 0
  <2>1. ~Cleared
    BY <1>1 DEF Cleared
  <2> QED
    BY <1>2, <2>1 DEF ValueInv, OwnedInv, IsAlive
<1>7. \A id : Cardinality(Listed(list, id)) \in Nat /\ Cardinality(Listed(list, id)) <= 1
  <2>1. \A m, n \in DOMAIN list : list[m] = list[n] => m = n
    BY <1>2 DEF UniqueInv
  <2> QED
    BY <1>3, <2>1, ListedFacts
<1>8. \A id \in Id' : heap'[id].deletions <= 1
  <2>1. heap' = result
    BY <1>1, <1>2, <1>4
  <2>2. Id' = Id
    BY <1>2, <1>5, <2>1 DEF Id
  <2>3. \A id \in Id : result[id].deletions <= 1
    BY <1>3, <1>5, <1>6, <1>7
  <2> QED
    BY <2>1, <2>2, <2>3
<1> QED
  BY <1>1, <1>8 DEF UniqueInv

-----------------------------------------------------------------------------
(* What the caller asked for, if a unit is only asked for normalized deltas. *)
LEMMA RequestedNormalized ==
    ASSUME PhaseInv, Batched, NormalizedUnits
    PROVE  /\ Requested = {Normalized(d) : d \in ToSet(deltas)}
           /\ \A i \in DOMAIN deltas : Normalized(deltas[i]) \in Requested
<1>1. Requested = {Normalized(d) : d \in ToSet(deltas)}
  <2>1. CASE entry = "unit"
    <3>1. \A d \in ToSet(deltas) : d = Normalized(d)
      BY <2>1 DEF NormalizedUnits, IsNormalized, PhaseInv
    <3> QED
      BY <2>1, <3>1 DEF Requested
  <2>2. CASE entry # "unit"
    BY <2>2 DEF Requested
  <2> QED
    BY <2>1, <2>2
<1>2. \A i \in DOMAIN deltas : deltas[i] \in ToSet(deltas)
  BY DEF ToSet
<1> QED
  BY <1>1, <1>2

(* A text found on the way of a second chain was requested. *)
LEMMA PassesRequested ==
    ASSUME ValueInv, ReachedInv, NormalizedUnits, NothingShared, RotateByKey,
           NEW current \in PrefixesOf(Delta) \cup {Delta}, current # 0,
           previous < current, Passes(current)
    PROVE  current \in Requested
<1> SUFFICES ASSUME current \notin Requested
             PROVE  FALSE
  OBVIOUS
<1>1. /\ PhaseInv /\ ChainInv /\ pc = "rotate" /\ Batched /\ entry \in {"unit", "long"}
      /\ entry # "chain" /\ (previous = 0 => ~IsRotated(Delta))
  BY DEF ValueInv, RotateByKey, Batched
<1>2. PICK w, k, d, key, delta :
         w = unit /\ k = index /\ d = previous /\ key = NextKey(Delta, previous) /\ delta = Delta
  OBVIOUS
<1>3. /\ Delta \notin DOMAIN rotated[w] /\ delta \in 0 .. SlotCount - 1
      /\ d \in PrefixesOf(Delta)
  BY <1>1, <1>2, ChainStep
<1>4. current \in DOMAIN rotated[w] \ {0} /\ current # Delta
  BY <1>2 DEF Passes
<1>5. /\ \A i \in DOMAIN deltas : i < index => Normalized(deltas[i]) \in DOMAIN rotated[w]
      /\ \E i \in DOMAIN deltas : Come(i, current) /\ Leads(i, current)
  BY <1>1, <1>2, <1>4, ReachedParts
<1>6. PICK i \in DOMAIN deltas : Come(i, current) /\ Leads(i, current)
  BY <1>5
<1>7. current \in Nat /\ previous \in Nat
  BY <1>2, <1>3, PrefixesTyped
<1>8. i < index
  BY <1>6, <1>7 DEF Come
<1>9. PICK other \in 0 .. SlotCount - 1 : other = Normalized(deltas[i])
  BY <1>1, CallTyped
<1>10. other \in DOMAIN rotated[w] /\ other # delta
  BY <1>2, <1>3, <1>5, <1>8, <1>9
<1>11. /\ Requested = {Normalized(e) : e \in ToSet(deltas)}
       /\ other \in Requested /\ delta \in Requested
  BY <1>1, <1>2, <1>9, RequestedNormalized DEF PhaseInv, Delta
<1>12. /\ current \in PrefixesOf(other) /\ current # other
       /\ current \in PrefixesOf(delta) /\ current # delta
  BY <1>2, <1>4, <1>6, <1>9, <1>11 DEF Leads
<1>13. \A e \in {other, delta} : current \in OnTheWay(e)
  <2> SUFFICES ASSUME NEW e \in {other, delta}
               PROVE  current \in OnTheWay(e)
    OBVIOUS
  <2>1. e \in 0 .. SlotCount - 1 /\ current \in PrefixesOf(e) /\ current # e
    BY <1>3, <1>12
  <2>2. PICK next : next = NextKey(e, current)
    OBVIOUS
  <2>3. next \in Keys /\ HasBit(e, next) /\ e % next = current
    BY <2>1, <2>2, NextKeyFacts
  <2> QED
    BY <2>3 DEF OnTheWay
<1>14. SharesOnlyRequested(deltas)
  BY <1>1 DEF NothingShared, PhaseInv
<1> QED
  BY <1>10, <1>11, <1>13, <1>14 DEF SharesOnlyRequested

LEMMA RotateByKeyUnique ==
    ASSUME ValueInv, ValueInv', ReachedInv, UniqueInv, NormalizedUnits, NothingShared, RotateByKey
    PROVE  UniqueInv'
<1>1. entry # "chain"
  BY DEF RotateByKey
<1>2. PICK current \in (PrefixesOf(Delta) \cup {Delta}) \ {0} :
         /\ previous < current
         /\ \/ Passes(current)
            \/ \E more, text :
                  /\ Rotates(more, text, unit, previous, current)
                  /\ IF current = Delta THEN Gives(text) ELSE Stays(current)
  BY RotateByKeyKeeps
<1>3. CASE Passes(current)
  <2>1. current \in PrefixesOf(Delta) \cup {Delta} /\ current # 0
    OBVIOUS
  <2>2. current \in Requested
    BY <1>2, <1>3, <2>1, PassesRequested
  <2>3. heap' = heap /\ temp_data' = temp_data \o <<>>
    BY <1>3, <2>2 DEF Passes
  <2>4. temp_data' = temp_data
    <3>1. temp_data \in Seq(Id)
      BY DEF ValueInv, HeapInv
    <3> HIDE DEF Id
    <3> QED
      BY <2>3, <3>1
  <2> QED
    BY <1>1, <2>3, <2>4, UniqueStays
<1>4. CASE ~Passes(current)
  <2>1. PICK more : \E text : Rotates(more, text, unit, previous, current)
    BY <1>2, <1>4
  <2>2. PICK text : Rotates(more, text, unit, previous, current)
    BY <2>1
  <2>3. PICK w, d : w = unit /\ d = previous
    OBVIOUS
  <2>4. Rotates(more, text, w, d, current)
    BY <2>2, <2>3
  <2> QED
    BY <1>1, <2>4, RotatesUnique
<1> QED
  BY <1>3, <1>4

LEMMA UniqueKept ==
    ASSUME NormalizedUnits, NothingShared, ValueInv, ValueInv', ReachedInv, UniqueInv, [Next]_vars
    PROVE  UniqueInv'
<1>1. CASE entry = "chain"
  <2>1. entry' = "chain"
    BY <1>1 DEF Next, Prepare, CloneZero, ReuseRotated, RotateByKey, RotateByFixedKey,
                RotateChain, ClearTempData, CloneDuplicate, Returned, vars
  <2> QED
    BY <2>1 DEF UniqueInv
<1>2. CASE entry # "chain" /\ (UNCHANGED vars \/ ReuseRotated \/ Returned)
  <2>1. heap' = heap /\ temp_data' = temp_data
    BY <1>2 DEF vars, ReuseRotated, Returned
  <2> QED
    BY <1>2, <2>1, UniqueStays
<1>3. CASE entry # "chain" /\ Prepare
  BY <1>3, PrepareUnique
<1>4. CASE entry # "chain" /\ (CloneZero \/ CloneDuplicate)
  <2>1. temp_data' = temp_data
    BY <1>4 DEF CloneZero, CloneDuplicate
  <2>2. heap' = heap \/ \E more : ClonesGiven(more)
    <3>1. CloneZero => (\E more : ClonesGiven(more)) \/ NothingGiven
      BY CloneZeroKeeps
    <3>2. CloneDuplicate => (\E more : ClonesGiven(more)) \/ NothingGiven
      BY CloneDuplicateKeeps
    <3> QED
      BY <1>4, <3>1, <3>2 DEF NothingGiven
  <2>3. heap' = heap \/ \E more : Grows(more)
    BY <2>2 DEF ClonesGiven
  <2> QED
    BY <1>4, <2>1, <2>3, UniqueStays
<1>5. CASE RotateByKey
  BY <1>5, RotateByKeyUnique
<1>6. CASE entry # "chain" /\ RotateByFixedKey
  <2>1. PICK more : \E text : Rotates(more, text, unit, 0, Delta)
    BY <1>6, RotateByFixedKeyKeeps
  <2>2. PICK text : Rotates(more, text, unit, 0, Delta)
    BY <2>1
  <2>3. PICK w, r : w = unit /\ r = Delta
    OBVIOUS
  <2>4. Rotates(more, text, w, 0, r)
    BY <2>2, <2>3
  <2> QED
    BY <1>6, <2>4, RotatesUnique
<1>7. CASE entry # "chain" /\ ClearTempData
  BY <1>7, ClearTempDataUnique
<1>8. CASE entry # "chain" /\ RotateChain
  BY <1>8 DEF RotateChain, ValueInv, PhaseInv, Phase, Entry
<1> QED
  BY <1>1, <1>2, <1>3, <1>4, <1>5, <1>6, <1>7, <1>8 DEF Next

LEMMA InitUnique == Init => ReachedInv /\ UniqueInv
<1> SUFFICES ASSUME Init
             PROVE  ReachedInv /\ UniqueInv
  OBVIOUS
<1>1. pc = "prepare" /\ temp_data = <<>>
  BY DEF Init
<1>2. ValueInv
  BY InitValues
<1>3. CASE entry # "chain"
  <2>1. \A id \in Id : heap[id].deletions = 0
    BY <1>1, <1>2, <1>3 DEF ValueInv, OwnedInv, Cleared, IsAlive
  <2> QED
    BY <1>1, <2>1 DEF ReachedInv, UniqueInv
<1>4. CASE entry = "chain"
  BY <1>1, <1>4 DEF ReachedInv, UniqueInv
<1> QED
  BY <1>3, <1>4

(* If no delta that was not requested is on the way to two that were, no    *)
(* object is put in temp_data_ twice, so clear_temp_data deletes none twice:*)
(* each rotated text is on the way to a delta that the loop has come to.    *)
THEOREM UniqueInvariant ==
    NormalizedUnits /\ NothingShared => (Spec => [](ReachedInv /\ UniqueInv))
<1> SUFFICES ASSUME NormalizedUnits /\ NothingShared
             PROVE  Spec => [](ReachedInv /\ UniqueInv)
  OBVIOUS
<1>1. ValueInv /\ ValueInv' /\ ReachedInv /\ UniqueInv /\ [Next]_vars => ReachedInv' /\ UniqueInv'
  BY ReachedKept, UniqueKept
<1> QED
  BY InitUnique, ValueKept, <1>1, PTL DEF Spec

(* The caller can use and delete what such a call returns: no object was    *)
(* deleted twice, the input and all results are alive, and no two results   *)
(* share a unit with each other or with the input.                          *)
THEOREM OutputsAlwaysUsable ==
    NormalizedUnits /\ NothingShared => (Spec => []OutputsUsable)
<1> SUFFICES ASSUME NormalizedUnits /\ NothingShared
             PROVE  Spec => []OutputsUsable
  OBVIOUS
<1>1. ASSUME ValueInv, ReturnInv, UniqueInv, pc = "done", entry = "chain"
      PROVE  OutputsUsable
  <2>1. DOMAIN deltas = {1} /\ PhaseInv
    BY <1>1, ChainTyped DEF ValueInv
  <2>2. OutputIds = ToSet(output[1])
    BY <2>1 DEF OutputIds
  <2>3. output[1] # <<>> /\ Len(output[1]) = Size
    BY <1>1 DEF ValueInv, SingleInv
  <2>4. /\ \A id \in Id : heap[id].deletions <= 1
        /\ {id \in Id : IsAlive(id)} = Input \cup ToSet(temp_data) \cup ToSet(output[1])
        /\ ToSet(output[1]) \cap Input = {}
        /\ \A u, v \in 1 .. Size : output[1][u] = output[1][v] => u = v
    BY <1>1, <2>3 DEF ValueInv, SingleOwnedInv
  <2> QED
    BY <2>1, <2>2, <2>3, <2>4 DEF OutputsUsable
<1>2. ASSUME ValueInv, ReturnInv, UniqueInv, pc = "done", entry # "chain"
      PROVE  OutputsUsable
  <2>1. PhaseInv /\ HeapInv /\ MapInv /\ OwnedInv /\ OutputInv /\ PlaceInv /\ SettledInv /\ MadeInv
    BY <1>2 DEF ValueInv, ReturnInv
  <2>2. \A i \in DOMAIN deltas : Given(i) = Size /\ Settled(i)
    BY <1>2 DEF Given, Settled
  <2>3. DOMAIN output = DOMAIN deltas
        /\ \A i \in DOMAIN deltas : Len(output[i]) = Size /\ DOMAIN output[i] = 1 .. Size
    <3>1. \A i \in DOMAIN deltas : output[i] \in Seq(Id) /\ Len(output[i]) = Size
      BY <1>2, <2>1, <2>2 DEF OutputInv
    <3> HIDE DEF Id
    <3> QED
      BY <1>2, <2>1, <3>1 DEF OutputInv
  <2>4. ASSUME NEW i \in DOMAIN deltas, NEW u \in 1 .. Size
        PROVE  /\ output[i][u] \in Id /\ heap[output[i][u]].unit = u
               /\ heap[output[i][u]].delta = Normalized(deltas[i])
               /\ MadeForPlace(output[i][u]) \/ \E d :
                     /\ d = Normalized(deltas[i]) /\ d # 0 /\ Batched
                     /\ d \in DOMAIN rotated[u] /\ output[i][u] = rotated[u][d]
                     /\ heap[output[i][u]].made = "rotated"
    <3>1. u \in 1 .. Given(i)
      BY <2>2
    <3>2. /\ IsText(output[i][u], u, Normalized(deltas[i]))
          /\ Placed(output[i][u], u, i)
      BY <1>2, <3>1, PlaceTyped
    <3>3. PICK id, d : id = output[i][u] /\ d = Normalized(deltas[i])
      OBVIOUS
    <3>4. CASE ~MadeForPlace(id)
      <4>1. /\ Batched /\ ~IsCloneOfInput(i) /\ d \in DOMAIN rotated[u] /\ id = rotated[u][d]
            /\ ~Cloned(id)
        BY <3>2, <3>3, <3>4 DEF Placed, MadeForPlace
      <4>2. d # 0
        <5>1. AllCloned(i) \/ d # 0
          BY <2>1, <2>2, <3>3, <4>1, SettledParts
        <5> QED
          BY <3>3, <4>1, <5>1 DEF AllCloned
      <4>3. heap[id].made = "rotated"
        BY <1>2, <2>1, <4>1, <4>2 DEF MapInv
      <4> QED
        BY <3>2, <3>3, <4>1, <4>2, <4>3 DEF IsText
    <3> QED
      BY <3>2, <3>3, <3>4 DEF IsText
  <2>5. \A id \in Id : heap[id].deletions <= 1
    BY <1>2 DEF UniqueInv
  <2>6. \A id : id \in OutputIds <=> \E i \in DOMAIN deltas : \E u \in 1 .. Size : output[i][u] = id
    <3>1. \A id : id \in OutputIds <=> \E i \in DOMAIN deltas : id \in ToSet(output[i])
      BY DEF OutputIds
    <3>2. \A id : \A i \in DOMAIN deltas : id \in ToSet(output[i]) <=> \E u \in 1 .. Size : output[i][u] = id
      BY <2>3 DEF ToSet
    <3> QED
      BY <3>1, <3>2
  <2>7. \A id \in Input \cup OutputIds : IsAlive(id)
    <3>1. Input \cup OutputIds \subseteq Id
      BY <2>4, <2>6 DEF Input
    <3>2. \A id \in Id : ~Temporary(heap[id]) <=> id \in Input \cup OutputIds
      BY <1>2, ReturnedOrTemporary
    <3>3. \A id \in Id : IsAlive(id) <=> ~Temporary(heap[id])
      BY <1>2, <2>1 DEF OwnedInv, Cleared
    <3> QED
      BY <3>1, <3>2, <3>3
  <2>8. OutputIds \cap Input = {}
    <3> SUFFICES ASSUME NEW id \in OutputIds, heap[id].made = "input"
                 PROVE  FALSE
      BY DEF Input
    <3>1. PICK i \in DOMAIN deltas : \E u \in 1 .. Size : output[i][u] = id
      BY <2>6
    <3>2. PICK u \in 1 .. Size : output[i][u] = id
      BY <3>1
    <3>3. MadeForPlace(id) \/ heap[id].made = "rotated"
      BY <2>4, <3>2
    <3> QED
      BY <3>3 DEF MadeForPlace, Cloned
  <2>9. ASSUME NEW i \in DOMAIN deltas, NEW j \in DOMAIN deltas,
               NEW u \in 1 .. Size, NEW v \in 1 .. Size, output[i][u] = output[j][v]
        PROVE  i = j /\ u = v
    <3>1. u = v
      <4>1. heap[output[i][u]].unit = u
        BY <2>4
      <4>2. heap[output[j][v]].unit = v
        BY <2>4
      <4> QED
        BY <2>9, <4>1, <4>2
    <3>2. Normalized(deltas[i]) = Normalized(deltas[j])
      <4>1. heap[output[i][u]].delta = Normalized(deltas[i])
        BY <2>4
      <4>2. heap[output[j][v]].delta = Normalized(deltas[j])
        BY <2>4
      <4> QED
        BY <2>9, <4>1, <4>2
    <3>3. CASE MadeForPlace(output[i][u])
      BY <1>2, <2>1, <2>2, <2>9, <3>3 DEF MadeInv
    <3>4. CASE ~MadeForPlace(output[i][u]) /\ i # j
      <4>1. Batched
        BY <2>4, <3>4
      <4>2. ~Cloned(output[i][u]) /\ ~Cloned(output[j][u])
        BY <2>9, <3>1, <3>4 DEF MadeForPlace
      <4>3. ~AllCloned(i) /\ ~AllCloned(j) /\ j \in Twins(i) \ {i}
        BY <3>2, <3>4, <4>2 DEF AllCloned, Twins
      <4>4. AllCloned(i) \/ \A k \in Twins(i) \ {i} : AllCloned(k)
        BY <2>1, <2>2, <4>1, SettledParts
      <4> QED
        BY <4>3, <4>4
    <3> QED
      BY <3>1, <3>3, <3>4
  <2> QED
    BY <2>3, <2>5, <2>7, <2>8, <2>9 DEF OutputsUsable
<1>3. ValueInv /\ ReturnInv /\ UniqueInv => OutputsUsable
  BY <1>1, <1>2 DEF OutputsUsable
<1>4. Spec => [](ReachedInv /\ UniqueInv)
  BY UniqueInvariant
<1> QED
  BY <1>3, <1>4, ReturnKept, PTL
=============================================================================
