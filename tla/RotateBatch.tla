---------------------------- MODULE RotateBatch ----------------------------
(***************************************************************************)
(* The rotations that the engine builds out of smaller ones                 *)
(* (ckks/engine_rotate.cpp), and who owns the texts they allocate.          *)
(*                                                                         *)
(* A rotation key holds one fixed key for each power of two, so a rotation  *)
(* by delta is a chain: the bits of delta, lowest first.  rotate_batch      *)
(* shares the chains of its deltas: it keeps each rotated text and each     *)
(* decomposition in a map, hands the requested ones to the caller, and puts *)
(* the others in temp_data_, whose entries clear_temp_data deletes without  *)
(* asking whether an entry occurs twice.                                    *)
(*                                                                         *)
(* An object of the heap is its index; its record says which unit of the    *)
(* ciphertext it belongs to, by how much that unit is rotated, how it was   *)
(* made, and how often it was deleted.                                      *)
(***************************************************************************)
EXTENDS Integers, Sequences, FiniteSets, SequencesExt

CONSTANTS
    SlotCount,      \* the slots of a message, a power of two
    Keys,           \* the deltas of the fixed keys of a RotationKey
    CiphertextSize, \* the units of a Ciphertext
    MaxConversions, \* level_down_ and intt_ convert the input at most so often
    Request         \* the sequences of deltas that each entry point is given

ASSUME KeysAssumption ==
    /\ SlotCount \in Nat /\ Keys \subseteq 1 .. SlotCount - 1
    /\ 1 \in Keys
    /\ \A key \in Keys : 2 * key \in Keys \cup {SlotCount}

ASSUME SizeAssumption == CiphertextSize \in Nat \ {0} /\ MaxConversions \in Nat

Entry == {"unit", "long", "fixed", "chain"}

ASSUME RequestAssumption ==
    /\ DOMAIN Request = Entry
    /\ \A entry \in Entry : Request[entry] \subseteq Seq(Int) \ {<<>>}
    /\ \A deltas \in Request["chain"] : Len(deltas) = 1

VARIABLES
    entry,        \* the entry point that was called
    deltas,       \* its argument
    pc,           \* the phase of the call
    heap,         \* the records of the objects allocated so far
    rotate_input, \* the units that are rotated
    temp_data,    \* the objects that the next clear_temp_data deletes
    counter,      \* delta_counter, by normalized delta
    unit, index,  \* the unit and the delta at hand
    previous,     \* previous_delta, the part of the delta rotated so far
    rotated,      \* for each unit, the rotated texts by delta
    decomposed,   \* for each unit, the decomposed texts by delta
    output        \* for each delta, the units to return

vars == <<entry, deltas, pc, heap, rotate_input, temp_data, counter, unit,
          index, previous, rotated, decomposed, output>>

-----------------------------------------------------------------------------
Size == IF entry = "unit" THEN 1 ELSE CiphertextSize

(* Mutant: a negative delta rotates by its magnitude. *)
NormalizedAbsolute(delta) == (IF delta < 0 THEN -delta ELSE delta) % SlotCount

Normalized(delta) == delta % SlotCount

Delta == Normalized(deltas[index])

HasBit(delta, key) == (delta \div key) % 2 = 1

(* The fixed key that continues the chain to delta from its prefix. *)
NextKey(delta, prefix) ==
    CHOOSE key \in Keys :
        /\ HasBit(delta, key) /\ delta % key = prefix
        /\ prefix = 0 \/ key > prefix

(* The deltas whose rotated texts are returned: those of delta_counter, and *)
(* in the overload for a UnitCiphertext those of delta_set, which are not   *)
(* normalized.                                                              *)
Requested ==
    IF entry = "unit" THEN ToSet(deltas) ELSE {Normalized(d) : d \in ToSet(deltas)}

Garbage == -1

IsAlive(id) == heap[id].deletions = 0

Object(of, amount, made) ==
    [unit |-> of, delta |-> amount, made |-> made, deletions |-> 0]

(* What a copy of an object holds; one of a deleted object holds garbage. *)
Copy(id, made) ==
    Object(heap[id].unit, IF IsAlive(id) THEN heap[id].delta ELSE Garbage, made)

(* What core_->rotate makes of a text and of the decomposition it is given. *)
Rotation(text, parts, delta) ==
    Object(text.unit,
           IF text.delta = parts.delta /\ text.delta # Garbage
             THEN Normalized(text.delta + delta) ELSE Garbage,
           "rotated")

(* A map with one entry more. *)
With(map, key, id) == [k \in DOMAIN map \cup {key} |-> IF k = key THEN id ELSE map[k]]

Deleted(objects, list) ==
    [id \in DOMAIN objects |->
        [objects[id] EXCEPT !.deletions = @ + Cardinality({n \in DOMAIN list : list[n] = id})]]

NewIds(count) == [n \in 1 .. count |-> Len(heap) + n]

-----------------------------------------------------------------------------
Init ==
    /\ entry \in Entry
    /\ deltas \in Request[entry]
    /\ pc = "prepare"
    /\ heap = [u \in 1 .. Size |-> Object(u, 0, "input")]
    /\ rotate_input = [u \in 1 .. Size |-> u]
    /\ temp_data = <<>>
    /\ counter = <<>>
    /\ unit = 1 /\ index = 1 /\ previous = 0
    /\ rotated = [u \in 1 .. Size |-> <<>>]
    /\ decomposed = [u \in 1 .. Size |-> <<>>]
    /\ output = [i \in DOMAIN deltas |-> <<>>]

(* The input is brought to a level and a form that can be rotated, through  *)
(* texts that are left in temp_data_ or temp_text_, and the deltas are      *)
(* counted; the input itself counts as a text for delta 0 in the overload   *)
(* for a UnitCiphertext, so that the result for delta 0 is always a clone.  *)
Count ==
    [d \in {Normalized(d) : d \in ToSet(deltas)} |->
        Cardinality({i \in DOMAIN deltas : Normalized(deltas[i]) = d})
        + IF entry = "unit" /\ d = 0 THEN 1 ELSE 0]

Prepare ==
    /\ pc = "prepare"
    /\ \E conversions \in IF entry = "chain" /\ Delta = 0 THEN {0} ELSE 0 .. MaxConversions :
          LET ids == NewIds(conversions * Size)
              last == [u \in 1 .. Size |-> Len(heap) + (conversions - 1) * Size + u]
          IN  /\ heap' = heap \o [n \in DOMAIN ids |-> Copy(((n - 1) % Size) + 1, "converted")]
              /\ temp_data' = temp_data \o ids
              /\ rotate_input' = IF conversions = 0 THEN rotate_input ELSE last
    /\ rotated' = [u \in 1 .. Size |-> [d \in {0} |-> rotate_input'[u]]]
    /\ counter' = IF entry \in {"unit", "long"} THEN Count ELSE <<>>
    /\ pc' = CASE entry = "long" -> "clone_zero"
               [] entry = "chain" -> "chain"
               [] OTHER -> "rotate"
    /\ UNCHANGED <<entry, deltas, unit, index, previous, decomposed, output>>

(* Mutant: the loop goes one delta too far. *)
NextDeltaTooFar(next) ==
    /\ previous' = 0
    /\ IF index <= Len(deltas)
         THEN index' = index + 1 /\ UNCHANGED <<unit, pc>>
         ELSE index' = 1 /\ unit' = 1 /\ pc' = next

(* Where the loop over the deltas goes when it is done with one of them. *)
NextDelta(next) ==
    /\ previous' = 0
    /\ IF index < Len(deltas)
         THEN index' = index + 1 /\ UNCHANGED <<unit, pc>>
         ELSE /\ index' = 1
              /\ IF pc = "rotate" /\ unit < Size
                   THEN unit' = unit + 1 /\ UNCHANGED pc
                   ELSE unit' = 1 /\ pc' = next

(* The first loop of the overload for a Ciphertext clones the input for    *)
(* each delta 0, and takes it out of the count.                            *)
CloneZero ==
    /\ pc = "clone_zero"
    /\ IF Delta = 0
         THEN /\ heap' = heap \o [u \in 1 .. Size |-> Copy(rotate_input[u], "cloned")]
              /\ output' = [output EXCEPT ![index] = NewIds(Size)]
              /\ counter' = [counter EXCEPT ![0] = @ - 1]
         ELSE UNCHANGED <<heap, output, counter>>
    /\ NextDelta("rotate")
    /\ UNCHANGED <<entry, deltas, rotate_input, temp_data, rotated, decomposed>>

(* Mutant: a chain starts again from the input for each delta. *)
IsRotatedInput(current) == current = 0

IsRotated(current) == current \in DOMAIN rotated[unit]

AfterRotate == IF entry = "unit" THEN "clone" ELSE "clear"

(* A delta whose rotated text exists, or that needs none. *)
ReuseRotated ==
    /\ pc = "rotate" /\ entry \in {"unit", "long"} /\ previous = 0
    /\ IsRotated(Delta)
    /\ output' = IF entry = "long" /\ Delta = 0 THEN output
                 ELSE [output EXCEPT ![index] = Append(@, rotated[unit][Delta])]
    /\ NextDelta(AfterRotate)
    /\ UNCHANGED <<entry, deltas, heap, rotate_input, temp_data, counter, rotated, decomposed>>

(* Mutant: every text on the way is put in temp_data_. *)
IsTemporaryOnTheWay(current) == current # Delta

(* Mutant: no text on the way is put in temp_data_. *)
IsTemporaryNever(current) == FALSE

(* Whether a text on the way is put in temp_data_: if its delta was not     *)
(* requested, also when the text was found in the map.                      *)
IsTemporary(current) == current \notin Requested

(* One key of the chain to the delta at hand. *)
RotateByKey ==
    /\ pc = "rotate" /\ entry \in {"unit", "long"}
    /\ previous = 0 => ~IsRotated(Delta)
    /\ LET current == previous + NextKey(Delta, previous)
           isKnown == IsRotated(current)
           isSplit == previous \in DOMAIN decomposed[unit]
           source  == rotated[unit][previous]
           parts   == IF isSplit THEN <<>> ELSE NewIds(1)
           split   == IF isSplit THEN decomposed[unit] ELSE With(decomposed[unit], previous, parts[1])
           heap1   == heap \o [n \in DOMAIN parts |-> Copy(source, "decomposed")]
           text    == IF isKnown THEN rotated[unit][current] ELSE Len(heap1) + 1
           last    == IF IsTemporary(current) THEN <<text>> ELSE <<>>
       IN  /\ IF isKnown
                THEN /\ temp_data' = temp_data \o last
                     /\ UNCHANGED <<heap, rotated, decomposed>>
                ELSE /\ heap' = Append(heap1, Rotation(heap1[source], heap1[split[previous]],
                                                       NextKey(Delta, previous)))
                     /\ decomposed' = [decomposed EXCEPT ![unit] = split]
                     /\ rotated' = [rotated EXCEPT ![unit] = With(@, current, text)]
                     /\ temp_data' = temp_data \o parts \o last
           /\ IF current = Delta
                THEN /\ output' = [output EXCEPT ![index] = Append(@, text)]
                     /\ NextDelta(AfterRotate)
                ELSE /\ previous' = current
                     /\ UNCHANGED <<output, unit, index, pc>>
    /\ UNCHANGED <<entry, deltas, rotate_input, counter>>

(* The overload that is given fixed keys decomposes each unit once. *)
RotateByFixedKey ==
    /\ pc = "rotate" /\ entry = "fixed"
    /\ LET isSplit == 0 \in DOMAIN decomposed[unit]
           parts   == IF isSplit THEN <<>> ELSE NewIds(1)
           split   == IF isSplit THEN decomposed[unit] ELSE With(decomposed[unit], 0, parts[1])
           source  == rotate_input[unit]
           heap1   == heap \o [n \in DOMAIN parts |-> Copy(source, "decomposed")]
       IN  /\ heap' = Append(heap1, Rotation(heap1[source], heap1[split[0]], Delta))
           /\ decomposed' = [decomposed EXCEPT ![unit] = split]
           /\ temp_data' = temp_data \o parts
           /\ output' = [output EXCEPT ![index] = Append(@, Len(heap'))]
    /\ NextDelta(AfterRotate)
    /\ UNCHANGED <<entry, deltas, rotate_input, counter, rotated>>

(* rotate with a RotationKey: the intermediate text of the chain is deleted *)
(* by its caller, and each call of the chain clears what it converted.  A   *)
(* delta 0 takes no key, and the result is a converted text or a clone.     *)
RotateChain ==
    /\ pc = "chain"
    /\ LET source == IF output[1] = <<>> THEN rotate_input ELSE output[1]
           key    == IF Delta = 0 THEN 0 ELSE NextKey(Delta, previous)
           new    == [u \in 1 .. Size |-> Rotation(Copy(source[u], "rotated"),
                                                   Copy(source[u], "rotated"), key)]
       IN  /\ heap' = Deleted(heap \o new, temp_data \o output[1])
           /\ output' = <<NewIds(Size)>>
           /\ previous' = previous + key
    /\ temp_data' = <<>>
    /\ pc' = IF previous' = Delta THEN "done" ELSE pc
    /\ UNCHANGED <<entry, deltas, rotate_input, counter, unit, index, rotated, decomposed>>

ClearTempData ==
    /\ pc = "clear"
    /\ heap' = Deleted(heap, temp_data)
    /\ temp_data' = <<>>
    /\ pc' = IF entry = "long" THEN "clone" ELSE "done"
    /\ UNCHANGED <<entry, deltas, rotate_input, counter, unit, index, previous,
                   rotated, decomposed, output>>

(* A text that several deltas share is cloned for all but the last of them. *)
CloneDuplicate ==
    /\ pc = "clone"
    /\ IF counter[Delta] > 1
         THEN /\ heap' = heap \o [u \in 1 .. Size |-> Copy(output[index][u], "cloned")]
              /\ output' = [output EXCEPT ![index] = NewIds(Size)]
              /\ counter' = [counter EXCEPT ![Delta] = @ - 1]
         ELSE UNCHANGED <<heap, output, counter>>
    /\ NextDelta(IF entry = "unit" THEN "clear" ELSE "done")
    /\ UNCHANGED <<entry, deltas, rotate_input, temp_data, rotated, decomposed>>

Returned == pc = "done" /\ UNCHANGED vars

Next ==
    \/ Prepare
    \/ CloneZero
    \/ ReuseRotated
    \/ RotateByKey
    \/ RotateByFixedKey
    \/ RotateChain
    \/ ClearTempData
    \/ CloneDuplicate
    \/ Returned

Spec == Init /\ [][Next]_vars

-----------------------------------------------------------------------------
Id == 1 .. Len(heap)

Input == {id \in Id : heap[id].made = "input"}

OutputIds == UNION {ToSet(output[i]) : i \in DOMAIN deltas}

(* The caller can use and delete what it is given: when a call returns, no  *)
(* object was deleted twice (after which the heap is worth nothing), the    *)
(* input is as alive as the texts returned, and no two texts share a unit.  *)
OutputsUsable ==
    pc = "done" =>
        /\ \A id \in Id : heap[id].deletions <= 1
        /\ \A id \in Input \cup OutputIds : IsAlive(id)
        /\ OutputIds \cap Input = {}
        /\ \A i \in DOMAIN deltas : Len(output[i]) = Size
        /\ \A i, j \in DOMAIN deltas : \A u, v \in 1 .. Size :
              output[i][u] = output[j][v] => i = j /\ u = v

(* Each text returned is the input rotated by its own delta, unit by unit,  *)
(* whichever way the texts and the decompositions were shared.              *)
OutputsRotated ==
    pc = "done" =>
        \A i \in DOMAIN deltas : \A u \in 1 .. Size :
            LET text == heap[output[i][u]]
            IN  text.unit = u /\ text.delta = deltas[i] % SlotCount

(* When a call returns, every object it allocated is returned or deleted:   *)
(* no intermediate rotation and no decomposition stays behind.              *)
NothingLeaked ==
    pc = "done" =>
        /\ temp_data = <<>>
        /\ {id \in Id : IsAlive(id)} = Input \cup OutputIds

(* What a batch is for: no unit is rotated twice by the same amount, and    *)
(* none is decomposed twice.                                                *)
NoWorkTwice ==
    entry \in {"unit", "long"} =>
        \A id1, id2 \in Id :
            /\ heap[id1].made = heap[id2].made
            /\ heap[id1].made \in {"rotated", "decomposed"}
            /\ heap[id1].unit = heap[id2].unit
            /\ heap[id1].delta = heap[id2].delta
            => id1 = id2
-----------------------------------------------------------------------------
(***************************************************************************)
(* The requests that a batch can serve.  The overload for a UnitCiphertext  *)
(* keeps what it is asked for only if it is asked for normalized deltas.    *)
(* And no delta that was not requested may be on the way to two that were:  *)
(* it is put in temp_data_ for each of them.                                *)
(***************************************************************************)
OnTheWay(delta) == {delta % key : key \in {k \in Keys : HasBit(delta, k)}} \ {0}

SharesOnlyRequested(request) ==
    LET wanted == {Normalized(d) : d \in ToSet(request)}
    IN  \A d1, d2 \in wanted : d1 # d2 => OnTheWay(d1) \cap OnTheWay(d2) \subseteq wanted

IsNormalized(request) == \A d \in ToSet(request) : d = Normalized(d)

NormalizedUnits == \A request \in Request["unit"] : IsNormalized(request)

NothingShared ==
    \A request \in Request["unit"] \cup Request["long"] : SharesOnlyRequested(request)

-----------------------------------------------------------------------------
(***************************************************************************)
(* The inductive invariants behind the properties.  First, the phases of a  *)
(* call and the objects that its maps lead to.                              *)
(***************************************************************************)
Phase ==
    [unit  |-> {"prepare", "rotate", "clone", "clear", "done"},
     long  |-> {"prepare", "clone_zero", "rotate", "clear", "clone", "done"},
     fixed |-> {"prepare", "rotate", "clear", "done"},
     chain |-> {"prepare", "chain", "done"}]

PhaseInv ==
    /\ entry \in Entry /\ deltas \in Request[entry] /\ pc \in Phase[entry]
    /\ unit \in 1 .. Size /\ (pc # "rotate" => unit = 1)
    /\ index \in DOMAIN deltas
    /\ pc \notin {"clone_zero", "rotate", "clone"} => index = 1
    /\ pc \notin {"rotate", "chain", "done"} => previous = 0

Made == {"input", "converted", "cloned", "decomposed", "rotated"}

Objects ==
    [unit : 1 .. Size, delta : 0 .. SlotCount - 1, made : Made, deletions : Nat]

IsText(id, u, d) == id \in Id /\ heap[id].unit = u /\ heap[id].delta = d

HeapInv ==
    /\ heap \in Seq(Objects) /\ temp_data \in Seq(Id)
    /\ DOMAIN rotate_input = 1 .. Size
    /\ \A u \in 1 .. Size :
          /\ IsText(rotate_input[u], u, 0)
          /\ heap[rotate_input[u]].made \in {"input", "converted"}
    /\ pc = "prepare" =>
          /\ heap = [u \in 1 .. Size |-> Object(u, 0, "input")] /\ temp_data = <<>>
          /\ rotate_input = [u \in 1 .. Size |-> u]
          /\ decomposed = [u \in 1 .. Size |-> <<>>]

(* What was rotated or decomposed is what the maps lead to. *)
MapInv ==
    entry # "chain" =>
        /\ DOMAIN rotated = 1 .. Size /\ DOMAIN decomposed = 1 .. Size
        /\ pc # "prepare" => \A u \in 1 .. Size :
              0 \in DOMAIN rotated[u] /\ rotated[u][0] = rotate_input[u]
        /\ pc # "prepare" => \A u \in 1 .. Size : \A d \in DOMAIN rotated[u] :
              /\ IsText(rotated[u][d], u, d)
              /\ d # 0 => heap[rotated[u][d]].made = "rotated"
        /\ \A u \in 1 .. Size : \A d \in DOMAIN decomposed[u] :
              /\ IsText(decomposed[u][d], u, d)
              /\ heap[decomposed[u][d]].made = "decomposed"
        /\ \A id \in Id : heap[id].made = "decomposed" =>
              LET map == decomposed[heap[id].unit]
              IN  heap[id].delta \in DOMAIN map /\ map[heap[id].delta] = id
        /\ entry # "fixed" => \A id \in Id : heap[id].made = "rotated" =>
              LET map == rotated[heap[id].unit]
              IN  heap[id].delta \in DOMAIN map \ {0} /\ map[heap[id].delta] = id

(* The chain to a delta is rotated prefix by prefix. *)
PrefixesOf(delta) == {delta % key : key \in Keys}

ChainInv ==
    pc = "rotate" =>
        /\ previous \in PrefixesOf(Delta) /\ previous \in DOMAIN rotated[unit]
        /\ previous # 0 => previous # Delta /\ Delta \notin DOMAIN rotated[unit]
                            /\ entry # "fixed"

(* How many units each delta has been given. *)
IsCloneOfInput(i) == entry = "long" /\ Normalized(deltas[i]) = 0

Given(i) ==
    CASE pc = "prepare" -> 0
      [] pc = "clone_zero" -> IF IsCloneOfInput(i) /\ i < index THEN Size ELSE 0
      [] pc = "rotate" ->
            IF IsCloneOfInput(i) THEN Size ELSE IF i < index THEN unit ELSE unit - 1
      [] OTHER -> Size

OutputInv ==
    /\ DOMAIN output = DOMAIN deltas
    /\ entry # "chain" => \A i \in DOMAIN deltas :
          /\ output[i] \in Seq(Id) /\ Len(output[i]) = Given(i)
          /\ \A u \in 1 .. Given(i) : IsText(output[i][u], u, Normalized(deltas[i]))

(* rotate with a RotationKey, one step of a chain after the other. *)
SingleInv ==
    entry = "chain" =>
        /\ pc = "chain" =>
              /\ previous \in PrefixesOf(Delta) /\ (previous = Delta => Delta = 0)
              /\ output[1] = <<>> => previous = 0
        /\ pc = "prepare" => output[1] = <<>>
        /\ pc = "done" => output[1] # <<>> /\ previous = Delta
        /\ output[1] # <<>> =>
              /\ output[1] \in Seq(Id) /\ Len(output[1]) = Size
              /\ \A u \in 1 .. Size : IsText(output[1][u], u, previous)

(***************************************************************************)
(* What the next clear_temp_data deletes, or the last one has deleted: what *)
(* was converted or decomposed, and rotations that were not requested.      *)
(***************************************************************************)
Batched == entry \in {"unit", "long"}

Temporary(object) ==
    \/ object.made \in {"converted", "decomposed"}
    \/ object.made = "rotated" /\ Batched /\ object.delta \notin Requested

Cleared == pc = "done" \/ (entry = "long" /\ pc = "clone")

OwnedInv ==
    entry # "chain" =>
        IF Cleared
          THEN /\ temp_data = <<>>
               /\ \A id \in Id : IsAlive(id) <=> ~Temporary(heap[id])
          ELSE /\ ToSet(temp_data) = {id \in Id : Temporary(heap[id])}
               /\ \A id \in Id : IsAlive(id)

(* What is returned is a text of a map or a clone. *)
Cloned(id) == heap[id].made = "cloned"

Placed(id, u, i) ==
    LET d == Normalized(deltas[i])
    IN  \/ Cloned(id)
        \/ entry = "fixed" /\ heap[id].made = "rotated"
        \/ Batched /\ ~IsCloneOfInput(i) /\ d \in DOMAIN rotated[u] /\ id = rotated[u][d]

PlaceInv ==
    entry # "chain" => \A i \in DOMAIN deltas : \A u \in 1 .. Given(i) :
        Placed(output[i][u], u, i)

(* And what a chain deletes as it goes. *)
SingleOwnedInv ==
    entry = "chain" =>
        /\ \A id \in Id : heap[id].deletions <= 1
        /\ {id \in Id : IsAlive(id)} = Input \cup ToSet(temp_data) \cup ToSet(output[1])
        /\ \A m, n \in DOMAIN temp_data : temp_data[m] = temp_data[n] => m = n
        /\ ToSet(temp_data) \cap Input = {}
        /\ output[1] = <<>> => \A id \in Id : IsAlive(id)
        /\ output[1] # <<>> =>
              /\ temp_data = <<>> /\ ToSet(output[1]) \cap Input = {}
              /\ \A u, v \in 1 .. Size : output[1][u] = output[1][v] => u = v

ValueInv ==
    /\ PhaseInv /\ HeapInv /\ MapInv /\ ChainInv /\ OutputInv
    /\ OwnedInv /\ PlaceInv /\ SingleInv /\ SingleOwnedInv

-----------------------------------------------------------------------------
(***************************************************************************)
(* Of the deltas that share a text, all but the last are given a clone: the *)
(* count of a delta is the number of its places that are yet to be settled. *)
(***************************************************************************)
Places(d, first) == {i \in DOMAIN deltas : i >= first /\ Normalized(deltas[i]) = d}

CounterInv ==
    Batched /\ (pc \in {"clone_zero", "rotate", "clone"} \/ <<entry, pc>> = <<"long", "clear">>) =>
        /\ DOMAIN counter = {Normalized(d) : d \in ToSet(deltas)}
        /\ \A d \in DOMAIN counter :
              LET first == IF pc = "clone" \/ (pc = "clone_zero" /\ d = 0) THEN index ELSE 1
                  left  == Cardinality(Places(d, first))
              IN  CASE d = 0 /\ entry = "unit" -> counter[d] = left + 1
                    [] d = 0 /\ entry = "long" ->
                          counter[d] = IF pc = "clone_zero" THEN left ELSE 0
                    [] OTHER -> left > 0 => counter[d] = left

Settled(i) ==
    \/ pc = "done" \/ (entry = "unit" /\ pc = "clear")
    \/ pc = "clone" /\ i < index

SettledInv ==
    Batched => \A i \in DOMAIN deltas :
        LET d == Normalized(deltas[i])
            twins == {j \in DOMAIN deltas : Normalized(deltas[j]) = d}
        IN  /\ ~Settled(i) => \A u \in 1 .. Given(i) :
                  Cloned(output[i][u]) <=> entry = "long" /\ d = 0
            /\ Settled(i) /\ (\E u \in 1 .. Size : ~Cloned(output[i][u])) =>
                  d # 0 /\ \A j \in twins \ {i} :
                              Settled(j) /\ \A u \in 1 .. Size : Cloned(output[j][u])
            /\ d # 0 => \E j \in twins :
                  ~Settled(j) \/ \A u \in 1 .. Size : output[j][u] = rotated[u][d]

(* What is made for one place of the output is at no other. *)
MadeForPlace(id) == Cloned(id) \/ (entry = "fixed" /\ heap[id].made = "rotated")

MadeInv ==
    entry # "chain" =>
        /\ \A id \in Id : MadeForPlace(id) =>
              \E i \in DOMAIN deltas : \E u \in 1 .. Given(i) : output[i][u] = id
        /\ \A i, j \in DOMAIN deltas : \A u \in 1 .. Given(i), v \in 1 .. Given(j) :
              MadeForPlace(output[i][u]) /\ output[i][u] = output[j][v] => i = j /\ u = v

ReturnInv == CounterInv /\ SettledInv /\ MadeInv

-----------------------------------------------------------------------------
(* No object is put in temp_data_ twice, if nothing is shared. *)
ReachedInv ==
    /\ entry = "long" /\ pc = "clone_zero" => \A u \in 1 .. Size : DOMAIN rotated[u] = {0}
    /\ Batched /\ pc = "rotate" =>
        /\ \A u \in 1 .. Size : u > unit => DOMAIN rotated[u] = {0}
        /\ \A i \in DOMAIN deltas : i < index => Normalized(deltas[i]) \in DOMAIN rotated[unit]
        /\ \A d \in DOMAIN rotated[unit] \ {0} : \E i \in DOMAIN deltas :
              /\ i < index \/ (i = index /\ d =< previous)
              /\ d \in PrefixesOf(Normalized(deltas[i])) \cup {Normalized(deltas[i])}

UniqueInv ==
    entry # "chain" =>
        /\ \A m, n \in DOMAIN temp_data : temp_data[m] = temp_data[n] => m = n
        /\ \A id \in Id : heap[id].deletions <= 1
=============================================================================
