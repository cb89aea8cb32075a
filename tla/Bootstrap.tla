------------------------------ MODULE Bootstrap ------------------------------
(***************************************************************************)
(* Bootstrapping of one unit ciphertext (ckks/engine_bootstrap.cpp and      *)
(* engine_mod_raise.cpp), with a rotation key or with a bootstrap key,      *)
(* whose creation (ckks/engine.cpp) decides which rotations there are.      *)
(*                                                                         *)
(* A text is its level and the values of its plaintext, the scale divided   *)
(* out.  Key switching changes neither and is not seen here, but that the   *)
(* key has the level.  Rounding is exact: what the approximation by a sine  *)
(* computes is the fraction of a number of a certain range.                 *)
(***************************************************************************)
EXTENDS SlotTransforms, FiniteSets, TLC

CONSTANTS
    FullLevel, MaxLevel,  \* the levels of the primes, and of the engine
    Scale, BasePrime,     \* bound: the scale and the first prime, as residues
    MessageNumber,        \* bound: the coefficients of a message
    Overflow,             \* bound: what mod_raise may add, in multiples of the prime
    Request               \* the calls that callers make

ASSUME LevelAssumption == FullLevel \in Nat /\ MaxLevel \in 1 .. FullLevel

Fractions == {(x * Scale * Reciprocal[BasePrime]) % Prime : x \in MessageNumber}

ASSUME NumberAssumption ==
    /\ {Scale, BasePrime} \subseteq 1 .. Prime - 1
    /\ \A f, g \in Fractions, y, z \in Overflow :
          (f + y) % Prime = (g + z) % Prime => f = g /\ (y - z) % Prime = 0

(***************************************************************************)
(* A call: the kind of its key (a bootstrap key is medium or large), the    *)
(* sizes, the number of stages, the levels of the keys, the message and     *)
(* the multiples of the first prime that raising the modulus adds to it.    *)
(***************************************************************************)
ASSUME RequestAssumption ==
    \A r \in Request :
        /\ r.key \in {"rotation", "medium", "large"}
        /\ {r.N, r.n} \subseteq DOMAIN Log /\ r.n \in 2 .. r.N \div 2
        /\ r.stage_count \in 1 .. Log[r.n]
        /\ {r.relinearization, r.conjugation, r.rotation} \subseteq Nat
        /\ r.message \in [0 .. 2 * r.n - 1 -> MessageNumber]
        /\ r.overflow \in [0 .. r.N - 1 -> Overflow]

VARIABLES
    pc,          \* what runs
    request,     \* the call in progress
    contexts,    \* the deltas of the key, and the level for each
    transform,   \* "coeff_to_slot" or "slot_to_coeff"
    stage,       \* the stage of the transform
    partial_delta, \* the loop variable of partial_sum_inplace
    outer,       \* the groups of diagonals that are done
    rotated,     \* inner_rotated_unit_ciphertexts
    outer_sum,
    current,     \* the text that is transformed
    raised,      \* what was raised, for the end
    real, imag   \* slot_real and slot_imag, then what is rounded of them

vars == <<pc, request, contexts, transform, stage, partial_delta, outer, rotated,
          outer_sum, current, raised, real, imag>>

-----------------------------------------------------------------------------
(* Texts. *)

NoText == [level |-> 0, values |-> <<>>]

Text(level, values) == [level |-> level, values |-> values]

Lower(a, b) == IF a < b THEN a ELSE b

add(x, y) ==
    Text(Lower(x.level, y.level),
         [i \in DOMAIN x.values |-> (x.values[i] + y.values[i]) % Prime])

subtract(x, y) ==
    Text(Lower(x.level, y.level),
         [i \in DOMAIN x.values |-> (x.values[i] - y.values[i]) % Prime])

multiply_integer(x, a) ==
    Text(x.level, [i \in DOMAIN x.values |-> (x.values[i] * a) % Prime])

multiply_imaginary(r, x, a) ==
    LET encoded == encode_imaginary(r.N, a)
    IN  Text(x.level, [i \in DOMAIN x.values |-> (x.values[i] * encoded[i]) % Prime])

(* Rotation of a text in coefficient form, and in NTT form. *)
rotate(r, x, d) ==
    Text(x.level, ntt(r.N, rotate_polynomial(r.N, intt(r.N, x.values), d)))

ntt_rotate(r, x, d) == Text(x.level, permute_polynomial(r.N, x.values, d))

-----------------------------------------------------------------------------
(* Levels and stages. *)

get_max_key_switching_level ==
    IF MaxLevel = FullLevel THEN FullLevel - 1 ELSE MaxLevel

levels_for_eval_round == 9

inner_loop_shift(r) == IF r.key = "large" THEN 1 ELSE 0

(* The shift is 0 here.  Mutant: a large key takes as many stages as a medium one. *)
stage_counts_of_medium(log_slot_count, shift) ==
    CASE log_slot_count \in 1 .. 3 -> 1 .. 1
      [] log_slot_count \in 4 .. 5 -> 1 .. 2
      [] log_slot_count = 6 -> 2 .. 2
      [] log_slot_count \in 7 .. 9 -> 2 .. 3
      [] log_slot_count = 10 -> 2 .. 4
      [] log_slot_count \in 11 .. 12 -> 3 .. 4
      [] OTHER -> 3 .. 5

(* require_bootstrap_stage_count *)
stage_counts(log_slot_count, shift) ==
    IF shift = 0
      THEN stage_counts_of_medium(log_slot_count, shift)
      ELSE CASE log_slot_count \in 1 .. 2 -> {}
             [] log_slot_count \in 3 .. 5 -> 1 .. 1
             [] log_slot_count \in 6 .. 8 -> 2 .. 2
             [] log_slot_count \in 9 .. 10 -> 2 .. 3
             [] log_slot_count = 11 -> 3 .. 3
             [] log_slot_count \in 12 .. 14 -> 3 .. 4
             [] OTHER -> 3 .. 5

stage_level(stage_count, t, s) ==
    get_max_key_switching_level - s
      - IF t = "slot_to_coeff" THEN stage_count + levels_for_eval_round ELSE 0

(***************************************************************************)
(* A stage: the diagonals, rotated back by what their group is rotated by.  *)
(* The first group has no diagonal for delta 0 of its own.                  *)
(***************************************************************************)
make_bootstrap_stage(N, n, shift, stage_count, t, s) ==
    LET diagonals == IF t = "coeff_to_slot"
                       THEN get_coeff_to_slot_twiddles(n, s, stage_count)
                       ELSE get_slot_to_coeff_twiddles(n, s, stage_count)
        jump == rotate_count(t, s, stage_count, n)
        count == total_radix_count(log_radix_count(t, s, stage_count, n))
        inner_loop_count == get_inner_loop_count(count, shift)
        outer_loop_count == get_outer_loop_count(count, shift)
        first(o) == inner_loop_count * (o - outer_loop_count \div 2)
        delta_of(o) == (first(o) * jump) % n
    IN  [level |-> stage_level(stage_count, t, s),
         inner_loop_deltas |-> [i \in 0 .. inner_loop_count - 1 |-> (i * jump) % n],
         outer_loop_deltas |-> [o \in 0 .. outer_loop_count - 1 |-> delta_of(o)],
         encoded_diagonals |->
           Evaluated([o \in 0 .. outer_loop_count - 1 |->
             Evaluated([i \in (IF o = 0 THEN 1 ELSE 0) .. inner_loop_count - 1 |->
               encode(N, n, rotate_vector(n, diagonals[(first(o) + i) % count],
                                          -delta_of(o)))])])]

Transform == {"coeff_to_slot", "slot_to_coeff"}

Plan(r) ==
    {<<r.N, r.n, inner_loop_shift(r), r.stage_count, t, s>> :
        t \in Transform, s \in 0 .. r.stage_count - 1}

stages ==
    Evaluated([plan \in UNION {Plan(r) : r \in Request} |->
        make_bootstrap_stage(plan[1], plan[2], plan[3], plan[4], plan[5], plan[6])])

StageOf(r, t, s) == stages[<<r.N, r.n, inner_loop_shift(r), r.stage_count, t, s>>]

Deltas(matrix) ==
    {matrix.inner_loop_deltas[i] : i \in DOMAIN matrix.inner_loop_deltas}
      \cup {matrix.outer_loop_deltas[o] : o \in DOMAIN matrix.outer_loop_deltas}

(* The groups that are rotated at once, of which o is the first. *)
process_order(r, matrix, o) ==
    IF r.key = "rotation"
      THEN {o}
      ELSE {q \in DOMAIN matrix.outer_loop_deltas :
              matrix.outer_loop_deltas[q] = matrix.outer_loop_deltas[o]}

-----------------------------------------------------------------------------
(* Keys. *)

PowersOfTwo(first, last) == {2 ^ k : k \in 0 .. MaxLog} \cap first .. last

make_partial_sum_deltas(r) == PowersOfTwo(r.n, r.N \div 2 - 1)

(***************************************************************************)
(* What the p-th part of a bootstrap rotates by, and at which level: the    *)
(* partial sums, then the stages of the transforms.                         *)
(***************************************************************************)
made_for(r, p) ==
    IF p = 0
      THEN [deltas |-> make_partial_sum_deltas(r), level |-> get_max_key_switching_level]
      ELSE LET matrix == IF p =< r.stage_count
                           THEN StageOf(r, "coeff_to_slot", p - 1)
                           ELSE StageOf(r, "slot_to_coeff", p - 1 - r.stage_count)
           IN  [deltas |-> Deltas(matrix), level |-> matrix.level]

(* Mutant: a context is made again for each part that needs it. *)
make_rotation_context_again(parts) == CHOOSE p \in parts : \A q \in parts : q =< p

(* MAKE_ROTATION_CONTEXT: of the parts that need a delta, the first one     *)
(* makes its context.                                                       *)
make_rotation_context(parts) == CHOOSE p \in parts : \A q \in parts : p =< q

create_bootstrap_key(r) ==
    LET parts == 0 .. 2 * r.stage_count
        parts_with(d) == {p \in parts : d \in made_for(r, p).deltas}
    IN  [d \in (UNION {made_for(r, p).deltas : p \in parts}) \ {0} |->
            made_for(r, make_rotation_context(parts_with(d))).level]

create_rotation_key(r) == [d \in PowersOfTwo(1, r.N \div 2 - 1) |-> r.rotation]

(* What rotates a text of that level by d. *)
HasKey(d, level) ==
    LET needed == IF request.key = "rotation"
                    THEN {b \in PowersOfTwo(1, d) : (d \div b) % 2 = 1}
                    ELSE {d} \ {0}
    IN  \A b \in needed : b \in DOMAIN contexts /\ level =< contexts[b]

KeyAccepted(r) ==
    r.key # "rotation" => r.stage_count \in stage_counts(Log[r.n], inner_loop_shift(r))

(* require_bootstrap_ *)
Accepted(r) ==
    /\ r.key = "rotation" =>
         /\ r.rotation >= MaxLevel - 1
         /\ r.stage_count \in stage_counts(Log[r.n], 0)
    /\ r.relinearization >= MaxLevel - 1 - r.stage_count
    /\ r.conjugation >= MaxLevel - 1 - r.stage_count

-----------------------------------------------------------------------------
(* Raising the modulus: the polynomial is the message in powers of X ^ (N / 2 n). *)

Repeats(r) == r.N \div (2 * r.n)

Message(r) ==
    [k \in 0 .. r.N - 1 |->
        IF k % Repeats(r) = 0 THEN r.message[k \div Repeats(r)] ELSE 0]

(* What was a residue modulo the first prime is a number that differs from  *)
(* it by a multiple of that prime; the text declares the scale squared.     *)
make_signed_tile(r) ==
    [k \in 0 .. r.N - 1 |-> Scale * Message(r)[k] + BasePrime * r.overflow[k]]

(* Divided by the scale squared. *)
get_mod_raise_ratio(r) == Reciprocal[(Repeats(r) * BasePrime) % Prime]

get_normalize_ratio == (BasePrime * Reciprocal[Scale]) % Prime

mod_raise_(r) ==
    LET tiled == [k \in 0 .. r.N - 1 |-> make_signed_tile(r)[k] % Prime]
    IN  multiply_integer(Text(get_max_key_switching_level, ntt(r.N, tiled)),
                         get_mod_raise_ratio(r))

-----------------------------------------------------------------------------
(* Rounding. *)

BABY_DEGREE == 7
GIANT_DEGREE == 3

(* The level of chebyshev_paterson_stockmeyer of a basis of one level. *)
chebyshev_paterson_stockmeyer(weighted_sum, giant) ==
    Lower(Lower(giant, weighted_sum) - 1, weighted_sum)

(* The level of each text of the baby basis, then of the giant one. *)
baby_level(level) ==
    LET baby[b \in 1 .. BABY_DEGREE] ==
          IF b = 1 THEN level ELSE Lower(baby[b \div 2], baby[b - b \div 2]) - 1
    IN  baby

giant_level(level) ==
    LET giant[g \in 1 .. GIANT_DEGREE] ==
          IF g = 1 THEN level ELSE giant[g - 1] - 1
    IN  giant

sine(level) ==
    LET destination_level == baby_level(level)[BABY_DEGREE]
        giant == giant_level(destination_level)
        weighted_sum == destination_level - 1
        highest == Lower(Lower(giant[1], giant[2]) - 1, giant[3]) - 1
        paterson_stockmeyer ==
          chebyshev_paterson_stockmeyer(weighted_sum, giant[GIANT_DEGREE - 1])
        product == Lower(Lower(weighted_sum, giant[3]), paterson_stockmeyer) - 1
    IN  Lower(Lower(product, paterson_stockmeyer), highest)

iter_count == 3

(* Each iteration squares. *)
apply_double_angle_iterations(level) == level - iter_count

(***************************************************************************)
(* modulo: the fraction of ROUND_BOUND times a real slot, whatever whole    *)
(* number of the range it is above.  Anything else gives some number.       *)
(***************************************************************************)
modulo(x) ==
    LET numbers == [i \in DOMAIN x.values |-> (ROUND_BOUND * x.values[i]) % Prime]
        opposite(i) == Cardinality(DOMAIN x.values) - 1 - i
    IN  Text(apply_double_angle_iterations(sine(x.level)),
             [i \in DOMAIN x.values |->
                IF /\ numbers[i] = numbers[opposite(i)]
                   /\ \E f \in Fractions, y \in Overflow : numbers[i] = (f + y) % Prime
                  THEN CHOOSE f \in Fractions :
                         \E y \in Overflow : numbers[i] = (f + y) % Prime
                  ELSE 0])

round(x) == subtract(multiply_integer(x, ROUND_BOUND), modulo(x))

-----------------------------------------------------------------------------
(* The machine. *)

NoRequest == [key |-> "none"]
NoTexts == <<>>

Init ==
    /\ pc = "idle" /\ request = NoRequest /\ contexts = <<>>
    /\ transform = "coeff_to_slot" /\ stage = 0 /\ partial_delta = 0 /\ outer = {}
    /\ rotated = NoTexts /\ outer_sum = NoText /\ current = NoText
    /\ raised = NoText /\ real = NoText /\ imag = NoText

CreateKey(r) ==
    /\ pc = "idle" /\ KeyAccepted(r)
    /\ pc' = "keys" /\ request' = r
    /\ contexts' = IF r.key = "rotation" THEN create_rotation_key(r)
                                         ELSE create_bootstrap_key(r)
    /\ UNCHANGED <<transform, stage, partial_delta, outer, rotated, outer_sum, current,
                   raised, real, imag>>

RefuseKey(r) ==
    /\ pc = "idle" /\ ~KeyAccepted(r)
    /\ UNCHANGED vars

Refuse ==
    /\ pc = "keys" /\ ~Accepted(request)
    /\ pc' = "returned"
    /\ UNCHANGED <<request, contexts, transform, stage, partial_delta, outer, rotated,
                   outer_sum, current, raised, real, imag>>

(* level_down to 0, and mod_raise_ *)
ModRaise ==
    /\ pc = "keys" /\ Accepted(request)
    /\ pc' = "partial_sum" /\ raised' = mod_raise_(request) /\ partial_delta' = request.n
    /\ UNCHANGED <<request, contexts, transform, stage, outer, rotated, outer_sum,
                   current, real, imag>>

(* partial_sum_inplace: deltas that are not normalized by the slot count *)
PartialSum ==
    /\ pc = "partial_sum" /\ partial_delta < request.N \div 2
    /\ raised' = add(raised, rotate(request, raised, partial_delta))
    /\ partial_delta' = 2 * partial_delta
    /\ UNCHANGED <<pc, request, contexts, transform, stage, outer, rotated, outer_sum,
                   current, real, imag>>

EnterTransform(t, text) ==
    /\ pc' = "stage" /\ transform' = t /\ stage' = 0 /\ current' = text

EndPartialSum ==
    /\ pc = "partial_sum" /\ partial_delta >= request.N \div 2
    /\ EnterTransform("coeff_to_slot", raised)
    /\ UNCHANGED <<request, contexts, partial_delta, outer, rotated, outer_sum, raised,
                   real, imag>>

Matrix == StageOf(request, transform, stage)

(* apply_butterfly with a rotation key: rotate_batch, in coefficient form. *)
RotateBatch ==
    /\ pc = "stage" /\ stage < request.stage_count /\ request.key = "rotation"
    /\ LET coefficients == intt(request.N, current.values)
       IN  rotated' = [i \in DOMAIN Matrix.inner_loop_deltas |->
                         Text(current.level,
                              ntt(request.N, rotate_polynomial(request.N, coefficients,
                                               Matrix.inner_loop_deltas[i])))]
    /\ pc' = "outer" /\ outer' = {} /\ outer_sum' = NoText
    /\ UNCHANGED <<request, contexts, transform, stage, partial_delta, current,
                   raised, real, imag>>

(* apply_butterfly with a bootstrap key: rescaled, decomposed once, and     *)
(* rotated in NTT form.                                                     *)
RotateDecomposed ==
    /\ pc = "stage" /\ stage < request.stage_count /\ request.key # "rotation"
    /\ LET rescaled == Text(current.level - 1, current.values)
       IN  rotated' = [i \in DOMAIN Matrix.inner_loop_deltas |->
                         ntt_rotate(request, rescaled, Matrix.inner_loop_deltas[i])]
    /\ pc' = "outer" /\ outer' = {} /\ outer_sum' = NoText
    /\ UNCHANGED <<request, contexts, transform, stage, partial_delta, current,
                   raised, real, imag>>

(***************************************************************************)
(* The sum over the groups that are rotated together, of all their inner    *)
(* loops.  A product with a vector takes a level; one with a diagonal that  *)
(* was rescaled does not, and the text was.                                 *)
(***************************************************************************)
InnerSum(group) ==
    LET width == Cardinality(DOMAIN rotated)
        last == width * Cardinality(DOMAIN Matrix.outer_loop_deltas) - 1
        diagonals == Matrix.encoded_diagonals
        product(k, i) ==
          LET o == k \div width
              inner == k % width
          IN  IF o \in group /\ inner \in DOMAIN diagonals[o]
                THEN rotated[inner].values[i] * diagonals[o][inner][i] ELSE 0
    IN  Text(Matrix.level - 1,
             [i \in 0 .. request.N - 1 |->
                Sum(last, [k \in 0 .. last |-> product(k, i)]) % Prime])

Turned(text, d) ==
    IF d = 0
      THEN text
      ELSE IF request.key = "rotation" THEN rotate(request, text, d)
                                       ELSE ntt_rotate(request, text, d)

AddedTo(sum, text) == IF sum = NoText THEN text ELSE add(sum, text)

Pending == DOMAIN Matrix.outer_loop_deltas \ outer

OuterLoop ==
    /\ pc = "outer"
    /\ \E o \in Pending :
        /\ \A q \in Pending : o =< q
        /\ outer' = outer \cup process_order(request, Matrix, o)
        /\ outer_sum' =
             AddedTo(outer_sum, Turned(InnerSum(process_order(request, Matrix, o)),
                                       Matrix.outer_loop_deltas[o]))
    /\ UNCHANGED <<pc, request, contexts, transform, stage, partial_delta, rotated, current,
                   raised, real, imag>>

EndStage ==
    /\ pc = "outer" /\ Pending = {}
    /\ pc' = "stage" /\ stage' = stage + 1
    /\ current' = outer_sum
    /\ rotated' = NoTexts /\ outer_sum' = NoText /\ outer' = {}
    /\ UNCHANGED <<request, contexts, transform, partial_delta, raised, real, imag>>

(* The end of coeff_to_slot: slots are the upper half of the coefficients   *)
(* times i, and the lower half.                                             *)
SplitParts ==
    /\ pc = "stage" /\ stage = request.stage_count /\ transform = "coeff_to_slot"
    /\ LET conjugated == rotate(request, current, -1)
       IN  /\ real' = add(current, conjugated)
           /\ imag' = multiply_imaginary(request, subtract(current, conjugated), -1)
    /\ pc' = "round_real" /\ current' = NoText
    /\ UNCHANGED <<request, contexts, transform, stage, partial_delta, outer, rotated,
                   outer_sum, raised>>

RoundReal ==
    /\ pc = "round_real"
    /\ pc' = "round_imag" /\ real' = round(real)
    /\ UNCHANGED <<request, contexts, transform, stage, partial_delta, outer, rotated,
                   outer_sum, current, raised, imag>>

(* The other part, and the begin of slot_to_coeff. *)
RoundImag ==
    /\ pc = "round_imag"
    /\ imag' = round(imag)
    /\ EnterTransform("slot_to_coeff", add(real, multiply_imaginary(request, imag', 1)))
    /\ UNCHANGED <<request, contexts, partial_delta, outer, rotated, outer_sum,
                   raised, real>>

Return ==
    /\ pc = "stage" /\ stage = request.stage_count /\ transform = "slot_to_coeff"
    /\ pc' = "returned"
    /\ raised' = multiply_integer(subtract(raised, current), get_normalize_ratio)
    /\ UNCHANGED <<request, contexts, transform, stage, partial_delta, outer, rotated,
                   outer_sum, current, real, imag>>

Forget ==
    /\ pc = "returned"
    /\ pc' = "idle" /\ request' = NoRequest /\ contexts' = <<>>
    /\ transform' = "coeff_to_slot" /\ stage' = 0 /\ partial_delta' = 0 /\ outer' = {}
    /\ rotated' = NoTexts /\ outer_sum' = NoText /\ current' = NoText
    /\ raised' = NoText /\ real' = NoText /\ imag' = NoText

Next ==
    \/ \E r \in Request : CreateKey(r) \/ RefuseKey(r)
    \/ Refuse \/ ModRaise \/ PartialSum \/ EndPartialSum
    \/ RotateBatch \/ RotateDecomposed \/ OuterLoop \/ EndStage
    \/ SplitParts \/ RoundReal \/ RoundImag \/ Return \/ Forget

Spec == Init /\ [][Next]_vars

-----------------------------------------------------------------------------
(* Properties. *)

(***************************************************************************)
(* What a bootstrap spends: a level for each stage of the two transforms,   *)
(* and those of the rounding.  The partial sums, the products with integers *)
(* and the subtraction of what was raised cost none.                        *)
(***************************************************************************)
LevelsSpent ==
    pc = "returned" /\ raised # NoText =>
        /\ raised.level = get_max_key_switching_level - levels_for_eval_round
                            - 2 * request.stage_count
        /\ raised.level >= 0

(***************************************************************************)
(* Bootstrapping returns the message of an exhausted text, and spends no    *)
(* more levels than the two transforms and the rounding: the transforms,    *)
(* merged into any stages and grouped in any way, are inverse to each       *)
(* other, with the normalizations in between, and what raising the modulus  *)
(* added is removed, also from the coefficients between those of a sparse   *)
(* message.                                                                 *)
(***************************************************************************)
MessageKept ==
    /\ pc = "returned" /\ raised # NoText =>
         intt(request.N, raised.values) = Message(request)
    /\ LevelsSpent

(***************************************************************************)
(* A call that was accepted is not refused half way, nor computes with a    *)
(* key that is too small: each rotation has a key for its delta, made for   *)
(* the level it happens at; each text meets diagonals of its own level; and *)
(* conjugation and rounding find keys of the levels that were required.     *)
(***************************************************************************)
KeysSuffice ==
    /\ pc = "partial_sum" /\ partial_delta < request.N \div 2 =>
         HasKey(partial_delta, raised.level)
    /\ pc = "stage" /\ stage < request.stage_count =>
         /\ current.level > 0
         /\ \A i \in DOMAIN Matrix.inner_loop_deltas :
               HasKey(Matrix.inner_loop_deltas[i], current.level)
    /\ pc = "outer" =>
         /\ current.level = Matrix.level
         /\ \A o \in DOMAIN Matrix.outer_loop_deltas :
               HasKey(Matrix.outer_loop_deltas[o], Matrix.level - 1)
    /\ pc = "stage" /\ stage = request.stage_count /\ transform = "coeff_to_slot" =>
         current.level =< request.conjugation
    /\ pc = "round_real" =>
         /\ real.level - 1 =< request.relinearization
         /\ sine(real.level) >= iter_count

-----------------------------------------------------------------------------
(***************************************************************************)
(* What nothing in the code checks: the engine uses all its primes, as the *)
(* required levels of keys presume, and has the levels that are spent.     *)
(***************************************************************************)
EngineSuffices ==
    /\ MaxLevel = FullLevel
    /\ \A r \in Request : 2 * r.stage_count + levels_for_eval_round < MaxLevel

(* No stage is without a group of diagonals, and each turns by less than    *)
(* the number of slots.                                                     *)
StagesSound ==
    \A r \in Request, t \in Transform : \A s \in 0 .. r.stage_count - 1 :
        /\ DOMAIN StageOf(r, t, s).outer_loop_deltas # {}
        /\ Deltas(StageOf(r, t, s)) \subseteq 0 .. r.n - 1

(***************************************************************************)
(* The inductive invariants: where a call is says which level its text has. *)
(***************************************************************************)
KeyInv ==
    /\ pc # "idle" =>
         /\ request \in Request /\ KeyAccepted(request)
         /\ contexts = IF request.key = "rotation" THEN create_rotation_key(request)
                                                   ELSE create_bootstrap_key(request)
    /\ pc \in {"partial_sum", "stage", "outer", "round_real", "round_imag"} =>
         Accepted(request)

PartialSumInv ==
    pc = "partial_sum" =>
        /\ raised.level = get_max_key_switching_level
        /\ partial_delta \in Int /\ partial_delta >= request.n
        /\ partial_delta < request.N \div 2 =>
             partial_delta \in {2 ^ k : k \in 0 .. MaxLog}

StageInv ==
    /\ pc \in {"stage", "outer"} =>
         /\ transform \in Transform /\ stage \in 0 .. request.stage_count
         /\ current.level = stage_level(request.stage_count, transform, stage)
    /\ pc = "outer" =>
         /\ stage < request.stage_count
         /\ IF outer = {} THEN outer_sum = NoText
                          ELSE outer_sum.level = Matrix.level - 1

RoundInv ==
    LET level == get_max_key_switching_level - request.stage_count
    IN  /\ pc \in {"round_real", "round_imag"} => imag.level = level
        /\ pc = "round_real" => real.level = level
        /\ pc = "round_imag" => real.level = level - levels_for_eval_round

BootstrapInv == KeyInv /\ PartialSumInv /\ StageInv /\ RoundInv

(* The text that was raised stays at its level until the end. *)
RaisedInv ==
    /\ pc \in {"partial_sum", "stage", "outer", "round_real", "round_imag"} =>
         raised.level = get_max_key_switching_level
    /\ pc \in {"idle", "keys"} => raised = NoText
    /\ LevelsSpent
=============================================================================
