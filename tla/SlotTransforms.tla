---------------------------- MODULE SlotTransforms ----------------------------
(***************************************************************************)
(* The algebra of bootstrapping: rotations of a polynomial in coefficient   *)
(* form and in NTT form (ckks/encode.cpp), and the transforms between       *)
(* coefficients and slots (operation/bootstrap.cpp) as stages of diagonals. *)
(*                                                                         *)
(* Numbers are residues modulo Prime, a field with all the roots of unity   *)
(* that occur.  A complex number is the pair of its values under the two    *)
(* embeddings, so that its conjugate is the pair the other way round.       *)
(* N is the number of coefficients, n the number of slots, both powers of   *)
(* two; a vector has a complex number for each slot.                        *)
(***************************************************************************)
EXTENDS Integers, Sequences, TLC

CONSTANTS
    Prime,         \* bound: numbers are counted modulo it
    Generator,     \* of the residues but 0
    MaxLog,        \* bound: on log_coeff_count
    ROUND_BOUND    \* 28 in the source

ASSUME FieldAssumption ==
    /\ {Prime, Generator, MaxLog, ROUND_BOUND} \subseteq Nat \ {0}
    /\ (Prime - 1) % 2 ^ (MaxLog + 1) = 0
    /\ ROUND_BOUND < Prime

(* The function itself, of which TLC computes each value once. *)
Evaluated(f) == CHOOSE g \in {f} : g = f

Sum(last, term) ==
    LET sum[k \in 0 .. last] == IF k = 0 THEN term[0] ELSE sum[k - 1] + term[k]
    IN  sum[last]

PowerModulo(base, exponent, modulus) ==
    LET power[k \in 0 .. exponent] ==
          IF k = 0
            THEN 1
            ELSE LET half == power[k \div 2]
                 IN  (((half * half) % modulus) * (IF k % 2 = 1 THEN base ELSE 1)) % modulus
    IN  power[exponent]

GeneratorPower == Evaluated([k \in 0 .. Prime - 2 |-> PowerModulo(Generator, k, Prime)])

(* The k-th power of a root of unity of the given order. *)
Root(order, k) == GeneratorPower[(((Prime - 1) \div order) * k) % (Prime - 1)]

Reciprocal ==
    Evaluated([a \in 1 .. Prime - 1 |-> CHOOSE b \in 1 .. Prime - 1 : (a * b) % Prime = 1])

Log ==
    Evaluated([size \in {2 ^ k : k \in 0 .. MaxLog} |-> CHOOSE k \in 0 .. MaxLog : 2 ^ k = size])

bit_reversal_permutation ==
    Evaluated([size \in DOMAIN Log |->
        Evaluated([i \in 0 .. size - 1 |->
            Sum(Log[size], [b \in 0 .. Log[size] |->
                IF b = 0 THEN 0
                         ELSE ((i \div 2 ^ (b - 1)) % 2) * 2 ^ (Log[size] - b)])])])

-----------------------------------------------------------------------------
(***************************************************************************)
(* A polynomial is its coefficients or, in NTT form, its values at the odd  *)
(* powers of a root of order 2 N, in bit-reversed order.                    *)
(***************************************************************************)
Exponent(N, i) == 2 * bit_reversal_permutation[N][i] + 1

ntt(N, coefficients) ==
    LET given == Evaluated(coefficients)
    IN  Evaluated([i \in 0 .. N - 1 |->
          Sum(N - 1, [k \in 0 .. N - 1 |->
                        given[k] * Root(2 * N, Exponent(N, i) * k)]) % Prime])

intt(N, values) ==
    LET given == Evaluated(values)
    IN  Evaluated([k \in 0 .. N - 1 |->
          (Reciprocal[N] * Sum(N - 1, [i \in 0 .. N - 1 |->
                          given[i] * Root(2 * N, -Exponent(N, i) * k)])) % Prime])

(***************************************************************************)
(* Slot j is the value at the power 5 ^ j, its conjugate the one at the     *)
(* opposite power: the place of each value in a vector of N / 2 slots.      *)
(***************************************************************************)
Place ==
    Evaluated([N \in DOMAIN Log \ {1} |->
        LET five == Evaluated([j \in 0 .. N \div 2 - 1 |-> PowerModulo(5, j, 2 * N)])
        IN  Evaluated([i \in 0 .. N - 1 |->
               CHOOSE place \in (0 .. N \div 2 - 1) \X {1, 2} :
                  (IF place[2] = 1 THEN five[place[1]] ELSE 2 * N - five[place[1]])
                    = Exponent(N, i)])])

(* encode: a vector repeats when there are less than N / 2 slots. *)
encode(N, n, vector) ==
    LET given == Evaluated(vector)
    IN  Evaluated([i \in 0 .. N - 1 |-> given[Place[N][i][1] % n][Place[N][i][2]]])

(* The imaginary unit is the power N / 2. *)
encode_imaginary(N, a) == ntt(N, [k \in 0 .. N - 1 |-> IF k = N \div 2 THEN a ELSE 0])

-----------------------------------------------------------------------------
(* Rotations by delta; -1 stands for the conjugation. *)

get_jump(shift, double_size) ==
    IF shift = double_size - 1 THEN shift
                               ELSE PowerModulo(5, double_size - shift, double_size)

rotate_polynomial(N, coefficients, delta) ==
    LET jump == get_jump((delta + 2 * N) % (2 * N), 2 * N)
        permutation == Evaluated([k \in 0 .. N - 1 |-> (jump * k) % (2 * N)])
    IN  [place \in 0 .. N - 1 |->
           LET k == CHOOSE k \in 0 .. N - 1 : permutation[k] % N = place
           IN  IF permutation[k] >= N THEN (-coefficients[k]) % Prime
                                      ELSE coefficients[k]]

half_difference(N, delta) ==
    IF delta = -1 THEN -1 ELSE ((PowerModulo(5, delta, 2 * N) - 1) \div 2) % N

get_ntt_permutation(N, delta) ==
    LET power_of_five == PowerModulo(5, delta, N)
        power_of_five_inverse ==
          IF delta = -1
            THEN N - 1
            ELSE CHOOSE b \in 0 .. N - 1 : (power_of_five * b) % N = 1 % N
        shift == half_difference(N, delta)
        reversal == bit_reversal_permutation[N]
    IN  [i \in 0 .. N - 1 |->
           reversal[((reversal[i] - shift)
                       * power_of_five_inverse) % N]]

permute_polynomial(N, values, delta) ==
    LET permutation == Evaluated(get_ntt_permutation(N, delta))
    IN  [i \in 0 .. N - 1 |-> values[permutation[i]]]

rotate_vector(n, vector, delta) == [j \in 0 .. n - 1 |-> vector[(j - delta) % n]]

-----------------------------------------------------------------------------
(* The butterflies of a transform between coefficients and slots. *)

Zero == <<0, 0>>
One == <<1, 1>>

CPlus(x, y) == <<(x[1] + y[1]) % Prime, (x[2] + y[2]) % Prime>>
CTimes(x, y) == <<(x[1] * y[1]) % Prime, (x[2] * y[2]) % Prime>>
CMinus(x) == <<(-x[1]) % Prime, (-x[2]) % Prime>>
Real(a) == <<a % Prime, a % Prime>>

(* phi and inverse_phi of 4 n slots: the powers of e ^ (-+ i pi / 2 n). *)
phi(n, k) == <<Root(4 * n, -k), Root(4 * n, k)>>
inverse_phi(n, k) == <<Root(4 * n, k), Root(4 * n, -k)>>

(* Blocks of 2 jump_size slots: the lower half comes first. *)
InLowerHalf(j, jump_size) == j % (2 * jump_size) < jump_size

PhiIndex(n, j, jump_size) ==
    PowerModulo(5, j % jump_size, 8 * jump_size) * (n \div (2 * jump_size))

get_twiddle_factor(n, jump_size) ==
    LET twiddle(j) == phi(n, PhiIndex(n, j, jump_size))
        weight(l(_), u(_)) ==
          Evaluated([j \in 0 .. n - 1 |-> IF InLowerHalf(j, jump_size) THEN l(j) ELSE u(j)])
    IN  [center |-> weight(LAMBDA j : One, LAMBDA j : CMinus(twiddle(j))),
         left   |-> weight(LAMBDA j : One, LAMBDA j : Zero),
         right  |-> weight(LAMBDA j : Zero, twiddle)]

get_inverse_twiddle_factor(n, jump_size) ==
    LET twiddle(j) == inverse_phi(n, PhiIndex(n, j, jump_size))
        weight(l(_), u(_)) ==
          Evaluated([j \in 0 .. n - 1 |-> IF InLowerHalf(j, jump_size) THEN l(j) ELSE u(j)])
    IN  [center |-> weight(LAMBDA j : One, LAMBDA j : CMinus(twiddle(j))),
         left   |-> weight(twiddle, LAMBDA j : Zero),
         right  |-> weight(LAMBDA j : Zero, LAMBDA j : One)]

-----------------------------------------------------------------------------
(***************************************************************************)
(* A stage merges the butterflies of log_radix_count jumps into diagonals.  *)
(* Diagonal t multiplies the vector rotated by t times the smallest jump    *)
(* of the stage; negative t count from the end.                             *)
(***************************************************************************)
get_coeff_to_slot_log_radix_count(stage_index, stage_count, log_slot_count) ==
    log_slot_count \div stage_count
      + IF stage_index >= stage_count - (log_slot_count % stage_count) THEN 1 ELSE 0

get_slot_to_coeff_log_radix_count(stage_index, stage_count, log_slot_count) ==
    log_slot_count \div stage_count
      + IF stage_index < log_slot_count % stage_count THEN 1 ELSE 0

log_radix_count(direction, stage_index, stage_count, n) ==
    IF direction = "coeff_to_slot"
      THEN get_coeff_to_slot_log_radix_count(stage_index, stage_count, Log[n])
      ELSE get_slot_to_coeff_log_radix_count(stage_index, stage_count, Log[n])

total_radix_count(log_radix) == 2 * 2 ^ log_radix - 1

(* How many butterflies come before the stage. *)
twiddle_index_offset(direction, stage_index, stage_count, n) ==
    LET offset[s \in 0 .. stage_index] ==
          IF s = 0 THEN 0
                   ELSE offset[s - 1] + log_radix_count(direction, s - 1, stage_count, n)
    IN  offset[stage_index]

(* rotate_count, the smallest jump of the stage *)
rotate_count(direction, stage_index, stage_count, n) ==
    LET offset(s) == twiddle_index_offset(direction, s, stage_count, n)
    IN  IF direction = "coeff_to_slot" THEN n \div 2 ^ offset(stage_index + 1)
                                       ELSE 2 ^ offset(stage_index)

(***************************************************************************)
(* One more butterfly on the diagonals of those before it.  The diagonals   *)
(* that are there so far are the multiples of spacing up to reach.          *)
(***************************************************************************)
AddButterfly(n, total, factor, jump_size, spacing, reach, slot_jump, twiddles) ==
    LET there(t) ==
          \E index \in -(reach - 1) .. reach - 1 : (index * spacing) % total = t
        part(t, weight, j, source) ==
          IF there(t) THEN CTimes(weight[j], twiddles[t][source % n]) ELSE Zero
    IN  Evaluated([t \in 0 .. total - 1 |-> Evaluated([j \in 0 .. n - 1 |->
          CPlus(part(t, factor.center, j, j),
                CPlus(part((t + jump_size) % total, factor.left, j, j + slot_jump),
                      part((t - jump_size) % total, factor.right, j, j - slot_jump)))])])

normalizing_value(n) == 2 * n * ROUND_BOUND

Divided(n, vector) ==
    [j \in 0 .. n - 1 |-> CTimes(vector[j], Real(Reciprocal[normalizing_value(n) % Prime]))]

get_coeff_to_slot_twiddles(n, stage_index, stage_count) ==
    LET log_radix == log_radix_count("coeff_to_slot", stage_index, stage_count, n)
        radix_count == 2 ^ log_radix
        total == total_radix_count(log_radix)
        offset == twiddle_index_offset("coeff_to_slot", stage_index, stage_count, n)
        diagonals[k \in 0 .. log_radix] ==  \* after k butterflies
          IF k = 0
            THEN [t \in 0 .. total - 1 |-> [j \in 0 .. n - 1 |-> One]]
            ELSE LET before == diagonals[k - 1]
                     slot_jump == n \div 2 ^ (offset + k)
                 IN  AddButterfly(n, total, get_twiddle_factor(n, slot_jump),
                                  radix_count \div 2 ^ k, radix_count \div 2 ^ (k - 1),
                                  2 ^ (k - 1), slot_jump, before)
        merged == diagonals[log_radix]
    IN  IF stage_index = stage_count - 1
          THEN Evaluated([t \in 0 .. total - 1 |-> Divided(n, merged[t])])
          ELSE merged

get_slot_to_coeff_twiddles(n, stage_index, stage_count) ==
    LET log_radix == log_radix_count("slot_to_coeff", stage_index, stage_count, n)
        total == total_radix_count(log_radix)
        offset == twiddle_index_offset("slot_to_coeff", stage_index, stage_count, n)
        diagonals[k \in 0 .. log_radix] ==
          IF k = 0
            THEN [t \in 0 .. total - 1 |-> [j \in 0 .. n - 1 |-> One]]
            ELSE LET before == diagonals[k - 1]
                     slot_jump == 2 ^ (offset + k - 1)
                 IN  AddButterfly(n, total, get_inverse_twiddle_factor(n, slot_jump),
                                  2 ^ (k - 1), 1, 2 ^ (k - 1), slot_jump, before)
    IN  diagonals[log_radix]

(***************************************************************************)
(* The diagonals are grouped, for baby and giant steps: inner_loop_count    *)
(* rotations of the text, and one for each of outer_loop_count groups.      *)
(***************************************************************************)
bit_count(k) == CHOOSE b \in 0 .. k : 2 ^ b > k /\ (b > 0 => 2 ^ (b - 1) =< k)

get_inner_loop_count(twiddle_count, inner_loop_shift) ==
    2 ^ ((bit_count(twiddle_count) + 1) \div 2 + inner_loop_shift)

get_outer_loop_count(twiddle_count, inner_loop_shift) ==
    (twiddle_count + 1) \div get_inner_loop_count(twiddle_count, inner_loop_shift)
=============================================================================
