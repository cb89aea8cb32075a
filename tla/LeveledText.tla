---------------------------- MODULE LeveledText ----------------------------
(***************************************************************************)
(* Texts as the residues that ckks/core.cpp, core_rescale.cpp and          *)
(* core_decode.cpp compute: one coefficient of one polynomial in           *)
(* coefficient form, of a text at level moduli_id.                         *)
(*                                                                         *)
(* The residues are lazily reduced.  Rescaling from the top level removes  *)
(* a modulus much larger than the others, which leaves some negative       *)
(* residues, and so does multiplying with a negative integer; additions    *)
(* never add a modulus back.  The variable drift counts how far this may   *)
(* have gone; the code has no such counter, the model stops at MaxDrift.   *)
(***************************************************************************)
EXTENDS Montgomery, Levels, FiniteSets

CONSTANTS
    Message,      \* integers that are encoded in fresh texts
    Scalar,       \* integers that texts are multiplied with
    MaxTerms,     \* bound on the number of texts that are summed up
    MaxDrift      \* bound on drift

(* Odd primes in the code, which differ from each other. *)
ASSUME ModuliAssumption ==
    /\ Moduli \in Seq(Nat \ {0, 1})
    /\ ChainCount > 1
    /\ \A i \in 1 .. ChainCount :
         /\ 2 < Moduli[i] /\ 4 * Moduli[i] < R
         /\ \E y \in 0 .. Moduli[i] - 1 : (R * y) % Moduli[i] = 1
         /\ \A j \in 1 .. ChainCount \ {i} :
              \E y \in 0 .. Moduli[i] - 1 : (Moduli[j] * y) % Moduli[i] = 1

(* The last modulus is one of large_primes, the one before of small_primes. *)
ASSUME LastModuliAssumption ==
    2 * Moduli[ChainCount - 1] =< Moduli[ChainCount]

ASSUME TextAssumption ==
    /\ Message \subseteq Int /\ Scalar \subseteq Int
    /\ MaxTerms \in Nat \ {0}
    /\ MaxDrift \in 2 .. 8

VARIABLES
    moduli_id,    \* level of the text
    residues,     \* its residues by chain index
    terms,        \* history variable: number of texts summed up in this one
    drift         \* history variable: how many quarters of a modulus its
                  \* residues may lie outside of 0 .. q - 1

vars == <<moduli_id, residues, terms, drift>>

Chains(m) == 0 .. ChainCount - m - 1

get_q(m, chain) == Moduli[m + chain + 1]

k_of == [q \in {Moduli[i] : i \in 1 .. ChainCount} |-> calculate_k(q)]

(* double_to_rns: a fresh text has reduced residues. *)
Fresh(message, m) == [chain \in Chains(m) |-> message % get_q(m, chain)]

-----------------------------------------------------------------------------
(* Variant: the scale of the level below, whose first modulus stays. *)
rescale_once_next(x, m) ==
    [chain \in Chains(m + 1) |->
       LET q == get_q(m + 1, chain)
           rescale_scale ==
             modulus_multiply(modulus_invert(get_q(m + 1, 0) % q, q), R, q)
           difference == guard(mont_subtract(x[chain + 1], x[0], q), q)
       IN  guard(mont_mult_scalar(difference, rescale_scale, q, k_of[q]), q)]

(* rescale_once_: drops the first modulus of level m. *)
rescale_once(x, m) ==
    [chain \in Chains(m + 1) |->
       LET q == get_q(m + 1, chain)
           q_from == get_q(m, 0)
           rescale_scale ==
             modulus_multiply(modulus_invert(q_from % q, q), R, q)
           difference == guard(mont_subtract(x[chain + 1], x[0], q), q)
           divided == mont_mult_scalar(difference, rescale_scale, q, k_of[q])
       IN  guard(mont_add(divided, get_rounder(x[0], q_from), q), q)]

(* Multipliers by chain: those made from a double are not negative. *)
make_mult_multiplier(c, m) ==
    [chain \in Chains(m) |-> modulus_multiply(c, R, get_q(m, chain))]

scale_enter_modulo(c, m) ==
    [chain \in Chains(m) |->
       LET q == get_q(m, chain)
       IN  IF c < 0 THEN q - ((- c * R) % q) ELSE (c * R) % q]

(* mont_enter_scalar_ and reduce_2q_to_q_. *)
multiply_scalar(x, multiplier, m) ==
    [chain \in Chains(m) |->
       LET q == get_q(m, chain)
       IN  guard(mont_mult_scalar(x[chain], multiplier[chain], q, k_of[q]), q)]

(* The last chains, which are those of a lower level. *)
Drop(x, count) == [chain \in 0 .. Cardinality(DOMAIN x) - count - 1 |->
                     x[chain + count]]

(* A Montgomery product with a factor below q divides by R, which is at    *)
(* least 4q: what is left outside is a quarter, and a quarter of drift.    *)
DriftOfProduct(n) == 1 + (n + 3) \div 4

-----------------------------------------------------------------------------
(***************************************************************************)
(* decode: rescales as long as the scale is too large, here any number of  *)
(* times, and returns the integer nearest to zero.  rns_to_double takes    *)
(* what it has made unsigned as unsigned words.                            *)
(***************************************************************************)
(* rns_reverser_: 1 modulo one modulus, 0 modulo the others. *)
rns_reverser == [m \in 0 .. ChainCount - 1 |-> [chain \in Chains(m) |->
            LET q == get_q(m, chain)
                others == Modulus(m) \div q
            IN  others * modulus_invert(others % q, q)]]

rns_reversed(x, m) ==
    LET sum[count \in 0 .. ChainCount - m] ==
          IF count = 0 THEN 0
          ELSE sum[count - 1] + (x[count - 1] % get_q(m, count - 1))
                                  * rns_reverser[m][count - 1]
    IN  sum

Compose(x, m) == rns_reversed(x, m)[ChainCount - m] % Modulus(m)

rns_to_double(x, m) ==
    LET unsigned == [chain \in DOMAIN x |->
          Unsigned(make_unsigned_reduce_2q_to_q(x[chain], get_q(m, chain)))]
        composed == Compose(unsigned, m)
    IN  IF composed >= Modulus(m) \div 2 THEN composed - Modulus(m)
                                         ELSE composed

convert_plaintext_to_double(x, m) ==
    IF m = ChainCount - 1
      THEN make_signed(x[0], get_q(m, 0))
      ELSE rns_to_double(x, m)

Rescaled(x, m) ==
    LET at[n \in m .. ChainCount - 1] ==
          IF n = m THEN x ELSE rescale_once(at[n - 1], n - 1)
    IN  at

-----------------------------------------------------------------------------
Init ==
    /\ moduli_id \in 0 .. ChainCount - 1
    /\ \E message \in Message : residues = Fresh(message, moduli_id)
    /\ terms = 1 /\ drift = 0

(* The second operand: the text itself, a fresh text of the same level, or *)
(* one that has been rescaled to it.                                       *)
Operand ==
    LET fresh(m) == {Fresh(message, m) : message \in Message}
        rescaled == IF moduli_id = 0 THEN {}
                    ELSE {rescale_once(x, moduli_id - 1) :
                            x \in fresh(moduli_id - 1)}
    IN  {[residues |-> residues, terms |-> terms, drift |-> drift]}
          \cup [residues : fresh(moduli_id), terms : {1}, drift : {0}]
          \cup [residues : rescaled, terms : {1}, drift : {DriftOfProduct(0)}]

Combined(operand) ==
    /\ terms' = terms + operand.terms /\ terms' =< MaxTerms
    /\ drift' = drift + operand.drift /\ drift' =< MaxDrift
    /\ UNCHANGED moduli_id

Add(operand) ==
    /\ Combined(operand)
    /\ residues' = [chain \in Chains(moduli_id) |->
         mont_add_reduce_2q_to_q(residues[chain], operand.residues[chain],
                                 get_q(moduli_id, chain))]

Subtract(operand) ==
    /\ Combined(operand)
    /\ residues' = [chain \in Chains(moduli_id) |->
         mont_sub_reduce_2q_to_q(residues[chain], operand.residues[chain],
                                 get_q(moduli_id, chain))]

SubtractFrom(operand) ==
    /\ Combined(operand)
    /\ residues' = [chain \in Chains(moduli_id) |->
         mont_sub_reduce_2q_to_q(operand.residues[chain], residues[chain],
                                 get_q(moduli_id, chain))]

Negate ==
    /\ residues' = [chain \in Chains(moduli_id) |->
         negate_make_unsigned(residues[chain], get_q(moduli_id, chain))]
    /\ UNCHANGED <<moduli_id, terms, drift>>

(* rotate_ and conjugate_intt_form, where the permutation has sign -1. *)
RotateWithSign ==
    /\ residues' = [chain \in Chains(moduli_id) |->
         make_unsigned_reduce_2q_to_q(- residues[chain],
                                      get_q(moduli_id, chain))]
    /\ UNCHANGED <<moduli_id, terms, drift>>

Multiply(c) ==
    /\ residues' = multiply_scalar(residues,
                     make_mult_multiplier(c, moduli_id), moduli_id)
    /\ drift' = DriftOfProduct(drift)
    /\ UNCHANGED <<moduli_id, terms>>

Rescale ==
    /\ moduli_id + 1 < ChainCount
    /\ residues' = rescale_once(residues, moduli_id)
    /\ moduli_id' = moduli_id + 1
    /\ drift' = DriftOfProduct(drift)
    /\ UNCHANGED terms

(* The product with a double is rescaled as well; only it can be negative. *)
LevelDown(m, c) ==
    /\ moduli_id < m
    /\ c > 0 \/ m = moduli_id + 1
    /\ LET multiplied == multiply_scalar(residues,
                           scale_enter_modulo(c, moduli_id), moduli_id)
       IN  residues' = Drop(rescale_once(multiplied, moduli_id),
                            m - moduli_id - 1)
    /\ moduli_id' = m
    /\ drift' = DriftOfProduct(DriftOfProduct(drift))
    /\ UNCHANGED terms

LevelDownAfterRescale(m, c) ==
    /\ moduli_id =< m
    /\ c > 0
    /\ residues' = multiply_scalar(Drop(residues, m - moduli_id),
                     scale_enter_modulo(c, m), m)
    /\ moduli_id' = m
    /\ drift' = DriftOfProduct(drift)
    /\ UNCHANGED terms

Next ==
    \/ \E operand \in Operand :
         Add(operand) \/ Subtract(operand) \/ SubtractFrom(operand)
    \/ Negate \/ RotateWithSign
    \/ \E c \in Scalar : Multiply(c)
    \/ Rescale
    \/ \E m \in 0 .. ChainCount - 1, c \in Scalar :
         LevelDown(m, c) \/ LevelDownAfterRescale(m, c)

Spec == Init /\ [][Next]_vars

-----------------------------------------------------------------------------
(***************************************************************************)
(* The residues never leave 0 .. q - 1 by more than the operations so far  *)
(* can explain; up to four quarters, the next operation tolerates it.      *)
(***************************************************************************)
TypeOK ==
    /\ moduli_id \in 0 .. ChainCount - 1
    /\ terms \in 1 .. MaxTerms /\ drift \in 0 .. MaxDrift
    /\ residues \in [Chains(moduli_id) -> Int]
    /\ \A chain \in Chains(moduli_id) :
         LET q == get_q(moduli_id, chain)
         IN  4 * residues[chain] \in - (drift * q) .. (4 + drift) * q

(***************************************************************************)
(* Whatever representatives the residues are, every operation on the text  *)
(* is the operation on the integer it stands for, and rescaling is within  *)
(* two units of the exact quotient.                                        *)
(***************************************************************************)
Ring == INSTANCE RingText WITH
            Rounding <- 2,
            value <- Compose(residues, moduli_id)

ImplementsRing == Ring!Spec

(***************************************************************************)
(* Decoding a text of at least two chains returns its integer, divided by  *)
(* the moduli it drops on the way, as the representative nearest to zero.  *)
(***************************************************************************)
DecodeCorrect ==
    moduli_id + 1 < ChainCount =>
      \A m \in moduli_id .. ChainCount - 1 :
        LET decoded ==
              convert_plaintext_to_double(Rescaled(residues, moduli_id)[m], m)
            dropped == Modulus(moduli_id) \div Modulus(m)
            exact == Compose(residues, moduli_id) \div dropped
            Errors == IF m = moduli_id THEN {0} ELSE -2 .. 3
        IN  /\ 2 * decoded \in - Modulus(m) - 1 .. Modulus(m)
            /\ \E error \in Errors :
                 (decoded - exact - error) % Modulus(m) = 0
=============================================================================
