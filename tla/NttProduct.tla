----------------------------- MODULE NttProduct -----------------------------
(***************************************************************************)
(* The product of two polynomials modulo one prime, as a ciphertext and a  *)
(* plaintext are multiplied: both are brought to NTT form stage by stage   *)
(* (to_ntt_form_), multiplied slot by slot (multiply), and the product is  *)
(* brought back (to_intt_form_).                                           *)
(***************************************************************************)
EXTENDS Ntt

CONSTANTS
    Prime,                \* the moduli
    Operand1(_),          \* residue polynomials to multiply, for each modulus
    Operand2(_)

ASSUME PrimeAssumption == \A q \in Prime : Suitable(q)

(* Operands are lazily reduced, and may be as low as -q/4. *)
Lazy(q) == [Coeff -> - (q \div 4) .. 2 * q - 1]

ASSUME OperandAssumption ==
    \A q \in Prime : Operand1(q) \subseteq Lazy(q) /\ Operand2(q) \subseteq Lazy(q)

VARIABLES
    kernel,                 \* the kernel that is called next
    parameter,              \* CKKSDerivedParameters of the modulus
    operand1, operand2,     \* the operands, as they came
    product, transform,     \* their transforms; the first becomes the product
    log_coeff_index         \* the transforms' loop counter

productVars == <<kernel, parameter, operand1, operand2, product, transform,
                 log_coeff_index>>

StartProduct ==
    /\ kernel = "mont_enter"
    /\ \E q \in Prime :
         /\ parameter = CKKSDerivedParameters(q)
         /\ operand1 \in Operand1(q) /\ operand2 \in Operand2(q)
    /\ product = operand1 /\ transform = operand2
    /\ log_coeff_index = 0

mont_enter(z) ==
    [i \in Coeff |->
       mont_mult_scalar(z[i], parameter.r_squared, parameter.q, parameter.k)]

MontEnter ==
    /\ kernel = "mont_enter"
    /\ product' = mont_enter(operand1) /\ transform' = mont_enter(operand2)
    /\ log_coeff_index' = 0
    /\ kernel' = "ntt"
    /\ UNCHANGED <<parameter, operand1, operand2>>

NttStage ==
    /\ kernel = "ntt"
    /\ log_coeff_index < LogN
    /\ product' = ntt_stage(product, log_coeff_index, parameter)
    /\ transform' = ntt_stage(transform, log_coeff_index, parameter)
    /\ log_coeff_index' = log_coeff_index + 1
    /\ UNCHANGED <<kernel, parameter, operand1, operand2>>

MontMult ==
    /\ kernel = "ntt"
    /\ log_coeff_index = LogN
    /\ product' = [i \in Coeff |-> mont_mult_scalar(product[i], transform[i],
                                                    parameter.q, parameter.k)]
    /\ kernel' = "intt"
    /\ UNCHANGED <<parameter, operand1, operand2, transform, log_coeff_index>>

InttStage ==
    /\ kernel = "intt"
    /\ log_coeff_index > 0
    /\ product' = intt_stage(product, log_coeff_index - 1, parameter)
    /\ log_coeff_index' = log_coeff_index - 1
    /\ UNCHANGED <<kernel, parameter, operand1, operand2, transform>>

(* Variant: without the factor 1 / N. *)
MontExitOnly ==
    /\ kernel = "intt"
    /\ log_coeff_index = 0
    /\ product' = [i \in Coeff |->
                     mont_exit_scalar(product[i], parameter.q, parameter.k)]
    /\ kernel' = "done"
    /\ UNCHANGED <<parameter, operand1, operand2, transform, log_coeff_index>>

MontEnterExit ==
    /\ kernel = "intt"
    /\ log_coeff_index = 0
    /\ product' = [i \in Coeff |->
                     mont_enter_exit(product[i], parameter.coeff_count_inverse,
                                     parameter.q, parameter.k)]
    /\ kernel' = "done"
    /\ UNCHANGED <<parameter, operand1, operand2, transform, log_coeff_index>>

ProductStep == MontEnter \/ NttStage \/ MontMult \/ InttStage \/ MontEnterExit

ProductSpec == StartProduct /\ [][ProductStep]_productVars

-----------------------------------------------------------------------------
(***************************************************************************)
(* The kernels of the transforms return lazily reduced values, below 2q,   *)
(* and the last one returns at most q: not a reduced residue, the callers  *)
(* rely on nothing smaller.  An operand may be negative: what its values   *)
(* are off by doubles with the butterflies, but stays a fraction of q, and *)
(* the last kernel makes it good.                                          *)
(***************************************************************************)
Nonnegative == \A i \in Coeff : operand1[i] >= 0 /\ operand2[i] >= 0

ProductTypeOK ==
    LET q == parameter.q
        slack == IF Nonnegative THEN 0 ELSE q \div 8
        transformed == [Coeff -> - slack .. 2 * q - 1 + slack]
    IN  /\ kernel \in {"mont_enter", "ntt", "intt", "done"}
        /\ log_coeff_index \in 0 .. LogN
        /\ kernel = "ntt" => product \in transformed
        /\ kernel \in {"ntt", "intt"} => transform \in transformed
        /\ kernel = "intt" => product \in [Coeff -> - (2 * slack) .. 2 * q - 1]
        /\ kernel = "done" => product \in [Coeff -> 0 .. q]

(***************************************************************************)
(* Slot i of the transform is the Montgomery form of the polynomial's      *)
(* value at the root with exponent 2 rev(i) + 1, rev reversing the bits of *)
(* i.  Rotations and conjugation of texts in NTT form permute slots by     *)
(* this order.                                                             *)
(***************************************************************************)
Value(z, r, q) ==
    Total([i \in Coeff |-> (z[i] % q) * modulus_power(r, i, q)], N)

SlotRoot(i, q) ==
    modulus_power(find_root(q), 2 * reverse_integer_bits(i, LogN) + 1, q)

EvaluatesAtRoots ==
    (kernel = "ntt" /\ log_coeff_index = LogN) =>
      \A i \in Coeff :
        LET q == parameter.q
        IN  /\ (product[i] - R * Value(operand1, SlotRoot(i, q), q)) % q = 0
            /\ (transform[i] - R * Value(operand2, SlotRoot(i, q), q)) % q = 0

(***************************************************************************)
(* The result is the product of the operands modulo X^N + 1 and q.         *)
(***************************************************************************)
ProductCorrect ==
    kernel = "done" =>
      \A i \in Coeff :
        (product[i] - NegacyclicProduct(operand1, operand2)[i])
          % parameter.q = 0
=============================================================================
