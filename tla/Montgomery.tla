----------------------------- MODULE Montgomery -----------------------------
(***************************************************************************)
(* The scalar kernels of the residue arithmetic: montgomery/unit.h,        *)
(* montgomery/unit.cpp, montgomery/compound.cpp, and the constants they    *)
(* are called with (arithmetic/arithmetic.cpp).                            *)
(*                                                                         *)
(* The source applies each of them to every coefficient of a chain.  R is  *)
(* 2^nbits there: an int64_t holds four times as many values, a uint128_t  *)
(* sixteen times as many as R * R.  Residues are kept lazily reduced: most *)
(* kernels return a value below 2q, and some a negative one.               *)
(***************************************************************************)
EXTENDS Integers

CONSTANT R

ASSUME RAssumption == R \in Nat \ {0}

(***************************************************************************)
(* Machine integers.  Conversions to uint128_t sign-extend, so that a      *)
(* negative operand wraps around; the result is cut to an int64_t.         *)
(***************************************************************************)
Word == 4 * R

Wide == Word * Word

Int64(v) == IF v % Word < 2 * R THEN v % Word ELSE (v % Word) - Word

-----------------------------------------------------------------------------
(* modulus_invert: 0 if there is no inverse. *)
modulus_invert(x, q) ==
    LET inverses == {y \in 0 .. q - 1 : (x * y) % q = 1}
    IN  IF inverses = {} THEN 0 ELSE CHOOSE y \in inverses : TRUE

(* The remainder has the sign of the product. *)
modulus_multiply(x1, x2, q) ==
    IF x1 * x2 < 0 THEN - ((- (x1 * x2)) % q) ELSE (x1 * x2) % q

(* R R^-1 - 1 = k q *)
calculate_k(q) == (R * modulus_invert(R, q) - 1) \div q

r_squared(q) == modulus_multiply(R, R, q)

-----------------------------------------------------------------------------
(* One conditional subtraction; nothing happens to a negative value. *)
guard(x, q) == IF x < q THEN x ELSE x - q

(* The exact quotient (x + s q) / R, where s makes the sum divisible. *)
reduce(x, q, k) ==
    LET s == ((x % R) * k) % R
    IN  Int64(((x + s * q) % Wide) \div R)

mont_mult_scalar(x1, x2, q, k) == reduce((x1 * x2) % Wide, q, k)

mont_exit_scalar(x, q, k) == reduce(x % Wide, q, k)

mont_add(x1, x2, q) == guard(x1 + x2, 2 * q)

mont_subtract(x1, x2, q) ==
    IF x1 - x2 >= 0 THEN x1 - x2 ELSE x1 - x2 + 2 * q

(* The comparisons with q_half are unsigned: negative values are large. *)
Unsigned(x) == x % Word

make_signed(x, q) == IF Unsigned(x) =< q \div 2 THEN x ELSE x - q

get_rounder(x, q) == IF Unsigned(x) > q \div 2 THEN 1 ELSE 0

-----------------------------------------------------------------------------
mont_enter_add(x, y, c, q, k) ==
    guard(mont_mult_scalar(x, c, q, k) + y, 2 * q)

mont_enter_add_reduce_2q_to_q(x, y, c, q, k) ==
    guard(mont_enter_add(x, y, c, q, k), q)

mont_sub_enter(x1, x2, c, q, k) ==
    mont_mult_scalar(guard(x1 + 2 * q - x2, 2 * q), c, q, k)

mont_sub_enter_reduce_2q_to_q(x1, x2, c, q, k) ==
    guard(mont_sub_enter(x1, x2, c, q, k), q)

mont_enter_exit(x, c, q, k) ==
    mont_exit_scalar(mont_mult_scalar(x, c, q, k), q, k)

mont_add_reduce_2q_to_q(x1, x2, q) == guard(guard(x1 + x2, 2 * q), q)

mont_sub_reduce_2q_to_q(x1, x2, q) ==
    guard(guard(x1 + 2 * q - x2, 2 * q), q)

make_unsigned_reduce_2q_to_q(x, q) == IF x < 0 THEN x + q ELSE guard(x, q)

negate_make_unsigned(x, q) == q - x
=============================================================================
