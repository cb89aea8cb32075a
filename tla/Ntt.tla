-------------------------------- MODULE Ntt --------------------------------
(***************************************************************************)
(* The number theoretic transform of one chain: operation/ntt.cpp, with    *)
(* the tables of ckks/derived_parameters.cpp.  Coefficients are lazily     *)
(* reduced: every butterfly returns values below 2q, in Montgomery form.   *)
(***************************************************************************)
EXTENDS Montgomery, Sequences

CONSTANT LogN      \* log_coeff_count

ASSUME LogNAssumption == LogN \in Nat

N == 2 ^ LogN      \* coeff_count

Coeff == 0 .. N - 1

-----------------------------------------------------------------------------
(* term[0] + ... + term[count - 1] *)
Total(term, count) ==
    LET sum[i \in 0 .. count] ==
          IF i = 0 THEN 0 ELSE sum[i - 1] + term[i - 1]
    IN  sum[count]

modulus_power(x, n, q) ==
    LET power[i \in 0 .. n] ==
          IF i = 0 THEN 1 ELSE modulus_multiply(power[i - 1], x, q)
    IN  power[n]

(***************************************************************************)
(* What find_root and modulus_invert rely on, in the words of the theory   *)
(* of primes: all residues but zero have inverses, the exponent q - 1      *)
(* makes them 1, and not every residue is a square.  R is a power of two.  *)
(***************************************************************************)
Suitable(q) ==
    /\ q \in Nat \ {0, 1}
    /\ 4 * q < R /\ q % (2 * N) = 1
    /\ R % q # 0
    /\ \A z \in 1 .. q - 1 : \E y \in 1 .. q - 1 : (z * y) % q = 1
    /\ \A z \in 1 .. q - 1 : modulus_power(z, q - 1, q) = 1
    /\ \E z \in 2 .. q - 1 : modulus_power(z, (q - 1) \div 2, q) # 1

(* A primitive 2N-th root of unity: the first candidate whose N-th power   *)
(* is not 1.                                                               *)
find_root(q) ==
    LET candidate(x) == modulus_power(x, (q - 1) \div (2 * N), q)
        good(x) == modulus_power(candidate(x), N, q) # 1
    IN  candidate(CHOOSE x \in 2 .. q - 1 :
                    good(x) /\ \A z \in 2 .. x - 1 : ~good(z))

(* The bits of i, of which there are "bits", in reverse. *)
reverse_integer_bits(i, bits) ==
    Total([b \in 0 .. bits - 1 |-> ((i \div 2 ^ b) % 2) * 2 ^ (bits - 1 - b)],
          bits)

-----------------------------------------------------------------------------
(***************************************************************************)
(* The parameters of one modulus.  root_ holds the powers of the root in   *)
(* bit-reversed order without the first one; root_inverse_ holds those of  *)
(* its inverse stage by stage, in the order in which intt consumes them.   *)
(***************************************************************************)
get_backward_paint ==
    LET stage(log) == [i \in 1 .. 2 ^ log |-> 2 ^ log + i - 1]
        paint[log \in -1 .. LogN - 1] ==
          IF log = -1 THEN <<>> ELSE stage(log) \o paint[log - 1]
    IN  paint[LogN - 1]

CKKSDerivedParameters(q) ==
    LET k == calculate_k(q)
        root == find_root(q)
        root_inverse == modulus_invert(root, q)
        entered(x) == mont_mult_scalar(x, r_squared(q), q, k)
        shuffled(x, i) ==
          entered(modulus_power(x, reverse_integer_bits(i, LogN), q))
        paint == get_backward_paint
    IN  [q |-> q,
         k |-> k,
         r_squared |-> r_squared(q),
         coeff_count_inverse |->
           modulus_multiply(modulus_invert(N, q), R, q),
         root |-> [i \in 0 .. N - 2 |-> shuffled(root, i + 1)],
         root_inverse |->
           [i \in 0 .. N - 2 |-> shuffled(root_inverse, paint[i + 1])]]

-----------------------------------------------------------------------------
(***************************************************************************)
(* One stage: 2^log blocks of butterflies between coefficients that lie    *)
(* jump_size apart; block b uses root[first + b].                          *)
(***************************************************************************)
JumpSize(log) == 2 ^ (LogN - 1 - log)

Block(i, log) == i \div (2 * JumpSize(log))

Upper(i, log) == i % (2 * JumpSize(log)) < JumpSize(log)

(* Variant: sums are not reduced. *)
ntt_stage_unguarded(y, log, d) ==
    LET jump == JumpSize(log)
        root(i) == d.root[2 ^ log - 1 + Block(i, log)]
        product(i) == mont_mult_scalar(root(i), y[i], d.q, d.k)
    IN  [i \in Coeff |->
           IF Upper(i, log) THEN y[i] + product(i + jump)
                            ELSE y[i - jump] + 2 * d.q - product(i)]

(* Variant: all blocks use the root of the first one. *)
ntt_stage_one_root(y, log, d) ==
    LET jump == JumpSize(log)
        product(i) == mont_mult_scalar(d.root[2 ^ log - 1], y[i], d.q, d.k)
    IN  [i \in Coeff |->
           IF Upper(i, log)
             THEN guard(y[i] + product(i + jump), 2 * d.q)
             ELSE guard(y[i - jump] + 2 * d.q - product(i), 2 * d.q)]

ntt_stage(y, log, d) ==
    LET jump == JumpSize(log)
        root(i) == d.root[2 ^ log - 1 + Block(i, log)]
        product(i) == mont_mult_scalar(root(i), y[i], d.q, d.k)
    IN  [i \in Coeff |->
           IF Upper(i, log)
             THEN guard(y[i] + product(i + jump), 2 * d.q)
             ELSE guard(y[i - jump] + 2 * d.q - product(i), 2 * d.q)]

intt_stage(y, log, d) ==
    LET jump == JumpSize(log)
        first == N - 2 ^ (log + 1)
        root(i) == d.root_inverse[first + Block(i, log)]
    IN  [i \in Coeff |->
           IF Upper(i, log)
             THEN guard(y[i] + y[i + jump], 2 * d.q)
             ELSE mont_mult_scalar(root(i),
                    guard(y[i - jump] + 2 * d.q - y[i], 2 * d.q), d.q, d.k)]

(* From the widest jump to the narrowest, and back. *)
ntt(x, d) ==
    LET after[log \in -1 .. LogN - 1] ==
          IF log = -1 THEN x ELSE ntt_stage(after[log - 1], log, d)
    IN  after[LogN - 1]

intt(x, d) ==
    LET after[log \in 0 .. LogN] ==
          IF log = LogN THEN x ELSE intt_stage(after[log + 1], log, d)
    IN  after[0]

-----------------------------------------------------------------------------
(* Between coefficients and Montgomery values (to_ntt_, to_intt_). *)
to_ntt(x, d) ==
    ntt([i \in Coeff |-> mont_mult_scalar(x[i], d.r_squared, d.q, d.k)], d)

to_intt(x, d) ==
    LET y == intt(x, d)
    IN  [i \in Coeff |->
           mont_enter_exit(y[i], d.coeff_count_inverse, d.q, d.k)]

(* The product in Z[X] / (X^N + 1), by its definition. *)
NegacyclicProduct(x, y) ==
    [i \in Coeff |->
       Total([j \in Coeff |-> IF j =< i THEN x[j] * y[i - j]
                                        ELSE - (x[j] * y[i - j + N])], N)]
=============================================================================
