----------------------------- MODULE KeySwitch -----------------------------
(***************************************************************************)
(* Key switching: ckks/core_key_switch.cpp with the key generation of      *)
(* ckks/core_key.cpp, the partitions of ckks/parameters.cpp and the tables *)
(* of ckks/precomputed.cpp.                                                *)
(*                                                                         *)
(* A ciphertext <<b, a>> under one secret key becomes a ciphertext under   *)
(* another.  Its second polynomial is cut into partitions of the moduli,   *)
(* each lifted to all moduli (mod_up), multiplied with its part of the     *)
(* key, and the sum is divided by the special primes (mod_down).  This is  *)
(* what relinearize, rotate, conjugate and switch_key have in common.      *)
(*                                                                         *)
(* A polynomial is a function on Coeff, a residue polynomial a sequence of *)
(* those on chain indices, which count from zero as in the source.         *)
(***************************************************************************)
EXTENDS Ntt

CONSTANTS
    AllModuli,           \* q_: the ciphertext moduli, then the special ones
    SpecialPrimeCount,   \* special_prime_count_
    Secret,              \* secret polynomials that keys are made for
    Error,               \* error polynomials the sampler may return
    UniformSeed,         \* choices of the uniform sampler, see Uniform
    TextPolynomial       \* integer polynomials given to the key switch

TopChainCount == Len(AllModuli) - SpecialPrimeCount

(***************************************************************************)
(* Primes, which differ from each other, and 1 modulo 2N.                  *)
(***************************************************************************)
ASSUME AllModuliAssumption ==
    /\ AllModuli \in Seq(Nat \ {0, 1})
    /\ TopChainCount >= 1
    /\ \A i \in DOMAIN AllModuli :
         /\ Suitable(AllModuli[i])
         /\ \A j \in DOMAIN AllModuli \ {i} : AllModuli[j] % AllModuli[i] # 0

(* CKKSConfig::validate refuses more than 16 special primes. *)
ASSUME SpecialPrimeAssumption == SpecialPrimeCount \in 1 .. 16

ASSUME TextPolynomialAssumption == TextPolynomial \subseteq [Coeff -> Int]

(***************************************************************************)
(* Secrets are ternary, the square of one has coefficients up to N, and    *)
(* errors are tens at most: all are small against the moduli.              *)
(***************************************************************************)
Small(poly) ==
    \A i \in DOMAIN AllModuli :
      poly \in [Coeff -> - AllModuli[i] .. AllModuli[i]]

ASSUME SamplerAssumption ==
    /\ \A poly \in Secret \cup Error : Small(poly)
    /\ UniformSeed \subseteq Nat

VARIABLES
    pc,           \* the function that is called next
    secrets,      \* the secret keys, from and to, as integer polynomials
    key,          \* the key switching key: its moduli id and polynomials
    mode,         \* "rotate" decomposes first, "switch" goes part by part
    level,        \* moduli id of the ciphertext
    ciphertext,   \* its two polynomials
    index,        \* loop counter: the partition, or the special prime
    mrs,          \* mrs_polynomial
    extended,     \* the lifted partitions
    x,            \* the two polynomials x0, x1 over all moduli
    y             \* the two polynomials of the result

switchVars == <<pc, secrets, key, mode, level, ciphertext, index, mrs,
                extended, x, y>>

-----------------------------------------------------------------------------
(* The moduli and their parameters, by moduli id and chain index. *)
Derived == [q \in {AllModuli[i] : i \in DOMAIN AllModuli} |->
              CKKSDerivedParameters(q)]

get_modulus(m, chain) == AllModuli[m + chain + 1]

Parameter(m, chain) == Derived[get_modulus(m, chain)]

get_chain_count(m) == TopChainCount - m

get_prime_count(m) == TopChainCount - m + SpecialPrimeCount

TextChains(m) == 0 .. get_chain_count(m) - 1

Primes(m) == 0 .. get_prime_count(m) - 1

(* R times the product of the special primes. *)
p_product_mult_r(m, chain) ==
    LET q == get_modulus(m, chain)
        product[n \in 0 .. SpecialPrimeCount] ==
          IF n = 0 THEN R
                   ELSE modulus_multiply(product[n - 1],
                          get_modulus(m, get_chain_count(m) + n - 1), q)
    IN  product[SpecialPrimeCount]

p_inverse_mult_r(m, special, chain) ==
    LET q == get_modulus(m, chain)
    IN  modulus_multiply(modulus_invert(get_modulus(m, special) % q, q), R, q)

-----------------------------------------------------------------------------
(***************************************************************************)
(* Partitions: groups of special_prime_count_ chains, aligned at the last  *)
(* chain, so that the first group is short unless the counts match.  The   *)
(* index is that of the same chains among the partitions of the key.       *)
(***************************************************************************)
get_partition_count(m) ==
    (get_chain_count(m) + SpecialPrimeCount - 1) \div SpecialPrimeCount

(* Variant: aligned at the first chain. *)
get_partitions_from_first(m, key_m) ==
    LET count == get_partition_count(m)
    IN  [i \in 0 .. count - 1 |->
           [start |-> i * SpecialPrimeCount,
            stop |-> IF (i + 1) * SpecialPrimeCount > get_chain_count(m)
                       THEN get_chain_count(m)
                       ELSE (i + 1) * SpecialPrimeCount,
            partition_index |-> i]]

get_partitions(m, key_m) ==
    LET count == get_partition_count(m)
        start(i) == get_chain_count(m) - (count - i) * SpecialPrimeCount
    IN  [i \in 0 .. count - 1 |->
           [start |-> IF start(i) < 0 THEN 0 ELSE start(i),
            stop |-> start(i) + SpecialPrimeCount,
            partition_index |-> get_partition_count(key_m) - count + i]]

Size(partition) == partition.stop - partition.start

(* The product of the first t moduli of a partition: the weight of digit t. *)
q_product(partition, m, t) ==
    LET product[n \in 0 .. t] ==
          IF n = 0
            THEN 1
            ELSE product[n - 1] * get_modulus(m, partition.start + n - 1)
    IN  product[t]

(***************************************************************************)
(* rns_to_mrs: the digits of the ciphertext in the mixed radix of the      *)
(* partition's moduli.  Digit 0 is the first residue; digit t starts as    *)
(* that residue, unreduced, and collects the lower digits times their      *)
(* weights until its own turn comes.                                       *)
(***************************************************************************)
mrs_digit(residues, digits, partition, m, t) ==
    LET q == get_modulus(m, partition.start + t)
        k == Parameter(m, partition.start + t).k
        weight == q_product(partition, m, t) % q
        q_product_inverse_mult_r ==
            modulus_multiply(modulus_invert(weight, q), R, q)
    IN  [i \in Coeff |->
           mont_sub_enter_reduce_2q_to_q(residues[partition.start + t][i],
             digits[t][i], q_product_inverse_mult_r, q, k)]

add_digit(digits, partition, m, t, j) ==
    LET q == get_modulus(m, partition.start + j)
        k == Parameter(m, partition.start + j).k
        weight == q_product(partition, m, t) % q
    IN  [i \in Coeff |->
           mont_enter_add_reduce_2q_to_q(digits[t][i], digits[j][i],
             modulus_multiply(weight, R, q), q, k)]

(* Variant: the lower digits are not carried into the later ones. *)
rns_to_mrs_no_carry(residues, partition, m) ==
    [t \in 0 .. Size(partition) - 1 |->
       IF t = 0 THEN residues[partition.start]
       ELSE mrs_digit(residues, [j \in 0 .. t |-> residues[partition.start]],
                      partition, m, t)]

rns_to_mrs(residues, partition, m) ==
    LET last == Size(partition) - 1
        after[t \in 0 .. last] ==
          IF t = 0
            THEN [j \in 0 .. last |-> residues[partition.start]]
            ELSE LET before == after[t - 1]
                     digit == mrs_digit(residues, before, partition, m, t)
                     with == [before EXCEPT ![t] = digit]
                 IN  [j \in 0 .. last |->
                        IF j > t THEN add_digit(with, partition, m, t, j)
                                 ELSE with[j]]
    IN  after[last]

(* mod_up: the integer with these digits, modulo every prime. *)
mod_up(digits, partition, m) ==
    [chain \in Primes(m) |->
       LET d == Parameter(m, chain)
           weight(t) == modulus_multiply(
             q_product(partition, m, t) % d.q, d.r_squared, d.q)
           sum(i) ==
             LET upto[t \in 0 .. Size(partition) - 1] ==
                   IF t = 0
                     THEN mont_mult_scalar(digits[0][i], d.r_squared, d.q, d.k)
                     ELSE mont_enter_add(digits[t][i], upto[t - 1], weight(t),
                                         d.q, d.k)
             IN  upto[Size(partition) - 1]
       IN  ntt([i \in Coeff |-> sum(i)], d)]

-----------------------------------------------------------------------------
(***************************************************************************)
(* The key.  Polynomials in it are in NTT form; every secret and error     *)
(* starts as one small polynomial that is copied to all primes.  Each part *)
(* of the key has an error of its own.                                     *)
(***************************************************************************)
tile(poly, m, chain) ==
    to_ntt([i \in Coeff |->
              make_unsigned_reduce_2q_to_q(poly[i], get_modulus(m, chain))],
           Parameter(m, chain))

(* assign_a: stands for independent uniform residues. *)
Uniform(seed, i, q) == (seed * (i + q)) % q

create_key_switching_key(from, to, m, seed, errors) ==
    LET partitions == get_partitions(m, m)
        a == [p \in DOMAIN partitions |-> [chain \in Primes(m) |->
               [i \in Coeff |-> Uniform(seed + p, i, get_modulus(m, chain))]]]
        masked(p, chain) ==
          LET d == Parameter(m, chain)
              t == tile(to, m, chain)
              e == tile(errors[p], m, chain)
          IN  [i \in Coeff |->
                 mont_sub_reduce_2q_to_q(e[i],
                   mont_mult_scalar(a[p][chain][i], t[i], d.q, d.k), d.q)]
        p_mult_secret(chain) ==
          LET d == Parameter(m, chain)
              s == tile(from, m, chain)
          IN  [i \in Coeff |->
                 mont_mult_scalar(s[i], p_product_mult_r(m, chain), d.q, d.k)]
        b == [p \in DOMAIN partitions |-> [chain \in Primes(m) |->
               IF chain \in partitions[p].start .. partitions[p].stop - 1
                 THEN [i \in Coeff |->
                         mont_add_reduce_2q_to_q(p_mult_secret(chain)[i],
                           masked(p, chain)[i], get_modulus(m, chain))]
                 ELSE masked(p, chain)]]
    IN  [moduli_id |-> m, b |-> b, a |-> a]

(* Variant: partitions are counted from the ciphertext's level. *)
KeyViewLocal(polys, partition, m, chain) ==
    polys[index][m - key.moduli_id + chain]

(* The part of the key for one partition, from the ciphertext's level on. *)
KeyView(polys, partition, m, chain) ==
    polys[partition.partition_index][m - key.moduli_id + chain]

-----------------------------------------------------------------------------
SwitchInit ==
    /\ pc = "key"
    /\ secrets = <<>> /\ key = <<>>
    /\ mode = "none" /\ level = 0 /\ ciphertext = <<>>
    /\ index = 0
    /\ mrs = <<>> /\ extended = <<>> /\ x = <<>> /\ y = <<>>

CreateKey(from, to, m, seed, errors) ==
    /\ pc = "key"
    /\ secrets' = <<from, to>>
    /\ key' = create_key_switching_key(from, to, m, seed, errors)
    /\ pc' = "start"
    /\ UNCHANGED <<mode, level, ciphertext, index, mrs, extended, x, y>>

(***************************************************************************)
(* A ciphertext arrives with the residues that the other operations leave: *)
(* rescaling makes values above -q/4, additions values below 2q.           *)
(***************************************************************************)
Residue(q) == - (q \div 4) .. 2 * q - 1

Residues(v, q) == {r \in Residue(q) : r % q = v % q}

Represent(poly, m, high) ==
    [chain \in TextChains(m) |->
       LET q == get_modulus(m, chain)
       IN  [i \in Coeff |->
              CHOOSE r \in Residues(poly[i], q) :
                \A s \in Residues(poly[i], q) :
                  IF high[chain] THEN s =< r ELSE r =< s]]

Start(how, m, b, a, high) ==
    /\ pc = "start"
    /\ key.moduli_id =< m
    /\ mode' = how
    /\ level' = m
    /\ ciphertext' = <<Represent(b, m, high), Represent(a, m, high)>>
    /\ index' = 0
    /\ pc' = "decompose"
    /\ UNCHANGED <<secrets, key, mrs, extended, x, y>>

Partitions == get_partitions(level, key.moduli_id)

More == index + 1 < get_partition_count(level)

RnsToMrs ==
    /\ pc = "decompose"
    /\ ~(mode = "switch" /\ SpecialPrimeCount = 1)
    /\ mrs' = rns_to_mrs(ciphertext[2], Partitions[index], level)
    /\ pc' = "mod_up"
    /\ UNCHANGED <<secrets, key, mode, level, ciphertext, index, extended,
                   x, y>>

WithLift(p, lift) ==
    [n \in DOMAIN extended \cup {p} |-> IF n = p THEN lift ELSE extended[n]]

(* decompose lifts all partitions before the first product is formed. *)
ModUp ==
    /\ pc = "mod_up"
    /\ extended' = WithLift(index, mod_up(mrs, Partitions[index], level))
    /\ IF mode = "switch"
         THEN pc' = "multiply" /\ UNCHANGED index
         ELSE IF More
           THEN pc' = "decompose" /\ index' = index + 1
           ELSE pc' = "multiply" /\ index' = 0
    /\ UNCHANGED <<secrets, key, mode, level, ciphertext, mrs, x, y>>

(* With a single special prime, a partition is one chain: no digits. *)
ModUpSingle ==
    /\ pc = "decompose"
    /\ mode = "switch" /\ SpecialPrimeCount = 1
    /\ LET chain == Partitions[index].start
       IN  extended' = WithLift(index,
             mod_up([t \in {0} |-> ciphertext[2][chain]],
                    Partitions[index], level))
    /\ pc' = "multiply"
    /\ UNCHANGED <<secrets, key, mode, level, ciphertext, index, mrs, x,
                   y>>

(* Variant: the sum is not reduced. *)
MultiplyAddUnguarded(sum, polys) ==
    [chain \in Primes(level) |->
       LET d == Parameter(level, chain)
           part == KeyView(polys, Partitions[index], level, chain)
           product(i) ==
             mont_mult_scalar(extended[index][chain][i], part[i], d.q, d.k)
       IN  [i \in Coeff |->
              product(i) + (IF index = 0 THEN 0 ELSE sum[chain][i])]]

(* The product of one partition with one polynomial of the key, added up. *)
MultiplyAdd(sum, polys) ==
    [chain \in Primes(level) |->
       LET d == Parameter(level, chain)
           part == KeyView(polys, Partitions[index], level, chain)
           product(i) ==
             mont_mult_scalar(extended[index][chain][i], part[i], d.q, d.k)
       IN  [i \in Coeff |->
              IF index = 0
                THEN product(i)
                ELSE guard(guard(product(i) + sum[chain][i], 2 * d.q), d.q)]]

MultiplyKeys ==
    /\ pc = "multiply"
    /\ LET sums == IF index = 0 THEN <<<<>>, <<>>>> ELSE x
       IN  x' = <<MultiplyAdd(sums[1], key.b), MultiplyAdd(sums[2], key.a)>>
    /\ IF More
         THEN /\ index' = index + 1
              /\ pc' = IF mode = "switch" THEN "decompose" ELSE "multiply"
         ELSE /\ index' = 0
              /\ pc' = IF mode = "switch" THEN "mod_down" ELSE "add_b"
    /\ UNCHANGED <<secrets, key, mode, level, ciphertext, mrs, extended,
                   y>>

(* create_key_switcher_for_rotate: adds the first polynomial, times P. *)
AddFirst ==
    /\ pc = "add_b"
    /\ LET scaled(chain) ==
             LET d == Parameter(level, chain)
             IN  to_ntt([i \in Coeff |->
                          mont_mult_scalar(ciphertext[1][chain][i],
                            p_product_mult_r(level, chain), d.q, d.k)], d)
       IN  x' = [x EXCEPT ![1] = [chain \in Primes(level) |->
             IF chain \in TextChains(level)
               THEN [i \in Coeff |->
                       mont_add_reduce_2q_to_q(@[chain][i], scaled(chain)[i],
                                               get_modulus(level, chain))]
               ELSE @[chain]]]
    /\ pc' = "mod_down"
    /\ UNCHANGED <<secrets, key, mode, level, ciphertext, index, mrs,
                   extended, y>>

(***************************************************************************)
(* mod_down, of both polynomials: back to coefficients, then the special   *)
(* primes are divided out from the last to the first, and the rest is made *)
(* unsigned.                                                               *)
(***************************************************************************)
ToIntt ==
    /\ pc = "mod_down"
    /\ x' = [n \in 1 .. 2 |-> [chain \in Primes(level) |->
              LET d == Parameter(level, chain)
                  coeffs == to_intt(x[n][chain], d)
              IN  [i \in Coeff |-> guard(coeffs[i], d.q)]]]
    /\ pc' = "special"
    /\ UNCHANGED <<secrets, key, mode, level, ciphertext, index, mrs,
                   extended, y>>

DivideSpecial ==
    /\ pc = "special"
    /\ LET last == get_prime_count(level) - 1 - index
           divided(n, chain) ==
             LET d == Parameter(level, chain)
             IN  [i \in Coeff |->
                    mont_sub_enter(x[n][chain][i], x[n][last][i],
                      p_inverse_mult_r(level, last, chain), d.q, d.k)]
       IN  x' = [n \in 1 .. 2 |-> [chain \in 0 .. last - 1 |->
                   divided(n, chain)]]
    /\ IF index + 1 < SpecialPrimeCount
         THEN pc' = "special" /\ index' = index + 1
         ELSE pc' = "unsigned" /\ index' = 0
    /\ UNCHANGED <<secrets, key, mode, level, ciphertext, mrs, extended,
                   y>>

MakeUnsigned ==
    /\ pc = "unsigned"
    /\ y' = [n \in 1 .. 2 |-> [chain \in TextChains(level) |->
              [i \in Coeff |-> make_unsigned_reduce_2q_to_q(x[n][chain][i],
                                 get_modulus(level, chain))]]]
    /\ pc' = IF mode = "switch" THEN "add" ELSE "done"
    /\ UNCHANGED <<secrets, key, mode, level, ciphertext, index, mrs,
                   extended, x>>

(* switch_key adds the first polynomial at the end. *)
AddToFirst ==
    /\ pc = "add"
    /\ y' = [y EXCEPT ![1] = [chain \in TextChains(level) |->
              [i \in Coeff |->
                 mont_add_reduce_2q_to_q(@[chain][i], ciphertext[1][chain][i],
                                         get_modulus(level, chain))]]]
    /\ pc' = "done"
    /\ UNCHANGED <<secrets, key, mode, level, ciphertext, index, mrs,
                   extended, x>>

(* The temporaries are released, the result belongs to the caller. *)
Return ==
    /\ pc = "done"
    /\ pc' = "start"
    /\ mode' = "none" /\ level' = 0 /\ ciphertext' = <<>>
    /\ mrs' = <<>> /\ extended' = <<>> /\ x' = <<>> /\ y' = <<>>
    /\ UNCHANGED <<secrets, key, index>>

SwitchNext ==
    \/ \E from, to \in Secret, m \in 0 .. TopChainCount - 1,
          seed \in UniformSeed :
          \E errors \in [0 .. get_partition_count(m) - 1 -> Error] :
             CreateKey(from, to, m, seed, errors)
    \/ \E how \in {"rotate", "switch"}, m \in 0 .. TopChainCount - 1 :
          \E b, a \in TextPolynomial, high \in [TextChains(m) -> BOOLEAN] :
             Start(how, m, b, a, high)
    \/ RnsToMrs \/ ModUp \/ ModUpSingle \/ MultiplyKeys \/ AddFirst
    \/ ToIntt \/ DivideSpecial \/ MakeUnsigned \/ AddToFirst \/ Return

SwitchSpec == SwitchInit /\ [][SwitchNext]_switchVars

-----------------------------------------------------------------------------
(***************************************************************************)
(* What a step finds in memory has the range its kernels rely on, and the  *)
(* result may be the operand of the next operation.  Values may be         *)
(* negative: lifting starts from residues above -q/4, and dividing by a    *)
(* special prime subtracts residues of a larger modulus.  No conditional   *)
(* subtraction corrects that before MakeUnsigned.                          *)
(***************************************************************************)
Divided(q) == [Coeff -> 1 - q .. 2 * q - 1]

SwitchTypeOK ==
    /\ pc \in {"key", "start", "decompose", "mod_up", "multiply", "add_b",
               "mod_down", "special", "unsigned", "add", "done"}
    /\ level \in 0 .. TopChainCount - 1
    /\ \A n \in DOMAIN ciphertext, chain \in TextChains(level) :
         ciphertext[n][chain] \in [Coeff -> Residue(get_modulus(level, chain))]
    /\ \A p \in DOMAIN extended, chain \in Primes(level) :
         extended[p][chain] \in Divided(get_modulus(level, chain))
    /\ \A n \in DOMAIN x : \A chain \in DOMAIN x[n] :
         x[n][chain] \in Divided(get_modulus(level, chain))
    /\ \A n \in DOMAIN y, chain \in TextChains(level) :
         y[n][chain] \in [Coeff -> Residue(get_modulus(level, chain))]

(***************************************************************************)
(* rns_to_mrs: the digits of a partition are those of one integer that has *)
(* the residues of the ciphertext, and the size of this integer is at most *)
(* the product of the partition's moduli plus the first modulus: the noise *)
(* of the key switch grows with it.  The integer may be negative, because  *)
(* a digit is when a larger residue of another modulus is subtracted.      *)
(***************************************************************************)
DigitsRepresent ==
    pc = "mod_up" =>
      LET partition == Partitions[index]
          weight(t) == q_product(partition, level, t)
          value(i) == Total([t \in 0 .. Size(partition) - 1 |->
                               mrs[t][i] * weight(t)], Size(partition))
          product == weight(Size(partition))
          first == get_modulus(level, partition.start)
      IN  \A i \in Coeff :
            /\ value(i) \in - product .. product + first - 1
            /\ \A chain \in partition.start .. partition.stop - 1 :
                 (value(i) - ciphertext[2][chain][i])
                   % get_modulus(level, chain) = 0

(***************************************************************************)
(* create_key_switcher: the part of the key a partition is multiplied with *)
(* exists, covers every modulus of the ciphertext, and holds the secret    *)
(* times the special primes in exactly the chains of that partition: at    *)
(* every level the key covers, although the partitions of a lower level    *)
(* are fewer and the first one is short.                                   *)
(***************************************************************************)
PartsMeet ==
    pc \in {"decompose", "mod_up", "multiply"} =>
      LET part == Partitions[index]
          key_part == get_partitions(key.moduli_id, key.moduli_id)
                        [part.partition_index]
          offset == level - key.moduli_id
      IN  /\ part.partition_index \in DOMAIN key.b \cap DOMAIN key.a
          /\ \A chain \in Primes(level) :
               /\ offset + chain \in Primes(key.moduli_id)
               /\ chain \in part.start .. part.stop - 1
                    <=> offset + chain
                          \in key_part.start .. key_part.stop - 1

(***************************************************************************)
(* The result decrypts under the second secret to what the ciphertext      *)
(* decrypts to under the first one, up to the rounding of the division by  *)
(* the special primes: less than 1 in b and in each coefficient of a,      *)
(* which decryption multiplies with a secret whose coefficients are at     *)
(* most 1.  It does so at every level the key covers, whichever of the     *)
(* possible representatives the ciphertext stores, and with all residues   *)
(* agreeing on one and the same rounding error.                            *)
(***************************************************************************)
NoiseBound == N + 1

Phase(b, a, s) ==
    LET product == NegacyclicProduct(a, s)
    IN  [i \in Coeff |-> b[i] + product[i]]

PhaseOf(text, s, chain) == Phase(text[1][chain], text[2][chain], s)

KeySwitchCorrect ==
    pc = "done" =>
      \A i \in Coeff : \E error \in - NoiseBound .. NoiseBound :
        \A chain \in TextChains(level) :
          (PhaseOf(y, secrets[2], chain)[i]
             - PhaseOf(ciphertext, secrets[1], chain)[i] - error)
            % get_modulus(level, chain) = 0
=============================================================================
