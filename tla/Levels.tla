------------------------------- MODULE Levels -------------------------------
(***************************************************************************)
(* The moduli of the levels: level moduli_id has the moduli from index     *)
(* moduli_id on, and a text of that level is an integer modulo their       *)
(* product, q_product_ in parameter/decode.cpp.                            *)
(***************************************************************************)
EXTENDS Integers, Sequences

CONSTANT Moduli       \* q_ without the special primes

ChainCount == Len(Moduli)

product_of_last[count \in 0 .. ChainCount] ==
    IF count = 0 THEN 1
    ELSE product_of_last[count - 1] * Moduli[ChainCount + 1 - count]

Modulus(m) == product_of_last[ChainCount - m]
=============================================================================
