---------------------------- MODULE MCKeySwitch ----------------------------
(* Small moduli for KeySwitch.  All are 1 modulo 2N, and the product of    *)
(* the special ones exceeds that of every partition.                       *)
EXTENDS KeySwitch

(* N = 2, three special primes: the partitions are {5} and {29, 17, 37},   *)
(* one level down {29, 17, 37}, then {17, 37}, then {37}.                  *)
ModuliOfThree == <<5, 29, 17, 37, 41, 53, 61>>

SecretsOfTwo == {<<1, -1>>, <<0, 1>>}

ErrorsOfTwo == {<<1, -1>>, <<-2, 0>>}

MessagesOfTwo == {<<345, 77>>, <<0, 1234>>}

(* N = 4, one special prime: every partition is a single chain. *)
ModuliOfOne == <<41, 17, 73, 97>>

SecretsOfFour == {<<1, -1, 0, 1>>, <<0, 1, 0, 0>>}

ErrorsOfFour == {<<1, 0, -1, 0>>}

MessagesOfFour == {<<345, 77, 0, 901>>, <<0, 0, 40000, 0>>}

(* Polynomials count their coefficients from zero. *)
Polynomial(coeffs) == [i \in 0 .. Len(coeffs) - 1 |-> coeffs[i + 1]]

Polynomials(S) == {Polynomial(coeffs) : coeffs \in S}

MCSecretOfTwo == Polynomials(SecretsOfTwo)
MCErrorOfTwo == Polynomials(ErrorsOfTwo)
MCMessageOfTwo == Polynomials(MessagesOfTwo)

MCSecretOfFour == Polynomials(SecretsOfFour)
MCErrorOfFour == Polynomials(ErrorsOfFour)
MCMessageOfFour == Polynomials(MessagesOfFour)
=============================================================================
