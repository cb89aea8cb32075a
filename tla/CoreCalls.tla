----------------------------- MODULE CoreCalls -----------------------------
(***************************************************************************)
(* The calls that CKKSCore makes of its processor: of each method with     *)
(* operands that are all different polynomials, and, function by function, *)
(* those in which a polynomial is both read and written, or read twice.    *)
(*                                                                         *)
(* In a function "y" is the polynomial that a call writes, "x" and "z" are *)
(* others.  Nothing keeps a method from overwriting what it has still to   *)
(* read; that no call below does is up to the offsets and the numbers of   *)
(* chains that the core computes.                                          *)
(*                                                                         *)
(* Left out: the branches for flexible chains, which no engine reaches.    *)
(***************************************************************************)
EXTENDS ProcessorMethods

CONSTANTS
    TextChainCount,      \* chains of a text at the highest level
    SpecialPrimeCount,   \* precomputed_.special_prime_count_
    MaxOffset            \* bound on the offsets of separate operands

ASSUME ChainCountsAssumption ==
    TextChainCount \in Nat \ {0} /\ SpecialPrimeCount \in Nat \ {0}
ASSUME MaxOffsetAssumption == MaxOffset \in Nat

(* The chains of a polynomial, at any level, with or without special ones. *)
ChainCount == 1 .. TextChainCount + SpecialPrimeCount

Invoke(method, x, xOffset, y, yOffset, count) ==
    [method |-> method, x |-> x, xOffset |-> xOffset,
     y |-> y, yOffset |-> yOffset, count |-> count]

(* A call on whole polynomials, for each list of operands and each level. *)
Whole(method, operands) ==
    {Invoke(method, x, [k \in DOMAIN x |-> 0], "y", 0, n) :
        x \in operands, n \in ChainCount}

(* Offsets of an operand; without the parameter it starts at chain 0. *)
OffsetsOf(operand) == 0 .. operand.from * MaxOffset

(***************************************************************************)
(* Every method, with operands of their own, from any chain on.            *)
(***************************************************************************)
SeparateCalls(method) ==
    LET row == ParallelRow(method)
        reads == DOMAIN row.reads
        starts == {o \in [reads -> 0 .. MaxOffset] :
                     \A k \in reads : o[k] \in OffsetsOf(row.reads[k])}
    IN  {Invoke(method, [k \in reads |-> <<"x", "z">>[k]], start, "y", s, n) :
            start \in starts, s \in OffsetsOf(row.writes), n \in ChainCount}

-----------------------------------------------------------------------------
(* to_ntt_ and to_intt_ of a text, a key or an error in its place. *)
ToNtt == Whole("mont_enter", {<<"y">>}) \union Whole("ntt", {<<"y">>})

ToIntt == Whole("intt", {<<"y">>}) \union Whole("mont_enter_exit", {<<"y">>})

(* rescale_once_: the first chain of x is taken from its other chains. *)
RescaleOnce ==
    {Invoke("sub_tiled", <<"x", "x">>, <<1, 0>>, "y", 0, n) : n \in ChainCount}
      \union Whole("reduce_2q_to_q", {<<"y">>})
      \union Whole("mont_enter", {<<"y">>})
      \union Whole("add_tiled", {<<"y", "z">>})

(***************************************************************************)
(* rns_to_mrs: digit i of y is finished from residue start + i of x, and   *)
(* carried into the digits after it.  A partition is no longer than there  *)
(* are special primes.                                                     *)
(***************************************************************************)
Partition == {p \in [start : 0 .. TextChainCount - 1,
                     size : 1 .. SpecialPrimeCount] :
                p.start + p.size =< TextChainCount}

Digit(p) == 1 .. p.size - 1

FinishDigit(p) ==
    {Invoke("mont_sub_enter_reduce_2q_to_q", <<"x", "y">>,
            <<p.start + i, i>>, "y", i, 1) : i \in Digit(p)}

CarryDigit(p) ==
    {Invoke("mont_enter_tiled_add_reduce_2q_to_q", <<"y">>, <<i>>,
            "y", i + 1, p.size - (i + 1)) : i \in Digit(p) \ {p.size - 1}}

RnsToMrs == UNION {FinishDigit(p) \union CarryDigit(p) : p \in Partition}

(* The sums of create_key_switcher, which its products are added to. *)
KeyProducts == Whole("reduce_2q_to_q", {<<"y">>})

(***************************************************************************)
(* mod_down: chain last, behind those that are left, is taken from them.   *)
(* The count is one less in every round, and is the offset of that chain.  *)
(***************************************************************************)
(* Variant: the chain itself is counted among those that are left. *)
DropChainInside(last) ==
    Invoke("mont_sub_tiled_enter", <<"y", "y">>, <<0, last>>, "y", 0, last + 1)

DropChain(last) ==
    Invoke("mont_sub_tiled_enter", <<"y", "y">>, <<0, last>>, "y", 0, last)

ModDown ==
    {DropChain(last) : last \in 1 .. TextChainCount + SpecialPrimeCount - 1}
      \union Whole("reduce_2q_to_q", {<<"y">>})

-----------------------------------------------------------------------------
(***************************************************************************)
(* create_key_switching_key: the error less the product, in its place,     *)
(* plus the secret in the chains of one partition.                         *)
(***************************************************************************)
SwitchingKey ==
    {Invoke("mont_add_reduce_2q_to_q", <<"x", "y">>, <<p.start, p.start>>,
            "y", p.start, p.size) : p \in Partition}
      \union Whole("mont_sub_reduce_2q_to_q", {<<"x", "y">>})
      \union Whole("mont_mult", {<<"x", "x">>})

(* encrypt and decrypt, of each kind: products and sums in place. *)
Encryption ==
    Whole("mont_add_reduce_2q_to_q", {<<"x", "y">>, <<"y", "x">>})
      \union Whole("mont_sub_reduce_2q_to_q", {<<"x", "y">>})
      \union Whole("mont_mult", {<<"x", "x">>, <<"y", "x">>})
      \union Whole("reduce_2q_to_q", {<<"y">>})

(* Sums and products of texts, in place or of a text and itself. *)
TextSums ==
    Whole("mont_add_reduce_2q_to_q",
          {<<"x", "x">>, <<"y", "x">>, <<"y", "y">>})
      \union Whole("mont_sub_reduce_2q_to_q",
                   {<<"x", "x">>, <<"y", "x">>, <<"y", "y">>})
      \union Whole("mont_mult", {<<"x", "x">>})
      \union Whole("add_scalar", {<<"y">>})
      \union Whole("reduce_2q_to_q", {<<"y">>})
      \union Whole("negate_make_unsigned", {<<"y">>})

(* Rotated and conjugated texts: the sign, and the switched part, in place. *)
Rotation ==
    Whole("make_unsigned_reduce_2q_to_q", {<<"y">>})
      \union Whole("mont_add", {<<"x", "y">>})
      \union Whole("mont_add_reduce_2q_to_q", {<<"x", "y">>})

(* Encoding and decoding: the transforms and the coefficients in place. *)
Codec ==
    Whole("fft", {<<"y">>}) \union Whole("ifft", {<<"y">>})
      \union {Invoke("mont_enter", <<"y">>, <<s>>, "y", s, n) :
                s \in 0 .. 2, n \in ChainCount}
      \union Whole("make_signed", {<<"y">>})
      \union Whole("make_unsigned_reduce_2q_to_q", {<<"y">>})

CoreCall ==
    (UNION {SeparateCalls(method) : method \in Method})
      \union ToNtt \union ToIntt \union RescaleOnce \union RnsToMrs
      \union KeyProducts \union ModDown \union SwitchingKey
      \union Encryption \union TextSums \union Rotation \union Codec
=============================================================================
