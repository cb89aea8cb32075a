------------------------- MODULE ArithmeticProofs --------------------------
(***************************************************************************)
(* What the Montgomery kernels compute, for every R, every modulus below   *)
(* R / 4 and every operand that fits; and from there:                      *)
(*   for all messages and multipliers, how far residues of texts leave     *)
(*   0 .. q - 1, up to eight quarters of drift; with at most four, a text  *)
(*   of residues refines an integer modulo the product of its moduli, and  *)
(*   decodes to that integer;                                              *)
(*   for all transform lengths and primes, what every stage of the number  *)
(*   theoretic transform computes, and that a product of transforms is the *)
(*   transform of the product modulo X^N + 1.                              *)
(***************************************************************************)
EXTENDS LeveledText, NttProduct, FiniteSetTheorems, SequenceTheorems,
        NaturalsInduction, WellFoundedInduction, TLAPS

(* A modulus with the constant that mont_mult_scalar is called with.       *)
Valid(q, k) ==
    /\ q \in Nat \ {0} /\ k \in Nat
    /\ 4 * q < R
    /\ (k * q) % R = R - 1

-----------------------------------------------------------------------------
(* Division with remainder. *)
LEMMA DivMod ==
    ASSUME NEW a \in Int, NEW b \in Nat \ {0}
    PROVE  /\ a \div b \in Int
           /\ a % b \in 0 .. b - 1
           /\ a = (b * (a \div b)) + (a % b)
BY SMT

LEMMA DivModUnique ==
    ASSUME NEW b \in Nat \ {0}, NEW w \in Int, NEW r \in 0 .. b - 1
    PROVE  ((b * w) + r) \div b = w /\ ((b * w) + r) % b = r
BY SMT

LEMMA Distribute ==
    ASSUME NEW a \in Int, NEW b \in Int, NEW c \in Int
    PROVE  /\ (a + b) * c = a * c + b * c
           /\ (a - b) * c = a * c - b * c
           /\ (a * b) * c = a * (b * c)
           /\ a * b = b * a
BY SMT

LEMMA Monotone ==
    ASSUME NEW a \in Int, NEW b \in Int, NEW c \in Nat, a =< b
    PROVE  a * c =< b * c
BY SMT

LEMMA Cancel ==
    ASSUME NEW a \in Int, NEW b \in Int, NEW c \in Nat \ {0}, c * a < c * b
    PROVE  a < b
BY SMT

-----------------------------------------------------------------------------
(***************************************************************************)
(* The multiple of q that is added makes the sum divisible by R.           *)
(***************************************************************************)
LEMMA SumDivisible ==
    ASSUME NEW q, NEW k, Valid(q, k), NEW x \in Int
    PROVE  LET s == ((x % R) * k) % R
           IN  /\ s \in 0 .. R - 1
               /\ \E w \in Int : x + s * q = R * w
PROOF
<1> DEFINE a == x \div R
           x0 == x % R
           b == (x0 * k) \div R
           s == (x0 * k) % R
           c == (k * q) \div R
<1>1. R \in Nat \ {0} /\ q \in Nat \ {0} /\ k \in Nat
  BY RAssumption DEF Valid
<1>2. a \in Int /\ x0 \in 0 .. R - 1 /\ x = (R * a) + x0
  BY <1>1, DivMod
<1>3. x0 * k \in Int
  BY <1>1, <1>2
<1>4. b \in Int /\ s \in 0 .. R - 1 /\ x0 * k = (R * b) + s
  BY <1>1, <1>3, DivMod
<1>5. c \in Int /\ k * q = (R * c) + (R - 1)
  <2>1. k * q \in Int
    BY <1>1
  <2> QED
    BY <1>1, <2>1, DivMod DEF Valid
<1> HIDE DEF a, x0, b, s, c
<1>6. s * q = x0 * (R * c + (R - 1)) - (R * b) * q
  <2>1. s * q = (x0 * k - R * b) * q
    BY <1>4, <1>1, <1>2
  <2>2. (x0 * k) * q = x0 * (k * q)
    BY <1>1, <1>2, Distribute
  <2> QED
    BY <2>1, <2>2, <1>1, <1>2, <1>4, <1>5
<1>7. x + s * q = R * (a + x0 * (c + 1) - b * q)
  BY <1>1, <1>2, <1>4, <1>5, <1>6
<1>8. a + x0 * (c + 1) - b * q \in Int
  BY <1>1, <1>2, <1>4, <1>5
<1> QED
  BY <1>4, <1>7, <1>8 DEF s, x0

(***************************************************************************)
(* reduce, of mont_mult_scalar and mont_exit_scalar: although a negative   *)
(* operand wraps around to an unsigned word of 128 bits, the result is the *)
(* exact quotient of x + s q by R, negative if the sum is.                 *)
(***************************************************************************)
THEOREM ReduceExact ==
    ASSUME NEW q, NEW k, Valid(q, k), NEW x \in Int,
           - (R * R) =< x, x =< R * R
    PROVE  \E s \in 0 .. R - 1 :
             /\ reduce(x % Wide, q, k) \in Int
             /\ R * reduce(x % Wide, q, k) = x + s * q
PROOF
<1> DEFINE s == ((x % R) * k) % R
<1>1. R \in Nat \ {0} /\ q \in Nat \ {0} /\ k \in Nat /\ 4 * q < R
  BY RAssumption DEF Valid
<1>2. s \in 0 .. R - 1
  BY SumDivisible
<1>3. PICK w \in Int : x + s * q = R * w
  BY SumDivisible
<1>4. Wide = 16 * (R * R) /\ R * R \in Nat /\ Wide \in Nat \ {0}
  BY <1>1 DEF Wide, Word
<1>5. (x % Wide) \in 0 .. Wide - 1 /\ (x % Wide) % R = x % R
  <2>1. /\ x \div Wide \in Int /\ x % Wide \in 0 .. Wide - 1
        /\ x = (Wide * (x \div Wide)) + (x % Wide)
    BY <1>4, DivMod
  <2> DEFINE m == x \div Wide
             y == x % Wide
  <2>3. m \in Int /\ y \in Int /\ x = (Wide * m) + y
    BY <1>4, <2>1
  <2> HIDE DEF m, y
  <2> DEFINE a == y \div R
             y0 == y % R
  <2>2. a \in Int /\ y0 \in 0 .. R - 1 /\ y = (R * a) + y0
    BY <1>1, <2>3, DivMod
  <2> HIDE DEF a, y0
  <2>4. x = (R * (16 * R * m + a)) + y0
    BY <1>1, <1>4, <2>2, <2>3
  <2>5. 16 * R * m + a \in Int
    BY <1>1, <2>2, <2>3
  <2>6. x % R = y0
    BY <1>1, <2>2, <2>4, <2>5, DivModUnique
  <2> QED
    BY <2>1, <2>6 DEF y, y0
<1>6. reduce(x % Wide, q, k) = Int64((((x % Wide) + s * q) % Wide) \div R)
  BY <1>5 DEF reduce
<1> HIDE DEF s
<1>7. s * q \in Nat /\ 4 * (s * q) =< R * R
  <2>1. s * q =< R * q
    BY <1>1, <1>2, Monotone
  <2>3. R * q = q * R
    BY <1>1
  <2>4. 4 * (q * R) =< R * R
    <3>1. (4 * q) * R =< R * R
      BY <1>1, Monotone
    <3> QED
      BY <3>1, <1>1, Distribute
  <2> QED
    BY <1>1, <1>2, <2>1, <2>3, <2>4
<1>8. - R =< w /\ w < 2 * R
  <2>1. R * (- R - 1) < R * w
    BY <1>1, <1>3, <1>4, <1>7
  <2>2. R * w < R * (2 * R)
    BY <1>1, <1>3, <1>4, <1>7
  <2>3. - R - 1 < w
    BY <1>1, <2>1, Cancel
  <2>4. w < 2 * R
    BY <1>1, <2>2, Cancel
  <2> QED
    BY <1>1, <2>3, <2>4
<1>9. ((x % Wide) + s * q) % Wide = (R * w) % Wide
  <2> DEFINE m == x \div Wide
             y == x % Wide
             r == (y + s * q) % Wide
             b == (y + s * q) \div Wide
  <2>1. m \in Int /\ y \in 0 .. Wide - 1 /\ x = (Wide * m) + y
    BY <1>4, DivMod
  <2>2. y + s * q \in Int
    BY <1>1, <1>2, <2>1
  <2>3. b \in Int /\ r \in 0 .. Wide - 1 /\ y + s * q = (Wide * b) + r
    BY <1>4, <2>2, DivMod
  <2> HIDE DEF m, y, b, r
  <2>4. R * w = (Wide * (m + b)) + r
    BY <1>1, <1>2, <1>3, <1>4, <2>1, <2>3
  <2>5. (R * w) % Wide = r
    <3>1. m + b \in Int
      BY <2>1, <2>3
    <3>2. Wide \in Nat \ {0} /\ r \in 0 .. Wide - 1
      BY <1>4, <2>3
    <3>3. ((Wide * (m + b)) + r) % Wide = r
      BY <3>1, <3>2, DivModUnique
    <3> QED
      BY <2>4, <3>3
  <2> QED
    BY <2>5 DEF r, y
<1>10. Int64(((R * w) % Wide) \div R) = w
  <2>1. CASE w >= 0
    <3>1. R * w \in 0 .. Wide - 1
      BY <1>1, <1>4, <1>8, <2>1
    <3>2. (R * w) % Wide = R * w
      <4>1. ((Wide * 0) + R * w) % Wide = R * w
        BY <1>4, <3>1, DivModUnique
      <4> QED
        BY <4>1, <3>1, <1>4
    <3>3. (R * w) \div R = w
      <4>1. ((R * w) + 0) \div R = w
        BY <1>1, DivModUnique
      <4> QED
        BY <4>1, <1>1
    <3>4. w % (4 * R) = w
      <4>1. 4 * R \in Nat \ {0} /\ w \in 0 .. 4 * R - 1 /\ 0 \in Int
        BY <1>1, <1>8, <2>1
      <4>2. (((4 * R) * 0) + w) % (4 * R) = w
        BY <4>1, DivModUnique
      <4> QED
        BY <4>2, <1>1
    <3> QED
      BY <3>2, <3>3, <3>4, <1>8, <1>1 DEF Int64, Word
  <2>2. CASE w < 0
    <3>1. R * w + Wide \in 0 .. Wide - 1
      <4>1. R * (- R) =< R * w /\ R * w < 0
        BY <1>1, <1>8, <2>2
      <4> QED
        BY <4>1, <1>1, <1>4
    <3>2. (R * w) % Wide = R * w + Wide
      <4> DEFINE r == R * w + Wide
                 m == -1
      <4>1. m \in Int /\ r \in 0 .. Wide - 1
        BY <3>1
      <4>2. (Wide * m) + r = R * w
        BY <1>1, <1>4
      <4> HIDE DEF m, r
      <4>3. ((Wide * m) + r) % Wide = r
        BY <1>4, <4>1, DivModUnique
      <4> QED
        BY <4>2, <4>3 DEF r
    <3>3. (R * w + Wide) \div R = w + 16 * R
      <4>1. ((R * (w + 16 * R)) + 0) \div R = w + 16 * R
        <5>1. w + 16 * R \in Int /\ 0 \in 0 .. R - 1
          BY <1>1
        <5> QED
          BY <1>1, <5>1, DivModUnique
      <4>2. R * w + Wide = (R * (w + 16 * R)) + 0
        BY <1>1, <1>4
      <4> QED
        BY <4>1, <4>2
    <3>4. (w + 16 * R) % (4 * R) = w + 4 * R
      <4>1. (((4 * R) * 3) + (w + 4 * R)) % (4 * R) = w + 4 * R
        <5>1. 4 * R \in Nat \ {0} /\ w + 4 * R \in 0 .. 4 * R - 1
          BY <1>1, <1>8, <2>2
        <5> QED
          BY <5>1, DivModUnique
      <4>2. ((4 * R) * 3) + (w + 4 * R) = w + 16 * R
        BY <1>1
      <4> QED
        BY <4>1, <4>2
    <3> QED
      BY <3>2, <3>3, <3>4, <1>8, <1>1, <2>2 DEF Int64, Word
  <2> QED
    BY <2>1, <2>2
<1> QED
  BY <1>2, <1>3, <1>6, <1>9, <1>10

-----------------------------------------------------------------------------
(***************************************************************************)
(* calculate_k: the constant of a modulus, if R has an inverse modulo it.  *)
(***************************************************************************)
Invertible(q) ==
    /\ q \in Nat \ {0, 1}
    /\ 4 * q < R
    /\ \E y \in 0 .. q - 1 : (R * y) % q = 1

LEMMA CalculatedValid ==
    ASSUME NEW q, Invertible(q)
    PROVE  Valid(q, calculate_k(q))
PROOF
<1> DEFINE y == modulus_invert(R, q)
           n == (R * y) \div q
<1>1. R \in Nat \ {0} /\ q \in Nat \ {0, 1} /\ 4 * q < R
  BY RAssumption DEF Invertible
<1>2. y \in 0 .. q - 1 /\ (R * y) % q = 1
  BY DEF Invertible, modulus_invert
<1> HIDE DEF y
<1>3. n \in Int /\ R * y = (q * n) + 1
  <2>1. R * y \in Int /\ q \in Nat \ {0}
    BY <1>1, <1>2
  <2> QED
    BY <1>2, <2>1, DivMod
<1> HIDE DEF n
<1>4. calculate_k(q) = n
  <2>1. R * y - 1 = (q * n) + 0 /\ 0 \in 0 .. q - 1
    BY <1>1, <1>3
  <2>2. ((q * n) + 0) \div q = n
    BY <1>1, <1>3, <2>1, DivModUnique
  <2> QED
    BY <2>1, <2>2 DEF calculate_k, y
<1>5. y >= 1
  <2>1. CASE y = 0
    <3>1. q * n = - 1
      BY <1>1, <1>3, <2>1
    <3> QED
      BY <1>1, <1>2, <2>1
  <2> QED
    BY <1>2, <2>1
<1>6. n >= 0
  BY <1>1, <1>2, <1>3, <1>5
<1>7. (n * q) % R = R - 1
  <2>1. n * q = (R * (y - 1)) + (R - 1)
    BY <1>1, <1>2, <1>3
  <2>2. y - 1 \in Int /\ R - 1 \in 0 .. R - 1
    BY <1>1, <1>2
  <2>3. ((R * (y - 1)) + (R - 1)) % R = R - 1
    BY <1>1, <2>2, DivModUnique
  <2> QED
    BY <2>1, <2>3
<1> QED
  BY <1>1, <1>3, <1>4, <1>6, <1>7 DEF Valid

-----------------------------------------------------------------------------
(***************************************************************************)
(* Ranges.  A factor is a number up to q in absolute value; the other      *)
(* operand is compared with sixteenths of R, because residues come in      *)
(* quarters of a modulus and a modulus is below a quarter of R.            *)
(***************************************************************************)
LEMMA ProductRange ==
    ASSUME NEW q \in Nat, NEW x \in Int, NEW c \in Int,
           NEW e \in Nat, NEW f \in Nat, NEW r \in Nat,
           - (e * r) =< 16 * x, 16 * x =< f * r,
           - q =< c, c =< q, c >= 0 \/ e = f
    PROVE  - (e * (r * q)) =< 16 * (x * c) /\ 16 * (x * c) =< f * (r * q)
PROOF
<1>0. e * r \in Nat /\ f * r \in Nat /\ 16 * x \in Int
  OBVIOUS
<1>1. (e * r) * q = e * (r * q) /\ (f * r) * q = f * (r * q)
  BY Distribute
<1>2. CASE c >= 0
  <2>1. (16 * x) * c =< (f * r) * c
    BY <1>0, <1>2, Monotone
  <2>2. (- (e * r)) * c =< (16 * x) * c
    BY <1>0, <1>2, Monotone
  <2>3. c * (f * r) =< q * (f * r) /\ c * (e * r) =< q * (e * r)
    BY <1>0, <1>2, Monotone
  <2>4. (16 * x) * c = 16 * (x * c)
    BY Distribute
  <2>5. (f * r) * c = c * (f * r) /\ (- (e * r)) * c = - (c * (e * r))
    BY <1>0
  <2>6. q * (f * r) = (f * r) * q /\ q * (e * r) = (e * r) * q
    BY <1>0
  <2> QED
    BY <1>0, <1>1, <2>1, <2>2, <2>3, <2>4, <2>5, <2>6
<1>3. CASE c < 0 /\ e = f
  <2> DEFINE d == - c
  <2>0. d \in Nat /\ d =< q /\ c = - d
    BY <1>3
  <2> HIDE DEF d
  <2>1. (16 * x) * d =< (f * r) * d
    BY <1>0, <2>0, Monotone
  <2>2. (- (e * r)) * d =< (16 * x) * d
    BY <1>0, <2>0, Monotone
  <2>3. d * (f * r) =< q * (f * r)
    BY <1>0, <2>0, Monotone
  <2>4. (16 * x) * d = - (16 * (x * c))
    BY <2>0
  <2>5. (f * r) * d = d * (f * r) /\ (- (e * r)) * d = - (d * (e * r))
    BY <1>0, <2>0
  <2>6. q * (f * r) = (f * r) * q
    BY <1>0
  <2>7. x * c \in Int
    BY <1>3
  <2> QED
    BY <1>0, <1>1, <1>3, <2>0, <2>1, <2>2, <2>3, <2>4, <2>5, <2>6, <2>7
<1> QED
  BY <1>2, <1>3

(***************************************************************************)
(* mont_mult_scalar: the exact value, and how far it is from 0 .. q - 1.   *)
(***************************************************************************)
THEOREM MontMultExact ==
    ASSUME NEW q, NEW k, Valid(q, k), NEW x \in Int, NEW c \in Int,
           - (R * R) =< x * c, x * c =< R * R
    PROVE  /\ mont_mult_scalar(x, c, q, k) \in Int
           /\ \E s \in 0 .. R - 1 :
                R * mont_mult_scalar(x, c, q, k) = x * c + s * q
<1> DEFINE p == x * c
<1>1. p \in Int
  OBVIOUS
<1> HIDE DEF p
<1>2. - (R * R) =< p /\ p =< R * R
  BY DEF p
<1>3. PICK s \in 0 .. R - 1 : /\ reduce(p % Wide, q, k) \in Int
                             /\ R * reduce(p % Wide, q, k) = p + s * q
  BY <1>1, <1>2, ReduceExact
<1> QED
  BY <1>3 DEF p, mont_mult_scalar

THEOREM MontMultRange ==
    ASSUME NEW q, NEW k, Valid(q, k), NEW x \in Int, NEW c \in Int,
           NEW e \in 0 .. 64, NEW f \in 0 .. 64,
           - (e * R) =< 16 * x, 16 * x =< f * R,
           - q =< c, c =< q, c >= 0 \/ e = f
    PROVE  /\ mont_mult_scalar(x, c, q, k) \in Int
           /\ - (e * q) =< 16 * mont_mult_scalar(x, c, q, k)
           /\ 16 * mont_mult_scalar(x, c, q, k) =< (f + 16) * q
PROOF
<1>1. R \in Nat \ {0} /\ q \in Nat \ {0} /\ k \in Nat /\ 4 * q < R
  BY RAssumption DEF Valid
<1>2. x * c \in Int /\ R * q \in Nat /\ e * (R * q) \in Nat /\ f * (R * q) \in Nat
  BY <1>1
<1>3. - (e * (R * q)) =< 16 * (x * c) /\ 16 * (x * c) =< f * (R * q)
  BY <1>1, ProductRange
<1>4. 4 * (R * q) =< R * R
  <2>1. (4 * q) * R =< R * R
    BY <1>1, Monotone
  <2> QED
    BY <2>1, <1>1
<1>5. e * (R * q) =< 64 * (R * q) /\ f * (R * q) =< 64 * (R * q)
  BY <1>2, Monotone
<1>6. - (R * R) =< x * c /\ x * c =< R * R
  BY <1>1, <1>2, <1>3, <1>4, <1>5
<1>7. mont_mult_scalar(x, c, q, k) \in Int
  BY <1>6, MontMultExact
<1>8. PICK s \in 0 .. R - 1 : R * mont_mult_scalar(x, c, q, k) = x * c + s * q
  BY <1>6, MontMultExact
<1> DEFINE y == mont_mult_scalar(x, c, q, k)
<1>9. y \in Int /\ R * y = x * c + s * q
  BY <1>7, <1>8
<1> HIDE DEF y
<1>10. s * q \in Nat /\ s * q =< R * q
  BY <1>1, Monotone
<1>11. (16 * y) * R = 16 * (x * c) + 16 * (s * q)
  BY <1>1, <1>9, <1>2, <1>10
<1>12. R * (- (e * q) - 1) < R * (16 * y)
  <2>1. R * (- (e * q) - 1) = - (e * (R * q)) - R
    BY <1>1
  <2> QED
    BY <1>1, <1>2, <1>3, <1>9, <1>10, <1>11, <2>1
<1>13. R * (16 * y) < R * ((f + 16) * q + 1)
  <2>1. R * ((f + 16) * q + 1) = f * (R * q) + 16 * (R * q) + R
    BY <1>1
  <2> QED
    BY <1>1, <1>2, <1>3, <1>9, <1>10, <1>11, <2>1
<1>14. - (e * q) - 1 < 16 * y
  BY <1>1, <1>9, <1>12, Cancel
<1>15. 16 * y < (f + 16) * q + 1
  BY <1>1, <1>9, <1>13, Cancel
<1> QED
  BY <1>1, <1>9, <1>14, <1>15 DEF y

(***************************************************************************)
(* mont_exit_scalar of a lazily reduced value is at most q.                *)
(***************************************************************************)
THEOREM MontExitRange ==
    ASSUME NEW q, NEW k, Valid(q, k), NEW x \in 0 .. 2 * q - 1
    PROVE  mont_exit_scalar(x, q, k) \in 0 .. q
PROOF
<1> DEFINE y == mont_exit_scalar(x, q, k)
<1>1. R \in Nat \ {0} /\ q \in Nat \ {0} /\ k \in Nat /\ 4 * q < R
  BY RAssumption DEF Valid
<1>2. x \in Int /\ - (R * R) =< x /\ x =< R * R
  <2>1. R =< R * R
    BY <1>1
  <2> QED
    BY <1>1, <2>1
<1>3. PICK s \in 0 .. R - 1 : y \in Int /\ R * y = x + s * q
  BY <1>2, ReduceExact DEF mont_exit_scalar
<1> HIDE DEF y
<1>4. s * q \in Nat /\ s * q =< (R - 1) * q
  BY <1>1, Monotone
<1>5. (R - 1) * q = R * q - q
  BY <1>1
<1>6. R * (- 1) < R * y /\ R * y < R * (q + 1)
  <2>1. R * (q + 1) = R * q + R
    BY <1>1
  <2> QED
    BY <1>1, <1>3, <1>4, <1>5, <2>1
<1>7. - 1 < y /\ y < q + 1
  BY <1>1, <1>3, <1>6, Cancel
<1> QED
  BY <1>1, <1>3, <1>7 DEF y

(***************************************************************************)
(* The butterflies of ntt_stage and intt_stage: whatever the root, two     *)
(* lazily reduced values give two lazily reduced values, so that the       *)
(* transforms never need another reduction.                                *)
(***************************************************************************)
LEMMA MontMultLazy ==
    ASSUME NEW q, NEW k, Valid(q, k),
           NEW x \in 0 .. 2 * q - 1, NEW z \in 0 .. 2 * q - 1
    PROVE  mont_mult_scalar(x, z, q, k) \in 0 .. 2 * q - 1
PROOF
<1> DEFINE y == mont_mult_scalar(x, z, q, k)
<1>1. R \in Nat \ {0} /\ q \in Nat \ {0} /\ k \in Nat /\ 4 * q < R
  BY RAssumption DEF Valid
<1>2. x * z \in Nat /\ x * z < q * R
  <2>1. x * z =< (2 * q - 1) * z /\ z * (2 * q - 1) =< (2 * q - 1) * (2 * q - 1)
    BY <1>1, Monotone
  <2>2. (2 * q - 1) * z = z * (2 * q - 1)
    BY <1>1
  <2>3. (2 * q - 1) * (2 * q - 1) < 4 * (q * q)
    BY <1>1
  <2>4. (4 * q) * q =< R * q
    BY <1>1, Monotone
  <2> QED
    BY <1>1, <2>1, <2>2, <2>3, <2>4
<1>3. q * R =< R * R
  BY <1>1, Monotone
<1>4. PICK s \in 0 .. R - 1 : y \in Int /\ R * y = x * z + s * q
  <2>1. x \in Int /\ z \in Int /\ - (R * R) =< x * z /\ x * z =< R * R
    BY <1>1, <1>2, <1>3
  <2> QED
    BY <2>1, MontMultExact
<1> HIDE DEF y
<1>5. s * q \in Nat /\ s * q =< R * q
  BY <1>1, Monotone
<1>6. R * (- 1) < R * y /\ R * y < R * (2 * q)
  BY <1>1, <1>2, <1>4, <1>5
<1>7. - 1 < y /\ y < 2 * q
  BY <1>1, <1>4, <1>6, Cancel
<1> QED
  BY <1>1, <1>4, <1>7 DEF y

THEOREM ButterflyRange ==
    ASSUME NEW q, NEW k, Valid(q, k), NEW root \in 0 .. 2 * q - 1,
           NEW x \in 0 .. 2 * q - 1, NEW y \in 0 .. 2 * q - 1
    PROVE  LET made == mont_mult_scalar(root, y, q, k)
               difference == guard(x + 2 * q - y, 2 * q)
           IN  /\ guard(x + made, 2 * q) \in 0 .. 2 * q - 1
               /\ guard(x + 2 * q - made, 2 * q) \in 0 .. 2 * q - 1
               /\ guard(x + y, 2 * q) \in 0 .. 2 * q - 1
               /\ mont_mult_scalar(root, difference, q, k) \in 0 .. 2 * q - 1
PROOF
<1> DEFINE made == mont_mult_scalar(root, y, q, k)
           difference == guard(x + 2 * q - y, 2 * q)
<1>1. q \in Nat \ {0}
  BY DEF Valid
<1>2. made \in 0 .. 2 * q - 1
  BY MontMultLazy
<1>3. difference \in 0 .. 2 * q - 1
  BY <1>1 DEF guard
<1>4. mont_mult_scalar(root, difference, q, k) \in 0 .. 2 * q - 1
  BY <1>3, MontMultLazy
<1> HIDE DEF made, difference
<1>5. /\ guard(x + made, 2 * q) \in 0 .. 2 * q - 1
      /\ guard(x + 2 * q - made, 2 * q) \in 0 .. 2 * q - 1
      /\ guard(x + y, 2 * q) \in 0 .. 2 * q - 1
  BY <1>1, <1>2 DEF guard
<1> QED
  BY <1>4, <1>5 DEF made, difference

(***************************************************************************)
(* mod_down: dividing by a special prime p, of any size below R / 4, keeps *)
(* what it has found between 1 - q and 2q - 1, although p may exceed q and *)
(* the difference of the residues be far below zero.                       *)
(***************************************************************************)
THEOREM DivideSpecialRange ==
    ASSUME NEW q, NEW k, Valid(q, k), NEW p \in Nat \ {0}, 4 * p < R,
           NEW x \in 1 - q .. 2 * q - 1, NEW z \in 1 - p .. 2 * p - 1,
           NEW c \in 0 .. q - 1
    PROVE  mont_sub_enter(x, z, c, q, k) \in 1 - q .. 2 * q - 1
PROOF
<1> DEFINE a == guard(x + 2 * q - z, 2 * q)
           y == mont_mult_scalar(a, c, q, k)
<1>1. R \in Nat \ {0} /\ q \in Nat \ {0} /\ 4 * q < R
  BY RAssumption DEF Valid
<1>2. a \in Int /\ - (8 * R) =< 16 * a /\ 16 * a =< 12 * R
  BY <1>1 DEF guard
<1> HIDE DEF a
<1>3. y \in Int /\ - (8 * q) =< 16 * y /\ 16 * y =< (12 + 16) * q
  <2>1. c \in Int /\ - q =< c /\ c =< q /\ c >= 0
    BY <1>1
  <2>2. 8 \in 0 .. 64 /\ 12 \in 0 .. 64
    OBVIOUS
  <2> QED
    BY <1>2, <2>1, <2>2, MontMultRange
<1> HIDE DEF y
<1>4. y \in 1 - q .. 2 * q - 1
  BY <1>1, <1>3
<1> QED
  BY <1>4 DEF y, a, mont_sub_enter

-----------------------------------------------------------------------------
(***************************************************************************)
(* Congruence modulo q, and numbers with an inverse modulo q.              *)
(***************************************************************************)
Cong(a, b, q) == \E w \in Int : a = b + q * w

Coprime(a, q) == \E y, z \in Int : a * y = 1 + q * z

LEMMA CongRules ==
    ASSUME NEW q \in Int, NEW a \in Int, NEW b \in Int
    PROVE  /\ Cong(a, a, q)
           /\ Cong(a, b, q) => Cong(b, a, q) /\ Cong(- a, - b, q)
           /\ \A w \in Int : Cong(a + q * w, a, q)
<1>1. Cong(a, a, q)
  <2>1. a = a + q * 0
    OBVIOUS
  <2> QED
    BY <2>1 DEF Cong
<1>2. ASSUME Cong(a, b, q)
      PROVE  Cong(b, a, q) /\ Cong(- a, - b, q)
  <2>1. PICK w \in Int : a = b + q * w
    BY <1>2 DEF Cong
  <2>2. q * (- w) = - (q * w) /\ - w \in Int /\ q * w \in Int
    OBVIOUS
  <2>3. b = a + q * (- w) /\ - a = - b + q * (- w)
    BY <2>1, <2>2
  <2> QED
    BY <2>2, <2>3 DEF Cong
<1> QED
  BY <1>1, <1>2 DEF Cong

LEMMA CongSum ==
    ASSUME NEW q \in Int, NEW a \in Int, NEW b \in Int, NEW c \in Int, NEW d \in Int,
           Cong(a, b, q), Cong(c, d, q)
    PROVE  Cong(a + c, b + d, q) /\ Cong(a - c, b - d, q)
<1>1. PICK w \in Int : a = b + q * w
  BY DEF Cong
<1>2. PICK z \in Int : c = d + q * z
  BY DEF Cong
<1>3. q * (w + z) = q * w + q * z /\ q * (w - z) = q * w - q * z
      /\ w + z \in Int /\ w - z \in Int /\ q * w \in Int /\ q * z \in Int
  OBVIOUS
<1>4. a + c = b + d + q * (w + z) /\ a - c = b - d + q * (w - z)
  BY <1>1, <1>2, <1>3
<1> QED
  BY <1>3, <1>4 DEF Cong

LEMMA CongTransitive ==
    ASSUME NEW q \in Int, NEW a \in Int, NEW b \in Int, NEW c \in Int,
           Cong(a, b, q), Cong(b, c, q)
    PROVE  Cong(a, c, q)
<1>1. PICK w \in Int : a = b + q * w
  BY DEF Cong
<1>2. PICK z \in Int : b = c + q * z
  BY DEF Cong
<1>3. q * (w + z) = q * w + q * z /\ w + z \in Int /\ q * w \in Int /\ q * z \in Int
  OBVIOUS
<1>4. a = c + q * (w + z)
  BY <1>1, <1>2, <1>3
<1> QED
  BY <1>3, <1>4 DEF Cong

LEMMA CongProduct ==
    ASSUME NEW q \in Int, NEW a \in Int, NEW b \in Int, NEW c \in Int, Cong(a, b, q)
    PROVE  Cong(a * c, b * c, q) /\ Cong(c * a, c * b, q)
<1>1. PICK w \in Int : a = b + q * w
  BY DEF Cong
<1>2. (b + q * w) * c = b * c + q * (w * c) /\ w * c \in Int
  OBVIOUS
<1>3. a * c = c * a /\ b * c = c * b
  OBVIOUS
<1> QED
  BY <1>1, <1>2, <1>3 DEF Cong

LEMMA CongRemainder ==
    ASSUME NEW q \in Nat \ {0}, NEW a \in Int
    PROVE  Cong(a % q, a, q) /\ Cong(a, a % q, q)
<1>1. a = (a % q) + q * (a \div q) /\ a \div q \in Int /\ a % q \in Int
  BY DivMod
<1>2. Cong(a, a % q, q)
  BY <1>1 DEF Cong
<1> QED
  BY <1>1, <1>2, CongRules

(* A remainder is the only number of its class in 0 .. q - 1. *)
LEMMA RemainderUnique ==
    ASSUME NEW q \in Nat \ {0}, NEW a \in Int, NEW b \in Int, Cong(a, b, q)
    PROVE  a % q = b % q
<1>1. PICK w \in Int : a = b + q * w
  BY DEF Cong
<1>2. b = (q * (b \div q)) + (b % q) /\ b \div q \in Int /\ b % q \in 0 .. q - 1
  BY DivMod
<1>3. q * ((b \div q) + w) = q * (b \div q) + q * w /\ (b \div q) + w \in Int
      /\ q * (b \div q) \in Int /\ q * w \in Int
  BY <1>2
<1>4. a = (q * ((b \div q) + w)) + (b % q)
  BY <1>1, <1>2, <1>3
<1> QED
  BY <1>2, <1>3, <1>4, DivModUnique

-----------------------------------------------------------------------------
LEMMA CoprimeProduct ==
    ASSUME NEW q \in Int, NEW a \in Int, NEW b \in Int, Coprime(a, q), Coprime(b, q)
    PROVE  Coprime(a * b, q)
<1>1. PICK y, z \in Int : a * y = 1 + q * z
  BY DEF Coprime
<1>2. PICK s, t \in Int : b * s = 1 + q * t
  BY DEF Coprime
<1> DEFINE u == y * s
           v == z + t + z * (q * t)
<1>3. u \in Int /\ v \in Int
  OBVIOUS
<1>4. (a * b) * u = (a * y) * (b * s)
  OBVIOUS
<1>5. (1 + q * z) * (1 + q * t) = 1 + q * v
  OBVIOUS
<1>6. (a * b) * u = 1 + q * v
  BY <1>1, <1>2, <1>4, <1>5
<1> QED
  BY <1>3, <1>6 DEF Coprime

LEMMA CoprimeOne == \A q \in Int : Coprime(1, q)
<1> TAKE q \in Int
<1>1. 1 * 1 = 1 + q * 0
  OBVIOUS
<1> QED
  BY <1>1 DEF Coprime

(* A factor with an inverse can be cancelled. *)
LEMMA CoprimeCancel ==
    ASSUME NEW q \in Int, NEW a \in Int, Coprime(a, q), NEW b \in Int, NEW c \in Int,
           Cong(a * b, a * c, q)
    PROVE  Cong(b, c, q)
<1>1. PICK y, z \in Int : a * y = 1 + q * z
  BY DEF Coprime
<1>2. PICK w \in Int : a * b = a * c + q * w
  BY DEF Cong
<1> DEFINE d == b - c
<1>3. d \in Int /\ a * d = a * b - a * c /\ a * b \in Int /\ a * c \in Int /\ q * w \in Int
  OBVIOUS
<1>4. a * d = q * w
  BY <1>2, <1>3
<1> HIDE DEF d
<1>5. (a * d) * y = (a * y) * d
  BY <1>3
<1>6. (q * w) * y = q * (w * y) /\ (1 + q * z) * d = d + q * (z * d)
  BY <1>3
<1>7. d + q * (z * d) = q * (w * y)
  BY <1>1, <1>4, <1>5, <1>6
<1>8. q * (w * y - z * d) = q * (w * y) - q * (z * d) /\ w * y - z * d \in Int
      /\ q * (w * y) \in Int /\ q * (z * d) \in Int
  BY <1>3
<1>9. d = q * (w * y - z * d)
  BY <1>3, <1>7, <1>8
<1>10. b = c + q * (w * y - z * d)
  BY <1>9 DEF d
<1> QED
  BY <1>8, <1>10 DEF Cong

(* A number that two coprime moduli divide is a multiple of their product. *)
LEMMA CongBoth ==
    ASSUME NEW p \in Int, NEW q \in Int, Coprime(p, q), NEW a \in Int, NEW b \in Int,
           Cong(a, b, p), Cong(a, b, q)
    PROVE  Cong(a, b, p * q)
<1>1. PICK y, z \in Int : p * y = 1 + q * z
  BY DEF Coprime
<1>2. PICK s \in Int : a = b + p * s
  BY DEF Cong
<1>3. PICK t \in Int : a = b + q * t
  BY DEF Cong
<1> DEFINE d == a - b
<1>4. d \in Int /\ d = p * s /\ d = q * t
  BY <1>2, <1>3
<1> HIDE DEF d
<1>5. d * (p * y) = d + d * (q * z)
  BY <1>1, <1>4
<1>6. (q * t) * (p * y) = (p * q) * (t * y) /\ (p * s) * (q * z) = (p * q) * (s * z)
  OBVIOUS
<1>7. (p * q) * (t * y) = d + (p * q) * (s * z)
  BY <1>4, <1>5, <1>6
<1> DEFINE m == p * q
<1>8. m \in Int /\ t * y \in Int /\ s * z \in Int
  OBVIOUS
<1>9. m * (t * y) = d + m * (s * z)
  BY <1>7
<1> HIDE DEF m
<1>10. m * (t * y - s * z) = m * (t * y) - m * (s * z) /\ t * y - s * z \in Int
      /\ m * (t * y) \in Int /\ m * (s * z) \in Int
  BY <1>8
<1>11. d = m * (t * y - s * z)
  BY <1>4, <1>9, <1>10
<1>12. a = b + m * (t * y - s * z)
  BY <1>11 DEF d
<1> QED
  BY <1>10, <1>12 DEF Cong, m

LEMMA RemainderFacts ==
    ASSUME NEW q \in Nat \ {0, 1}, NEW a \in Int
    PROVE  /\ a % q \in 0 .. q - 1 /\ a % q \in Int
           /\ Cong(a % q, a, q) /\ Cong(a, a % q, q)
<1>1. q \in Nat \ {0}
  OBVIOUS
<1>2. a % q \in 0 .. q - 1
  BY <1>1, DivMod
<1>3. Cong(a % q, a, q) /\ Cong(a, a % q, q)
  BY <1>1, CongRemainder
<1> QED
  BY <1>2, <1>3

LEMMA InverseFound ==
    ASSUME NEW q \in Nat \ {0, 1}, NEW a \in Int, Coprime(a, q)
    PROVE  LET y == modulus_invert(a % q, q)
           IN  y \in 0 .. q - 1 /\ Cong(a * y, 1, q)
<1> DEFINE b == a % q
           inverses == {y \in 0 .. q - 1 : (b * y) % q = 1}
           y == modulus_invert(b, q)
<1>1. b \in Int /\ Cong(b, a, q) /\ Cong(a, b, q)
  BY RemainderFacts
<1>0. q \in Nat \ {0} /\ q \in Int
  OBVIOUS
<1> HIDE DEF b
<1>2. 1 % q = 1
  <2>1. 1 = (q * 0) + 1 /\ 1 \in 0 .. q - 1
    OBVIOUS
  <2>2. ((q * 0) + 1) % q = 1
    BY <2>1, DivModUnique
  <2> QED
    BY <2>1, <2>2
<1>3. inverses # {}
  <2>1. PICK s, t \in Int : a * s = 1 + q * t
    BY DEF Coprime
  <2> DEFINE r == s % q
  <2>2. r \in 0 .. q - 1 /\ Cong(r, s, q) /\ r \in Int
    BY RemainderFacts
  <2> HIDE DEF r
  <2>3. Cong(b * r, a * r, q) /\ Cong(a * r, a * s, q)
    BY <1>0, <1>1, <2>2, CongProduct
  <2>4. Cong(a * s, 1, q)
    BY <2>1 DEF Cong
  <2>5. b * r \in Int /\ a * r \in Int /\ a * s \in Int
    BY <1>1, <2>2
  <2>6. Cong(a * r, 1, q)
    BY <2>3, <2>4, <2>5, CongTransitive
  <2>7. Cong(b * r, 1, q)
    BY <2>3, <2>5, <2>6, CongTransitive
  <2>8. (b * r) % q = 1 % q
    <3> DEFINE one == 1
    <3>1. one \in Int /\ Cong(b * r, one, q)
      BY <2>7
    <3> HIDE DEF one
    <3>2. (b * r) % q = one % q
      BY <1>0, <2>5, <3>1, RemainderUnique
    <3> QED
      BY <3>2 DEF one
  <2> QED
    BY <1>2, <2>2, <2>8
<1>4. y \in inverses
  BY <1>3 DEF modulus_invert
<1>5. y \in 0 .. q - 1 /\ y \in Int /\ (b * y) % q = 1
  BY <1>4
<1> HIDE DEF y, inverses
<1>6. b * y \in Int /\ a * y \in Int
  BY <1>1, <1>5
<1>7. Cong(b * y, 1, q)
  BY <1>5, <1>6, CongRemainder
<1>8. Cong(a * y, b * y, q)
  BY <1>0, <1>1, <1>5, CongProduct
<1>9. Cong(a * y, 1, q)
  BY <1>6, <1>7, <1>8, CongTransitive
<1> QED
  BY <1>5, <1>9 DEF y, b

-----------------------------------------------------------------------------
(* A residue at most d quarters of the modulus outside of 0 .. q - 1. *)
Near(x, q, d) ==
    /\ x \in Int
    /\ - (d * q) =< 4 * x
    /\ 4 * x =< (4 + d) * q

AllNear(x, m, d) ==
    /\ x \in [Chains(m) -> Int]
    /\ \A chain \in Chains(m) : Near(x[chain], get_q(m, chain), d)

Level == 0 .. ChainCount - 1

-----------------------------------------------------------------------------
LEMMA ModulusFacts ==
    ASSUME NEW m \in Level, NEW chain \in Chains(m)
    PROVE  LET q == get_q(m, chain)
           IN  /\ q \in Nat \ {0, 1} /\ 4 * q < R
               /\ k_of[q] \in Nat
               /\ Valid(q, k_of[q])
<1> DEFINE i == m + chain + 1
<1>1. ChainCount \in Nat
  BY ModuliAssumption DEF ChainCount
<1>2. i \in 1 .. ChainCount
  BY <1>1 DEF Level, Chains
<1> HIDE DEF i
<1>3. Invertible(Moduli[i])
  BY <1>2, ModuliAssumption DEF Invertible, ChainCount
<1>4. k_of[Moduli[i]] = calculate_k(Moduli[i])
  BY <1>2 DEF k_of
<1>5. Valid(Moduli[i], k_of[Moduli[i]])
  BY <1>3, <1>4, CalculatedValid
<1> QED
  BY <1>3, <1>5 DEF get_q, i, Invertible, Valid

(* Chains are intervals, and removing the first ones lowers the level. *)
LEMMA ChainFacts ==
    /\ ChainCount \in Nat \ {0, 1}
    /\ \A m \in Level : \A count \in Nat :
         m + count \in Level =>
           /\ \A chain \in Chains(m + count) : chain + count \in Chains(m)
           /\ \A chain \in Chains(m + count) :
                get_q(m + count, chain) = get_q(m, chain + count)
    /\ \A m \in Level : 0 \in Chains(m)
BY ModuliAssumption DEF ChainCount, Chains, Level, get_q

LEMMA DriftFacts ==
    ASSUME NEW d \in 0 .. 8
    PROVE  /\ DriftOfProduct(d) \in Nat
           /\ 4 + d =< 4 * DriftOfProduct(d)
BY DEF DriftOfProduct

-----------------------------------------------------------------------------
(***************************************************************************)
(* One lemma for every kernel that LeveledText applies.                    *)
(***************************************************************************)
LEMMA AddNear ==
    ASSUME NEW q \in Nat \ {0, 1}, NEW d1 \in 0 .. 8, NEW d2 \in 0 .. 8,
           NEW x1, NEW x2, Near(x1, q, d1), Near(x2, q, d2)
    PROVE  Near(mont_add_reduce_2q_to_q(x1, x2, q), q, d1 + d2)
BY DEF Near, mont_add_reduce_2q_to_q, guard

LEMMA SubtractNear ==
    ASSUME NEW q \in Nat \ {0, 1}, NEW d1 \in 0 .. 8, NEW d2 \in 0 .. 8,
           NEW x1, NEW x2, Near(x1, q, d1), Near(x2, q, d2)
    PROVE  Near(mont_sub_reduce_2q_to_q(x1, x2, q), q, d1 + d2)
BY DEF Near, mont_sub_reduce_2q_to_q, guard

LEMMA NegateNear ==
    ASSUME NEW q \in Nat \ {0, 1}, NEW d \in 0 .. 8, NEW x, Near(x, q, d)
    PROVE  /\ Near(negate_make_unsigned(x, q), q, d)
           /\ Near(make_unsigned_reduce_2q_to_q(- x, q), q, d)
BY DEF Near, negate_make_unsigned, make_unsigned_reduce_2q_to_q, guard

LEMMA MultiplyNear ==
    ASSUME NEW q \in Nat \ {0, 1}, NEW k, Valid(q, k), NEW d \in 0 .. 8,
           NEW x, Near(x, q, d), NEW c \in Int, - q =< c, c =< q
    PROVE  Near(guard(mont_mult_scalar(x, c, q, k), q), q, DriftOfProduct(d))
<1> DEFINE y == mont_mult_scalar(x, c, q, k)
           e == 4 + d
<1>1. R \in Nat \ {0} /\ 4 * q < R
  BY RAssumption DEF Valid
<1>2. e \in 0 .. 64 /\ x \in Int
  BY DEF Near
<1>3. - (e * R) =< 16 * x /\ 16 * x =< e * R
  <2>1. (4 * q) * e =< R * e
    BY <1>1, Monotone
  <2> QED
    BY <1>1, <2>1 DEF Near
<1> HIDE DEF e
<1>4. y \in Int /\ - (e * q) =< 16 * y /\ 16 * y =< (e + 16) * q
  BY <1>2, <1>3, MontMultRange
<1> HIDE DEF y
<1> DEFINE D == DriftOfProduct(d)
<1>5. D \in Nat /\ e =< 4 * D
  BY DriftFacts DEF e
<1> HIDE DEF D
<1>6. e * q =< (4 * D) * q
  BY <1>2, <1>5, Monotone
<1>7. D * q \in Nat /\ (4 * D) * q = 4 * (D * q) /\ e * q \in Nat
  BY <1>2, <1>5
<1>8. (e + 16) * q = e * q + 16 * q /\ (4 + D) * q = 4 * q + D * q
  BY <1>2, <1>5
<1>9. Near(guard(y, q), q, D)
  BY <1>4, <1>5, <1>6, <1>7, <1>8 DEF Near, guard
<1> QED
  BY <1>9 DEF y, D

(***************************************************************************)
(* rescale_once_: the first residue belongs to a modulus q0 of any size.   *)
(* That both moduli are below R / 4 is all that bounds the result.         *)
(***************************************************************************)
LEMMA RescaleNear ==
    ASSUME NEW q \in Nat \ {0, 1}, NEW k, Valid(q, k), NEW d \in 0 .. 8,
           NEW q0 \in Nat \ {0, 1}, 4 * q0 < R,
           NEW x, Near(x, q, d), NEW x0, Near(x0, q0, d),
           NEW c \in 0 .. q - 1, NEW r \in {0, 1}
    PROVE  Near(guard(mont_add(mont_mult_scalar(guard(mont_subtract(x, x0, q), q), c, q, k), r, q), q),
                q, DriftOfProduct(d))
<1> DEFINE a == guard(mont_subtract(x, x0, q), q)
           e == 4 + d
           f == 4 + 2 * d
<1>1. R \in Nat \ {0} /\ 4 * q < R
  BY RAssumption DEF Valid
<1>2. e \in 0 .. 64 /\ f \in 0 .. 64
  OBVIOUS
<1>3. a \in Int /\ - (e * q0) =< 4 * a /\ 4 * a =< e * q + d * q0
  BY DEF Near, mont_subtract, guard
<1>4. (4 * q0) * e =< R * e /\ (4 * q) * e =< R * e /\ (4 * q0) * d =< R * d
  BY <1>1, Monotone
<1>5. - (e * R) =< 16 * a /\ 16 * a =< f * R
  BY <1>1, <1>2, <1>3, <1>4
<1> HIDE DEF a, e, f
<1> DEFINE y == mont_mult_scalar(a, c, q, k)
<1>6. y \in Int /\ - (e * q) =< 16 * y /\ 16 * y =< (f + 16) * q
  <2>1. c \in Int /\ - q =< c /\ c =< q /\ c >= 0
    OBVIOUS
  <2> QED
    BY <1>2, <1>3, <1>5, <2>1, MontMultRange
<1> HIDE DEF y
<1> DEFINE D == DriftOfProduct(d)
<1>7. D \in Nat /\ e =< 4 * D
  BY DriftFacts DEF e
<1> HIDE DEF D
<1>8. Near(guard(mont_add(y, r, q), q), q, D)
  <2>1. e * q =< (4 * D) * q
    BY <1>2, <1>7, Monotone
  <2>2. D * q \in Nat /\ (4 * D) * q = 4 * (D * q)
    BY <1>7
  <2>3. (f + 16) * q = 20 * q + 2 * (d * q) /\ e * q = 4 * q + d * q
    BY DEF e, f
  <2>4. d * q \in Nat /\ d * q =< 8 * q
    BY Monotone
  <2>5. (4 + D) * q = 4 * q + D * q
    BY <1>7
  <2> QED
    BY <1>6, <1>7, <2>1, <2>2, <2>3, <2>4, <2>5 DEF Near, mont_add, guard
<1> QED
  BY <1>8 DEF y, D, a

-----------------------------------------------------------------------------
(***************************************************************************)
(* The factors.                                                            *)
(***************************************************************************)
LEMMA InvertRange ==
    ASSUME NEW x, NEW q \in Nat \ {0, 1}
    PROVE  modulus_invert(x, q) \in 0 .. q - 1
BY DEF modulus_invert

LEMMA RemainderRange ==
    ASSUME NEW x \in Int, NEW q \in Nat \ {0, 1}
    PROVE  x % q \in 0 .. q - 1
BY DivMod

LEMMA ScaleRange ==
    ASSUME NEW x, NEW q \in Nat \ {0, 1}
    PROVE  modulus_multiply(modulus_invert(x, q), R, q) \in 0 .. q - 1
<1> DEFINE y == modulus_invert(x, q)
<1>1. y \in 0 .. q - 1
  BY InvertRange
<1> HIDE DEF y
<1>2. y * R \in Nat
  BY <1>1, RAssumption
<1>3. (y * R) % q \in 0 .. q - 1
  BY <1>2, RemainderRange
<1> QED
  BY <1>2, <1>3 DEF modulus_multiply, y

LEMMA MultiplierRange ==
    ASSUME NEW c \in Int, NEW m \in Level, NEW chain \in Chains(m)
    PROVE  LET q == get_q(m, chain)
           IN  /\ make_mult_multiplier(c, m)[chain] \in - q .. q
               /\ scale_enter_modulo(c, m)[chain] \in - q .. q
<1> DEFINE q == get_q(m, chain)
<1>1. q \in Nat \ {0, 1}
  BY ModulusFacts
<1> HIDE DEF q
<1>2. c * R \in Int /\ - (c * R) \in Int /\ - c * R \in Int
  BY RAssumption
<1>3. /\ (c * R) % q \in 0 .. q - 1
      /\ (- (c * R)) % q \in 0 .. q - 1
      /\ (- c * R) % q \in 0 .. q - 1
  BY <1>1, <1>2, RemainderRange
<1>4. make_mult_multiplier(c, m)[chain] \in - q .. q
  BY <1>1, <1>3 DEF make_mult_multiplier, modulus_multiply, q
<1>5. scale_enter_modulo(c, m)[chain] \in - q .. q
  BY <1>1, <1>3 DEF scale_enter_modulo, q
<1> QED
  BY <1>4, <1>5 DEF q

-----------------------------------------------------------------------------
(***************************************************************************)
(* The operations on all chains.                                           *)
(***************************************************************************)
LEMMA FreshNear ==
    ASSUME NEW message \in Int, NEW m \in Level
    PROVE  AllNear(Fresh(message, m), m, 0)
<1>1. ASSUME NEW chain \in Chains(m)
      PROVE  Near(Fresh(message, m)[chain], get_q(m, chain), 0)
  <2> DEFINE q == get_q(m, chain)
  <2>1. q \in Nat \ {0, 1}
    BY ModulusFacts
  <2>2. Fresh(message, m)[chain] = message % q
    BY DEF Fresh
  <2> HIDE DEF q
  <2>3. message % q \in 0 .. q - 1
    BY <2>1, RemainderRange
  <2>4. Near(message % q, q, 0)
    BY <2>1, <2>3 DEF Near
  <2> QED
    BY <2>2, <2>4 DEF q
<1> QED
  BY <1>1 DEF AllNear, Near, Fresh

LEMMA RescaleAllNear ==
    ASSUME NEW m \in Level, m + 1 \in Level, NEW d \in 0 .. 8,
           NEW x, AllNear(x, m, d)
    PROVE  AllNear(rescale_once(x, m), m + 1, DriftOfProduct(d))
<1>1. ASSUME NEW chain \in Chains(m + 1)
      PROVE  Near(rescale_once(x, m)[chain], get_q(m + 1, chain), DriftOfProduct(d))
  <2> DEFINE q == get_q(m + 1, chain)
             q0 == get_q(m, 0)
             c == modulus_multiply(modulus_invert(q0 % q, q), R, q)
             r == get_rounder(x[0], q0)
  <2>1. chain + 1 \in Chains(m) /\ 0 \in Chains(m) /\ q = get_q(m, chain + 1)
    BY ChainFacts
  <2>2. q \in Nat \ {0, 1} /\ Valid(q, k_of[q])
    BY ModulusFacts
  <2>3. q0 \in Nat \ {0, 1} /\ 4 * q0 < R
    BY <2>1, ModulusFacts
  <2>4. Near(x[chain + 1], q, d) /\ Near(x[0], q0, d)
    BY <2>1 DEF AllNear
  <2>5. c \in 0 .. q - 1
    BY <2>2, ScaleRange
  <2>6. r \in {0, 1}
    BY DEF get_rounder
  <2>7. rescale_once(x, m)[chain] =
          guard(mont_add(mont_mult_scalar(guard(mont_subtract(x[chain + 1], x[0], q), q), c, q, k_of[q]), r, q), q)
    BY DEF rescale_once
  <2> HIDE DEF q, q0, c, r
  <2>8. Near(rescale_once(x, m)[chain], q, DriftOfProduct(d))
    BY <2>2, <2>3, <2>4, <2>5, <2>6, <2>7, RescaleNear
  <2> QED
    BY <2>8 DEF q
<1>2. rescale_once(x, m) = [chain \in Chains(m + 1) |-> rescale_once(x, m)[chain]]
  BY DEF rescale_once
<1> QED
  BY <1>1, <1>2 DEF AllNear, Near

LEMMA MultiplyAllNear ==
    ASSUME NEW m \in Level, NEW d \in 0 .. 8, NEW x, AllNear(x, m, d),
           NEW multiplier,
           \A chain \in Chains(m) :
             multiplier[chain] \in - get_q(m, chain) .. get_q(m, chain)
    PROVE  AllNear(multiply_scalar(x, multiplier, m), m, DriftOfProduct(d))
<1>1. ASSUME NEW chain \in Chains(m)
      PROVE  Near(multiply_scalar(x, multiplier, m)[chain], get_q(m, chain), DriftOfProduct(d))
  <2> DEFINE q == get_q(m, chain)
             c == multiplier[chain]
  <2>1. q \in Nat \ {0, 1} /\ Valid(q, k_of[q])
    BY ModulusFacts
  <2>2. c \in - q .. q /\ Near(x[chain], q, d)
    BY DEF AllNear
  <2>3. multiply_scalar(x, multiplier, m)[chain] =
          guard(mont_mult_scalar(x[chain], c, q, k_of[q]), q)
    BY DEF multiply_scalar
  <2> HIDE DEF q, c
  <2>4. c \in Int /\ - q =< c /\ c =< q
    BY <2>1, <2>2
  <2>5. Near(multiply_scalar(x, multiplier, m)[chain], q, DriftOfProduct(d))
    BY <2>1, <2>2, <2>3, <2>4, MultiplyNear
  <2> QED
    BY <2>5 DEF q
<1>2. multiply_scalar(x, multiplier, m) =
        [chain \in Chains(m) |-> multiply_scalar(x, multiplier, m)[chain]]
  BY DEF multiply_scalar
<1> QED
  BY <1>1, <1>2 DEF AllNear, Near

LEMMA DropIs ==
    ASSUME NEW m \in Level, NEW count \in Nat, m + count \in Level, NEW x \in [Chains(m) -> Int]
    PROVE  Drop(x, count) = [chain \in Chains(m + count) |-> x[chain + count]]
<1>1. DOMAIN x = 0 .. ChainCount - m - 1
  BY DEF Chains
<1>2. Cardinality(DOMAIN x) = ChainCount - m
  <2> DEFINE n == ChainCount - m - 1
  <2>1. n \in Nat /\ 0 \in Int /\ n \in Int /\ 0 =< n
    BY ChainFacts DEF Level
  <2>2. Cardinality(0 .. n) = n - 0 + 1
    BY <2>1, FS_Interval
  <2> QED
    BY <1>1, <2>1, <2>2, ChainFacts DEF Level
<1>3. 0 .. Cardinality(DOMAIN x) - count - 1 = Chains(m + count)
  BY <1>2, ChainFacts DEF Chains, Level
<1> QED
  BY <1>3 DEF Drop

LEMMA DropNear ==
    ASSUME NEW m \in Level, NEW count \in Nat, m + count \in Level,
           NEW d, NEW x, AllNear(x, m, d)
    PROVE  AllNear(Drop(x, count), m + count, d)
<1>1. Drop(x, count) = [chain \in Chains(m + count) |-> x[chain + count]]
  BY DropIs DEF AllNear
<1>2. \A chain \in Chains(m + count) :
        /\ chain + count \in Chains(m)
        /\ get_q(m + count, chain) = get_q(m, chain + count)
  BY ChainFacts
<1> QED
  BY <1>1, <1>2 DEF AllNear

-----------------------------------------------------------------------------
(***************************************************************************)
(* The second operand of an addition or a subtraction.                     *)
(***************************************************************************)
LEMMA OperandNear ==
    ASSUME TypeOK, NEW operand \in Operand
    PROVE  /\ operand.terms \in 1 .. MaxTerms
           /\ operand.drift \in Nat
           /\ AllNear(operand.residues, moduli_id, operand.drift)
<1>1. moduli_id \in Level /\ AllNear(residues, moduli_id, drift)
  <2>1. ASSUME NEW chain \in Chains(moduli_id)
        PROVE  Near(residues[chain], get_q(moduli_id, chain), drift)
    BY ModulusFacts DEF TypeOK, Near, Level
  <2> QED
    BY <2>1 DEF TypeOK, AllNear, Level
<1>2. \A message \in Message, m \in Level : AllNear(Fresh(message, m), m, 0)
  BY FreshNear, TextAssumption
<1>3. MaxTerms \in Nat \ {0}
  BY TextAssumption
<1>4. CASE operand = [residues |-> residues, terms |-> terms, drift |-> drift]
  BY <1>1, <1>4, TextAssumption DEF TypeOK
<1>5. CASE operand.terms = 1 /\ operand.drift = 0
             /\ \E message \in Message : operand.residues = Fresh(message, moduli_id)
  BY <1>1, <1>2, <1>3, <1>5
<1>6. CASE /\ moduli_id # 0
           /\ operand.terms = 1 /\ operand.drift = DriftOfProduct(0)
           /\ \E message \in Message :
                operand.residues = rescale_once(Fresh(message, moduli_id - 1), moduli_id - 1)
  <2>1. PICK message \in Message :
          operand.residues = rescale_once(Fresh(message, moduli_id - 1), moduli_id - 1)
    BY <1>6
  <2> DEFINE m == moduli_id - 1
  <2>2. m \in Level /\ m + 1 \in Level /\ m + 1 = moduli_id
    BY <1>1, <1>6, ChainFacts DEF Level
  <2> HIDE DEF m
  <2>3. AllNear(rescale_once(Fresh(message, m), m), m + 1, DriftOfProduct(0))
    BY <1>2, <2>2, RescaleAllNear
  <2>4. DriftOfProduct(0) \in Nat
    BY DriftFacts
  <2> QED
    BY <1>3, <1>6, <2>1, <2>2, <2>3, <2>4 DEF m
<1> QED
  BY <1>4, <1>5, <1>6 DEF Operand

(* What TypeOK says of a state is that its residues are near. *)
LEMMA TypeFromNear ==
    ASSUME NEW m \in Level, NEW t \in 1 .. MaxTerms, NEW d \in 0 .. MaxDrift,
           NEW x, AllNear(x, m, d)
    PROVE  /\ x \in [Chains(m) -> Int]
           /\ \A chain \in Chains(m) :
                LET q == get_q(m, chain)
                IN  4 * x[chain] \in - (d * q) .. (4 + d) * q
<1>1. ASSUME NEW chain \in Chains(m)
      PROVE  LET q == get_q(m, chain)
             IN  4 * x[chain] \in - (d * q) .. (4 + d) * q
  <2> DEFINE q == get_q(m, chain)
  <2>1. q \in Nat /\ d \in Nat
    BY ModulusFacts, TextAssumption
  <2>2. Near(x[chain], q, d)
    BY DEF AllNear
  <2> QED
    BY <2>1, <2>2 DEF Near
<1> QED
  BY <1>1 DEF AllNear

-----------------------------------------------------------------------------
(***************************************************************************)
(* The residues of a text, at any level and after any sequence of          *)
(* operations, are no further outside of 0 .. q - 1 than the operations    *)
(* explain.  The invariant is inductive as it stands.                      *)
(***************************************************************************)
LEMMA InitTypeOK == Init => TypeOK
<1> SUFFICES ASSUME Init
             PROVE  TypeOK
  OBVIOUS
<1>1. PICK message \in Message : residues = Fresh(message, moduli_id)
  BY DEF Init
<1>2. moduli_id \in Level /\ terms = 1 /\ drift = 0
  BY DEF Init, Level
<1>3. AllNear(residues, moduli_id, 0)
  BY <1>1, <1>2, FreshNear, TextAssumption
<1>4. 0 \in 0 .. MaxDrift /\ 1 \in 1 .. MaxTerms
  BY TextAssumption
<1> QED
  BY <1>2, <1>3, <1>4, TypeFromNear DEF TypeOK, Level

LEMMA StepTypeOK == TypeOK /\ [Next]_vars => TypeOK'
<1> SUFFICES ASSUME TypeOK, [Next]_vars
             PROVE  TypeOK'
  OBVIOUS
<1>1. /\ moduli_id \in Level /\ terms \in 1 .. MaxTerms
      /\ drift \in 0 .. MaxDrift /\ drift \in 0 .. 8
  BY TextAssumption DEF TypeOK, Level
<1>2. AllNear(residues, moduli_id, drift)
  <2>1. ASSUME NEW chain \in Chains(moduli_id)
        PROVE  Near(residues[chain], get_q(moduli_id, chain), drift)
    BY <1>1, ModulusFacts DEF TypeOK, Near
  <2> QED
    BY <2>1 DEF TypeOK, AllNear
<1>3. DriftOfProduct(drift) \in 0 .. MaxDrift
  BY <1>1, TextAssumption DEF DriftOfProduct
<1>4. SUFFICES /\ moduli_id' \in Level /\ terms' \in 1 .. MaxTerms
               /\ drift' \in 0 .. MaxDrift
               /\ AllNear(residues', moduli_id', drift')
  BY TypeFromNear DEF TypeOK, Level
<1>5. ASSUME NEW operand \in Operand,
             Add(operand) \/ Subtract(operand) \/ SubtractFrom(operand)
      PROVE  /\ moduli_id' \in Level /\ terms' \in 1 .. MaxTerms
             /\ drift' \in 0 .. MaxDrift
             /\ AllNear(residues', moduli_id', drift')
  <2>1. /\ operand.terms \in 1 .. MaxTerms /\ operand.drift \in Nat
        /\ AllNear(operand.residues, moduli_id, operand.drift)
    BY OperandNear
  <2>2. Combined(operand)
    BY <1>5 DEF Add, Subtract, SubtractFrom
  <2>3. /\ moduli_id' = moduli_id /\ terms' \in 1 .. MaxTerms
        /\ drift' = drift + operand.drift /\ drift' \in 0 .. MaxDrift
        /\ operand.drift \in 0 .. 8
    BY <1>1, <2>1, <2>2, TextAssumption DEF Combined
  <2>4. ASSUME NEW chain \in Chains(moduli_id)
        PROVE  LET q == get_q(moduli_id, chain)
                   x1 == residues[chain]
                   x2 == operand.residues[chain]
               IN  /\ Near(mont_add_reduce_2q_to_q(x1, x2, q), q, drift')
                   /\ Near(mont_sub_reduce_2q_to_q(x1, x2, q), q, drift')
                   /\ Near(mont_sub_reduce_2q_to_q(x2, x1, q), q, drift')
    <3> DEFINE q == get_q(moduli_id, chain)
               x1 == residues[chain]
               x2 == operand.residues[chain]
    <3>1. q \in Nat \ {0, 1}
      BY <1>1, ModulusFacts
    <3>2. Near(x1, q, drift) /\ Near(x2, q, operand.drift)
      BY <1>2, <2>1 DEF AllNear
    <3> HIDE DEF q, x1, x2
    <3>3. drift + operand.drift = operand.drift + drift
      BY <1>1, <2>3
    <3>4. /\ Near(mont_add_reduce_2q_to_q(x1, x2, q), q, drift + operand.drift)
          /\ Near(mont_sub_reduce_2q_to_q(x1, x2, q), q, drift + operand.drift)
          /\ Near(mont_sub_reduce_2q_to_q(x2, x1, q), q, operand.drift + drift)
      BY <1>1, <2>3, <3>1, <3>2, AddNear, SubtractNear
    <3> QED
      BY <2>3, <3>3, <3>4 DEF q, x1, x2
  <2>5. AllNear(residues', moduli_id, drift')
    <3>1. CASE Add(operand)
      BY <2>4, <3>1 DEF Add, AllNear, Near
    <3>2. CASE Subtract(operand)
      BY <2>4, <3>2 DEF Subtract, AllNear, Near
    <3>3. CASE SubtractFrom(operand)
      BY <2>4, <3>3 DEF SubtractFrom, AllNear, Near
    <3> QED
      BY <1>5, <3>1, <3>2, <3>3
  <2> QED
    BY <1>1, <2>3, <2>5
<1>6. CASE Negate \/ RotateWithSign
  <2>1. /\ moduli_id' = moduli_id /\ terms' = terms /\ drift' = drift
    BY <1>6 DEF Negate, RotateWithSign
  <2>2. ASSUME NEW chain \in Chains(moduli_id)
        PROVE  LET q == get_q(moduli_id, chain)
                   x == residues[chain]
               IN  /\ Near(negate_make_unsigned(x, q), q, drift)
                   /\ Near(make_unsigned_reduce_2q_to_q(- x, q), q, drift)
    <3>1. get_q(moduli_id, chain) \in Nat \ {0, 1}
      BY <1>1, ModulusFacts
    <3>2. Near(residues[chain], get_q(moduli_id, chain), drift)
      BY <1>2 DEF AllNear
    <3> QED
      BY <1>1, <3>1, <3>2, NegateNear
  <2>3. AllNear(residues', moduli_id, drift)
    <3>1. CASE Negate
      BY <2>2, <3>1 DEF Negate, AllNear, Near
    <3>2. CASE RotateWithSign
      BY <2>2, <3>2 DEF RotateWithSign, AllNear, Near
    <3> QED
      BY <1>6, <3>1, <3>2
  <2> QED
    BY <1>1, <2>1, <2>3
<1>7. ASSUME NEW c \in Scalar, Multiply(c)
      PROVE  /\ moduli_id' \in Level /\ terms' \in 1 .. MaxTerms
             /\ drift' \in 0 .. MaxDrift
             /\ AllNear(residues', moduli_id', drift')
  <2>1. \A chain \in Chains(moduli_id) :
          make_mult_multiplier(c, moduli_id)[chain] \in
            - get_q(moduli_id, chain) .. get_q(moduli_id, chain)
    BY <1>1, MultiplierRange, TextAssumption
  <2>2. AllNear(multiply_scalar(residues, make_mult_multiplier(c, moduli_id), moduli_id),
                moduli_id, DriftOfProduct(drift))
    BY <1>1, <1>2, <2>1, MultiplyAllNear
  <2> QED
    BY <1>1, <1>3, <1>7, <2>2 DEF Multiply
<1>8. CASE Rescale
  <2>1. moduli_id + 1 \in Level
    BY <1>1, <1>8, ChainFacts DEF Rescale, Level
  <2>2. AllNear(rescale_once(residues, moduli_id), moduli_id + 1, DriftOfProduct(drift))
    BY <1>1, <1>2, <2>1, RescaleAllNear
  <2> QED
    BY <1>1, <1>3, <1>8, <2>1, <2>2 DEF Rescale
<1> DEFINE Scaled(x, c, m) == multiply_scalar(x, scale_enter_modulo(c, m), m)
<1>9. ASSUME NEW x, NEW c \in Scalar, NEW m \in Level, AllNear(x, m, drift)
      PROVE  AllNear(Scaled(x, c, m), m, DriftOfProduct(drift))
  <2>1. \A chain \in Chains(m) :
          scale_enter_modulo(c, m)[chain] \in - get_q(m, chain) .. get_q(m, chain)
    BY <1>1, MultiplierRange, TextAssumption
  <2> QED
    BY <1>1, <1>9, <2>1, MultiplyAllNear
<1>10. ASSUME NEW m \in Level, NEW c \in Scalar, LevelDownAfterRescale(m, c)
       PROVE  /\ moduli_id' \in Level /\ terms' \in 1 .. MaxTerms
              /\ drift' \in 0 .. MaxDrift
              /\ AllNear(residues', moduli_id', drift')
  <2> DEFINE count == m - moduli_id
  <2>1. count \in Nat /\ moduli_id + count = m
    BY <1>1, <1>10, ChainFacts DEF LevelDownAfterRescale, Level
  <2>2. residues' = Scaled(Drop(residues, count), c, m)
    BY <1>10 DEF LevelDownAfterRescale
  <2> HIDE DEF count
  <2>3. AllNear(Drop(residues, count), m, drift)
    BY <1>1, <1>2, <1>10, <2>1, DropNear
  <2>4. AllNear(residues', m, DriftOfProduct(drift))
    BY <1>9, <1>10, <2>2, <2>3
  <2> QED
    BY <1>1, <1>3, <1>10, <2>4 DEF LevelDownAfterRescale
<1>11. ASSUME NEW m \in Level, NEW c \in Scalar, LevelDown(m, c)
       PROVE  /\ moduli_id' \in Level /\ terms' \in 1 .. MaxTerms
              /\ drift' \in 0 .. MaxDrift
              /\ AllNear(residues', moduli_id', drift')
  <2> DEFINE count == m - moduli_id - 1
             d == DriftOfProduct(drift)
             n == moduli_id + 1
             x == rescale_once(Scaled(residues, c, moduli_id), moduli_id)
  <2>1. count \in Nat /\ n + count = m /\ n \in Level /\ n = moduli_id + 1
    BY <1>1, <1>11, ChainFacts DEF LevelDown, Level
  <2>2. d \in 0 .. 8 /\ DriftOfProduct(d) \in 0 .. MaxDrift
    BY <1>1, TextAssumption DEF DriftOfProduct
  <2>3. AllNear(Scaled(residues, c, moduli_id), moduli_id, d)
    BY <1>1, <1>2, <1>9
  <2>4. AllNear(x, n, DriftOfProduct(d))
    BY <1>1, <2>1, <2>2, <2>3, RescaleAllNear
  <2>5. residues' = Drop(x, count) /\ moduli_id' = m
        /\ drift' = DriftOfProduct(d) /\ terms' = terms
    BY <1>11 DEF LevelDown
  <2> HIDE DEF count, d, n, x
  <2>6. AllNear(Drop(x, count), m, DriftOfProduct(d))
    BY <2>1, <2>4, DropNear
  <2> QED
    BY <1>1, <2>2, <2>5, <2>6
<1>12. CASE UNCHANGED vars
  BY <1>1, <1>2, <1>12 DEF vars, AllNear
<1> QED
  BY <1>5, <1>6, <1>7, <1>8, <1>10, <1>11, <1>12 DEF Next, Level

THEOREM ResiduesNearRange == Spec => []TypeOK
BY InitTypeOK, StepTypeOK, PTL DEF Spec

-----------------------------------------------------------------------------
(* Every nonempty set of natural numbers has a least element. *)
LEMMA LeastOfNaturals ==
    ASSUME NEW S \in SUBSET Nat, S # {}
    PROVE  \E m \in S : \A k \in S : m =< k
<1> DEFINE Less == {pair \in Nat \X Nat : pair[1] < pair[2]}
<1>1. IsWellFoundedOn(Less, Nat)
  BY NatLessThanWellFounded DEF OpToRel
<1> HIDE DEF Less
<1>2. PICK m \in S : \A k \in S : ~(<<k, m>> \in Less)
  BY <1>1, WFMin
<1>3. \A k \in S : ~(k < m)
  BY <1>2 DEF Less
<1> QED
  BY <1>3

(***************************************************************************)
(* A set that holds one end of an interval and is closed under a step      *)
(* towards the other end holds the interval.                               *)
(***************************************************************************)
LEMMA Upward ==
    ASSUME NEW lo \in Int, NEW hi \in Int, NEW S, lo \in S,
           \A n \in lo .. hi : n + 1 =< hi /\ n \in S => n + 1 \in S
    PROVE  \A n \in lo .. hi : n \in S
<1> DEFINE Outside == {k \in Nat : lo + k =< hi /\ lo + k \notin S}
<1>1. SUFFICES ASSUME Outside # {} PROVE FALSE
  <2> SUFFICES ASSUME NEW n \in lo .. hi, n \notin S PROVE FALSE
    OBVIOUS
  <2>1. n - lo \in Nat /\ lo + (n - lo) = n
    OBVIOUS
  <2>2. n - lo \in Outside
    BY <2>1
  <2> QED
    BY <1>1, <2>2
<1>2. PICK k \in Outside : \A j \in Outside : k =< j
  BY <1>1, LeastOfNaturals
<1>3. k # 0 /\ k \in Nat
  BY <1>2
<1>4. k - 1 \in Nat /\ k - 1 \notin Outside
  BY <1>2, <1>3
<1>5. lo + (k - 1) \in lo .. hi /\ lo + (k - 1) \in S
  BY <1>2, <1>4
<1>6. (lo + (k - 1)) + 1 = lo + k /\ lo + k =< hi
  BY <1>2, <1>3
<1> QED
  BY <1>2, <1>5, <1>6

LEMMA Downward ==
    ASSUME NEW lo \in Int, NEW hi \in Int, NEW S, hi \in S,
           \A n \in lo .. hi : n # lo /\ n \in S => n - 1 \in S
    PROVE  \A n \in lo .. hi : n \in S
<1> DEFINE T == {n \in Int : lo + hi - n \in S}
<1>1. lo \in T
  OBVIOUS
<1>2. ASSUME NEW n \in lo .. hi, n + 1 =< hi, n \in T
      PROVE  n + 1 \in T
  <2>1. lo + hi - n \in lo .. hi /\ lo + hi - n # lo /\ lo + hi - n \in S
    BY <1>2
  <2>2. lo + hi - (n + 1) = (lo + hi - n) - 1
    OBVIOUS
  <2> QED
    BY <2>1, <2>2
<1> HIDE DEF T
<1>3. \A n \in lo .. hi : n \in T
  BY <1>1, <1>2, Upward
<1>4. ASSUME NEW n \in lo .. hi
      PROVE  n \in S
  <2>1. lo + hi - n \in lo .. hi /\ lo + hi - (lo + hi - n) = n
    OBVIOUS
  <2>2. lo + hi - n \in T
    BY <1>3, <2>1
  <2> QED
    BY <2>1, <2>2 DEF T
<1> QED
  BY <1>4

(***************************************************************************)
(* A recursive definition with one step has a solution.                    *)
(***************************************************************************)
LEMMA RecursionExists ==
    ASSUME NEW count \in Nat, NEW first \in Int,
           NEW step \in [Int \X (1 .. count) -> Int]
    PROVE  \E f \in [0 .. count -> Int] :
             f[0] = first /\ \A n \in 1 .. count : f[n] = step[<<f[n - 1], n>>]
<1> DEFINE Solves(f, k) == /\ f \in [0 .. k -> Int] /\ f[0] = first
                           /\ \A n \in 1 .. k : f[n] = step[<<f[n - 1], n>>]
           S == {k \in 0 .. count : \E f : Solves(f, k)}
<1>1. 0 \in S
  <2> DEFINE f == [n \in 0 .. 0 |-> first]
  <2>1. Solves(f, 0)
    OBVIOUS
  <2>2. 0 \in 0 .. count
    OBVIOUS
  <2> HIDE DEF f, Solves
  <2> QED
    BY <2>1, <2>2
<1>2. ASSUME NEW k \in 0 .. count, k + 1 =< count, k \in S
      PROVE  k + 1 \in S
  <2>1. PICK f : Solves(f, k)
    BY <1>2
  <2> DEFINE g == [n \in 0 .. k + 1 |-> IF n = k + 1 THEN step[<<f[k], k + 1>>] ELSE f[n]]
  <2>2. f[k] \in Int /\ k + 1 \in 1 .. count
    BY <1>2, <2>1
  <2>3. step[<<f[k], k + 1>>] \in Int
    BY <2>2
  <2>4. g \in [0 .. k + 1 -> Int]
    <3>1. ASSUME NEW n \in 0 .. k + 1
          PROVE  g[n] \in Int
      <4>1. n \in 0 .. k \/ n = k + 1
        OBVIOUS
      <4> QED
        BY <2>1, <2>3, <4>1
    <3> QED
      BY <3>1
  <2>5. ASSUME NEW n \in 1 .. k + 1
        PROVE  g[n] = step[<<g[n - 1], n>>]
    <3>1. n - 1 \in 0 .. k + 1 /\ n - 1 # k + 1 /\ g[n - 1] = f[n - 1]
      OBVIOUS
    <3>2. CASE n = k + 1
      BY <3>1, <3>2
    <3>3. CASE n # k + 1
      <4>1. n \in 1 .. k
        BY <3>3
      <4>2. f[n] = step[<<f[n - 1], n>>]
        BY <2>1, <4>1
      <4> QED
        BY <3>1, <3>3, <4>2
    <3> QED
      BY <3>2, <3>3
  <2>6. g[0] = first
    BY <2>1
  <2> HIDE DEF g
  <2>7. Solves(g, k + 1)
    BY <2>4, <2>5, <2>6
  <2>8. k + 1 \in 0 .. count
    BY <1>2
  <2> QED
    BY <2>7, <2>8
<1> HIDE DEF S
<1>3. count \in S
  BY <1>1, <1>2, Upward
<1>4. PICK f : Solves(f, count)
  BY <1>3 DEF S
<1> QED
  BY <1>4

-----------------------------------------------------------------------------
LEMMA ModuliFacts ==
    /\ ChainCount \in Nat \ {0, 1}
    /\ \A i \in 1 .. ChainCount :
         /\ Moduli[i] \in Nat \ {0, 1} /\ 2 < Moduli[i] /\ 4 * Moduli[i] < R
         /\ Coprime(R, Moduli[i])
         /\ \A j \in 1 .. ChainCount : j # i => Coprime(Moduli[j], Moduli[i])
<1>1. ChainCount \in Nat \ {0, 1}
  BY ModuliAssumption DEF ChainCount
<1>2. \A i \in 1 .. ChainCount : Moduli[i] \in Nat \ {0, 1}
  BY ModuliAssumption DEF ChainCount
<1>3. ASSUME NEW q \in Nat \ {0, 1}, NEW a \in Int, NEW y \in 0 .. q - 1, (a * y) % q = 1
      PROVE  Coprime(a, q)
  <2>1. a * y \in Int /\ y \in Int
    OBVIOUS
  <2>2. (a * y) \div q \in Int /\ a * y = (q * ((a * y) \div q)) + ((a * y) % q)
    BY <2>1, DivMod
  <2>3. q * ((a * y) \div q) \in Int
    BY <2>2
  <2>4. a * y = 1 + q * ((a * y) \div q)
    BY <1>3, <2>2, <2>3
  <2> QED
    BY <2>1, <2>2, <2>4 DEF Coprime
<1>4. R \in Int
  BY RAssumption
<1>5. ASSUME NEW i \in 1 .. ChainCount
      PROVE  /\ 2 < Moduli[i] /\ 4 * Moduli[i] < R
             /\ Coprime(R, Moduli[i])
  BY <1>2, <1>3, <1>4, <1>5, ModuliAssumption
<1>6. ASSUME NEW i \in 1 .. ChainCount, NEW j \in 1 .. ChainCount, j # i
      PROVE  Coprime(Moduli[j], Moduli[i])
  <2>1. Moduli[j] \in Int /\ Moduli[i] \in Nat \ {0, 1}
    BY <1>2
  <2>2. PICK y \in 0 .. Moduli[i] - 1 : (Moduli[j] * y) % Moduli[i] = 1
    BY <1>6, ModuliAssumption
  <2> QED
    BY <1>3, <2>1, <2>2
<1> QED
  BY <1>1, <1>2, <1>5, <1>6

(* The products of the moduli of the levels. *)
LEMMA ModulusRecurrence ==
    /\ Modulus(ChainCount) = 1
    /\ \A m \in 0 .. ChainCount : Modulus(m) \in Nat \ {0}
    /\ \A m \in Level : Modulus(m) = Modulus(m + 1) * Moduli[m + 1]
<1> DEFINE step == [p \in Int \X (1 .. ChainCount) |-> p[1] * Moduli[ChainCount + 1 - p[2]]]
<1>0. ChainCount \in Nat
  BY ModuliFacts
<1>1. \A n \in 1 .. ChainCount : Moduli[ChainCount + 1 - n] \in Nat \ {0}
  <2> TAKE n \in 1 .. ChainCount
  <2>1. ChainCount + 1 - n \in 1 .. ChainCount
    BY <1>0
  <2> QED
    BY <2>1, ModuliFacts
<1>2. step \in [Int \X (1 .. ChainCount) -> Int]
  <2>1. ASSUME NEW p \in Int \X (1 .. ChainCount)
        PROVE  step[p] \in Int
    BY <1>1
  <2> QED
    BY <2>1
<1>3. 1 \in Int
  OBVIOUS
<1>4. PICK f \in [0 .. ChainCount -> Int] :
        f[0] = 1 /\ \A n \in 1 .. ChainCount : f[n] = step[<<f[n - 1], n>>]
  <2> HIDE DEF step
  <2> DEFINE first == 1
             count == ChainCount
  <2>1. first \in Int /\ count \in Nat /\ step \in [Int \X (1 .. count) -> Int]
    BY <1>0, <1>2, <1>3
  <2> HIDE DEF first, count
  <2>2. \E f \in [0 .. count -> Int] :
          f[0] = first /\ \A n \in 1 .. count : f[n] = step[<<f[n - 1], n>>]
    BY <2>1, RecursionExists
  <2> QED
    BY <2>2 DEF first, count
<1>5. f = [n \in 0 .. ChainCount |-> IF n = 0 THEN 1 ELSE f[n - 1] * Moduli[ChainCount + 1 - n]]
  <2>1. ASSUME NEW n \in 0 .. ChainCount
        PROVE  f[n] = IF n = 0 THEN 1 ELSE f[n - 1] * Moduli[ChainCount + 1 - n]
    <3>1. CASE n = 0
      BY <1>4, <3>1
    <3>2. CASE n # 0
      <4>1. n \in 1 .. ChainCount /\ f[n - 1] \in Int
        BY <1>0, <3>2
      <4>2. f[n] = step[<<f[n - 1], n>>]
        BY <1>4, <4>1
      <4> QED
        BY <3>2, <4>1, <4>2
    <3> QED
      BY <3>1, <3>2
  <2> QED
    BY <2>1
<1>6. product_of_last =
        [n \in 0 .. ChainCount |->
           IF n = 0 THEN 1 ELSE product_of_last[n - 1] * Moduli[ChainCount + 1 - n]]
  BY <1>5 DEF product_of_last
<1>7. \A n \in 0 .. ChainCount :
        product_of_last[n] = IF n = 0 THEN 1
                             ELSE product_of_last[n - 1] * Moduli[ChainCount + 1 - n]
  BY <1>6, Zenon
<1>8. \A m \in Level : Modulus(m) = Modulus(m + 1) * Moduli[m + 1]
  <2> TAKE m \in Level
  <2> DEFINE n == ChainCount - m
  <2>1. n \in 0 .. ChainCount /\ n # 0 /\ ChainCount - (m + 1) = n - 1
        /\ ChainCount + 1 - n = m + 1
    BY <1>0 DEF Level
  <2> QED
    BY <1>7, <2>1 DEF Modulus
<1>9. Modulus(ChainCount) = 1
  BY <1>0, <1>7 DEF Modulus
<1>10. \A m \in 0 .. ChainCount : Modulus(m) \in Nat \ {0}
  <2> DEFINE S == {m \in 0 .. ChainCount : Modulus(m) \in Nat \ {0}}
  <2>1. ChainCount \in S
    BY <1>0, <1>9
  <2>2. ASSUME NEW m \in 0 .. ChainCount, m # 0, m \in S
        PROVE  m - 1 \in S
    <3>1. m - 1 \in Level /\ m - 1 + 1 = m /\ m \in 1 .. ChainCount /\ m - 1 \in 0 .. ChainCount
      BY <1>0, <2>2 DEF Level
    <3>2. Modulus(m - 1) = Modulus(m) * Moduli[m]
      BY <1>8, <3>1
    <3>3. Moduli[m] \in Nat \ {0}
      BY <3>1, ModuliFacts
    <3>4. Modulus(m) * Moduli[m] \in Nat \ {0}
      BY <2>2, <3>3
    <3> QED
      BY <3>1, <3>2, <3>4
  <2> HIDE DEF S
  <2>3. /\ 0 \in Int /\ ChainCount \in Int
        /\ \A m \in 0 .. ChainCount : m # 0 /\ m \in S => m - 1 \in S
    BY <1>0, <2>2
  <2>4. \A m \in 0 .. ChainCount : m \in S
    BY <2>1, <2>3, Downward, Zenon
  <2> QED
    BY <2>4 DEF S
<1> QED
  BY <1>8, <1>9, <1>10

(* The moduli that a level lacks have inverses of its product. *)
LEMMA ModulusCoprime ==
    ASSUME NEW m \in 0 .. ChainCount, NEW i \in 1 .. m
    PROVE  Coprime(Modulus(m), Moduli[i])
<1> DEFINE S == {n \in 0 .. ChainCount : \A j \in 1 .. n : Coprime(Modulus(n), Moduli[j])}
<1>0. ChainCount \in Nat
  BY ModuliFacts
<1>1. ChainCount \in S
  <2>1. ASSUME NEW j \in 1 .. ChainCount
        PROVE  Coprime(Modulus(ChainCount), Moduli[j])
    <3>1. Moduli[j] \in Int
      BY ModuliFacts
    <3> QED
      BY <3>1, CoprimeOne, ModulusRecurrence
  <2> QED
    BY <1>0, <2>1
<1>2. ASSUME NEW n \in 0 .. ChainCount, n # 0, n \in S
      PROVE  n - 1 \in S
  <2>1. n - 1 \in Level /\ n - 1 \in 0 .. ChainCount /\ (n - 1) + 1 = n /\ n \in 1 .. ChainCount
    BY <1>0, <1>2 DEF Level
  <2>2. Modulus(n - 1) = Modulus(n) * Moduli[n]
    BY <2>1, ModulusRecurrence
  <2>3. Modulus(n) \in Int /\ Moduli[n] \in Int
    BY <2>1, ModulusRecurrence, ModuliFacts
  <2>4. ASSUME NEW j \in 1 .. n - 1
        PROVE  Coprime(Modulus(n - 1), Moduli[j])
    <3>1. j \in 1 .. ChainCount /\ j # n /\ j \in 1 .. n
      BY <1>0, <2>1
    <3>2. Coprime(Moduli[n], Moduli[j]) /\ Moduli[j] \in Int
      BY <2>1, <3>1, ModuliFacts
    <3>3. Coprime(Modulus(n), Moduli[j])
      BY <1>2, <3>1
    <3>4. Coprime(Modulus(n) * Moduli[n], Moduli[j])
      BY <2>3, <3>2, <3>3, CoprimeProduct
    <3> QED
      BY <2>2, <3>4
  <2> QED
    BY <2>1, <2>4
<1> HIDE DEF S
<1>3. /\ 0 \in Int /\ ChainCount \in Int
      /\ \A n \in 0 .. ChainCount : n # 0 /\ n \in S => n - 1 \in S
  BY <1>0, <1>2
<1>4. \A n \in 0 .. ChainCount : n \in S
  BY <1>1, <1>3, Downward, Zenon
<1> QED
  BY <1>4 DEF S

(***************************************************************************)
(* The product of the other moduli of a level has an inverse modulo each.  *)
(***************************************************************************)
IsCofactor(w, m, i) ==
    /\ w \in Nat \ {0} /\ Modulus(m) = w * Moduli[i]
    /\ Coprime(w, Moduli[i])
    /\ \A j \in m + 1 .. ChainCount : j # i => Cong(w, 0, Moduli[j])

LEMMA CofactorExists ==
    ASSUME NEW m \in 0 .. ChainCount, NEW i \in m + 1 .. ChainCount
    PROVE  \E w : IsCofactor(w, m, i)
<1> DEFINE S == {n \in 0 .. ChainCount :
                   \A j \in n + 1 .. ChainCount : \E w : IsCofactor(w, n, j)}
<1>0. ChainCount \in Nat
  BY ModuliFacts
<1>1. ChainCount \in S
  BY <1>0
<1>2. ASSUME NEW n \in 0 .. ChainCount, n # 0, n \in S
      PROVE  n - 1 \in S
  <2>1. n - 1 \in Level /\ n - 1 \in 0 .. ChainCount /\ (n - 1) + 1 = n /\ n \in 1 .. ChainCount
    BY <1>0, <1>2 DEF Level
  <2>2. Modulus(n - 1) = Modulus(n) * Moduli[n]
    BY <2>1, ModulusRecurrence
  <2>3. Modulus(n) \in Nat \ {0} /\ Moduli[n] \in Nat \ {0}
    BY <2>1, ModulusRecurrence, ModuliFacts
  <2>4. ASSUME NEW j \in n .. ChainCount
        PROVE  \E w : IsCofactor(w, n - 1, j)
    <3>1. CASE j = n
      <4>1. ASSUME NEW k \in n .. ChainCount, k # n
            PROVE  Cong(Modulus(n), 0, Moduli[k])
        <5>1. k \in n + 1 .. ChainCount /\ k \in 1 .. ChainCount
          BY <2>1, <4>1
        <5>2. PICK w : IsCofactor(w, n, k)
          BY <1>2, <5>1
        <5>3. Modulus(n) = w * Moduli[k] /\ w \in Int /\ Moduli[k] \in Int
          BY <5>1, <5>2, ModuliFacts DEF IsCofactor
        <5>4. Modulus(n) = 0 + Moduli[k] * w
          BY <5>3
        <5> QED
          BY <5>3, <5>4 DEF Cong
      <4>2. Coprime(Modulus(n), Moduli[n])
        BY <2>1, ModulusCoprime
      <4>3. IsCofactor(Modulus(n), n - 1, n)
        BY <2>1, <2>2, <2>3, <4>1, <4>2 DEF IsCofactor
      <4> QED
        BY <3>1, <4>3
    <3>2. CASE j # n
      <4>1. j \in n + 1 .. ChainCount /\ j \in 1 .. ChainCount
        BY <2>1, <3>2
      <4>2. PICK w : IsCofactor(w, n, j)
        BY <1>2, <4>1
      <4>3. Moduli[j] \in Nat \ {0} /\ w \in Nat \ {0} /\ Modulus(n) = w * Moduli[j]
            /\ Coprime(w, Moduli[j])
        BY <4>1, <4>2, ModuliFacts DEF IsCofactor
      <4> DEFINE v == w * Moduli[n]
      <4>4. v \in Nat \ {0} /\ Modulus(n - 1) = v * Moduli[j]
        BY <2>2, <2>3, <4>3
      <4>5. Coprime(v, Moduli[j])
        <5>1. Coprime(Moduli[n], Moduli[j])
          BY <2>1, <3>2, <4>1, ModuliFacts
        <5> QED
          BY <2>3, <4>3, <5>1, CoprimeProduct
      <4>6. ASSUME NEW k \in n .. ChainCount, k # j
            PROVE  Cong(v, 0, Moduli[k])
        <5>1. CASE k = n
          <6>1. v = 0 + Moduli[n] * w
            BY <2>3, <4>3
          <6> QED
            BY <4>3, <5>1, <6>1 DEF Cong
        <5>2. CASE k # n
          <6>1. k \in n + 1 .. ChainCount /\ k \in 1 .. ChainCount
            BY <2>1, <5>2
          <6>2. Cong(w, 0, Moduli[k]) /\ Moduli[k] \in Int
            BY <4>2, <4>6, <6>1, ModuliFacts DEF IsCofactor
          <6>3. PICK u \in Int : w = 0 + Moduli[k] * u
            BY <6>2 DEF Cong
          <6>4. v = 0 + Moduli[k] * (u * Moduli[n]) /\ u * Moduli[n] \in Int
            BY <2>3, <6>2, <6>3
          <6> QED
            BY <6>4 DEF Cong
        <5> QED
          BY <5>1, <5>2
      <4> HIDE DEF v
      <4>7. IsCofactor(v, n - 1, j)
        BY <2>1, <4>4, <4>5, <4>6 DEF IsCofactor
      <4> QED
        BY <4>7
    <3> QED
      BY <3>1, <3>2
  <2> QED
    BY <2>1, <2>4
<1> HIDE DEF S
<1>3. /\ 0 \in Int /\ ChainCount \in Int
      /\ \A n \in 0 .. ChainCount : n # 0 /\ n \in S => n - 1 \in S
  BY <1>0, <1>2
<1>4. \A n \in 0 .. ChainCount : n \in S
  BY <1>1, <1>3, Downward, Zenon
<1> QED
  BY <1>4 DEF S

(* Integers that no modulus of a level tells apart, its product does not. *)
LEMMA ResiduesDetermine ==
    ASSUME NEW m \in 0 .. ChainCount, NEW a \in Int, NEW b \in Int,
           \A i \in m + 1 .. ChainCount : Cong(a, b, Moduli[i])
    PROVE  Cong(a, b, Modulus(m))
<1> DEFINE S == {n \in m .. ChainCount : Cong(a, b, Modulus(n))}
<1>0. ChainCount \in Nat
  BY ModuliFacts
<1>1. ChainCount \in S
  <2>1. a = b + 1 * (a - b) /\ a - b \in Int
    OBVIOUS
  <2>2. Cong(a, b, 1)
    BY <2>1 DEF Cong
  <2> QED
    BY <1>0, <2>2, ModulusRecurrence
<1>2. ASSUME NEW n \in m .. ChainCount, n # m, n \in S
      PROVE  n - 1 \in S
  <2>1. n - 1 \in Level /\ n - 1 \in m .. ChainCount /\ (n - 1) + 1 = n
        /\ n \in m + 1 .. ChainCount /\ n \in 1 .. ChainCount /\ n \in 0 .. ChainCount /\ n \in 1 .. n
    BY <1>0, <1>2 DEF Level
  <2>2. Modulus(n - 1) = Modulus(n) * Moduli[n]
    BY <2>1, ModulusRecurrence
  <2>3. Modulus(n) \in Int /\ Moduli[n] \in Int
    BY <2>1, ModulusRecurrence, ModuliFacts
  <2>4. Coprime(Modulus(n), Moduli[n])
    BY <2>1, ModulusCoprime
  <2>5. Cong(a, b, Modulus(n)) /\ Cong(a, b, Moduli[n])
    BY <1>2, <2>1
  <2>6. Cong(a, b, Modulus(n) * Moduli[n])
    BY <2>3, <2>4, <2>5, CongBoth
  <2> QED
    BY <2>1, <2>2, <2>6
<1> HIDE DEF S
<1>3. /\ m \in Int /\ ChainCount \in Int
      /\ \A n \in m .. ChainCount : n # m /\ n \in S => n - 1 \in S
  BY <1>0, <1>2
<1>4. \A n \in m .. ChainCount : n \in S
  BY <1>1, <1>3, Downward, Zenon
<1>5. m \in m .. ChainCount
  BY <1>0
<1> QED
  BY <1>4, <1>5 DEF S

(* A chain of a level is a modulus. *)
LEMMA ChainModulus ==
    ASSUME NEW m \in Level, NEW chain \in Chains(m)
    PROVE  /\ m + chain + 1 \in m + 1 .. ChainCount /\ m + chain + 1 \in 1 .. ChainCount
           /\ get_q(m, chain) = Moduli[m + chain + 1]
           /\ get_q(m, chain) \in Nat \ {0, 1} /\ 4 * get_q(m, chain) < R
           /\ Coprime(R, get_q(m, chain))
           /\ \A i \in m + 1 .. ChainCount : i - m - 1 \in Chains(m) /\ get_q(m, i - m - 1) = Moduli[i]
<1>1. ChainCount \in Nat
  BY ModuliFacts
<1>2. m + chain + 1 \in m + 1 .. ChainCount /\ m + chain + 1 \in 1 .. ChainCount
  BY <1>1 DEF Level, Chains
<1>3. \A i \in m + 1 .. ChainCount : i - m - 1 \in Chains(m) /\ m + (i - m - 1) + 1 = i
  BY <1>1 DEF Level, Chains
<1> QED
  BY <1>2, <1>3, ModuliFacts DEF get_q

(* rns_reverser_ is 1 modulo one modulus and 0 modulo the others. *)
LEMMA ReverserCorrect ==
    ASSUME NEW m \in Level, NEW chain \in Chains(m)
    PROVE  /\ rns_reverser[m][chain] \in Int
           /\ Cong(rns_reverser[m][chain], 1, get_q(m, chain))
           /\ \A other \in Chains(m) :
                other # chain => Cong(rns_reverser[m][chain], 0, get_q(m, other))
<1> DEFINE i == m + chain + 1
           q == get_q(m, chain)
           others == Modulus(m) \div q
           y == modulus_invert(others % q, q)
           reverser == others * y
<1>0. m \in 0 .. ChainCount
  BY ModuliFacts DEF Level
<1>1. i \in m + 1 .. ChainCount /\ q = Moduli[i] /\ q \in Nat \ {0, 1}
  BY ChainModulus
<1>2. PICK w : IsCofactor(w, m, i)
  BY <1>0, <1>1, CofactorExists
<1>3. w \in Nat \ {0} /\ Modulus(m) = w * q /\ Coprime(w, q)
  BY <1>1, <1>2 DEF IsCofactor
<1>4. others = w
  <2>1. Modulus(m) = (q * w) + 0 /\ 0 \in 0 .. q - 1
    BY <1>1, <1>3
  <2>2. ((q * w) + 0) \div q = w
    <3> DEFINE zero == 0
    <3>1. zero \in 0 .. q - 1 /\ q \in Nat \ {0} /\ w \in Int
      BY <1>1, <1>3
    <3> HIDE DEF zero
    <3>2. ((q * w) + zero) \div q = w
      BY <3>1, DivModUnique
    <3> QED
      BY <3>2 DEF zero
  <2> QED
    BY <2>1, <2>2
<1>5. rns_reverser[m][chain] = reverser
  BY DEF rns_reverser, Level
<1> HIDE DEF q, i
<1>6. y \in 0 .. q - 1 /\ Cong(w * y, 1, q)
  BY <1>1, <1>3, <1>4, InverseFound
<1>7. reverser = w * y
  BY <1>4
<1> HIDE DEF y, reverser, others
<1>8. w * y \in Int /\ y \in Int
  BY <1>1, <1>3, <1>6
<1>9. ASSUME NEW other \in Chains(m), other # chain
      PROVE  Cong(w * y, 0, get_q(m, other))
  <2> DEFINE p == get_q(m, other)
             j == m + other + 1
  <2>1. j \in m + 1 .. ChainCount /\ p = Moduli[j] /\ p \in Int
    BY ChainModulus
  <2>2. j # i
    BY <1>9, ModuliFacts DEF i, Level, Chains
  <2> HIDE DEF p, j
  <2>3. Cong(w, 0, p)
    BY <1>2, <2>1, <2>2 DEF IsCofactor
  <2>4. PICK u \in Int : w = 0 + p * u
    BY <2>3 DEF Cong
  <2>5. w * y = 0 + p * (u * y) /\ u * y \in Int
    BY <1>8, <2>1, <2>4
  <2>6. Cong(w * y, 0, p)
    BY <2>5 DEF Cong
  <2> QED
    BY <2>6 DEF p
<1> QED
  BY <1>5, <1>6, <1>7, <1>8, <1>9 DEF q

-----------------------------------------------------------------------------
(***************************************************************************)
(* The integer v stands for residues x: it has the same residues.          *)
(***************************************************************************)
Represents(x, m, v) ==
    /\ x \in [Chains(m) -> Int] /\ v \in Int
    /\ \A chain \in Chains(m) : Cong(x[chain], v, get_q(m, chain))

LEMMA ReversedSums ==
    ASSUME NEW m \in Level, NEW x \in [Chains(m) -> Int]
    PROVE  /\ rns_reversed(x, m)[0] = 0
           /\ \A n \in 0 .. ChainCount - m : rns_reversed(x, m)[n] \in Int
           /\ \A n \in 1 .. ChainCount - m :
                rns_reversed(x, m)[n] = rns_reversed(x, m)[n - 1]
                  + (x[n - 1] % get_q(m, n - 1)) * rns_reverser[m][n - 1]
<1> DEFINE part(n) == (x[n - 1] % get_q(m, n - 1)) * rns_reverser[m][n - 1]
           count == ChainCount - m
           step == [p \in Int \X (1 .. count) |-> p[1] + part(p[2])]
           first == 0
<1>1. count \in Nat
  BY ModuliFacts DEF Level
<1>2. ASSUME NEW n \in 1 .. count
      PROVE  part(n) \in Int
  <2>1. n - 1 \in Chains(m)
    BY ModuliFacts DEF Level, Chains
  <2>2. get_q(m, n - 1) \in Nat \ {0, 1} /\ rns_reverser[m][n - 1] \in Int /\ x[n - 1] \in Int
    BY <2>1, ChainModulus, ReverserCorrect
  <2>3. x[n - 1] % get_q(m, n - 1) \in Int
    BY <2>2, RemainderFacts
  <2> QED
    BY <2>2, <2>3
<1> HIDE DEF part
<1>3. step \in [Int \X (1 .. count) -> Int] /\ first \in Int
  <2>1. ASSUME NEW p \in Int \X (1 .. count)
        PROVE  step[p] \in Int
    BY <1>2
  <2> QED
    BY <2>1
<1>4. PICK f \in [0 .. count -> Int] :
        f[0] = first /\ \A n \in 1 .. count : f[n] = step[<<f[n - 1], n>>]
  <2> HIDE DEF step, count, first
  <2> QED
    BY <1>1, <1>3, RecursionExists
<1>5. f = [n \in 0 .. count |-> IF n = 0 THEN 0 ELSE f[n - 1] + part(n)]
  <2>1. ASSUME NEW n \in 0 .. count
        PROVE  f[n] = IF n = 0 THEN 0 ELSE f[n - 1] + part(n)
    <3>1. CASE n = 0
      BY <1>4, <3>1
    <3>2. CASE n # 0
      <4>1. n \in 1 .. count /\ f[n - 1] \in Int
        BY <1>1, <3>2
      <4>2. f[n] = step[<<f[n - 1], n>>]
        BY <1>4, <4>1
      <4> QED
        BY <3>2, <4>1, <4>2
    <3> QED
      BY <3>1, <3>2
  <2> QED
    BY <2>1
<1> DEFINE Sums(g) == g = [n \in 0 .. ChainCount - m |->
                 IF n = 0 THEN 0
                 ELSE g[n - 1] + (x[n - 1] % get_q(m, n - 1)) * rns_reverser[m][n - 1]]
           sum == rns_reversed(x, m)
<1>6. Sums(f)
  BY <1>5 DEF part
<1>7. sum = CHOOSE g : Sums(g)
  BY DEF rns_reversed
<1>8. Sums(sum)
  <2> HIDE DEF sum, Sums
  <2> QED
    BY <1>6, <1>7
<1> HIDE DEF sum
<1>9. \A n \in 0 .. count : sum[n] = IF n = 0 THEN 0 ELSE sum[n - 1] + part(n)
  BY <1>8, Zenon DEF part
<1>10. \A n \in 0 .. count : sum[n] \in Int
  <2> DEFINE S == {n \in 0 .. count : sum[n] \in Int}
  <2>1. 0 \in S
    BY <1>1, <1>9
  <2>2. ASSUME NEW n \in 0 .. count, n + 1 =< count, n \in S
        PROVE  n + 1 \in S
    <3>1. n + 1 \in 0 .. count /\ n + 1 \in 1 .. count /\ n + 1 # 0 /\ (n + 1) - 1 = n
      BY <1>1, <2>2
    <3>2. sum[n + 1] = sum[n] + part(n + 1)
      BY <1>9, <3>1
    <3> QED
      BY <1>2, <2>2, <3>1, <3>2
  <2> HIDE DEF S
  <2>3. /\ 0 \in Int /\ count \in Int
        /\ \A n \in 0 .. count : n + 1 =< count /\ n \in S => n + 1 \in S
    BY <1>1, <2>2
  <2>4. \A n \in 0 .. count : n \in S
    BY <2>1, <2>3, Upward, Zenon
  <2> QED
    BY <2>4 DEF S
<1>11. \A n \in 1 .. count : sum[n] = sum[n - 1] + part(n)
  BY <1>1, <1>9
<1>12. sum[0] = 0
  BY <1>1, <1>9
<1> QED
  BY <1>10, <1>11, <1>12 DEF sum, part

LEMMA LevelModulus ==
    ASSUME NEW m \in Level
    PROVE  m \in 0 .. ChainCount /\ Modulus(m) \in Nat \ {0}
BY ModuliFacts, ModulusRecurrence DEF Level

(* The partial sums have the residues of the chains that they include. *)
LEMMA ReversedResidues ==
    ASSUME NEW m \in Level, NEW x \in [Chains(m) -> Int], NEW chain \in Chains(m)
    PROVE  Cong(rns_reversed(x, m)[ChainCount - m], x[chain], get_q(m, chain))
<1> DEFINE count == ChainCount - m
           sum == rns_reversed(x, m)
           q == get_q(m, chain)
           part(n) == (x[n - 1] % get_q(m, n - 1)) * rns_reverser[m][n - 1]
           target(n) == IF chain < n THEN x[chain] ELSE 0
           S == {n \in 0 .. count : Cong(sum[n], target(n), q)}
<1>0. count \in Nat /\ chain \in 0 .. count - 1 /\ q \in Nat \ {0, 1} /\ q \in Int /\ x[chain] \in Int
  BY ModuliFacts, ChainModulus DEF Level, Chains
<1>1. /\ sum[0] = 0 /\ \A n \in 0 .. count : sum[n] \in Int
      /\ \A n \in 1 .. count : sum[n] = sum[n - 1] + part(n)
  BY ReversedSums
<1> HIDE DEF sum
<1>2. 0 \in S
  <2>1. Cong(sum[0], 0, q)
    <3>1. sum[0] = 0 + q * 0
      BY <1>0, <1>1
    <3> QED
      BY <3>1 DEF Cong
  <2>2. target(0) = 0
    BY <1>0
  <2> QED
    BY <1>0, <2>1, <2>2
<1>3. ASSUME NEW n \in 0 .. count, n + 1 =< count, n \in S
      PROVE  n + 1 \in S
  <2>1. n + 1 \in 0 .. count /\ n + 1 \in 1 .. count /\ (n + 1) - 1 = n /\ n \in Chains(m)
    BY <1>0, <1>3 DEF Chains
  <2>2. /\ get_q(m, n) \in Nat \ {0, 1} /\ rns_reverser[m][n] \in Int /\ x[n] \in Int
        /\ sum[n] \in Int
    BY <1>1, <2>1, ChainModulus, ReverserCorrect
  <2> DEFINE r == x[n] % get_q(m, n)
             p == rns_reverser[m][n]
  <2>3. r \in Int /\ Cong(r, x[n], get_q(m, n))
    BY <2>2, RemainderFacts
  <2>4. sum[n + 1] = sum[n] + r * p /\ p \in Int
    BY <1>1, <2>1, <2>2
  <2>5. n # chain => Cong(p, 0, q)
    BY <2>1, ReverserCorrect
  <2>6. n = chain => Cong(p, 1, q) /\ Cong(r, x[chain], q)
    BY <2>1, <2>3, ReverserCorrect
  <2> HIDE DEF r, p, q
  <2>7. r * p \in Int /\ sum[n] + r * p \in Int /\ target(n) \in Int /\ Cong(sum[n], target(n), q)
    BY <1>0, <1>3, <2>2, <2>3, <2>4
  <2>8. CASE n = chain
    <3>1. PICK u \in Int : p = 1 + q * u
      BY <2>6, <2>8 DEF Cong
    <3>2. r * p = r + q * (r * u) /\ r * u \in Int
      BY <1>0, <2>3, <3>1
    <3>3. Cong(r * p, r, q)
      BY <3>2 DEF Cong
    <3>4. Cong(r * p, x[chain], q)
      BY <1>0, <2>3, <2>6, <2>7, <2>8, <3>3, CongTransitive
    <3>5. target(n) = 0 /\ target(n + 1) = x[chain]
      BY <1>0, <2>8
    <3>6. Cong(sum[n] + r * p, target(n) + x[chain], q)
      BY <1>0, <2>2, <2>7, <3>4, CongSum
    <3>7. target(n) + x[chain] = target(n + 1)
      BY <1>0, <3>5
    <3> QED
      BY <2>1, <2>4, <3>6, <3>7
  <2>9. CASE n # chain
    <3>1. PICK u \in Int : p = 0 + q * u
      BY <2>5, <2>9 DEF Cong
    <3>2. r * p = q * (r * u) /\ r * u \in Int
      BY <1>0, <2>3, <3>1
    <3>3. PICK v \in Int : sum[n] = target(n) + q * v
      BY <2>7 DEF Cong
    <3>4. q * (v + r * u) = q * v + q * (r * u) /\ v + r * u \in Int
          /\ q * v \in Int /\ q * (r * u) \in Int
      BY <1>0, <3>2
    <3>5. sum[n] + r * p = target(n) + q * (v + r * u)
      BY <2>7, <3>2, <3>3, <3>4
    <3>6. Cong(sum[n] + r * p, target(n), q)
      BY <3>4, <3>5 DEF Cong
    <3>7. target(n + 1) = target(n)
      BY <1>0, <2>9
    <3> QED
      BY <2>1, <2>4, <3>6, <3>7
  <2> QED
    BY <2>8, <2>9
<1> HIDE DEF S
<1>4. /\ 0 \in Int /\ count \in Int
      /\ \A n \in 0 .. count : n + 1 =< count /\ n \in S => n + 1 \in S
  BY <1>0, <1>3
<1>5. \A n \in 0 .. count : n \in S
  BY <1>2, <1>4, Upward, Zenon
<1>6. count \in S
  BY <1>0, <1>5
<1>7. target(count) = x[chain]
  BY <1>0
<1> QED
  BY <1>6, <1>7 DEF S, sum

(***************************************************************************)
(* What rns_to_double composes is the only integer below the product of    *)
(* the moduli that has the given residues.                                 *)
(***************************************************************************)
LEMMA ComposeRepresents ==
    ASSUME NEW m \in Level, NEW x \in [Chains(m) -> Int]
    PROVE  Compose(x, m) \in 0 .. Modulus(m) - 1 /\ Represents(x, m, Compose(x, m))
<1> DEFINE sum == rns_reversed(x, m)[ChainCount - m]
<1>1. sum \in Int
  BY ReversedSums, ModuliFacts DEF Level
<1>2. Modulus(m) \in Nat \ {0} /\ Compose(x, m) = sum % Modulus(m)
  BY LevelModulus DEF Compose
<1>3. Compose(x, m) \in 0 .. Modulus(m) - 1
  BY <1>1, <1>2, DivMod
<1>4. Cong(sum, Compose(x, m), Modulus(m))
  BY <1>1, <1>2, CongRemainder
<1>5. ASSUME NEW chain \in Chains(m)
      PROVE  Cong(x[chain], Compose(x, m), get_q(m, chain))
  <2> DEFINE q == get_q(m, chain)
             i == m + chain + 1
  <2>1. q = Moduli[i] /\ i \in m + 1 .. ChainCount /\ q \in Int /\ x[chain] \in Int
    BY ChainModulus
  <2>2. PICK w : IsCofactor(w, m, i)
    BY <2>1, CofactorExists, LevelModulus
  <2>3. w \in Int /\ Modulus(m) = w * q
    BY <2>1, <2>2 DEF IsCofactor
  <2>4. PICK u \in Int : sum = Compose(x, m) + Modulus(m) * u
    BY <1>4 DEF Cong
  <2>5. Cong(sum, x[chain], q)
    BY ReversedResidues
  <2> HIDE DEF q, i, sum
  <2>6. (w * q) * u = q * (w * u) /\ w * u \in Int
    BY <2>1, <2>3
  <2>7. sum = Compose(x, m) + q * (w * u)
    BY <2>3, <2>4, <2>6
  <2>8. Cong(sum, Compose(x, m), q)
    BY <2>6, <2>7 DEF Cong
  <2>9. Cong(x[chain], sum, q)
    BY <1>1, <2>1, <2>5, CongRules DEF sum
  <2>10. Cong(x[chain], Compose(x, m), q)
    BY <1>1, <1>3, <2>1, <2>8, <2>9, CongTransitive DEF sum
  <2> QED
    BY <2>10 DEF q
<1> QED
  BY <1>3, <1>5 DEF Represents

LEMMA ComposeUnique ==
    ASSUME NEW m \in Level, NEW x, NEW v, Represents(x, m, v)
    PROVE  Compose(x, m) = v % Modulus(m)
<1> DEFINE c == Compose(x, m)
<1>1. x \in [Chains(m) -> Int] /\ v \in Int
  BY DEF Represents
<1>2. c \in 0 .. Modulus(m) - 1 /\ Represents(x, m, c)
  BY <1>1, ComposeRepresents
<1>3. Modulus(m) \in Nat \ {0} /\ m \in 0 .. ChainCount /\ c \in Int
  BY <1>2, LevelModulus
<1> HIDE DEF c
<1>4. ASSUME NEW i \in m + 1 .. ChainCount
      PROVE  Cong(c, v, Moduli[i])
  <2> DEFINE chain == i - m - 1
  <2>1. ChainCount \in Nat
    BY ModuliFacts
  <2>2. chain \in Chains(m) /\ m + chain + 1 = i
    BY <2>1 DEF Chains, Level
  <2>3. Moduli[i] = get_q(m, chain) /\ Moduli[i] \in Int
    BY <2>2, ChainModulus
  <2> HIDE DEF chain
  <2>4. Cong(x[chain], v, Moduli[i]) /\ Cong(x[chain], c, Moduli[i]) /\ x[chain] \in Int
    BY <1>1, <1>2, <2>2, <2>3 DEF Represents
  <2>5. Cong(c, x[chain], Moduli[i])
    BY <1>3, <2>3, <2>4, CongRules
  <2> QED
    BY <1>1, <1>3, <2>3, <2>4, <2>5, CongTransitive
<1>5. Cong(c, v, Modulus(m))
  BY <1>1, <1>3, <1>4, ResiduesDetermine
<1>6. c % Modulus(m) = v % Modulus(m)
  BY <1>1, <1>3, <1>5, RemainderUnique
<1>7. c % Modulus(m) = c
  <2>1. c = (Modulus(m) * 0) + c
    BY <1>3
  <2>2. ((Modulus(m) * 0) + c) % Modulus(m) = c
    BY <1>2, <1>3, DivModUnique
  <2> QED
    BY <2>1, <2>2
<1> QED
  BY <1>6, <1>7 DEF c

-----------------------------------------------------------------------------
(***************************************************************************)
(* What the kernels compute modulo q, for one chain.                       *)
(***************************************************************************)
LEMMA GuardCong ==
    ASSUME NEW q \in Int, NEW x \in Int
    PROVE  /\ guard(x, q) \in Int /\ Cong(guard(x, q), x, q)
           /\ guard(x, 2 * q) \in Int /\ Cong(guard(x, 2 * q), x, q)
<1>1. /\ x = x + q * 0 /\ x - q = x + q * (- 1) /\ x - 2 * q = x + q * (- 2)
  OBVIOUS
<1>2. Cong(x, x, q) /\ Cong(x - q, x, q) /\ Cong(x - 2 * q, x, q)
  BY <1>1 DEF Cong
<1> QED
  BY <1>2 DEF guard

LEMMA SubtractCong ==
    ASSUME NEW q \in Int, NEW x1 \in Int, NEW x2 \in Int
    PROVE  mont_subtract(x1, x2, q) \in Int /\ Cong(mont_subtract(x1, x2, q), x1 - x2, q)
<1>1. x1 - x2 = (x1 - x2) + q * 0 /\ x1 - x2 + 2 * q = (x1 - x2) + q * 2
  OBVIOUS
<1>2. Cong(x1 - x2, x1 - x2, q) /\ Cong(x1 - x2 + 2 * q, x1 - x2, q)
  BY <1>1 DEF Cong
<1> QED
  BY <1>2 DEF mont_subtract

LEMMA AddCong ==
    ASSUME NEW q \in Nat \ {0, 1}, NEW x1 \in Int, NEW x2 \in Int,
           NEW v1 \in Int, NEW v2 \in Int, Cong(x1, v1, q), Cong(x2, v2, q)
    PROVE  /\ Cong(mont_add_reduce_2q_to_q(x1, x2, q), v1 + v2, q)
           /\ Cong(mont_sub_reduce_2q_to_q(x1, x2, q), v1 - v2, q)
<1>0. q \in Int
  OBVIOUS
<1>1. Cong(x1 + x2, v1 + v2, q) /\ Cong(x1 - x2, v1 - v2, q)
  BY <1>0, CongSum
<1> DEFINE a == guard(x1 + x2, 2 * q)
           b == guard(x1 + 2 * q - x2, 2 * q)
<1>2. a \in Int /\ Cong(a, x1 + x2, q) /\ guard(a, q) \in Int /\ Cong(guard(a, q), a, q)
  <2>1. x1 + x2 \in Int
    OBVIOUS
  <2>2. a \in Int /\ Cong(a, x1 + x2, q)
    BY <1>0, <2>1, GuardCong
  <2> QED
    BY <1>0, <2>2, GuardCong
<1>3. b \in Int /\ Cong(b, x1 - x2, q) /\ guard(b, q) \in Int /\ Cong(guard(b, q), b, q)
  <2> DEFINE u == x1 + 2 * q - x2
  <2>1. u \in Int /\ u = (x1 - x2) + q * 2 /\ x1 - x2 \in Int
    OBVIOUS
  <2>2. Cong(u, x1 - x2, q)
    BY <2>1 DEF Cong
  <2> HIDE DEF u
  <2>3. guard(u, 2 * q) \in Int /\ Cong(guard(u, 2 * q), u, q)
    BY <1>0, <2>1, GuardCong
  <2>4. b = guard(u, 2 * q)
    BY DEF u
  <2> HIDE DEF b
  <2>5. b \in Int /\ Cong(b, x1 - x2, q)
    BY <1>0, <2>1, <2>2, <2>3, <2>4, CongTransitive
  <2> QED
    BY <1>0, <2>5, GuardCong
<1> HIDE DEF a, b
<1>4. x1 + x2 \in Int /\ x1 - x2 \in Int /\ v1 + v2 \in Int /\ v1 - v2 \in Int
  OBVIOUS
<1>5. Cong(a, v1 + v2, q) /\ Cong(b, v1 - v2, q)
  BY <1>0, <1>1, <1>2, <1>3, <1>4, CongTransitive
<1>6. Cong(guard(a, q), v1 + v2, q) /\ Cong(guard(b, q), v1 - v2, q)
  BY <1>0, <1>2, <1>3, <1>4, <1>5, CongTransitive
<1> QED
  BY <1>6 DEF a, b, mont_add_reduce_2q_to_q, mont_sub_reduce_2q_to_q

LEMMA NegateCong ==
    ASSUME NEW q \in Nat \ {0, 1}, NEW x \in Int, NEW v \in Int, Cong(x, v, q)
    PROVE  /\ Cong(negate_make_unsigned(x, q), - v, q)
           /\ Cong(make_unsigned_reduce_2q_to_q(- x, q), - v, q)
<1>0. q \in Int /\ - x \in Int /\ - v \in Int /\ q - x \in Int /\ - x + q \in Int
  OBVIOUS
<1>1. Cong(- x, - v, q)
  BY <1>0, CongRules
<1>2. Cong(- x + q * 1, - x, q) /\ - x + q * 1 = q - x /\ - x + q = q - x
  BY <1>0, CongRules
<1>3. Cong(q - x, - v, q)
  BY <1>0, <1>1, <1>2, CongTransitive
<1>4. Cong(guard(- x, q), - v, q)
  BY <1>0, <1>1, GuardCong, CongTransitive
<1> QED
  BY <1>2, <1>3, <1>4 DEF negate_make_unsigned, make_unsigned_reduce_2q_to_q

(* The products that LeveledText forms fit, so that they are exact. *)
LEMMA ProductFits ==
    ASSUME NEW q \in Nat, 4 * q < R, NEW x \in Int, - (2 * R) =< x, x =< 2 * R,
           NEW c \in Int, - q =< c, c =< q
    PROVE  - (R * R) =< x * c /\ x * c =< R * R
<1>1. R \in Nat \ {0} /\ 32 \in Nat
  BY RAssumption
<1>2. - (32 * R) =< 16 * x /\ 16 * x =< 32 * R
  BY <1>1
<1>3. - (32 * (R * q)) =< 16 * (x * c) /\ 16 * (x * c) =< 32 * (R * q)
  <2> DEFINE e == 32
  <2>1. - (e * R) =< 16 * x /\ 16 * x =< e * R /\ e \in Nat /\ R \in Nat
    BY <1>1, <1>2
  <2> HIDE DEF e
  <2>2. - (e * (R * q)) =< 16 * (x * c) /\ 16 * (x * c) =< e * (R * q)
    BY <2>1, ProductRange
  <2> QED
    BY <2>2 DEF e
<1>4. (4 * q) * R =< R * R
  BY <1>1, Monotone
<1>5. (4 * q) * R = 4 * (R * q) /\ R * q \in Nat /\ R * R \in Nat /\ x * c \in Int
  BY <1>1
<1> QED
  BY <1>3, <1>4, <1>5

(* The factor e in Montgomery form makes the product with e. *)
LEMMA MontMultCong ==
    ASSUME NEW q \in Nat \ {0, 1}, NEW k, Valid(q, k), Coprime(R, q),
           NEW x \in Int, - (2 * R) =< x, x =< 2 * R,
           NEW c \in Int, - q =< c, c =< q, NEW e \in Int, Cong(c, e * R, q)
    PROVE  /\ mont_mult_scalar(x, c, q, k) \in Int
           /\ Cong(mont_mult_scalar(x, c, q, k), x * e, q)
<1> DEFINE y == mont_mult_scalar(x, c, q, k)
<1>0. R \in Int /\ q \in Int /\ 4 * q < R
  BY RAssumption DEF Valid
<1>1. - (R * R) =< x * c /\ x * c =< R * R
  BY <1>0, ProductFits
<1>2. y \in Int /\ \E s \in 0 .. R - 1 : R * y = x * c + s * q
  BY <1>1, MontMultExact
<1> HIDE DEF y
<1>3. PICK s \in 0 .. R - 1 : R * y = x * c + s * q
  BY <1>2
<1>4. PICK u \in Int : c = e * R + q * u
  BY DEF Cong
<1>5. s \in Int /\ x * e \in Int
  BY <1>0
<1>6. x * (e * R + q * u) = R * (x * e) + q * (x * u) /\ x * u \in Int
  BY <1>0
<1>7. q * (x * u + s) = q * (x * u) + s * q /\ x * u + s \in Int
      /\ q * (x * u) \in Int /\ s * q \in Int /\ R * (x * e) \in Int
  BY <1>0, <1>5, <1>6
<1>8. R * y = R * (x * e) + q * (x * u + s)
  BY <1>3, <1>4, <1>6, <1>7
<1>9. Cong(R * y, R * (x * e), q)
  BY <1>7, <1>8 DEF Cong
<1>10. Cong(y, x * e, q)
  BY <1>0, <1>2, <1>5, <1>9, CoprimeCancel
<1> QED
  BY <1>2, <1>10 DEF y

-----------------------------------------------------------------------------
(***************************************************************************)
(* Rescaling rounds the quotient of the text by its first modulus; the     *)
(* error depends on the representative of the first residue alone.         *)
(***************************************************************************)
RescaleError(x0, q0) == get_rounder(x0, q0) - (x0 \div q0)

LEMMA RescaleErrorRange ==
    ASSUME NEW q0 \in Nat \ {0, 1}, 4 * q0 < R, NEW d \in 0 .. 4, NEW x0, Near(x0, q0, d)
    PROVE  RescaleError(x0, q0) \in - 1 .. 2
<1>0. R \in Nat \ {0} /\ Word \in Nat \ {0} /\ Word = 4 * R
  BY RAssumption DEF Word
<1>1. x0 \in Int /\ - q0 =< x0 /\ x0 =< 2 * q0
  <2>1. d * q0 =< 4 * q0 /\ d * q0 \in Nat
    BY Monotone
  <2> QED
    BY <2>1 DEF Near
<1>2. q0 \div 2 \in Int /\ 2 * (q0 \div 2) =< q0 /\ 0 =< q0 \div 2 /\ q0 \div 2 < q0
  OBVIOUS
<1>3. \A n \in 0 .. Word - 1 : n % Word = n
  <2> TAKE n \in 0 .. Word - 1
  <2>1. (Word * 0) + n = n
    BY <1>0
  <2>2. ((Word * 0) + n) % Word = n
    <3> DEFINE z == 0
    <3>1. z \in Int
      OBVIOUS
    <3> HIDE DEF z
    <3>2. ((Word * z) + n) % Word = n
      BY <1>0, <3>1, DivModUnique
    <3> QED
      BY <3>2 DEF z
  <2> QED
    BY <2>1, <2>2
<1>4. \A n \in 0 .. Word - 1 : (n - Word) % Word = n
  <2> TAKE n \in 0 .. Word - 1
  <2>1. (Word * (- 1)) + n = n - Word
    BY <1>0
  <2>2. ((Word * (- 1)) + n) % Word = n
    <3> DEFINE z == - 1
    <3>1. z \in Int
      OBVIOUS
    <3> HIDE DEF z
    <3>2. ((Word * z) + n) % Word = n
      BY <1>0, <3>1, DivModUnique
    <3> QED
      BY <3>2 DEF z
  <2> QED
    BY <2>1, <2>2
<1>5. \A t \in Int, r \in 0 .. q0 - 1 : x0 = (q0 * t) + r => x0 \div q0 = t
  BY DivModUnique
<1>6. get_rounder(x0, q0) \in {0, 1}
  BY DEF get_rounder
<1>7. CASE x0 < 0
  <2>1. x0 + Word \in 0 .. Word - 1 /\ (x0 + Word) - Word = x0 /\ x0 + Word > q0 \div 2
    BY <1>0, <1>1, <1>2, <1>7
  <2>2. x0 % Word = x0 + Word
    BY <1>4, <2>1
  <2>3. get_rounder(x0, q0) = 1
    BY <2>1, <2>2 DEF get_rounder, Unsigned
  <2>4. - 1 \in Int /\ x0 + q0 \in 0 .. q0 - 1 /\ x0 = (q0 * (- 1)) + (x0 + q0)
    BY <1>1, <1>7
  <2>5. x0 \div q0 = - 1
    BY <1>5, <2>4
  <2> QED
    BY <2>3, <2>5 DEF RescaleError
<1>8. CASE 0 =< x0 /\ x0 < q0
  <2>1. x0 \in 0 .. q0 - 1 /\ x0 = (q0 * 0) + x0
    BY <1>1, <1>8
  <2>2. x0 \div q0 = 0
    BY <1>5, <2>1
  <2> QED
    BY <1>6, <2>2 DEF RescaleError
<1>9. CASE q0 =< x0
  <2>1. x0 \in 0 .. Word - 1 /\ x0 > q0 \div 2
    BY <1>0, <1>1, <1>2, <1>9
  <2>2. get_rounder(x0, q0) = 1
    BY <1>3, <2>1 DEF get_rounder, Unsigned
  <2>3. CASE x0 < 2 * q0
    <3>1. x0 - q0 \in 0 .. q0 - 1 /\ x0 = (q0 * 1) + (x0 - q0)
      BY <1>1, <1>9, <2>3
    <3>2. x0 \div q0 = 1
      BY <1>5, <3>1
    <3> QED
      BY <2>2, <3>2 DEF RescaleError
  <2>4. CASE x0 = 2 * q0
    <3>1. 0 \in 0 .. q0 - 1 /\ x0 = (q0 * 2) + 0
      BY <2>4
    <3>2. x0 \div q0 = 2
      BY <1>5, <3>1
    <3> QED
      BY <2>2, <3>2 DEF RescaleError
  <2> QED
    BY <1>1, <2>3, <2>4
<1> QED
  BY <1>1, <1>7, <1>8, <1>9

(* One chain of rescale_once_. *)
LEMMA RescaleCong ==
    ASSUME NEW q \in Nat \ {0, 1}, NEW k, Valid(q, k), Coprime(R, q),
           NEW q0 \in Nat \ {0, 1}, 4 * q0 < R, Coprime(q0, q),
           NEW d \in 0 .. 4, NEW x, Near(x, q, d), NEW x0, Near(x0, q0, d),
           NEW v \in Int, Cong(x, v, q), Cong(x0, v, q0)
    PROVE  LET c == modulus_multiply(modulus_invert(q0 % q, q), R, q)
               divided == mont_mult_scalar(guard(mont_subtract(x, x0, q), q), c, q, k)
           IN  Cong(guard(mont_add(divided, get_rounder(x0, q0), q), q),
                    (v \div q0) + RescaleError(x0, q0), q)
<1> DEFINE inv == modulus_invert(q0 % q, q)
           c == modulus_multiply(inv, R, q)
           a == guard(mont_subtract(x, x0, q), q)
           divided == mont_mult_scalar(a, c, q, k)
           r == get_rounder(x0, q0)
           Q == v \div q0
           t == x0 \div q0
<1>0. R \in Nat \ {0} /\ 4 * q < R /\ q \in Int /\ q \in Nat \ {0} /\ q0 \in Int /\ q0 \in Nat \ {0}
  BY RAssumption DEF Valid
<1>1. x \in Int /\ x0 \in Int /\ r \in {0, 1} /\ r \in Int
  BY DEF Near, get_rounder
<1>2. inv \in 0 .. q - 1 /\ Cong(q0 * inv, 1, q)
  BY <1>0, InverseFound
<1> HIDE DEF inv
<1>3. c \in 0 .. q - 1 /\ Cong(c, inv * R, q)
  <2>1. inv * R \in Nat /\ inv * R \in Int
    BY <1>0, <1>2
  <2>2. c = (inv * R) % q
    BY <2>1 DEF modulus_multiply
  <2> QED
    BY <2>1, <2>2, RemainderFacts
<1> HIDE DEF c
<1>4. a \in Int /\ Cong(a, x - x0, q)
  <2> DEFINE u == mont_subtract(x, x0, q)
  <2>1. u \in Int /\ Cong(u, x - x0, q)
    BY <1>0, <1>1, SubtractCong
  <2> HIDE DEF u
  <2>2. guard(u, q) \in Int /\ Cong(guard(u, q), u, q)
    BY <1>0, <2>1, GuardCong
  <2>3. x - x0 \in Int
    BY <1>1
  <2>4. Cong(guard(u, q), x - x0, q)
    BY <1>0, <2>1, <2>2, <2>3, CongTransitive
  <2> QED
    BY <2>2, <2>4 DEF u
<1>5. - (2 * R) =< a /\ a =< 2 * R
  <2>1. d * q =< 4 * q /\ d * q0 =< 4 * q0 /\ d * q \in Nat /\ d * q0 \in Nat
    BY Monotone
  <2>2. - q =< x /\ x =< 2 * q /\ - q0 =< x0 /\ x0 =< 2 * q0
    BY <1>1, <2>1 DEF Near
  <2> QED
    BY <1>0, <1>1, <2>2 DEF mont_subtract, guard
<1>6. divided \in Int /\ Cong(divided, a * inv, q)
  <2>1. c \in Int /\ - q =< c /\ c =< q /\ inv \in Int
    BY <1>0, <1>2, <1>3
  <2> HIDE DEF a
  <2> QED
    BY <1>3, <1>4, <1>5, <2>1, MontMultCong
<1> HIDE DEF a, divided
(* The difference is a multiple of q0. *)
<1>7. Q \in Int /\ t \in Int /\ v - x0 = q0 * (Q - t)
  <2>1. v % q0 = x0 % q0
    <3>1. Cong(v, x0, q0)
      BY <1>0, <1>1, CongRules
    <3> QED
      BY <1>0, <1>1, <3>1, RemainderUnique
  <2>2. Q \in Int /\ v = (q0 * Q) + (v % q0) /\ v % q0 \in 0 .. q0 - 1
    BY <1>0, DivMod, Zenon
  <2>3. t \in Int /\ x0 = (q0 * t) + (x0 % q0) /\ x0 % q0 \in 0 .. q0 - 1
    BY <1>0, <1>1, DivMod, Zenon
  <2> HIDE DEF Q, t
  <2>4. q0 * (Q - t) = q0 * Q - q0 * t /\ q0 * Q \in Int /\ q0 * t \in Int
    BY <1>0, <2>2, <2>3
  <2> QED
    BY <2>1, <2>2, <2>3, <2>4
<1> HIDE DEF Q, t
<1>8. Cong(x - x0, q0 * (Q - t), q)
  <2>2. Cong(x0, x0, q)
    BY <1>0, <1>1, CongRules
  <2>3. Cong(x - x0, v - x0, q)
    BY <1>0, <1>1, <2>2, CongSum
  <2> QED
    BY <1>7, <2>3
<1> DEFINE n == Q - t
<1>9. n \in Int
  BY <1>7
<1>10. x - x0 \in Int /\ q0 * n \in Int /\ inv \in Int /\ (q0 * n) * inv = (q0 * inv) * n
       /\ q0 * inv \in Int /\ a * inv \in Int /\ (q0 * n) * inv \in Int /\ 1 * n = n
  BY <1>0, <1>1, <1>2, <1>4, <1>9
<1>11. Cong(a, q0 * n, q)
  BY <1>0, <1>4, <1>8, <1>10, CongTransitive
<1> HIDE DEF n
<1>12. Cong(a * inv, (q0 * n) * inv, q)
  BY <1>0, <1>4, <1>10, <1>11, CongProduct
<1>13. Cong((q0 * inv) * n, n, q)
  <2>1. PICK w \in Int : q0 * inv = 1 + q * w
    BY <1>2 DEF Cong
  <2>2. (1 + q * w) * n = n + q * (w * n) /\ w * n \in Int
    BY <1>0, <1>9
  <2> QED
    BY <2>1, <2>2 DEF Cong
<1>14. Cong(divided, n, q)
  <2>1. Cong(a * inv, n, q)
    BY <1>0, <1>9, <1>10, <1>12, <1>13, CongTransitive
  <2> QED
    BY <1>0, <1>6, <1>9, <1>10, <2>1, CongTransitive
<1> DEFINE s == divided + r
           g == guard(s, 2 * q)
<1>15. s \in Int /\ n + r \in Int /\ Cong(s, n + r, q)
  <2> HIDE DEF r
  <2>2. Cong(r, r, q)
    BY <1>0, <1>1, CongRules
  <2> QED
    BY <1>0, <1>1, <1>6, <1>9, <1>14, <2>2, CongSum
<1> HIDE DEF s
<1>16. g \in Int /\ Cong(g, s, q)
  BY <1>0, <1>15, GuardCong
<1> HIDE DEF g
<1>17. guard(g, q) \in Int /\ Cong(guard(g, q), g, q)
  BY <1>0, <1>16, GuardCong
<1>18. Cong(g, n + r, q)
  BY <1>0, <1>15, <1>16, CongTransitive
<1>19. Cong(guard(g, q), n + r, q)
  BY <1>0, <1>15, <1>16, <1>17, <1>18, CongTransitive
<1>20. n + r = Q + RescaleError(x0, q0)
  BY <1>1, <1>7 DEF n, RescaleError, t
<1> QED
  BY <1>19, <1>20 DEF g, s, divided, a, c, inv, mont_add, Q

-----------------------------------------------------------------------------
(***************************************************************************)
(* The operations on all chains are those of the ring.                     *)
(***************************************************************************)
LEMMA FreshRepresents ==
    ASSUME NEW message \in Int, NEW m \in Level
    PROVE  Represents(Fresh(message, m), m, message)
<1>1. ASSUME NEW chain \in Chains(m)
      PROVE  message % get_q(m, chain) \in Int /\ Cong(message % get_q(m, chain), message, get_q(m, chain))
  <2>1. get_q(m, chain) \in Nat \ {0, 1}
    BY ChainModulus
  <2> QED
    BY <2>1, RemainderFacts
<1> QED
  BY <1>1 DEF Fresh, Represents

LEMMA RescaleRepresents ==
    ASSUME NEW m \in Level, m + 1 \in Level, NEW d \in 0 .. 4, NEW x, AllNear(x, m, d),
           NEW v, Represents(x, m, v)
    PROVE  \E error \in - 1 .. 2 :
             Represents(rescale_once(x, m), m + 1, (v \div Moduli[m + 1]) + error)
<1> DEFINE q0 == get_q(m, 0)
           error == RescaleError(x[0], q0)
           y == rescale_once(x, m)
<1>0. d \in 0 .. 8 /\ v \in Int /\ 0 \in Chains(m)
  BY ChainFacts DEF Represents
<1>1. q0 \in Nat \ {0, 1} /\ 4 * q0 < R /\ q0 = Moduli[m + 1]
  BY <1>0, ChainModulus DEF get_q, Level
<1>2. Near(x[0], q0, d) /\ Cong(x[0], v, q0)
  BY <1>0 DEF AllNear, Represents
<1>3. error \in - 1 .. 2
  BY <1>1, <1>2, RescaleErrorRange
<1>4. y \in [Chains(m + 1) -> Int]
  BY <1>0, RescaleAllNear DEF AllNear
<1>5. ASSUME NEW chain \in Chains(m + 1)
      PROVE  Cong(y[chain], (v \div q0) + error, get_q(m + 1, chain))
  <2> DEFINE q == get_q(m + 1, chain)
  <2>1. chain + 1 \in Chains(m) /\ q = get_q(m, chain + 1)
    BY ChainFacts
  <2>2. q \in Nat \ {0, 1} /\ Valid(q, k_of[q])
    BY ModulusFacts
  <2>3. Coprime(R, q) /\ Coprime(q0, q)
    <3>1. /\ m + 1 + chain + 1 \in 1 .. ChainCount /\ q = Moduli[m + 1 + chain + 1]
          /\ Coprime(R, q)
      BY ChainModulus
    <3>2. m + 1 \in 1 .. ChainCount /\ m + 1 # m + 1 + chain + 1
      BY ModuliFacts DEF Level, Chains
    <3> QED
      BY <1>1, <3>1, <3>2, ModuliFacts
  <2>4. Near(x[chain + 1], q, d) /\ Cong(x[chain + 1], v, q)
    BY <2>1 DEF AllNear, Represents
  <2> DEFINE c == modulus_multiply(modulus_invert(q0 % q, q), R, q)
             divided == mont_mult_scalar(guard(mont_subtract(x[chain + 1], x[0], q), q), c, q, k_of[q])
  <2>5. y[chain] = guard(mont_add(divided, get_rounder(x[0], q0), q), q)
    BY DEF rescale_once
  <2> HIDE DEF q, q0, y
  <2>6. Cong(guard(mont_add(divided, get_rounder(x[0], q0), q), q), (v \div q0) + error, q)
    BY <1>0, <1>1, <1>2, <2>2, <2>3, <2>4, RescaleCong
  <2> QED
    BY <2>5, <2>6 DEF q
<1>6. (v \div q0) + error \in Int
  <2>1. q0 \in Nat \ {0}
    BY <1>1
  <2>2. v \div q0 \in Int
    BY <1>0, <2>1, DivMod, Zenon
  <2> QED
    BY <1>3, <2>2
<1>7. Represents(y, m + 1, (v \div Moduli[m + 1]) + error)
  BY <1>1, <1>4, <1>5, <1>6 DEF Represents
<1> QED
  BY <1>3, <1>7

LEMMA MultiplierCong ==
    ASSUME NEW c \in Int, NEW m \in Level, NEW chain \in Chains(m)
    PROVE  LET q == get_q(m, chain)
           IN  /\ Cong(make_mult_multiplier(c, m)[chain], c * R, q)
               /\ Cong(scale_enter_modulo(c, m)[chain], c * R, q)
<1> DEFINE q == get_q(m, chain)
           n == c * R
<1>1. q \in Nat \ {0, 1} /\ q \in Int
  BY ChainModulus
<1>2. n \in Int /\ - n \in Int /\ R \in Nat \ {0}
  BY RAssumption
<1>3. (c < 0 <=> n < 0) /\ - c * R = - n
  BY <1>2
<1> HIDE DEF q
<1>4. make_mult_multiplier(c, m)[chain] = IF n < 0 THEN - ((- n) % q) ELSE n % q
  BY DEF make_mult_multiplier, modulus_multiply, q
<1>5. scale_enter_modulo(c, m)[chain] = IF n < 0 THEN q - ((- n) % q) ELSE n % q
  BY <1>3 DEF scale_enter_modulo, q
<1> HIDE DEF n
<1>6. n % q \in Int /\ Cong(n % q, n, q)
  BY <1>1, <1>2, RemainderFacts
<1> DEFINE r == (- n) % q
<1>7. r \in Int /\ Cong(r, - n, q)
  BY <1>1, <1>2, RemainderFacts
<1> HIDE DEF r
<1>8. - r \in Int /\ q - r \in Int /\ - (- n) = n /\ q - r = - r + q * 1
  BY <1>1, <1>2, <1>7
<1>9. Cong(- r, n, q)
  <2>1. Cong(- r, - (- n), q)
    BY <1>1, <1>2, <1>7, CongRules
  <2> QED
    BY <1>8, <2>1
<1>10. Cong(q - r, n, q)
  <2>1. Cong(q - r, - r, q)
    BY <1>8 DEF Cong
  <2> QED
    BY <1>1, <1>2, <1>8, <1>9, <2>1, CongTransitive
<1> QED
  BY <1>4, <1>5, <1>6, <1>9, <1>10 DEF r, n, q

LEMMA MultiplyRepresents ==
    ASSUME NEW m \in Level, NEW d \in 0 .. 4, NEW x, AllNear(x, m, d),
           NEW v, Represents(x, m, v), NEW c \in Int, NEW multiplier,
           \A chain \in Chains(m) :
             /\ multiplier[chain] \in - get_q(m, chain) .. get_q(m, chain)
             /\ Cong(multiplier[chain], c * R, get_q(m, chain))
    PROVE  Represents(multiply_scalar(x, multiplier, m), m, v * c)
<1> DEFINE y == multiply_scalar(x, multiplier, m)
<1>0. R \in Nat \ {0} /\ v \in Int /\ v * c \in Int
  BY RAssumption DEF Represents
<1>1. ASSUME NEW chain \in Chains(m)
      PROVE  y[chain] \in Int /\ Cong(y[chain], v * c, get_q(m, chain))
  <2> DEFINE q == get_q(m, chain)
             f == multiplier[chain]
             made == mont_mult_scalar(x[chain], f, q, k_of[q])
  <2>1. q \in Nat \ {0, 1} /\ Valid(q, k_of[q]) /\ 4 * q < R /\ Coprime(R, q) /\ q \in Int
    BY ModulusFacts, ChainModulus
  <2>2. f \in - q .. q /\ Cong(f, c * R, q)
    OBVIOUS
  <2>3. Near(x[chain], q, d) /\ Cong(x[chain], v, q)
    BY DEF AllNear, Represents
  <2>4. y[chain] = guard(made, q)
    BY DEF multiply_scalar
  <2> HIDE DEF q, f, y
  <2>5. x[chain] \in Int /\ - (2 * R) =< x[chain] /\ x[chain] =< 2 * R
    <3> DEFINE w == d * q
               u == x[chain]
    <3>1. w =< 4 * q /\ w \in Nat
      BY <2>1, Monotone
    <3>2. (4 + d) * q = 4 * q + w /\ - (d * q) = - w /\ (- d) * q = - w
      BY <2>1
    <3>3. u \in Int /\ - w =< 4 * u /\ 4 * u =< 4 * q + w
      BY <2>3, <3>2 DEF Near
    <3> HIDE DEF w, u, made
    <3>4. u \in Int /\ - (2 * R) =< u /\ u =< 2 * R
      BY <1>0, <2>1, <3>1, <3>3
    <3> QED
      BY <3>4 DEF u
  <2>6. f \in Int /\ - q =< f /\ f =< q
    BY <2>1, <2>2
  <2>7. made \in Int /\ Cong(made, x[chain] * c, q)
    BY <2>1, <2>2, <2>5, <2>6, MontMultCong
  <2> HIDE DEF made
  <2>8. guard(made, q) \in Int /\ Cong(guard(made, q), made, q)
    BY <2>1, <2>7, GuardCong
  <2>9. Cong(x[chain] * c, v * c, q) /\ x[chain] * c \in Int
    BY <1>0, <2>1, <2>3, <2>5, CongProduct
  <2>10. Cong(made, v * c, q)
    BY <1>0, <2>1, <2>7, <2>9, CongTransitive
  <2>11. Cong(guard(made, q), v * c, q)
    BY <1>0, <2>1, <2>7, <2>8, <2>10, CongTransitive
  <2> QED
    BY <2>4, <2>8, <2>11 DEF q
<1>2. y = [chain \in Chains(m) |-> y[chain]]
  BY DEF multiply_scalar
<1> HIDE DEF y
<1>3. Represents(y, m, v * c)
  BY <1>0, <1>1, <1>2 DEF Represents
<1> QED
  BY <1>3 DEF y

LEMMA DropRepresents ==
    ASSUME NEW m \in Level, NEW count \in Nat, m + count \in Level,
           NEW x, NEW v, Represents(x, m, v)
    PROVE  Represents(Drop(x, count), m + count, v)
<1>1. Drop(x, count) = [chain \in Chains(m + count) |-> x[chain + count]]
  BY DropIs DEF Represents
<1>2. \A chain \in Chains(m + count) :
        /\ chain + count \in Chains(m)
        /\ get_q(m + count, chain) = get_q(m, chain + count)
  BY ChainFacts
<1> QED
  BY <1>1, <1>2 DEF Represents

-----------------------------------------------------------------------------
(***************************************************************************)
(* The refinement: RingText computes with what the residues represent.     *)
(***************************************************************************)
LEMMA RingModulus ==
    /\ Ring!ModuliId = Level
    /\ \A m : Ring!Modulus(m) = Modulus(m)
    /\ \A v, m : Ring!Reduce(v, m) = v % Modulus(m)
<1>1. \A m : Ring!Modulus(m) = Modulus(m)
  BY DEF Ring!Modulus, Modulus, Ring!product_of_last, product_of_last, Ring!ChainCount, ChainCount
<1> QED
  BY <1>1 DEF Ring!ModuliId, Level, Ring!Reduce, Ring!ChainCount, ChainCount

LEMMA StateRepresents ==
    ASSUME TypeOK
    PROVE  /\ moduli_id \in Level /\ drift \in 0 .. MaxDrift
           /\ AllNear(residues, moduli_id, drift)
           /\ Represents(residues, moduli_id, Compose(residues, moduli_id))
           /\ Compose(residues, moduli_id) \in Int
           /\ Compose(residues, moduli_id) \in 0 .. Modulus(moduli_id) - 1
<1>1. moduli_id \in Level /\ drift \in 0 .. MaxDrift /\ residues \in [Chains(moduli_id) -> Int]
  BY DEF TypeOK, Level
<1>2. AllNear(residues, moduli_id, drift)
  <2>1. ASSUME NEW chain \in Chains(moduli_id)
        PROVE  Near(residues[chain], get_q(moduli_id, chain), drift)
    BY <1>1, ModulusFacts DEF TypeOK, Near
  <2> QED
    BY <1>1, <2>1 DEF AllNear
<1>3. /\ Compose(residues, moduli_id) \in 0 .. Modulus(moduli_id) - 1
      /\ Represents(residues, moduli_id, Compose(residues, moduli_id))
  BY <1>1, ComposeRepresents
<1> QED
  BY <1>1, <1>2, <1>3 DEF Represents

(* A text that is rescaled is one of the rounded quotients. *)
LEMMA RescaleRounded ==
    ASSUME NEW m \in Level, m + 1 \in Level, NEW d \in 0 .. 4, NEW x, AllNear(x, m, d),
           NEW v, Represents(x, m, v)
    PROVE  /\ \E w \in Int : Represents(rescale_once(x, m), m + 1, w)
           /\ Compose(rescale_once(x, m), m + 1) \in Ring!Rounded(v, m)
<1>1. PICK error \in - 1 .. 2 :
        Represents(rescale_once(x, m), m + 1, (v \div Moduli[m + 1]) + error)
  BY RescaleRepresents
<1> DEFINE w == (v \div Moduli[m + 1]) + error
<1>2. Compose(rescale_once(x, m), m + 1) = w % Modulus(m + 1)
  BY <1>1, ComposeUnique
<1>3. w % Modulus(m + 1) \in Ring!Rounded(v, m)
  <2>1. error \in 1 - 2 .. 2
    OBVIOUS
  <2> QED
    BY <2>1, RingModulus DEF Ring!Rounded
<1>4. w \in Int
  BY <1>1 DEF Represents
<1> QED
  BY <1>1, <1>2, <1>3, <1>4

LEMMA OperandRing ==
    ASSUME TypeOK, NEW operand \in Operand
    PROVE  LET w == Compose(operand.residues, moduli_id)
           IN  /\ w \in Int /\ Represents(operand.residues, moduli_id, w)
               /\ w \in Ring!Operand
<1> DEFINE w == Compose(operand.residues, moduli_id)
<1>1. operand.residues \in [Chains(moduli_id) -> Int] /\ moduli_id \in Level
  BY OperandNear DEF AllNear, TypeOK, Level
<1>2. Represents(operand.residues, moduli_id, w) /\ w \in Int
  BY <1>1, ComposeRepresents DEF Represents
<1>3. CASE operand.residues = residues
  BY <1>2, <1>3 DEF Ring!Operand
<1>4. CASE \E message \in Message : operand.residues = Fresh(message, moduli_id)
  <2>1. PICK message \in Message : operand.residues = Fresh(message, moduli_id)
    BY <1>4
  <2>2. message \in Int
    BY TextAssumption
  <2>3. w = message % Modulus(moduli_id)
    BY <1>1, <2>1, <2>2, FreshRepresents, ComposeUnique
  <2> HIDE DEF w
  <2>4. w \in {Ring!Reduce(msg, moduli_id) : msg \in Message}
    BY <2>3, RingModulus
  <2> QED
    BY <1>2, <2>4 DEF Ring!Operand, w
<1>5. CASE /\ moduli_id # 0
           /\ \E message \in Message :
                operand.residues = rescale_once(Fresh(message, moduli_id - 1), moduli_id - 1)
  <2>1. PICK message \in Message :
          operand.residues = rescale_once(Fresh(message, moduli_id - 1), moduli_id - 1)
    BY <1>5
  <2> DEFINE m == moduli_id - 1
             x == Fresh(message, m)
             v == Compose(x, m)
  <2>2. message \in Int
    BY TextAssumption
  <2>3. m \in Level /\ m + 1 \in Level /\ m + 1 = moduli_id
    BY <1>1, <1>5, ModuliFacts DEF Level
  <2> HIDE DEF m
  <2>4. AllNear(x, m, 0) /\ Represents(x, m, message)
    BY <2>2, <2>3, FreshNear, FreshRepresents
  <2>5. v = message % Modulus(m)
    BY <2>3, <2>4, ComposeUnique
  <2>6. Represents(x, m, v)
    BY <2>3, <2>4, ComposeRepresents DEF Represents
  <2> HIDE DEF x, v
  <2>7. Compose(rescale_once(x, m), m + 1) \in Ring!Rounded(v, m)
    <3>1. 0 \in 0 .. 4
      OBVIOUS
    <3> QED
      BY <2>3, <2>4, <2>6, <3>1, RescaleRounded
  <2>8. w \in Ring!Rounded(v, moduli_id - 1)
    BY <2>1, <2>3, <2>7 DEF x, m
  <2>9. v \in {Ring!Reduce(msg, moduli_id - 1) : msg \in Message}
    BY <2>5, RingModulus DEF m
  <2> HIDE DEF w
  <2> QED
    BY <1>2, <1>5, <2>8, <2>9 DEF Ring!Operand, w
<1> QED
  BY <1>2, <1>3, <1>4, <1>5 DEF Operand

-----------------------------------------------------------------------------
LEMMA RingInit == Init => Ring!Init
<1> SUFFICES ASSUME Init PROVE Ring!Init
  OBVIOUS
<1>1. PICK message \in Message : residues = Fresh(message, moduli_id)
  BY DEF Init
<1>2. moduli_id \in Level /\ message \in Int
  BY TextAssumption DEF Init, Level
<1>3. Compose(residues, moduli_id) = message % Modulus(moduli_id)
  BY <1>1, <1>2, FreshRepresents, ComposeUnique
<1> QED
  BY <1>2, <1>3, RingModulus DEF Ring!Init

LEMMA RingNext ==
    MaxDrift =< 4 /\ TypeOK /\ TypeOK' /\ [Next]_vars => [Ring!Next]_(Ring!vars)
<1> SUFFICES ASSUME MaxDrift =< 4, TypeOK, TypeOK', [Next]_vars
             PROVE  Ring!Next \/ UNCHANGED Ring!vars
  OBVIOUS
<1> DEFINE V == Compose(residues, moduli_id)
<1>1. /\ moduli_id \in Level /\ drift \in 0 .. 4 /\ V \in Int
      /\ AllNear(residues, moduli_id, drift)
      /\ Represents(residues, moduli_id, V)
  BY StateRepresents, TextAssumption
<1>2. ASSUME NEW m \in Level, NEW w \in Int, NEW x, Represents(x, m, w)
      PROVE  Compose(x, m) = Ring!Reduce(w, m)
  BY <1>2, ComposeUnique, RingModulus
<1>3. ASSUME NEW w \in Int, moduli_id' = moduli_id, Represents(residues', moduli_id, w)
      PROVE  Ring!Becomes(w)
  <2>1. Compose(residues', moduli_id') = Ring!Reduce(w, moduli_id)
    BY <1>1, <1>2, <1>3
  <2> QED
    BY <1>3, <2>1 DEF Ring!Becomes
<1> HIDE DEF V
<1>4. ASSUME NEW operand \in Operand,
             Add(operand) \/ Subtract(operand) \/ SubtractFrom(operand)
      PROVE  Ring!Next
  <2> DEFINE W == Compose(operand.residues, moduli_id)
             x == residues
             y == operand.residues
  <2>1. W \in Int /\ Represents(y, moduli_id, W) /\ W \in Ring!Operand
    BY OperandRing
  <2> HIDE DEF W
  <2>2. moduli_id' = moduli_id
    BY <1>4 DEF Add, Subtract, SubtractFrom, Combined
  <2>3. ASSUME NEW chain \in Chains(moduli_id)
        PROVE  LET q == get_q(moduli_id, chain)
               IN  /\ mont_add_reduce_2q_to_q(x[chain], y[chain], q) \in Int
                   /\ mont_sub_reduce_2q_to_q(x[chain], y[chain], q) \in Int
                   /\ mont_sub_reduce_2q_to_q(y[chain], x[chain], q) \in Int
                   /\ Cong(mont_add_reduce_2q_to_q(x[chain], y[chain], q), V + W, q)
                   /\ Cong(mont_sub_reduce_2q_to_q(x[chain], y[chain], q), V - W, q)
                   /\ Cong(mont_sub_reduce_2q_to_q(y[chain], x[chain], q), W - V, q)
    <3> DEFINE q == get_q(moduli_id, chain)
    <3>1. q \in Nat \ {0, 1}
      BY <1>1, ChainModulus
    <3>2. x[chain] \in Int /\ y[chain] \in Int /\ Cong(x[chain], V, q) /\ Cong(y[chain], W, q)
      BY <1>1, <2>1 DEF Represents
    <3> HIDE DEF q, x, y
    <3>3. /\ Cong(mont_add_reduce_2q_to_q(x[chain], y[chain], q), V + W, q)
          /\ Cong(mont_sub_reduce_2q_to_q(x[chain], y[chain], q), V - W, q)
          /\ Cong(mont_sub_reduce_2q_to_q(y[chain], x[chain], q), W - V, q)
      BY <1>1, <2>1, <3>1, <3>2, AddCong
    <3>4. /\ mont_add_reduce_2q_to_q(x[chain], y[chain], q) \in Int
          /\ mont_sub_reduce_2q_to_q(x[chain], y[chain], q) \in Int
          /\ mont_sub_reduce_2q_to_q(y[chain], x[chain], q) \in Int
      BY <3>1, <3>2 DEF mont_add_reduce_2q_to_q, mont_sub_reduce_2q_to_q, guard
    <3> QED
      BY <3>3, <3>4 DEF q
  <2>4. V + W \in Int /\ V - W \in Int /\ W - V \in Int
    BY <1>1, <2>1
  <2>5. CASE Add(operand)
    <3>1. Represents(residues', moduli_id, V + W)
      BY <2>3, <2>4, <2>5 DEF Add, Represents
    <3>2. Ring!Becomes(V + W)
      BY <1>3, <2>2, <2>4, <3>1
    <3>3. Ring!Add
      BY <2>1, <3>2 DEF Ring!Add, V
    <3> QED
      BY <3>3 DEF Ring!Next
  <2>6. CASE Subtract(operand)
    <3>1. Represents(residues', moduli_id, V - W)
      BY <2>3, <2>4, <2>6 DEF Subtract, Represents
    <3>2. Ring!Becomes(V - W)
      BY <1>3, <2>2, <2>4, <3>1
    <3>3. Ring!Subtract
      BY <2>1, <3>2 DEF Ring!Subtract, V
    <3> QED
      BY <3>3 DEF Ring!Next
  <2>7. CASE SubtractFrom(operand)
    <3>1. Represents(residues', moduli_id, W - V)
      BY <2>3, <2>4, <2>7 DEF SubtractFrom, Represents
    <3>2. Ring!Becomes(W - V)
      BY <1>3, <2>2, <2>4, <3>1
    <3>3. Ring!Subtract
      BY <2>1, <3>2 DEF Ring!Subtract, V
    <3> QED
      BY <3>3 DEF Ring!Next
  <2> QED
    BY <1>4, <2>5, <2>6, <2>7
<1>5. CASE Negate \/ RotateWithSign
  <2>1. moduli_id' = moduli_id /\ - V \in Int
    BY <1>1, <1>5 DEF Negate, RotateWithSign
  <2>2. ASSUME NEW chain \in Chains(moduli_id)
        PROVE  LET q == get_q(moduli_id, chain)
                   x == residues[chain]
               IN  /\ negate_make_unsigned(x, q) \in Int
                   /\ make_unsigned_reduce_2q_to_q(- x, q) \in Int
                   /\ Cong(negate_make_unsigned(x, q), - V, q)
                   /\ Cong(make_unsigned_reduce_2q_to_q(- x, q), - V, q)
    <3>1. get_q(moduli_id, chain) \in Nat \ {0, 1}
      BY <1>1, ChainModulus
    <3>2. residues[chain] \in Int /\ Cong(residues[chain], V, get_q(moduli_id, chain))
      BY <1>1 DEF Represents
    <3>3. /\ negate_make_unsigned(residues[chain], get_q(moduli_id, chain)) \in Int
          /\ make_unsigned_reduce_2q_to_q(- residues[chain], get_q(moduli_id, chain)) \in Int
      BY <3>1, <3>2 DEF negate_make_unsigned, make_unsigned_reduce_2q_to_q, guard
    <3> QED
      BY <1>1, <3>1, <3>2, <3>3, NegateCong
  <2>3. Represents(residues', moduli_id, - V)
    <3>1. CASE Negate
      BY <2>1, <2>2, <3>1 DEF Negate, Represents
    <3>2. CASE RotateWithSign
      BY <2>1, <2>2, <3>2 DEF RotateWithSign, Represents
    <3> QED
      BY <1>5, <3>1, <3>2
  <2>4. Ring!Becomes(- V)
    BY <1>3, <2>1, <2>3
  <2> QED
    BY <2>4 DEF Ring!Negate, Ring!Next, V
<1> DEFINE Scaled(x, c, m) == multiply_scalar(x, scale_enter_modulo(c, m), m)
<1>6. ASSUME NEW c \in Scalar, NEW m \in Level
      PROVE  /\ c \in Int
             /\ \A chain \in Chains(m) :
                  /\ make_mult_multiplier(c, m)[chain] \in - get_q(m, chain) .. get_q(m, chain)
                  /\ scale_enter_modulo(c, m)[chain] \in - get_q(m, chain) .. get_q(m, chain)
                  /\ Cong(make_mult_multiplier(c, m)[chain], c * R, get_q(m, chain))
                  /\ Cong(scale_enter_modulo(c, m)[chain], c * R, get_q(m, chain))
  <2>1. c \in Int
    BY TextAssumption
  <2> QED
    BY <2>1, MultiplierRange, MultiplierCong
<1>7. ASSUME NEW c \in Scalar, NEW m \in Level, NEW x, AllNear(x, m, drift),
             NEW w, Represents(x, m, w)
      PROVE  /\ Represents(Scaled(x, c, m), m, w * c)
             /\ AllNear(Scaled(x, c, m), m, DriftOfProduct(drift))
             /\ w * c \in Int
  <2>1. Represents(Scaled(x, c, m), m, w * c)
    BY <1>1, <1>6, <1>7, MultiplyRepresents
  <2>2. drift \in 0 .. 8
    BY <1>1
  <2>3. AllNear(Scaled(x, c, m), m, DriftOfProduct(drift))
    BY <1>6, <1>7, <2>2, MultiplyAllNear
  <2> QED
    BY <2>1, <2>3 DEF Represents
<1>8. ASSUME NEW c \in Scalar, Multiply(c)
      PROVE  Ring!Next
  <2>1. moduli_id' = moduli_id /\ V * c \in Int
    BY <1>1, <1>6, <1>8 DEF Multiply
  <2>2. Represents(residues', moduli_id, V * c)
    BY <1>1, <1>6, <1>8, MultiplyRepresents DEF Multiply
  <2>3. Ring!Becomes(V * c)
    BY <1>3, <2>1, <2>2
  <2> QED
    BY <2>3 DEF Ring!Multiply, Ring!Next, V
<1>9. CASE Rescale
  <2>1. moduli_id + 1 \in Level /\ moduli_id' = moduli_id + 1
        /\ residues' = rescale_once(residues, moduli_id)
    BY <1>1, <1>9, ModuliFacts DEF Rescale, Level
  <2>2. Compose(residues', moduli_id') \in Ring!Rounded(V, moduli_id)
    BY <1>1, <2>1, RescaleRounded
  <2> QED
    BY <2>1, <2>2, RingModulus DEF Ring!Rescale, Ring!Next, V
<1>10. ASSUME NEW m \in Level, NEW c \in Scalar, LevelDownAfterRescale(m, c)
       PROVE  Ring!Next
  <2> DEFINE count == m - moduli_id
             x == Drop(residues, count)
  <2>1. count \in Nat /\ moduli_id + count = m /\ moduli_id =< m
    BY <1>1, <1>10, ModuliFacts DEF LevelDownAfterRescale, Level
  <2>2. residues' = Scaled(x, c, m) /\ moduli_id' = m
    BY <1>10 DEF LevelDownAfterRescale
  <2> HIDE DEF count
  <2>3. AllNear(x, m, drift) /\ Represents(x, m, V)
    BY <1>1, <2>1, DropNear, DropRepresents
  <2> HIDE DEF x
  <2>4. Represents(residues', m, V * c) /\ V * c \in Int
    BY <1>7, <2>2, <2>3
  <2>5. Compose(residues', moduli_id') = Ring!Reduce(V * c, m)
    BY <1>2, <2>2, <2>4
  <2>6. m \in moduli_id .. Ring!ChainCount - 1
    BY <1>1, <2>1, ModuliFacts DEF Ring!ChainCount, ChainCount, Level
  <2>7. Ring!LevelDownAfterRescale
    BY <2>2, <2>5, <2>6 DEF Ring!LevelDownAfterRescale, V
  <2> QED
    BY <2>7 DEF Ring!Next
<1>11. ASSUME NEW m \in Level, NEW c \in Scalar, LevelDown(m, c)
       PROVE  Ring!Next
  <2> DEFINE count == m - moduli_id - 1
             d == DriftOfProduct(drift)
             n == moduli_id + 1
             s == Scaled(residues, c, moduli_id)
             x == rescale_once(s, moduli_id)
             w == Compose(x, n)
             v == Compose(s, moduli_id)
  <2>1. count \in Nat /\ n + count = m /\ n \in Level /\ n = moduli_id + 1 /\ moduli_id < m
    BY <1>1, <1>11, ModuliFacts DEF LevelDown, Level
  <2>2. d \in 0 .. 4
    BY <1>1 DEF DriftOfProduct
  <2>3. residues' = Drop(x, count) /\ moduli_id' = m
    BY <1>11 DEF LevelDown
  <2> HIDE DEF count, n
  <2>4. AllNear(s, moduli_id, d) /\ Represents(s, moduli_id, V * c) /\ V * c \in Int
    BY <1>1, <1>7
  <2> HIDE DEF d, s
  <2>5. v = Ring!Reduce(V * c, moduli_id)
    BY <1>1, <1>2, <2>4
  <2>6. Represents(s, moduli_id, v)
    BY <1>1, <2>4, ComposeRepresents DEF Represents
  <2> HIDE DEF v
  <2>7. /\ \E u \in Int : Represents(x, n, u)
        /\ w \in Ring!Rounded(v, moduli_id)
    BY <1>1, <2>1, <2>2, <2>4, <2>6, RescaleRounded
  <2>8. Represents(x, n, w) /\ w \in Int
    BY <2>1, <2>7, ComposeRepresents DEF Represents
  <2> HIDE DEF w, x
  <2>9. Represents(Drop(x, count), m, w)
    BY <2>1, <2>8, DropRepresents
  <2>10. Compose(residues', moduli_id') = Ring!Reduce(w, m)
    BY <1>2, <2>3, <2>8, <2>9
  <2>11. m \in moduli_id + 1 .. Ring!ChainCount - 1
    BY <1>1, <2>1, ModuliFacts DEF Ring!ChainCount, ChainCount, Level
  <2>12. Ring!LevelDown
    BY <2>3, <2>5, <2>7, <2>10, <2>11 DEF Ring!LevelDown, V
  <2> QED
    BY <2>12 DEF Ring!Next
<1>12. CASE UNCHANGED vars
  BY <1>12 DEF vars, Ring!vars
<1> QED
  BY <1>4, <1>5, <1>8, <1>9, <1>10, <1>11, <1>12 DEF Next, Level

(***************************************************************************)
(* Whatever sequence of operations a text goes through, at whatever levels *)
(* and with whatever representatives, it is the integer that the ring      *)
(* operations give, and rescaling is within two units of the quotient, as  *)
(* long as no residue is more than four quarters of a modulus outside of   *)
(* 0 .. q - 1.                                                             *)
(***************************************************************************)
THEOREM RefinesRing == MaxDrift =< 4 => (Spec => ImplementsRing)
<1> SUFFICES ASSUME MaxDrift =< 4
             PROVE  Spec => ImplementsRing
  OBVIOUS
<1>1. Init => Ring!Init
  BY RingInit
<1>2. TypeOK /\ TypeOK' /\ [Next]_vars => [Ring!Next]_(Ring!vars)
  BY RingNext
<1> QED
  BY <1>1, <1>2, ResiduesNearRange, PTL DEF Spec, ImplementsRing, Ring!Spec

-----------------------------------------------------------------------------
(***************************************************************************)
(* Decoding: repeated rescaling, and the integer nearest to zero.          *)
(***************************************************************************)
LEMMA RescaledIs ==
    ASSUME NEW m \in Level, NEW x
    PROVE  /\ Rescaled(x, m)[m] = x
           /\ \A n \in m + 1 .. ChainCount - 1 :
                Rescaled(x, m)[n] = rescale_once(Rescaled(x, m)[n - 1], n - 1)
<1> DEFINE last == ChainCount - 1
           Solves(f, k) == f = [n \in m .. k |-> IF n = m THEN x ELSE rescale_once(f[n - 1], n - 1)]
           S == {k \in m .. last : \E f : Solves(f, k)}
<1>0. m \in Int /\ last \in Int /\ m =< last
  BY ModuliFacts DEF Level
<1> HIDE DEF last
<1>1. m \in S
  <2> DEFINE f == [n \in m .. m |-> x]
  <2>1. \A n \in m .. m : n = m
    BY <1>0
  <2>2. Solves(f, m)
    BY <2>1
  <2> HIDE DEF Solves, f
  <2> QED
    BY <1>0, <2>2
<1>2. ASSUME NEW k \in m .. last, k + 1 =< last, k \in S
      PROVE  k + 1 \in S
  <2>1. PICK f : Solves(f, k)
    BY <1>2
  <2> DEFINE g == [n \in m .. k + 1 |-> IF n = k + 1 THEN rescale_once(f[k], k) ELSE f[n]]
  <2>2. \A n \in m .. k : f[n] = IF n = m THEN x ELSE rescale_once(f[n - 1], n - 1)
    BY <2>1, Zenon
  <2>3. ASSUME NEW n \in m .. k + 1
        PROVE  g[n] = IF n = m THEN x ELSE rescale_once(g[n - 1], n - 1)
    <3>1. CASE n = k + 1
      <4>1. n # m /\ n - 1 = k /\ k \in m .. k + 1 /\ k # k + 1
        BY <1>0, <1>2, <3>1
      <4>2. g[n] = rescale_once(f[k], k) /\ g[n - 1] = f[k]
        BY <3>1, <4>1
      <4> QED
        BY <4>1, <4>2
    <3>2. CASE n # k + 1 /\ n = m
      <4>1. n \in m .. k
        BY <1>0, <1>2, <3>2
      <4>2. f[n] = x
        BY <2>2, <3>2, <4>1
      <4> QED
        BY <3>2, <4>2
    <3>3. CASE n # k + 1 /\ n # m
      <4>1. n \in m .. k /\ n - 1 \in m .. k + 1 /\ n - 1 # k + 1
        BY <1>0, <1>2, <3>3
      <4>2. g[n] = f[n] /\ g[n - 1] = f[n - 1]
        BY <3>3, <4>1
      <4>3. f[n] = rescale_once(f[n - 1], n - 1)
        BY <2>2, <3>3, <4>1
      <4> QED
        BY <3>3, <4>2, <4>3
    <3> QED
      BY <3>1, <3>2, <3>3
  <2>4. g = [n \in m .. k + 1 |-> g[n]]
    OBVIOUS
  <2> HIDE DEF g
  <2>5. Solves(g, k + 1)
    BY <2>3, <2>4, Zenon
  <2>6. k + 1 \in m .. last
    BY <1>0, <1>2
  <2> QED
    BY <2>5, <2>6
<1> HIDE DEF S
<1>3. \A n \in m .. last : n + 1 =< last /\ n \in S => n + 1 \in S
  BY <1>2
<1>4. \A n \in m .. last : n \in S
  BY <1>0, <1>1, <1>3, Upward, Zenon
<1>5. last \in S
  BY <1>0, <1>4
<1> DEFINE at == Rescaled(x, m)
<1>6. Solves(at, last)
  <2>1. \E f : Solves(f, last)
    BY <1>5 DEF S
  <2>2. at = CHOOSE f : Solves(f, last)
    BY DEF Rescaled, last
  <2> HIDE DEF Solves, at
  <2> QED
    BY <2>1, <2>2
<1> HIDE DEF at
<1>7. \A n \in m .. last : at[n] = IF n = m THEN x ELSE rescale_once(at[n - 1], n - 1)
  BY <1>6, Zenon
<1>8. at[m] = x /\ \A n \in m + 1 .. last : at[n] = rescale_once(at[n - 1], n - 1)
  BY <1>0, <1>7
<1> QED
  BY <1>8 DEF at, last

(* The product of the moduli between two levels. *)
Dropped(m, n) == Modulus(m) \div Modulus(n)

LEMMA DroppedStep ==
    ASSUME NEW m \in Level, NEW n \in m .. ChainCount
    PROVE  /\ Dropped(m, n) \in Nat \ {0} /\ Modulus(m) = Modulus(n) * Dropped(m, n)
           /\ Dropped(m, m) = 1
           /\ n < ChainCount => Dropped(m, n + 1) = Dropped(m, n) * Moduli[n + 1]
<1>0. ChainCount \in Nat /\ m \in Int
  BY ModuliFacts DEF Level
<1>1. ASSUME NEW k \in m .. ChainCount, NEW d \in Nat \ {0}, Modulus(m) = Modulus(k) * d
      PROVE  Dropped(m, k) = d
  <2>1. Modulus(k) \in Nat \ {0}
    BY <1>0, ModulusRecurrence DEF Level
  <2> DEFINE z == 0
             p == Modulus(k)
  <2>2. z \in 0 .. p - 1 /\ p \in Nat \ {0} /\ d \in Int /\ (p * d) + z = p * d
    BY <2>1
  <2> HIDE DEF z, p
  <2>3. ((p * d) + z) \div p = d
    BY <2>2, DivModUnique
  <2> QED
    BY <1>1, <2>2, <2>3 DEF Dropped, p
<1> DEFINE S == {k \in m .. ChainCount : \E d \in Nat \ {0} : Modulus(m) = Modulus(k) * d}
<1>2. m \in S /\ Dropped(m, m) = 1
  <2>1. Modulus(m) = Modulus(m) * 1 /\ m \in m .. ChainCount
    BY <1>0, ModulusRecurrence DEF Level
  <2> QED
    BY <1>1, <2>1
<1>3. ASSUME NEW k \in m .. ChainCount, k + 1 =< ChainCount, NEW d \in Nat \ {0},
             Modulus(m) = Modulus(k) * d
      PROVE  /\ d * Moduli[k + 1] \in Nat \ {0}
             /\ Modulus(m) = Modulus(k + 1) * (d * Moduli[k + 1])
  <2>1. k \in Level /\ k + 1 \in 1 .. ChainCount /\ k + 1 \in 0 .. ChainCount
    BY <1>0, <1>3 DEF Level
  <2>2. /\ Modulus(k) = Modulus(k + 1) * Moduli[k + 1]
        /\ Modulus(k + 1) \in Nat \ {0} /\ Moduli[k + 1] \in Nat \ {0}
    BY <2>1, ModulusRecurrence, ModuliFacts
  <2>3. (Modulus(k + 1) * Moduli[k + 1]) * d = Modulus(k + 1) * (d * Moduli[k + 1])
        /\ d * Moduli[k + 1] \in Nat \ {0}
    BY <2>2
  <2> QED
    BY <1>3, <2>2, <2>3
<1>4. \A k \in m .. ChainCount : k + 1 =< ChainCount /\ k \in S => k + 1 \in S
  <2> SUFFICES ASSUME NEW k \in m .. ChainCount, k + 1 =< ChainCount, k \in S
               PROVE  k + 1 \in S
    OBVIOUS
  <2>1. PICK d \in Nat \ {0} : Modulus(m) = Modulus(k) * d
    OBVIOUS
  <2>2. k + 1 \in m .. ChainCount
    BY <1>0
  <2> QED
    BY <1>3, <2>1, <2>2
<1> HIDE DEF S
<1>5. ChainCount \in Int
  BY <1>0
<1>6. \A k \in m .. ChainCount : k \in S
  BY <1>0, <1>2, <1>4, <1>5, Upward, Zenon
<1>7. PICK d \in Nat \ {0} : Modulus(m) = Modulus(n) * d
  BY <1>6 DEF S
<1>8. Dropped(m, n) = d
  BY <1>1, <1>7
<1>9. ASSUME n < ChainCount
      PROVE  Dropped(m, n + 1) = d * Moduli[n + 1]
  <2>1. n + 1 =< ChainCount /\ n + 1 \in m .. ChainCount
    BY <1>0, <1>9
  <2> QED
    BY <1>1, <1>3, <1>7, <2>1
<1> QED
  BY <1>2, <1>7, <1>8, <1>9

(* Dividing twice is dividing by the product. *)
LEMMA DivideTwice ==
    ASSUME NEW v \in Int, NEW a \in Nat \ {0}, NEW b \in Nat \ {0}
    PROVE  (v \div a) \div b = v \div (a * b)
<1> DEFINE s == v \div a
           r == v % a
           t == s \div b
           u == s % b
<1>1. s \in Int /\ r \in 0 .. a - 1 /\ v = (a * s) + r
  BY DivMod, Zenon
<1> HIDE DEF s, r
<1>2. t \in Int /\ u \in 0 .. b - 1 /\ s = (b * t) + u
  BY <1>1, DivMod, Zenon
<1> HIDE DEF t, u
<1> DEFINE n == a * b
           w == a * u + r
<1>3. n \in Nat \ {0}
  OBVIOUS
<1>4. w \in 0 .. n - 1
  <2>1. u \in Int /\ u >= 0 /\ u =< b - 1 /\ r \in Int /\ r >= 0 /\ r =< a - 1
    BY <1>1, <1>2
  <2>2. u * a =< (b - 1) * a /\ b - 1 \in Int
    BY <2>1, Monotone
  <2>3. (b - 1) * a = n - a /\ u * a = a * u /\ a * u \in Nat /\ n \in Int
    BY <2>1
  <2> HIDE DEF n
  <2> QED
    BY <2>1, <2>2, <2>3
<1>5. a * ((b * t) + u) = (n * t) + a * u /\ n * t \in Int /\ a * u \in Int
  BY <1>2
<1>6. v = (n * t) + w
  <2>1. v = a * ((b * t) + u) + r
    BY <1>1, <1>2
  <2> HIDE DEF n
  <2> QED
    BY <1>1, <1>5, <2>1
<1> HIDE DEF n, w
<1>7. ((n * t) + w) \div n = t
  BY <1>2, <1>3, <1>4, DivModUnique
<1>8. v \div n = t
  BY <1>6, <1>7
<1> QED
  BY <1>8 DEF n, t, s

(* An error of a few units hardly shifts a quotient. *)
LEMMA QuotientShift ==
    ASSUME NEW a \in Int, NEW q \in Nat, q > 2, NEW error \in - 2 .. 3
    PROVE  \E shift \in - 1 .. 1 : (a + error) \div q = (a \div q) + shift
<1> DEFINE t == a \div q
           r == a % q
<1>0. q \in Nat \ {0}
  OBVIOUS
<1>1. t \in Int /\ r \in 0 .. q - 1 /\ a = (q * t) + r
  BY <1>0, DivMod, Zenon
<1> HIDE DEF t, r
<1>2. q * (t + 1) = q * t + q /\ q * (t - 1) = q * t - q /\ q * t \in Int
  BY <1>1
<1>3. \A w \in Int, n \in 0 .. q - 1 : ((q * w) + n) \div q = w
  BY <1>0, DivModUnique
<1>4. CASE r + error \in 0 .. q - 1
  <2>1. a + error = (q * t) + (r + error)
    BY <1>1, <1>2
  <2>2. (a + error) \div q = t
    BY <1>1, <1>3, <1>4, <2>1
  <2> QED
    BY <1>1, <2>2 DEF t
<1>5. CASE r + error < 0
  <2>1. a + error = (q * (t - 1)) + (r + error + q) /\ r + error + q \in 0 .. q - 1 /\ t - 1 \in Int
    BY <1>1, <1>2, <1>5
  <2>2. (a + error) \div q = t - 1
    BY <1>3, <2>1
  <2> QED
    BY <1>1, <2>2 DEF t
<1>6. CASE r + error >= q
  <2>1. a + error = (q * (t + 1)) + (r + error - q) /\ r + error - q \in 0 .. q - 1 /\ t + 1 \in Int
    BY <1>1, <1>2, <1>6
  <2>2. (a + error) \div q = t + 1
    BY <1>3, <2>1
  <2> QED
    BY <1>1, <2>2 DEF t
<1> QED
  BY <1>1, <1>4, <1>5, <1>6

(***************************************************************************)
(* After any number of rescalings a text is the quotient by the moduli     *)
(* that were dropped, with an error that does not grow with their number.  *)
(***************************************************************************)
Errors(m, n) == IF n = m THEN {0} ELSE - 2 .. 3

LEMMA RescaledRepresents ==
    ASSUME NEW m \in Level, NEW d \in 0 .. 4, NEW x, AllNear(x, m, d),
           NEW v, Represents(x, m, v), NEW n \in m .. ChainCount - 1
    PROVE  /\ \E dn \in 0 .. 4 : AllNear(Rescaled(x, m)[n], n, dn)
           /\ \E error \in Errors(m, n) :
                Represents(Rescaled(x, m)[n], n, (v \div Dropped(m, n)) + error)
<1> DEFINE last == ChainCount - 1
           at == Rescaled(x, m)
           Good(k) == /\ \E dn \in 0 .. 4 : AllNear(at[k], k, dn)
                      /\ \E error \in Errors(m, k) :
                           Represents(at[k], k, (v \div Dropped(m, k)) + error)
           S == {k \in m .. last : Good(k)}
<1>0. m \in Int /\ last \in Int /\ m \in m .. last /\ ChainCount \in Nat /\ v \in Int
  BY ModuliFacts DEF Level, Represents
<1>1. at[m] = x /\ \A k \in m + 1 .. last : at[k] = rescale_once(at[k - 1], k - 1)
  BY RescaledIs
<1> HIDE DEF at
<1>2. m \in S
  <2>1. Dropped(m, m) = 1
    BY <1>0, DroppedStep
  <2>2. v \div 1 = v
    <3> DEFINE z == 0
               one == 1
    <3>1. z \in 0 .. one - 1 /\ one \in Nat \ {0} /\ (one * v) + z = v
      BY <1>0
    <3> HIDE DEF z, one
    <3>2. ((one * v) + z) \div one = v
      BY <1>0, <3>1, DivModUnique
    <3> QED
      BY <3>1, <3>2 DEF one
  <2>3. (v \div Dropped(m, m)) + 0 = v
    BY <1>0, <2>1, <2>2
  <2>4. Represents(at[m], m, (v \div Dropped(m, m)) + 0) /\ 0 \in Errors(m, m)
    BY <1>1, <2>3 DEF Errors
  <2>5. AllNear(at[m], m, d)
    BY <1>1
  <2> QED
    BY <1>0, <2>4, <2>5
<1>3. ASSUME NEW k \in m .. last, k + 1 =< last, k \in S
      PROVE  k + 1 \in S
  <2>1. /\ k \in Level /\ k + 1 \in Level /\ k + 1 \in m + 1 .. last /\ k + 1 \in m .. last
        /\ (k + 1) - 1 = k /\ k \in m .. ChainCount /\ k < ChainCount /\ k + 1 \in 1 .. ChainCount
        /\ k + 1 # m
    BY <1>0, <1>3 DEF Level
  <2> DEFINE D == Dropped(m, k)
             q == Moduli[k + 1]
             a == v \div D
  <2>2. q \in Nat /\ q > 2 /\ q \in Nat \ {0}
    BY <2>1, ModuliFacts
  <2>3. D \in Nat \ {0} /\ Dropped(m, k + 1) = D * q
    BY <2>1, DroppedStep
  <2>4. a \in Int
    BY <1>0, <2>3, DivMod, Zenon
  <2>5. a \div q = v \div Dropped(m, k + 1)
    BY <1>0, <2>2, <2>3, DivideTwice
  <2>6. PICK dn \in 0 .. 4 : AllNear(at[k], k, dn)
    BY <1>3
  <2>7. PICK error \in Errors(m, k) : Represents(at[k], k, a + error)
    BY <1>3
  <2>8. at[k + 1] = rescale_once(at[k], k)
    BY <1>1, <2>1
  <2>9. DriftOfProduct(dn) \in 0 .. 4
    BY DEF DriftOfProduct
  <2>10. AllNear(at[k + 1], k + 1, DriftOfProduct(dn))
    <3>1. dn \in 0 .. 8
      OBVIOUS
    <3> QED
      BY <2>1, <2>6, <2>8, <3>1, RescaleAllNear
  <2> HIDE DEF D, q, a
  <2>11. PICK rounding \in - 1 .. 2 :
           Represents(at[k + 1], k + 1, ((a + error) \div q) + rounding)
    BY <2>1, <2>6, <2>7, <2>8, RescaleRepresents DEF q
  <2>12. error \in - 2 .. 3
    BY DEF Errors
  <2>13. PICK shift \in - 1 .. 1 : (a + error) \div q = (a \div q) + shift
    BY <2>2, <2>4, <2>12, QuotientShift
  <2>14. a \div q \in Int
    BY <2>2, <2>4, DivMod, Zenon
  <2>15. ((a + error) \div q) + rounding = (a \div q) + (shift + rounding)
         /\ shift + rounding \in - 2 .. 3
    BY <2>13, <2>14
  <2>16. shift + rounding \in Errors(m, k + 1)
    BY <2>1, <2>15 DEF Errors
  <2>17. Represents(at[k + 1], k + 1, (v \div Dropped(m, k + 1)) + (shift + rounding))
    BY <2>5, <2>11, <2>15
  <2> QED
    BY <2>1, <2>9, <2>10, <2>16, <2>17
<1> HIDE DEF S
<1>4. \A k \in m .. last : k + 1 =< last /\ k \in S => k + 1 \in S
  BY <1>3
<1>5. \A k \in m .. last : k \in S
  BY <1>0, <1>2, <1>4, Upward, Zenon
<1>6. n \in S
  BY <1>5
<1> QED
  BY <1>6 DEF S, at

(***************************************************************************)
(* Rescaling to the last modulus, which is at least twice the one before,  *)
(* leaves a reduced residue: make_signed, which takes a negative one for   *)
(* large, needs it.                                                        *)
(***************************************************************************)
LEMMA LastReduced ==
    ASSUME NEW q \in Nat \ {0, 1}, NEW k, Valid(q, k), NEW q0 \in Nat, q0 > 2, 2 * q0 =< q,
           NEW d \in 0 .. 4, NEW x, Near(x, q, d), NEW x0, Near(x0, q0, d),
           NEW c \in 0 .. q - 1, NEW r \in {0, 1}
    PROVE  guard(mont_add(mont_mult_scalar(guard(mont_subtract(x, x0, q), q), c, q, k), r, q), q)
             \in 0 .. q - 1
<1> DEFINE a == guard(mont_subtract(x, x0, q), q)
           y == mont_mult_scalar(a, c, q, k)
<1>0. R \in Nat \ {0} /\ 4 * q < R
  BY RAssumption DEF Valid
<1>1. x \in Int /\ x0 \in Int /\ - q =< x /\ x =< 2 * q /\ - q0 =< x0 /\ x0 =< 2 * q0
  <2>1. d * q =< 4 * q /\ d * q0 =< 4 * q0 /\ d * q \in Nat /\ d * q0 \in Nat
    BY Monotone
  <2> QED
    BY <2>1 DEF Near
<1>2. a \in Int /\ 0 =< a /\ 2 * a =< 3 * q
  BY <1>1 DEF mont_subtract, guard
<1> HIDE DEF a
<1> DEFINE e == 0
           f == 6
<1>3. /\ e \in 0 .. 64 /\ f \in 0 .. 64
      /\ - (e * R) =< 16 * a /\ 16 * a =< f * R
      /\ c \in Int /\ - q =< c /\ c =< q /\ c >= 0
      /\ e * q = 0 /\ (f + 16) * q = 22 * q
  BY <1>0, <1>2
<1> HIDE DEF e, f
<1>4. y \in Int /\ - (e * q) =< 16 * y /\ 16 * y =< (f + 16) * q
  BY <1>2, <1>3, MontMultRange
<1> HIDE DEF y
<1>5. y \in Int /\ 0 =< y /\ 16 * y =< 22 * q
  BY <1>3, <1>4
<1>6. guard(mont_add(y, r, q), q) \in 0 .. q - 1
  BY <1>5 DEF guard, mont_add
<1> QED
  BY <1>6 DEF y, a

(* What decoding composes is the representative nearest to zero. *)
LEMMA NearestRepresentative ==
    ASSUME NEW n \in Level, n + 1 < ChainCount, NEW d \in 0 .. 4,
           NEW x, AllNear(x, n, d), NEW v, Represents(x, n, v)
    PROVE  LET decoded == rns_to_double(x, n)
           IN  /\ decoded \in Int /\ Cong(decoded, v, Modulus(n))
               /\ 2 * decoded \in - Modulus(n) - 1 .. Modulus(n)
<1> DEFINE unsigned == [chain \in DOMAIN x |->
             Unsigned(make_unsigned_reduce_2q_to_q(x[chain], get_q(n, chain)))]
           M == Modulus(n)
           composed == Compose(unsigned, n)
           decoded == rns_to_double(x, n)
<1>0. v \in Int /\ M \in Nat \ {0} /\ M \in Int
  BY LevelModulus DEF Represents
<1>1. ASSUME NEW chain \in Chains(n)
      PROVE  unsigned[chain] \in Int /\ Cong(unsigned[chain], v, get_q(n, chain))
  <2> DEFINE q == get_q(n, chain)
             y == make_unsigned_reduce_2q_to_q(x[chain], q)
  <2>1. q \in Nat \ {0, 1} /\ 4 * q < R /\ R \in Nat \ {0} /\ q \in Int
    BY ChainModulus, RAssumption
  <2>2. Near(x[chain], q, d) /\ Cong(x[chain], v, q) /\ chain \in DOMAIN x
    BY DEF AllNear, Represents
  <2>3. unsigned[chain] = Unsigned(y)
    BY <2>2
  <2> HIDE DEF q, unsigned
  <2>4. x[chain] \in Int /\ - q =< x[chain] /\ x[chain] =< 2 * q
    <3>1. d * q =< 4 * q /\ d * q \in Nat
      BY <2>1, Monotone
    <3> QED
      BY <2>1, <2>2, <3>1 DEF Near
  <2>5. y \in 0 .. q /\ y \in Int
    BY <2>1, <2>4 DEF make_unsigned_reduce_2q_to_q, guard
  <2>6. Cong(y, x[chain], q)
    <3>1. /\ x[chain] = x[chain] + q * 0 /\ x[chain] - q = x[chain] + q * (- 1)
          /\ x[chain] + q = x[chain] + q * 1
      BY <2>1, <2>4
    <3>2. Cong(x[chain], x[chain], q) /\ Cong(x[chain] - q, x[chain], q)
          /\ Cong(x[chain] + q, x[chain], q)
      BY <3>1 DEF Cong
    <3> QED
      BY <3>2 DEF make_unsigned_reduce_2q_to_q, guard
  <2> HIDE DEF y
  <2>7. Unsigned(y) = y
    <3> DEFINE W == Word
               z == 0
    <3>1. W \in Nat \ {0} /\ y \in 0 .. W - 1 /\ z \in Int /\ (W * z) + y = y
      BY <2>1, <2>5 DEF Word
    <3> HIDE DEF W, z
    <3>2. ((W * z) + y) % W = y
      BY <3>1, DivModUnique
    <3> QED
      BY <3>1, <3>2 DEF W, Unsigned
  <2>8. Cong(y, v, q)
    BY <1>0, <2>1, <2>2, <2>4, <2>5, <2>6, CongTransitive
  <2> QED
    BY <2>3, <2>5, <2>7, <2>8 DEF q
<1>2. DOMAIN x = Chains(n)
  BY DEF AllNear
<1>3. unsigned = [chain \in Chains(n) |-> unsigned[chain]]
  BY <1>2
<1>4. decoded = IF composed >= M \div 2 THEN composed - M ELSE composed
  BY DEF rns_to_double
<1> HIDE DEF unsigned
<1>5. Represents(unsigned, n, v)
  BY <1>0, <1>1, <1>3 DEF Represents
<1>6. composed = v % M
  BY <1>5, ComposeUnique
<1>7. composed \in 0 .. M - 1 /\ Cong(composed, v, M)
  BY <1>0, <1>6, CongRemainder, DivMod, Zenon
<1> HIDE DEF composed, decoded, M
<1>8. decoded \in Int /\ 2 * decoded \in - M - 1 .. M
  BY <1>0, <1>4, <1>7
<1>9. Cong(decoded, v, M)
  <2>1. composed - M = composed + M * (- 1) /\ composed - M \in Int /\ composed \in Int
    BY <1>0, <1>7
  <2>2. Cong(composed - M, composed, M)
    BY <2>1 DEF Cong
  <2>3. Cong(composed - M, v, M)
    BY <1>0, <1>7, <2>1, <2>2, CongTransitive
  <2> QED
    BY <1>4, <1>7, <2>3
<1> QED
  BY <1>8, <1>9 DEF decoded, M

LEMMA SignedRepresentative ==
    ASSUME NEW q \in Nat \ {0, 1}, 4 * q < R, NEW x \in 0 .. q - 1
    PROVE  LET decoded == make_signed(x, q)
           IN  decoded \in Int /\ Cong(decoded, x, q) /\ 2 * decoded \in - q - 1 .. q
<1> DEFINE W == Word
           z == 0
<1>1. W \in Nat \ {0} /\ x \in 0 .. W - 1 /\ z \in Int /\ (W * z) + x = x
  BY RAssumption DEF Word
<1> HIDE DEF W, z
<1>2. ((W * z) + x) % W = x
  BY <1>1, DivModUnique
<1>3. Unsigned(x) = x
  BY <1>1, <1>2 DEF W, Unsigned
<1>4. x = x + q * 0 /\ x - q = x + q * (- 1)
  OBVIOUS
<1>5. Cong(x, x, q) /\ Cong(x - q, x, q)
  BY <1>4 DEF Cong
<1> QED
  BY <1>3, <1>5 DEF make_signed

(***************************************************************************)
(* Decoding a text that has at least two chains returns its integer,       *)
(* divided by the moduli it drops on the way, as the representative        *)
(* nearest to zero, for all moduli in the proportions of the code.         *)
(***************************************************************************)
LEMMA TypeDecodes == MaxDrift =< 4 /\ TypeOK => DecodeCorrect
<1> SUFFICES ASSUME MaxDrift =< 4, TypeOK, moduli_id + 1 < ChainCount,
                    NEW n \in moduli_id .. ChainCount - 1
             PROVE  LET decoded == convert_plaintext_to_double(Rescaled(residues, moduli_id)[n], n)
                        exact == Compose(residues, moduli_id) \div Dropped(moduli_id, n)
                    IN  /\ 2 * decoded \in - Modulus(n) - 1 .. Modulus(n)
                        /\ \E error \in Errors(moduli_id, n) :
                             (decoded - exact - error) % Modulus(n) = 0
  BY DEF DecodeCorrect, Dropped, Errors
<1> DEFINE m == moduli_id
           V == Compose(residues, m)
           at == Rescaled(residues, m)
           x == at[n]
           decoded == convert_plaintext_to_double(x, n)
           exact == V \div Dropped(m, n)
           M == Modulus(n)
<1>1. /\ m \in Level /\ drift \in 0 .. 4 /\ V \in Int
      /\ AllNear(residues, m, drift) /\ Represents(residues, m, V)
  BY StateRepresents, TextAssumption
<1>2. n \in Level /\ n \in m .. ChainCount /\ ChainCount \in Nat /\ m \in Int
  BY <1>1, ModuliFacts DEF Level
<1>3. PICK d \in 0 .. 4 : AllNear(x, n, d)
  BY <1>1, RescaledRepresents
<1>4. PICK error \in Errors(m, n) : Represents(x, n, exact + error)
  BY <1>1, RescaledRepresents
<1>5. exact \in Int /\ error \in Int /\ exact + error \in Int /\ M \in Nat \ {0} /\ M \in Int
  <2>1. Dropped(m, n) \in Nat \ {0}
    BY <1>1, <1>2, DroppedStep
  <2>2. exact \in Int
    BY <1>1, <2>1, DivMod, Zenon
  <2> HIDE DEF exact
  <2> QED
    BY <1>2, <2>2, LevelModulus DEF Errors
<1> HIDE DEF exact
<1>6. decoded \in Int /\ Cong(decoded, exact + error, M) /\ 2 * decoded \in - M - 1 .. M
  <2>1. CASE n # ChainCount - 1
    <3>1. n + 1 < ChainCount /\ decoded = rns_to_double(x, n)
      BY <1>2, <2>1 DEF convert_plaintext_to_double, Level
    <3> HIDE DEF x
    <3> QED
      BY <1>2, <1>3, <1>4, <3>1, NearestRepresentative
  <2>2. CASE n = ChainCount - 1
    <3> DEFINE p == n - 1
               q == get_q(n, 0)
               q0 == get_q(p, 0)
               y == at[p]
    <3>1. p \in Level /\ p \in m .. ChainCount - 1 /\ p + 1 = n /\ n \in m + 1 .. ChainCount - 1
          /\ 0 \in Chains(n) /\ 0 \in Chains(p) /\ 1 \in Chains(p)
      BY <1>1, <1>2, <2>2 DEF Level, Chains
    <3>2. q = Moduli[ChainCount] /\ q0 = Moduli[ChainCount - 1] /\ get_q(p, 1) = q
      BY <1>2, <2>2, <3>1 DEF get_q
    <3>3. /\ q \in Nat \ {0, 1} /\ Valid(q, k_of[q]) /\ 4 * q < R
          /\ q0 \in Nat /\ q0 > 2 /\ 2 * q0 =< q
      <4>1. q \in Nat \ {0, 1} /\ Valid(q, k_of[q]) /\ 4 * q < R
        BY <1>2, <3>1, ModulusFacts
      <4>2. ChainCount - 1 \in 1 .. ChainCount
        BY ModuliFacts
      <4>3. q0 \in Nat /\ q0 > 2
        BY <3>2, <4>2, ModuliFacts
      <4> QED
        BY <3>2, <4>1, <4>3, LastModuliAssumption
    <3>4. PICK dp \in 0 .. 4 : AllNear(y, p, dp)
      BY <1>1, <3>1, RescaledRepresents
    <3>5. x = rescale_once(y, p)
      BY <1>1, <3>1, RescaledIs
    <3>6. Near(y[1], q, dp) /\ Near(y[0], q0, dp)
      BY <3>1, <3>2, <3>4 DEF AllNear
    <3> DEFINE c == modulus_multiply(modulus_invert(q0 % q, q), R, q)
               r == get_rounder(y[0], q0)
    <3>7. c \in 0 .. q - 1 /\ r \in {0, 1}
      BY <3>3, ScaleRange DEF get_rounder
    <3>8. x[0] = guard(mont_add(mont_mult_scalar(guard(mont_subtract(y[1], y[0], q), q), c, q, k_of[q]), r, q), q)
      <4>1. 0 \in Chains(p + 1) /\ 0 + 1 = 1 /\ get_q(p + 1, 0) = q
        BY <3>1
      <4> HIDE DEF x, y
      <4> QED
        BY <3>5, <4>1 DEF rescale_once
    <3> HIDE DEF c, r, y, q, q0
    <3>9. x[0] \in 0 .. q - 1
      BY <3>3, <3>6, <3>7, <3>8, LastReduced
    <3>10. decoded = make_signed(x[0], q)
      BY <2>2 DEF convert_plaintext_to_double, q
    <3>11. Cong(x[0], exact + error, q)
      BY <1>4, <3>1 DEF Represents, q
    <3>12. M = q
      <4>1. n + 1 = ChainCount /\ Modulus(n) = Modulus(n + 1) * Moduli[n + 1]
        BY <1>2, <2>2, ModulusRecurrence
      <4> QED
        BY <3>2, <3>3, <4>1, ModulusRecurrence
    <3> HIDE DEF decoded, x, M
    <3>13. decoded \in Int /\ Cong(decoded, x[0], q) /\ 2 * decoded \in - q - 1 .. q
      BY <3>3, <3>9, <3>10, SignedRepresentative
    <3>14. Cong(decoded, exact + error, q)
      <4>1. q \in Int /\ x[0] \in Int
        BY <3>3, <3>9
      <4> QED
        BY <1>5, <3>11, <3>13, <4>1, CongTransitive
    <3> QED
      BY <3>12, <3>13, <3>14
  <2> QED
    BY <2>1, <2>2
<1> HIDE DEF decoded, M
<1>7. (decoded - exact - error) % M = 0
  <2>1. PICK w \in Int : decoded = exact + error + M * w
    BY <1>6 DEF Cong
  <2> DEFINE z == 0
  <2>2. decoded - exact - error = (M * w) + z /\ z \in 0 .. M - 1
    BY <1>5, <2>1
  <2> HIDE DEF z
  <2>3. ((M * w) + z) % M = z
    BY <1>5, <2>2, DivModUnique
  <2> QED
    BY <2>2, <2>3 DEF z
<1> QED
  BY <1>6, <1>7 DEF decoded, exact, M

(***************************************************************************)
(* Decoding any text the operations can make, at any level that leaves two *)
(* chains, gives its integer over the dropped moduli, up to the error of   *)
(* the rescaling, as long as no residue is more than four quarters of a    *)
(* modulus outside of 0 .. q - 1.                                          *)
(***************************************************************************)
THEOREM DecodesCorrectly == MaxDrift =< 4 => (Spec => []DecodeCorrect)
<1> SUFFICES ASSUME MaxDrift =< 4
             PROVE  Spec => []DecodeCorrect
  OBVIOUS
<1>1. TypeOK => DecodeCorrect
  BY TypeDecodes
<1> QED
  BY <1>1, ResiduesNearRange, PTL

-----------------------------------------------------------------------------
(* Powers of two, as the numbers of subsets. *)
LEMMA TwoPower ==
    /\ 2 ^ 0 = 1
    /\ \A n \in Nat : 2 ^ n \in Nat \ {0} /\ 2 ^ (n + 1) = 2 * 2 ^ n
<1>1. ASSUME NEW n \in Nat
      PROVE  /\ IsFiniteSet(SUBSET (1 .. n)) /\ Cardinality(SUBSET (1 .. n)) = 2 ^ n
             /\ 2 ^ n \in Nat
  <2>1. IsFiniteSet(1 .. n) /\ Cardinality(1 .. n) = n
    BY FS_Interval
  <2>2. IsFiniteSet(SUBSET (1 .. n)) /\ Cardinality(SUBSET (1 .. n)) = 2 ^ n
    BY <2>1, FS_SUBSET
  <2>3. Cardinality(SUBSET (1 .. n)) \in Nat
    BY <2>2, FS_CardinalityType
  <2> QED
    BY <2>2, <2>3
<1>2. 2 ^ 0 = 1
  OBVIOUS
<1>3. ASSUME NEW n \in Nat
      PROVE  2 ^ (n + 1) = 2 * 2 ^ n
  <2> DEFINE A == SUBSET (1 .. n)
             B == {s \cup {n + 1} : s \in A}
             add == [s \in A |-> s \cup {n + 1}]
  <2>1. \A s \in A : n + 1 \notin s
    OBVIOUS
  <2>2. SUBSET (1 .. n + 1) = A \cup B
    <3>1. ASSUME NEW s \in SUBSET (1 .. n + 1), n + 1 \in s
          PROVE  s \in B
      <4>1. s \ {n + 1} \in A
        OBVIOUS
      <4>2. s = (s \ {n + 1}) \cup {n + 1}
        BY <3>1
      <4> QED
        BY <4>1, <4>2
    <3>2. ASSUME NEW s \in SUBSET (1 .. n + 1), n + 1 \notin s
          PROVE  s \in A
      BY <3>2
    <3>3. \A s \in A : s \in SUBSET (1 .. n + 1) /\ s \cup {n + 1} \in SUBSET (1 .. n + 1)
      OBVIOUS
    <3>4. \A s \in B : s \in SUBSET (1 .. n + 1)
      BY <3>3
    <3> HIDE DEF A, B
    <3> DEFINE C == SUBSET (1 .. n + 1)
    <3>5. (\A s \in C : s \in A \/ s \in B) /\ (\A s \in A : s \in C) /\ (\A s \in B : s \in C)
      BY <3>1, <3>2, <3>3, <3>4
    <3> HIDE DEF C
    <3>6. C = A \cup B
      BY <3>5, Zenon
    <3> QED
      BY <3>6 DEF C
  <2>3. A \cap B = {}
    BY <2>1
  <2>4. add \in Bijection(A, B)
    <3>1. add \in [A -> B]
      OBVIOUS
    <3>2. ASSUME NEW s \in A, NEW t \in A, add[s] = add[t]
          PROVE  s = t
      <4>1. s = (s \cup {n + 1}) \ {n + 1} /\ t = (t \cup {n + 1}) \ {n + 1}
        BY <2>1
      <4> QED
        BY <3>2, <4>1
    <3>3. \A t \in B : \E s \in A : add[s] = t
      OBVIOUS
    <3> HIDE DEF A, B, add
    <3>4. add \in Injection(A, B)
      BY <3>1, <3>2 DEF Injection, IsInjective
    <3>5. add \in Surjection(A, B)
      BY <3>1, <3>3 DEF Surjection
    <3> QED
      BY <3>4, <3>5 DEF Bijection
  <2>5. IsFiniteSet(A) /\ Cardinality(A) = 2 ^ n /\ 2 ^ n \in Nat
    BY <1>1
  <2>6. Cardinality(SUBSET (1 .. n + 1)) = 2 ^ (n + 1)
    BY <1>1
  <2> HIDE DEF A, B, add
  <2>7. IsFiniteSet(B) /\ Cardinality(B) = Cardinality(A)
    BY <2>4, <2>5, FS_Bijection DEF ExistsBijection
  <2>8. Cardinality(A \cup B) = Cardinality(A) + Cardinality(B) - Cardinality(A \cap B)
    BY <2>5, <2>7, FS_Union
  <2>9. Cardinality(A \cap B) = 0
    BY <2>3, FS_EmptySet
  <2>10. Cardinality(A \cup B) = 2 * 2 ^ n
    BY <2>5, <2>7, <2>8, <2>9
  <2> QED
    BY <2>2, <2>6, <2>10, Zenon
<1>4. ASSUME NEW n \in Nat
      PROVE  2 ^ n \in Nat \ {0}
  <2>1. 1 .. n \in SUBSET (1 .. n)
    OBVIOUS
  <2>2. 2 ^ n # 0
    BY <1>1, <2>1, FS_EmptySet
  <2> QED
    BY <1>1, <2>2
<1> QED
  BY <1>2, <1>3, <1>4

(* Exponents add up. *)
LEMMA TwoPowerSum ==
    ASSUME NEW m \in Nat, NEW n \in Nat
    PROVE  2 ^ (m + n) = 2 ^ m * 2 ^ n
<1> DEFINE S == {i \in 0 .. n : 2 ^ (m + i) = 2 ^ m * 2 ^ i}
<1>1. 0 \in S
  BY TwoPower
<1>2. ASSUME NEW i \in 0 .. n, i + 1 =< n, i \in S
      PROVE  i + 1 \in S
  <2>1. 2 ^ ((m + i) + 1) = 2 * 2 ^ (m + i) /\ 2 ^ (i + 1) = 2 * 2 ^ i
    BY <1>2, TwoPower
  <2>2. (m + i) + 1 = m + (i + 1)
    OBVIOUS
  <2>3. 2 ^ m \in Int /\ 2 ^ i \in Int
    BY TwoPower
  <2> DEFINE a == 2 ^ m
             b == 2 ^ i
  <2>4. 2 ^ (m + i) = a * b
    BY <1>2
  <2>5. 2 * (a * b) = a * (2 * b)
    BY <2>3
  <2>6. 2 ^ (m + (i + 1)) = a * (2 * b)
    BY <2>1, <2>2, <2>4, <2>5
  <2> QED
    BY <1>2, <2>1, <2>6
<1> HIDE DEF S
<1>3. /\ 0 \in Int /\ n \in Int
      /\ \A i \in 0 .. n : i + 1 =< n /\ i \in S => i + 1 \in S
  BY <1>2
<1>4. \A i \in 0 .. n : i \in S
  BY <1>1, <1>3, Upward, Zenon
<1> QED
  BY <1>4 DEF S

-----------------------------------------------------------------------------
(***************************************************************************)
(* Finite sums.                                                            *)
(***************************************************************************)
Summands(term, count) == \A i \in 0 .. count - 1 : term[i] \in Int

(* The recursion of Total, up to a number of summands. *)
LEMMA TotalUnfold ==
    ASSUME NEW count \in Nat, NEW term, Summands(term, count)
    PROVE  \E f \in [0 .. count -> Int] :
             /\ f[0] = 0 /\ f[count] = Total(term, count)
             /\ \A n \in 1 .. count : f[n] = f[n - 1] + term[n - 1]
<1> DEFINE step == [p \in Int \X (1 .. count) |-> p[1] + term[p[2] - 1]]
           first == 0
<1>1. step \in [Int \X (1 .. count) -> Int] /\ first \in Int
  <2>1. ASSUME NEW p \in Int \X (1 .. count)
        PROVE  step[p] \in Int
    <3>1. p[2] - 1 \in 0 .. count - 1
      OBVIOUS
    <3> QED
      BY <3>1 DEF Summands
  <2> QED
    BY <2>1
<1>2. PICK f \in [0 .. count -> Int] :
        f[0] = first /\ \A n \in 1 .. count : f[n] = step[<<f[n - 1], n>>]
  <2> HIDE DEF step, first
  <2> QED
    BY <1>1, RecursionExists
<1> DEFINE Sums(g) == g = [i \in 0 .. count |-> IF i = 0 THEN 0 ELSE g[i - 1] + term[i - 1]]
<1>3. \A n \in 1 .. count : f[n] = f[n - 1] + term[n - 1]
  <2> TAKE n \in 1 .. count
  <2>0. n - 1 \in 0 .. count
    OBVIOUS
  <2>1. f[n - 1] \in Int /\ f[n] = step[<<f[n - 1], n>>]
    BY <1>2, <2>0
  <2> QED
    BY <2>1
<1>4. Sums(f)
  <2>1. ASSUME NEW i \in 0 .. count
        PROVE  f[i] = IF i = 0 THEN 0 ELSE f[i - 1] + term[i - 1]
    <3>1. i = 0 \/ i \in 1 .. count
      OBVIOUS
    <3> QED
      BY <1>2, <1>3, <3>1
  <2> QED
    BY <1>2, <2>1
<1> DEFINE sum == CHOOSE g : Sums(g)
<1>5. Sums(sum)
  <2> HIDE DEF Sums
  <2> QED
    BY <1>4
<1>6. Total(term, count) = sum[count]
  BY DEF Total
<1> HIDE DEF sum
<1>7. \A n \in 0 .. count : sum[n] = IF n = 0 THEN 0 ELSE sum[n - 1] + term[n - 1]
  BY <1>5, Zenon
<1>8. \A n \in 0 .. count : f[n] = sum[n]
  <2> DEFINE S == {n \in 0 .. count : f[n] = sum[n]}
  <2>1. 0 \in S
    BY <1>2, <1>7
  <2>2. ASSUME NEW n \in 0 .. count, n + 1 =< count, n \in S
        PROVE  n + 1 \in S
    <3>1. n + 1 \in 1 .. count /\ (n + 1) - 1 = n /\ n + 1 \in 0 .. count /\ n + 1 # 0
      BY <2>2
    <3> QED
      BY <1>3, <1>7, <2>2, <3>1
  <2> HIDE DEF S
  <2>3. /\ 0 \in Int /\ count \in Int
        /\ \A n \in 0 .. count : n + 1 =< count /\ n \in S => n + 1 \in S
    BY <2>2
  <2>4. \A n \in 0 .. count : n \in S
    BY <2>1, <2>3, Upward, Zenon
  <2> QED
    BY <2>4 DEF S
<1> QED
  BY <1>2, <1>3, <1>6, <1>8

(* A sum grows by one summand at a time. *)
LEMMA TotalStep ==
    ASSUME NEW count \in Nat, NEW term, Summands(term, count)
    PROVE  /\ Total(term, 0) = 0
           /\ \A n \in 0 .. count : Total(term, n) \in Int
           /\ \A n \in 0 .. count - 1 : Total(term, n + 1) = Total(term, n) + term[n]
<1>1. ASSUME NEW n \in 0 .. count
      PROVE  Summands(term, n)
  BY DEF Summands
<1>2. PICK f \in [0 .. count -> Int] :
             /\ f[0] = 0 /\ f[count] = Total(term, count)
             /\ \A n \in 1 .. count : f[n] = f[n - 1] + term[n - 1]
  BY TotalUnfold
<1>3. ASSUME NEW n \in 0 .. count
      PROVE  f[n] = Total(term, n)
  <2>1. PICK g \in [0 .. n -> Int] :
             /\ g[0] = 0 /\ g[n] = Total(term, n)
             /\ \A i \in 1 .. n : g[i] = g[i - 1] + term[i - 1]
    <3>1. n \in Nat /\ Summands(term, n)
      BY <1>1
    <3> QED
      BY <3>1, TotalUnfold
  <2> DEFINE S == {i \in 0 .. n : f[i] = g[i]}
  <2>2. 0 \in S
    BY <1>2, <2>1
  <2>3. ASSUME NEW i \in 0 .. n, i + 1 =< n, i \in S
        PROVE  i + 1 \in S
    <3>1. i + 1 \in 1 .. n /\ i + 1 \in 1 .. count /\ (i + 1) - 1 = i /\ i + 1 \in 0 .. n
      BY <2>3
    <3> QED
      BY <1>2, <2>1, <2>3, <3>1
  <2> HIDE DEF S
  <2>4. /\ 0 \in Int /\ n \in Int
        /\ \A i \in 0 .. n : i + 1 =< n /\ i \in S => i + 1 \in S
    BY <2>3
  <2>5. \A i \in 0 .. n : i \in S
    BY <2>2, <2>4, Upward, Zenon
  <2>6. n \in S
    BY <2>5
  <2> QED
    BY <2>1, <2>6 DEF S
<1>4. Total(term, 0) = 0
  BY <1>2, <1>3
<1>5. \A n \in 0 .. count : Total(term, n) \in Int
  BY <1>3
<1>6. ASSUME NEW n \in 0 .. count - 1
      PROVE  Total(term, n + 1) = Total(term, n) + term[n]
  <2>1. n + 1 \in 1 .. count /\ n \in 0 .. count /\ n + 1 \in 0 .. count /\ (n + 1) - 1 = n
    OBVIOUS
  <2> QED
    BY <1>2, <1>3, <2>1
<1> QED
  BY <1>4, <1>5, <1>6

-----------------------------------------------------------------------------
(* Sums of congruent summands are congruent. *)
LEMMA TotalCong ==
    ASSUME NEW q \in Int, NEW count \in Nat, NEW f, NEW g,
           Summands(f, count), Summands(g, count),
           \A i \in 0 .. count - 1 : Cong(f[i], g[i], q)
    PROVE  Cong(Total(f, count), Total(g, count), q)
<1> DEFINE S == {n \in 0 .. count : Cong(Total(f, n), Total(g, n), q)}
<1>1. 0 \in S
  BY TotalStep, CongRules
<1>2. ASSUME NEW n \in 0 .. count, n + 1 =< count, n \in S
      PROVE  n + 1 \in S
  <2>1. n \in 0 .. count - 1 /\ n + 1 \in 0 .. count
    BY <1>2
  <2>2. /\ Total(f, n + 1) = Total(f, n) + f[n] /\ Total(g, n + 1) = Total(g, n) + g[n]
        /\ Total(f, n) \in Int /\ Total(g, n) \in Int
    BY <2>1, TotalStep
  <2>3. f[n] \in Int /\ g[n] \in Int /\ Cong(f[n], g[n], q)
    BY <2>1 DEF Summands
  <2>4. Cong(Total(f, n), Total(g, n), q)
    BY <1>2
  <2>5. Cong(Total(f, n) + f[n], Total(g, n) + g[n], q)
    BY <2>2, <2>3, <2>4, CongSum
  <2> QED
    BY <2>1, <2>2, <2>5
<1> HIDE DEF S
<1>3. /\ 0 \in Int /\ count \in Int
      /\ \A n \in 0 .. count : n + 1 =< count /\ n \in S => n + 1 \in S
  BY <1>2
<1>4. \A n \in 0 .. count : n \in S
  BY <1>1, <1>3, Upward, Zenon
<1>5. count \in S
  BY <1>4
<1> QED
  BY <1>5 DEF S

(* Sums of the same summands are the same. *)
LEMMA TotalSame ==
    ASSUME NEW count \in Nat, NEW f, NEW g, Summands(f, count),
           \A i \in 0 .. count - 1 : f[i] = g[i]
    PROVE  Summands(g, count) /\ Total(f, count) = Total(g, count)
<1>1. Summands(g, count)
  BY DEF Summands
<1>2. ASSUME NEW i \in 0 .. count - 1
      PROVE  Cong(f[i], g[i], 0)
  BY CongRules DEF Summands
<1>3. Cong(Total(f, count), Total(g, count), 0)
  BY <1>1, <1>2, TotalCong
<1>4. PICK w \in Int : Total(f, count) = Total(g, count) + 0 * w
  BY <1>3 DEF Cong
<1>5. Total(g, count) \in Int
  BY <1>1, TotalStep
<1> QED
  BY <1>1, <1>4, <1>5

(* A common factor can be taken out of a sum. *)
LEMMA TotalScale ==
    ASSUME NEW c \in Int, NEW count \in Nat, NEW f, NEW g,
           Summands(f, count), \A i \in 0 .. count - 1 : g[i] = c * f[i]
    PROVE  Summands(g, count) /\ Total(g, count) = c * Total(f, count)
<1>0. Summands(g, count)
  BY DEF Summands
<1> DEFINE S == {n \in 0 .. count : Total(g, n) = c * Total(f, n)}
<1>1. 0 \in S
  BY <1>0, TotalStep
<1>2. ASSUME NEW n \in 0 .. count, n + 1 =< count, n \in S
      PROVE  n + 1 \in S
  <2>1. n \in 0 .. count - 1 /\ n + 1 \in 0 .. count
    BY <1>2
  <2>2. /\ Total(f, n + 1) = Total(f, n) + f[n] /\ Total(g, n + 1) = Total(g, n) + g[n]
        /\ Total(f, n) \in Int /\ Total(g, n) \in Int
    BY <1>0, <2>1, TotalStep
  <2>3. f[n] \in Int /\ g[n] = c * f[n]
    BY <2>1 DEF Summands
  <2>4. Total(g, n) = c * Total(f, n)
    BY <1>2
  <2>5. c * (Total(f, n) + f[n]) = c * Total(f, n) + c * f[n]
    BY <2>2, <2>3
  <2> QED
    BY <2>1, <2>2, <2>3, <2>4, <2>5
<1> HIDE DEF S
<1>3. /\ 0 \in Int /\ count \in Int
      /\ \A n \in 0 .. count : n + 1 =< count /\ n \in S => n + 1 \in S
  BY <1>2
<1>4. \A n \in 0 .. count : n \in S
  BY <1>1, <1>3, Upward, Zenon
<1>5. count \in S
  BY <1>4
<1> QED
  BY <1>0, <1>5 DEF S

(* The sum of sums is the sum of the added summands. *)
LEMMA TotalAdd ==
    ASSUME NEW count \in Nat, NEW f, NEW g, NEW h,
           Summands(f, count), Summands(g, count),
           \A i \in 0 .. count - 1 : h[i] = f[i] + g[i]
    PROVE  /\ Summands(h, count)
           /\ Total(h, count) = Total(f, count) + Total(g, count)
<1>0. Summands(h, count)
  BY DEF Summands
<1> DEFINE S == {n \in 0 .. count : Total(h, n) = Total(f, n) + Total(g, n)}
<1>1. 0 \in S
  BY <1>0, TotalStep
<1>2. ASSUME NEW n \in 0 .. count, n + 1 =< count, n \in S
      PROVE  n + 1 \in S
  <2>1. n \in 0 .. count - 1 /\ n + 1 \in 0 .. count
    BY <1>2
  <2>2. /\ Total(f, n + 1) = Total(f, n) + f[n] /\ Total(g, n + 1) = Total(g, n) + g[n]
        /\ Total(h, n + 1) = Total(h, n) + h[n]
        /\ Total(f, n) \in Int /\ Total(g, n) \in Int
    BY <1>0, <2>1, TotalStep
  <2>3. f[n] \in Int /\ g[n] \in Int /\ h[n] = f[n] + g[n]
    BY <2>1 DEF Summands
  <2>4. Total(h, n) = Total(f, n) + Total(g, n)
    BY <1>2
  <2> QED
    BY <2>1, <2>2, <2>3, <2>4
<1> HIDE DEF S
<1>3. /\ 0 \in Int /\ count \in Int
      /\ \A n \in 0 .. count : n + 1 =< count /\ n \in S => n + 1 \in S
  BY <1>2
<1>4. \A n \in 0 .. count : n \in S
  BY <1>1, <1>3, Upward, Zenon
<1>5. count \in S
  BY <1>4
<1> QED
  BY <1>0, <1>5 DEF S

(* A sum is that of its first summands and that of the others. *)
LEMMA TotalJoin ==
    ASSUME NEW m \in Nat, NEW count \in Nat, NEW f, NEW g,
           Summands(f, m + count), \A i \in 0 .. count - 1 : g[i] = f[m + i]
    PROVE  /\ Summands(f, m) /\ Summands(g, count)
           /\ Total(f, m + count) = Total(f, m) + Total(g, count)
<1>0. Summands(f, m) /\ Summands(g, count)
  <2>1. ASSUME NEW i \in 0 .. m - 1
        PROVE  f[i] \in Int
    <3>1. i \in 0 .. (m + count) - 1
      OBVIOUS
    <3> QED
      BY <3>1 DEF Summands
  <2>2. ASSUME NEW i \in 0 .. count - 1
        PROVE  g[i] \in Int
    <3>1. m + i \in 0 .. (m + count) - 1
      OBVIOUS
    <3> QED
      BY <3>1 DEF Summands
  <2> QED
    BY <2>1, <2>2 DEF Summands
<1> DEFINE S == {n \in 0 .. count : Total(f, m + n) = Total(f, m) + Total(g, n)}
<1>a. m + count \in Nat
  OBVIOUS
<1>b. Total(f, m) \in Int /\ Total(g, 0) = 0
  BY <1>0, TotalStep
<1>1. 0 \in S
  BY <1>b
<1>2. ASSUME NEW n \in 0 .. count, n + 1 =< count, n \in S
      PROVE  n + 1 \in S
  <2>1. n \in 0 .. count - 1 /\ n + 1 \in 0 .. count /\ m + n \in 0 .. (m + count) - 1
        /\ m + (n + 1) = (m + n) + 1
    BY <1>2
  <2>2. Total(f, (m + n) + 1) = Total(f, m + n) + f[m + n]
    BY <1>a, <2>1, TotalStep
  <2>3. Total(g, n + 1) = Total(g, n) + g[n] /\ Total(g, n) \in Int
    BY <1>0, <2>1, TotalStep
  <2>4. g[n] \in Int /\ g[n] = f[m + n]
    BY <1>0, <2>1 DEF Summands
  <2>5. Total(f, m + n) = Total(f, m) + Total(g, n)
    BY <1>2
  <2>6. Total(f, (m + n) + 1) = Total(f, m) + Total(g, n + 1)
    BY <1>b, <2>2, <2>3, <2>4, <2>5
  <2>7. Total(f, m + (n + 1)) = Total(f, m) + Total(g, n + 1)
    BY <2>1, <2>6
  <2> QED
    BY <2>1, <2>7
<1> HIDE DEF S
<1>3. /\ 0 \in Int /\ count \in Int
      /\ \A n \in 0 .. count : n + 1 =< count /\ n \in S => n + 1 \in S
  BY <1>2
<1>4. \A n \in 0 .. count : n \in S
  BY <1>1, <1>3, Upward, Zenon
<1>5. count \in S
  BY <1>4
<1> QED
  BY <1>0, <1>5 DEF S

(* The sums of the rows of a matrix, and of its columns. *)
SumsOf(m, count, row, rows, column, columns) ==
    /\ \A i \in 0 .. m - 1 : Summands(row[i], count) /\ rows[i] = Total(row[i], count)
    /\ \A j \in 0 .. count - 1 : columns[j] = Total(column[j], m)
    /\ \A i \in 0 .. m - 1, j \in 0 .. count - 1 : column[j][i] = row[i][j]

(* Summing a matrix up by rows or by columns is the same. *)
LEMMA TotalSwap ==
    ASSUME NEW m \in Nat, NEW count \in Nat, NEW row, NEW rows, NEW column, NEW columns,
           SumsOf(m, count, row, rows, column, columns)
    PROVE  Total(rows, m) = Total(columns, count)
<1> USE DEF SumsOf
<1>1. \A j \in 0 .. count - 1 : Summands(column[j], m)
  BY DEF Summands
<1>2. Summands(rows, m)
  <2>1. ASSUME NEW i \in 0 .. m - 1
        PROVE  rows[i] \in Int
    <3>1. Summands(row[i], count) /\ rows[i] = Total(row[i], count) /\ count \in 0 .. count
      OBVIOUS
    <3>2. Total(row[i], count) \in Int
      BY <3>1, TotalStep
    <3> QED
      BY <3>1, <3>2
  <2> QED
    BY <2>1 DEF Summands
<1> DEFINE part(n) == [j \in 0 .. count - 1 |-> Total(column[j], n)]
           S == {n \in 0 .. m : Summands(part(n), count) /\ Total(rows, n) = Total(part(n), count)}
<1>3. 0 \in S
  <2>1. ASSUME NEW j \in 0 .. count - 1
        PROVE  part(0)[j] = 0
    <3>1. Total(column[j], 0) = 0
      BY <1>1, TotalStep
    <3> QED
      BY <3>1
  <2> DEFINE none == part(0)
  <2>2. \A j \in 0 .. count - 1 : none[j] = 0
    BY <2>1
  <2> HIDE DEF none
  <2>3. Summands(none, count)
    BY <2>2 DEF Summands
  <2> DEFINE zero == 0
  <2>4. zero \in Int /\ \A j \in 0 .. count - 1 : none[j] = zero * none[j]
    BY <2>2
  <2> HIDE DEF zero
  <2>5. Total(none, count) = zero * Total(none, count)
    BY <2>3, <2>4, TotalScale
  <2>6. Total(none, count) = 0
    BY <2>3, <2>5, TotalStep DEF zero
  <2>7. Total(rows, 0) = 0
    BY <1>2, TotalStep
  <2> QED
    BY <2>3, <2>6, <2>7 DEF none
<1>4. ASSUME NEW n \in 0 .. m, n + 1 =< m, n \in S
      PROVE  n + 1 \in S
  <2>1. n \in 0 .. m - 1 /\ n + 1 \in 0 .. m
    BY <1>4
  <2>2. Summands(part(n), count) /\ Total(rows, n) = Total(part(n), count)
    BY <1>4
  <2>3. Total(rows, n + 1) = Total(rows, n) + rows[n] /\ rows[n] = Total(row[n], count)
        /\ Summands(row[n], count)
    BY <1>2, <2>1, TotalStep
  <2> DEFINE now == part(n)
             next == part(n + 1)
  <2>4. ASSUME NEW j \in 0 .. count - 1
        PROVE  next[j] = now[j] + row[n][j]
    <3>1. Total(column[j], n + 1) = Total(column[j], n) + column[j][n]
      BY <1>1, <2>1, TotalStep
    <3>2. column[j][n] = row[n][j]
      BY <2>1
    <3> QED
      BY <3>1, <3>2
  <2>5. Summands(now, count) /\ Total(rows, n) = Total(now, count)
    BY <2>2
  <2> HIDE DEF now, next, part
  <2>6. Summands(next, count) /\ Total(next, count) = Total(now, count) + Total(row[n], count)
    BY <2>3, <2>4, <2>5, TotalAdd
  <2> QED
    BY <2>1, <2>3, <2>5, <2>6 DEF now, next
<1> HIDE DEF S
<1>5. /\ 0 \in Int /\ m \in Int
      /\ \A n \in 0 .. m : n + 1 =< m /\ n \in S => n + 1 \in S
  BY <1>4
<1>6. \A n \in 0 .. m : n \in S
  BY <1>3, <1>5, Upward, Zenon
<1>7. m \in S
  BY <1>6
<1>8. Summands(part(m), count) /\ Total(rows, m) = Total(part(m), count)
  BY <1>7 DEF S
<1>9. \A j \in 0 .. count - 1 : part(m)[j] = columns[j]
  OBVIOUS
<1> HIDE DEF part
<1>10. Total(part(m), count) = Total(columns, count)
  BY <1>8, <1>9, TotalSame
<1> QED
  BY <1>8, <1>10

-----------------------------------------------------------------------------
(* Congruent residues are equal. *)
LEMMA ResidueUnique ==
    ASSUME NEW q \in Nat \ {0, 1}, NEW a \in 0 .. q - 1, NEW b \in 0 .. q - 1, Cong(a, b, q)
    PROVE  a = b
<1>1. q \in Nat \ {0} /\ a \in Int /\ b \in Int
  OBVIOUS
<1>2. a % q = b % q
  BY <1>1, RemainderUnique
<1>3. a = (q * 0) + a /\ b = (q * 0) + b
  OBVIOUS
<1>4. ((q * 0) + a) % q = a /\ ((q * 0) + b) % q = b
  BY <1>1, DivModUnique
<1> QED
  BY <1>2, <1>3, <1>4

(* Products of congruent factors are congruent. *)
LEMMA CongProducts ==
    ASSUME NEW q \in Int, NEW a \in Int, NEW b \in Int, NEW c \in Int, NEW d \in Int,
           Cong(a, b, q), Cong(c, d, q)
    PROVE  Cong(a * c, b * d, q)
<1>1. Cong(a * c, b * c, q) /\ Cong(b * c, b * d, q)
  BY CongProduct
<1>2. a * c \in Int /\ b * c \in Int /\ b * d \in Int
  OBVIOUS
<1> QED
  BY <1>1, <1>2, CongTransitive

Solvable(count, first, step) ==
    \E f \in [0 .. count -> Int] :
      f[0] = first /\ \A n \in 1 .. count : f[n] = step[<<f[n - 1], n>>]

(* RecursionExists, with its claim as a predicate. *)
LEMMA RecursionSolvable ==
    ASSUME NEW count \in Nat, NEW first \in Int,
           NEW step \in [Int \X (1 .. count) -> Int]
    PROVE  Solvable(count, first, step)
BY RecursionExists DEF Solvable

-----------------------------------------------------------------------------
(***************************************************************************)
(* Powers of residues.                                                     *)
(***************************************************************************)
LEMMA PowerUnfold ==
    ASSUME NEW q \in Nat \ {0, 1}, NEW x \in Nat, NEW count \in Nat
    PROVE  \E f \in [0 .. count -> Nat] :
             /\ f[0] = 1 /\ f[count] = modulus_power(x, count, q)
             /\ \A n \in 1 .. count : f[n] = (f[n - 1] * x) % q
<1> DEFINE step == [p \in Int \X (1 .. count) |-> (p[1] * x) % q]
           first == 1
<1>1. step \in [Int \X (1 .. count) -> Int] /\ first \in Int
  <2>1. ASSUME NEW p \in Int \X (1 .. count)
        PROVE  step[p] \in Int
    <3>1. p[1] * x \in Int
      OBVIOUS
    <3>2. (p[1] * x) % q \in 0 .. q - 1
      BY <3>1, RemainderFacts
    <3> QED
      BY <3>2
  <2> QED
    BY <2>1
<1>2. PICK f \in [0 .. count -> Int] :
        f[0] = first /\ \A n \in 1 .. count : f[n] = step[<<f[n - 1], n>>]
  <2> HIDE DEF step, first
  <2>1. first \in Int
    BY <1>1
  <2>2. step \in [Int \X (1 .. count) -> Int]
    BY <1>1
  <2>3. Solvable(count, first, step)
    BY <2>1, <2>2, RecursionSolvable
  <2> QED
    BY <2>3 DEF Solvable
<1>3. f \in [0 .. count -> Nat]
  <2>1. ASSUME NEW n \in 0 .. count
        PROVE  f[n] \in Nat
    <3>1. CASE n = 0
      BY <1>2, <3>1
    <3>2. CASE n # 0
      <4>1. n \in 1 .. count /\ n - 1 \in 0 .. count
        BY <3>2
      <4>2. f[n - 1] \in Int /\ f[n] = step[<<f[n - 1], n>>]
        BY <1>2, <4>1
      <4>3. f[n] = (f[n - 1] * x) % q /\ f[n - 1] * x \in Int
        BY <4>1, <4>2
      <4>4. f[n] \in 0 .. q - 1
        BY <4>3, RemainderFacts
      <4> QED
        BY <4>4
    <3> QED
      BY <3>1, <3>2
  <2> QED
    BY <1>2, <2>1
<1> DEFINE Powers(g) == g = [i \in 0 .. count |-> IF i = 0 THEN 1 ELSE modulus_multiply(g[i - 1], x, q)]
<1>4. \A n \in 1 .. count : f[n] = (f[n - 1] * x) % q
  <2> TAKE n \in 1 .. count
  <2>0. n - 1 \in 0 .. count
    OBVIOUS
  <2>1. f[n - 1] \in Nat /\ f[n] = step[<<f[n - 1], n>>]
    BY <1>2, <1>3, <2>0
  <2> QED
    BY <2>1
<1>5. \A y \in Nat : modulus_multiply(y, x, q) = (y * x) % q
  <2> TAKE y \in Nat
  <2>1. ~(y * x < 0)
    OBVIOUS
  <2> QED
    BY <2>1 DEF modulus_multiply
<1>6. Powers(f)
  <2>1. ASSUME NEW i \in 0 .. count
        PROVE  f[i] = IF i = 0 THEN 1 ELSE modulus_multiply(f[i - 1], x, q)
    <3>1. CASE i = 0
      BY <1>2, <3>1
    <3>2. CASE i # 0
      <4>1. i \in 1 .. count /\ i - 1 \in 0 .. count
        BY <3>2
      <4>2. f[i - 1] \in Nat
        BY <1>3, <4>1
      <4> QED
        BY <1>4, <1>5, <3>2, <4>1, <4>2
    <3> QED
      BY <3>1, <3>2
  <2> QED
    BY <2>1
<1> DEFINE power == CHOOSE g : Powers(g)
<1>7. Powers(power)
  <2> HIDE DEF Powers
  <2> QED
    BY <1>6
<1>8. modulus_power(x, count, q) = power[count]
  BY DEF modulus_power
<1> HIDE DEF power
<1>9. \A n \in 0 .. count : power[n] = IF n = 0 THEN 1 ELSE modulus_multiply(power[n - 1], x, q)
  BY <1>7, Zenon
<1>10. \A n \in 0 .. count : f[n] = power[n]
  <2> DEFINE S == {n \in 0 .. count : f[n] = power[n]}
  <2>1. 0 \in S
    BY <1>2, <1>9
  <2>2. ASSUME NEW n \in 0 .. count, n + 1 =< count, n \in S
        PROVE  n + 1 \in S
    <3>1. n + 1 \in 1 .. count /\ (n + 1) - 1 = n /\ n + 1 \in 0 .. count /\ n + 1 # 0
      BY <2>2
    <3>2. f[n] = power[n] /\ f[n] \in Nat
      BY <1>3, <2>2
    <3>3. f[n + 1] = (f[n] * x) % q
      BY <1>4, <3>1
    <3>4. power[n + 1] = modulus_multiply(power[n], x, q)
      BY <1>9, <3>1
    <3> QED
      BY <1>5, <3>1, <3>2, <3>3, <3>4
  <2> HIDE DEF S
  <2>3. /\ 0 \in Int /\ count \in Int
        /\ \A n \in 0 .. count : n + 1 =< count /\ n \in S => n + 1 \in S
    BY <2>2
  <2>4. \A n \in 0 .. count : n \in S
    BY <2>1, <2>3, Upward, Zenon
  <2> QED
    BY <2>4 DEF S
<1>11. f[count] = modulus_power(x, count, q) /\ f[0] = 1
  BY <1>2, <1>8, <1>10
<1> QED
  BY <1>3, <1>4, <1>11

(* modulus_power multiplies by its base, and returns residues. *)
LEMMA PowerStep ==
    ASSUME NEW q \in Nat \ {0, 1}, NEW x \in Nat
    PROVE  /\ modulus_power(x, 0, q) = 1
           /\ \A n \in Nat : modulus_power(x, n, q) \in 0 .. q - 1
           /\ \A n \in Nat : modulus_power(x, n + 1, q) = (modulus_power(x, n, q) * x) % q
<1>1. modulus_power(x, 0, q) = 1
  <2> DEFINE zero == 0
  <2>0. zero \in Nat
    OBVIOUS
  <2> HIDE DEF zero
  <2>1. PICK f \in [0 .. zero -> Nat] :
             /\ f[0] = 1 /\ f[zero] = modulus_power(x, zero, q)
             /\ \A n \in 1 .. zero : f[n] = (f[n - 1] * x) % q
    BY <2>0, PowerUnfold
  <2> QED
    BY <2>1 DEF zero
<1>2. ASSUME NEW n \in Nat
      PROVE  modulus_power(x, n + 1, q) = (modulus_power(x, n, q) * x) % q
  <2>1. PICK f \in [0 .. n -> Nat] :
             /\ f[0] = 1 /\ f[n] = modulus_power(x, n, q)
             /\ \A i \in 1 .. n : f[i] = (f[i - 1] * x) % q
    BY PowerUnfold
  <2>2. PICK g \in [0 .. n + 1 -> Nat] :
             /\ g[0] = 1 /\ g[n + 1] = modulus_power(x, n + 1, q)
             /\ \A i \in 1 .. n + 1 : g[i] = (g[i - 1] * x) % q
    <3>1. n + 1 \in Nat
      OBVIOUS
    <3> QED
      BY <3>1, PowerUnfold
  <2> DEFINE S == {i \in 0 .. n : f[i] = g[i]}
  <2>3. 0 \in S
    BY <2>1, <2>2
  <2>4. ASSUME NEW i \in 0 .. n, i + 1 =< n, i \in S
        PROVE  i + 1 \in S
    <3>1. i + 1 \in 1 .. n /\ i + 1 \in 1 .. n + 1 /\ (i + 1) - 1 = i /\ i + 1 \in 0 .. n
      BY <2>4
    <3> QED
      BY <2>1, <2>2, <2>4, <3>1
  <2> HIDE DEF S
  <2>5. /\ 0 \in Int /\ n \in Int
        /\ \A i \in 0 .. n : i + 1 =< n /\ i \in S => i + 1 \in S
    BY <2>4
  <2>6. \A i \in 0 .. n : i \in S
    BY <2>3, <2>5, Upward, Zenon
  <2>7. n \in S
    BY <2>6
  <2>8. f[n] = g[n]
    BY <2>7 DEF S
  <2>9. n + 1 \in 1 .. n + 1 /\ (n + 1) - 1 = n
    OBVIOUS
  <2>10. g[n + 1] = (g[n] * x) % q
    BY <2>2, <2>9
  <2> QED
    BY <2>1, <2>2, <2>8, <2>10
<1>3. ASSUME NEW n \in Nat
      PROVE  modulus_power(x, n, q) \in 0 .. q - 1
  <2>1. PICK f \in [0 .. n -> Nat] :
             /\ f[0] = 1 /\ f[n] = modulus_power(x, n, q)
             /\ \A i \in 1 .. n : f[i] = (f[i - 1] * x) % q
    BY PowerUnfold
  <2>2. CASE n = 0
    BY <2>1, <2>2
  <2>3. CASE n # 0
    <3>1. n \in 1 .. n /\ n - 1 \in 0 .. n
      BY <2>3
    <3>2. f[n] = (f[n - 1] * x) % q /\ f[n - 1] \in Nat
      BY <2>1, <3>1
    <3>3. f[n - 1] * x \in Int
      BY <3>2
    <3> QED
      BY <2>1, <3>2, <3>3, RemainderFacts
  <2> QED
    BY <2>2, <2>3
<1> QED
  BY <1>1, <1>2, <1>3

(* Exponents add up, modulo q. *)
LEMMA PowerSum ==
    ASSUME NEW q \in Nat \ {0, 1}, NEW x \in Nat, NEW m \in Nat, NEW n \in Nat
    PROVE  Cong(modulus_power(x, m + n, q), modulus_power(x, m, q) * modulus_power(x, n, q), q)
<1> DEFINE power(i) == modulus_power(x, i, q)
           S == {i \in 0 .. n : Cong(power(m + i), power(m) * power(i), q)}
<1>0. q \in Int /\ \A i \in Nat : power(i) \in Int /\ power(i + 1) = (power(i) * x) % q
  BY PowerStep
<1>1. 0 \in S
  <2>1. power(0) = 1 /\ m + 0 = m /\ power(m) \in Int
    BY <1>0, PowerStep
  <2> HIDE DEF power
  <2>2. power(m) * 1 = power(m)
    BY <2>1
  <2> QED
    BY <1>0, <2>1, <2>2, CongRules
<1> HIDE DEF power
<1>2. ASSUME NEW i \in 0 .. n, i + 1 =< n, i \in S
      PROVE  i + 1 \in S
  <2>1. i \in Nat /\ m + i \in Nat /\ m + (i + 1) = (m + i) + 1 /\ i + 1 \in 0 .. n
    BY <1>2
  <2>2. power((m + i) + 1) = (power(m + i) * x) % q /\ power(i + 1) = (power(i) * x) % q
        /\ power(m) \in Int /\ power(i) \in Int /\ power(m + i) \in Int
        /\ power((m + i) + 1) \in Int /\ power(i + 1) \in Int
    BY <1>0, <2>1
  <2>3. Cong(power(m + i), power(m) * power(i), q)
    BY <1>2
  <2> DEFINE a == power(m)
             b == power(i)
             c == power(m + i)
             d == power((m + i) + 1)
             e == power(i + 1)
  <2>4. Cong(d, c * x, q) /\ Cong(b * x, e, q)
    <3>1. c * x \in Int /\ b * x \in Int
      BY <2>2
    <3> QED
      BY <2>2, <3>1, RemainderFacts
  <2>5. a \in Int /\ b \in Int /\ c \in Int /\ d \in Int /\ e \in Int /\ Cong(c, a * b, q)
    BY <2>2, <2>3
  <2> HIDE DEF a, b, c, d, e
  <2>0. x \in Int /\ a * b \in Int /\ b * x \in Int
    BY <2>5
  <2>6. Cong(c * x, (a * b) * x, q)
    BY <1>0, <2>0, <2>5, CongProduct
  <2>7. (a * b) * x = a * (b * x) /\ Cong(a * (b * x), a * e, q)
    <3>1. (a * b) * x = a * (b * x)
      BY <2>5
    <3> QED
      BY <1>0, <2>0, <2>4, <2>5, <3>1, CongProduct
  <2>8. c * x \in Int /\ (a * b) * x \in Int /\ a * (b * x) \in Int /\ a * e \in Int
    BY <2>5
  <2>9. Cong(c * x, a * e, q)
    BY <1>0, <2>6, <2>7, <2>8, CongTransitive
  <2>10. Cong(d, a * e, q)
    BY <1>0, <2>4, <2>5, <2>8, <2>9, CongTransitive
  <2> QED
    BY <2>1, <2>10 DEF a, d, e
<1> HIDE DEF S
<1>3. /\ 0 \in Int /\ n \in Int
      /\ \A i \in 0 .. n : i + 1 =< n /\ i \in S => i + 1 \in S
  BY <1>2
<1>4. \A i \in 0 .. n : i \in S
  BY <1>1, <1>3, Upward, Zenon
<1>5. n \in S
  BY <1>4
<1> QED
  BY <1>5 DEF S, power

(* Powers of powers. *)
LEMMA PowerPower ==
    ASSUME NEW q \in Nat \ {0, 1}, NEW x \in Nat, NEW m \in Nat, NEW n \in Nat
    PROVE  modulus_power(modulus_power(x, m, q), n, q) = modulus_power(x, m * n, q)
<1> DEFINE y == modulus_power(x, m, q)
           S == {i \in 0 .. n : modulus_power(y, i, q) = modulus_power(x, m * i, q)}
<1>0. y \in Nat /\ y \in Int /\ q \in Int
  BY PowerStep
<1>1. 0 \in S
  <2>1. modulus_power(y, 0, q) = 1 /\ modulus_power(x, 0, q) = 1 /\ m * 0 = 0
    BY <1>0, PowerStep
  <2> QED
    BY <2>1
<1>2. ASSUME NEW i \in 0 .. n, i + 1 =< n, i \in S
      PROVE  i + 1 \in S
  <2>1. i \in Nat /\ i + 1 \in 0 .. n /\ m * i \in Nat /\ m * (i + 1) = m * i + m
        /\ m * (i + 1) \in Nat /\ i + 1 \in Nat
    BY <1>2
  <2> DEFINE a == modulus_power(y, i, q)
             b == modulus_power(y, i + 1, q)
             c == modulus_power(x, m * i, q)
             d == modulus_power(x, m * i + m, q)
  <2>2. a = c
    BY <1>2
  <2>3. /\ a \in 0 .. q - 1 /\ b \in 0 .. q - 1 /\ c \in 0 .. q - 1 /\ d \in 0 .. q - 1
        /\ b = (a * y) % q
    <3>1. m * i + m \in Nat
      OBVIOUS
    <3> QED
      BY <1>0, <2>1, <3>1, PowerStep
  <2>4. Cong(d, c * y, q)
    BY <2>1, PowerSum
  <2> HIDE DEF a, b, c, d, y
  <2>5. a * y \in Int /\ c * y \in Int /\ b \in Int /\ d \in Int
    BY <1>0, <2>3
  <2>6. Cong(a * y, b, q) /\ Cong(b, a * y, q)
    BY <2>3, <2>5, RemainderFacts
  <2>7. Cong(c * y, d, q)
    BY <1>0, <2>4, <2>5, CongRules
  <2>8. Cong(b, d, q)
    BY <1>0, <2>2, <2>5, <2>6, <2>7, CongTransitive
  <2>9. b = d
    BY <2>3, <2>8, ResidueUnique
  <2> QED
    BY <2>1, <2>9 DEF b, d
<1> HIDE DEF S
<1>3. /\ 0 \in Int /\ n \in Int
      /\ \A i \in 0 .. n : i + 1 =< n /\ i \in S => i + 1 \in S
  BY <1>2
<1>4. \A i \in 0 .. n : i \in S
  BY <1>1, <1>3, Upward, Zenon
<1>5. n \in S
  BY <1>4
<1> QED
  BY <1>5 DEF S

-----------------------------------------------------------------------------
(* The number of coefficients. *)
LEMMA CoeffCount ==
    N \in Nat \ {0} /\ \A s \in 0 .. LogN : 2 ^ s \in Nat \ {0} /\ 2 ^ (LogN - s) \in Nat \ {0}
                          /\ 2 ^ s * 2 ^ (LogN - s) = N
<1>1. N \in Nat \ {0}
  BY TwoPower, LogNAssumption DEF N
<1>2. ASSUME NEW s \in 0 .. LogN
      PROVE  2 ^ s \in Nat \ {0} /\ 2 ^ (LogN - s) \in Nat \ {0}
                          /\ 2 ^ s * 2 ^ (LogN - s) = N
  <2>1. s \in Nat /\ LogN - s \in Nat /\ s + (LogN - s) = LogN
    BY LogNAssumption
  <2>2. 2 ^ (s + (LogN - s)) = 2 ^ s * 2 ^ (LogN - s)
    BY <2>1, TwoPowerSum
  <2> QED
    BY <2>1, <2>2, TwoPower DEF N
<1> QED
  BY <1>1, <1>2

-----------------------------------------------------------------------------
(***************************************************************************)
(* What the assumption about a modulus gives.                              *)
(***************************************************************************)
LEMMA ResidueCoprime ==
    ASSUME NEW q, Suitable(q), NEW z \in 1 .. q - 1
    PROVE  Coprime(z, q)
<1>0. q \in Nat \ {0} /\ q \in Nat \ {0, 1}
  BY DEF Suitable
<1>1. PICK y \in 1 .. q - 1 : (z * y) % q = 1
  BY DEF Suitable
<1>2. z * y \in Int /\ y \in Int
  OBVIOUS
<1>3. z * y = (q * ((z * y) \div q)) + 1 /\ (z * y) \div q \in Int
  BY <1>0, <1>1, <1>2, DivMod
<1>4. z * y = 1 + q * ((z * y) \div q)
  BY <1>0, <1>3
<1> QED
  BY <1>2, <1>3, <1>4 DEF Coprime

(* R and the number of coefficients have inverses, and k is what the kernels need. *)
LEMMA SuitableModulus ==
    ASSUME NEW q, Suitable(q)
    PROVE  /\ q \in Nat \ {0, 1} /\ q \in Nat \ {0} /\ q \in Int
           /\ R \in Nat \ {0} /\ R \in Int
           /\ Coprime(R, q) /\ Coprime(N, q) /\ N \in 1 .. q - 1
           /\ Valid(q, calculate_k(q)) /\ calculate_k(q) \in Nat
<1>1. q \in Nat \ {0, 1} /\ q \in Nat \ {0} /\ q \in Int /\ R \in Nat \ {0} /\ R \in Int
  BY RAssumption DEF Suitable
<1>2. R % q \in 1 .. q - 1 /\ Cong(R % q, R, q) /\ Cong(R, R % q, q)
  <2>1. R % q \in 0 .. q - 1 /\ Cong(R % q, R, q) /\ Cong(R, R % q, q)
    BY <1>1, RemainderFacts
  <2> QED
    BY <2>1 DEF Suitable
<1>3. PICK y \in 1 .. q - 1 : ((R % q) * y) % q = 1
  BY <1>2 DEF Suitable
<1>4. (R * y) % q = 1
  <2> DEFINE a == R % q
  <2>1. a \in Int /\ y \in Int /\ a * y \in Int /\ R * y \in Int
    BY <1>1, <1>2
  <2>2. Cong(R * y, a * y, q)
    <3>1. Cong(R, a, q)
      BY <1>2
    <3> HIDE DEF a
    <3> QED
      BY <1>1, <2>1, <3>1, CongProduct
  <2>3. (R * y) % q = (a * y) % q
    BY <1>1, <2>1, <2>2, RemainderUnique
  <2> QED
    BY <1>3, <2>3
<1>5. Coprime(R, q)
  <2>1. R * y \in Int /\ y \in Int
    BY <1>1
  <2>2. R * y = (q * ((R * y) \div q)) + 1 /\ (R * y) \div q \in Int
    BY <1>1, <1>4, <2>1, DivMod
  <2>3. R * y = 1 + q * ((R * y) \div q)
    BY <1>1, <2>2
  <2> QED
    BY <2>1, <2>2, <2>3 DEF Coprime
<1>6. Valid(q, calculate_k(q)) /\ calculate_k(q) \in Nat
  <2>1. y \in 0 .. q - 1
    OBVIOUS
  <2>2. Invertible(q)
    BY <1>1, <1>4, <2>1 DEF Invertible, Suitable
  <2> QED
    BY <2>2, CalculatedValid DEF Valid
<1>7. N \in 1 .. q - 1
  <2>1. N \in Nat \ {0} /\ 2 * N \in Nat \ {0}
    BY CoeffCount
  <2>2. q = ((2 * N) * (q \div (2 * N))) + 1 /\ q \div (2 * N) \in Int
    <3>1. q % (2 * N) = 1
      BY DEF Suitable
    <3> QED
      BY <1>1, <2>1, <3>1, DivMod
  <2> DEFINE w == q \div (2 * N)
  <2>3. w \in Int /\ q = (2 * N) * w + 1
    BY <2>2
  <2> HIDE DEF w
  <2>4. w >= 1
    <3>1. SUFFICES ASSUME w =< 0
                   PROVE  FALSE
      BY <2>3
    <3>2. (2 * N) * w =< 0
      BY <2>1, <2>3, <3>1
    <3> QED
      BY <1>1, <2>1, <2>3, <3>2
  <2>5. (2 * N) * w >= 2 * N
    BY <2>1, <2>3, <2>4
  <2> QED
    BY <1>1, <2>1, <2>3, <2>5
<1>8. Coprime(N, q)
  BY <1>7, ResidueCoprime
<1> QED
  BY <1>1, <1>5, <1>6, <1>7, <1>8

-----------------------------------------------------------------------------
(* What the CHOOSE of find_root finds. *)
LEMMA CandidateFound ==
    ASSUME NEW q, Suitable(q)
    PROVE  \E x \in 2 .. q - 1 :
             /\ find_root(q) = modulus_power(x, (q - 1) \div (2 * N), q)
             /\ modulus_power(find_root(q), N, q) # 1
<1> DEFINE candidate(x) == modulus_power(x, (q - 1) \div (2 * N), q)
           good(x) == modulus_power(candidate(x), N, q) # 1
           S == {x \in 2 .. q - 1 : good(x)}
<1>0. q \in Nat \ {0, 1} /\ N \in Nat \ {0}
  BY SuitableModulus, CoeffCount
<1>1. (q - 1) \div (2 * N) \in Nat /\ ((q - 1) \div (2 * N)) * N = (q - 1) \div 2
  <2>1. q \in Int /\ q % (2 * N) = 1 /\ 2 * N \in Nat \ {0}
    BY <1>0 DEF Suitable
  <2>2. q = ((2 * N) * (q \div (2 * N))) + 1 /\ q \div (2 * N) \in Int
    BY <2>1, DivMod
  <2> DEFINE w == q \div (2 * N)
  <2>3. w \in Int /\ q - 1 = (2 * N) * w
    BY <2>1, <2>2
  <2> HIDE DEF w
  <2>4. w \in Nat
    <3>1. SUFFICES ASSUME w =< -1
                   PROVE  FALSE
      BY <2>3
    <3>2. (2 * N) * w < 0
      BY <1>0, <2>3, <3>1
    <3> QED
      BY <1>0, <2>3, <3>2
  <2>5. (q - 1) \div (2 * N) = w
    <3>1. (((2 * N) * w) + 0) \div (2 * N) = w
      <4>1. 0 \in 0 .. (2 * N) - 1
        BY <1>0
      <4> QED
        BY <2>1, <2>3, <4>1, DivModUnique
    <3>2. q - 1 = ((2 * N) * w) + 0
      BY <2>3, <1>0
    <3> QED
      BY <3>1, <3>2
  <2>6. (q - 1) \div 2 = w * N
    <3>1. w * N \in Int /\ q - 1 = (2 * (w * N)) + 0
      BY <1>0, <2>3
    <3>2. ((2 * (w * N)) + 0) \div 2 = w * N
      <4>1. 2 \in Nat \ {0} /\ 0 \in 0 .. 2 - 1
        OBVIOUS
      <4> QED
        BY <3>1, <4>1, DivModUnique
    <3> QED
      BY <3>1, <3>2
  <2> QED
    BY <2>4, <2>5, <2>6
<1>2. S # {}
  <2>1. PICK z \in 2 .. q - 1 : modulus_power(z, (q - 1) \div 2, q) # 1
    BY DEF Suitable
  <2>2. modulus_power(candidate(z), N, q) = modulus_power(z, ((q - 1) \div (2 * N)) * N, q)
    <3> DEFINE e == (q - 1) \div (2 * N)
    <3>1. z \in Nat /\ N \in Nat /\ e \in Nat
      BY <1>0, <1>1
    <3> HIDE DEF e
    <3>2. modulus_power(modulus_power(z, e, q), N, q) = modulus_power(z, e * N, q)
      BY <1>0, <3>1, PowerPower
    <3> QED
      BY <3>2 DEF e
  <2>3. good(z)
    BY <1>1, <2>1, <2>2
  <2> HIDE DEF good
  <2> QED
    BY <2>3
<1>3. PICK m \in S : \A k \in S : m =< k
  <2>1. S \in SUBSET Nat
    OBVIOUS
  <2> HIDE DEF S
  <2> QED
    BY <1>2, <2>1, LeastOfNaturals
<1> DEFINE Least(x) == x \in 2 .. q - 1 /\ good(x) /\ \A z \in 2 .. x - 1 : ~good(z)
           chosen == CHOOSE x \in 2 .. q - 1 : good(x) /\ \A z \in 2 .. x - 1 : ~good(z)
<1>4. m \in 2 .. q - 1 /\ good(m) /\ \A z \in 2 .. m - 1 : ~good(z)
  <2>1. m \in 2 .. q - 1 /\ good(m)
    BY <1>3
  <2>2. ASSUME NEW z \in 2 .. m - 1, good(z)
        PROVE  FALSE
    <3>1. z \in 2 .. q - 1 /\ ~(m =< z)
      BY <1>0, <2>1
    <3> QED
      BY <1>3, <2>2, <3>1
  <2> QED
    BY <2>1, <2>2
<1>5. find_root(q) = candidate(chosen)
  BY DEF find_root
<1> HIDE DEF good
<1>6. chosen \in 2 .. q - 1 /\ good(chosen)
  BY <1>4
<1> HIDE DEF chosen
<1> QED
  BY <1>5, <1>6 DEF good

(***************************************************************************)
(* find_root: its N-th power is -1.                                        *)
(***************************************************************************)
LEMMA RootFound ==
    ASSUME NEW q, Suitable(q)
    PROVE  LET g == find_root(q)
           IN  /\ g \in Nat /\ g \in 0 .. q - 1
               /\ Cong(modulus_power(g, N, q), -1, q)
               /\ modulus_power(g, 2 * N, q) = 1
               /\ Coprime(g, q)
<1> DEFINE g == find_root(q)
           e == (q - 1) \div (2 * N)
           h == modulus_power(g, N, q)
<1>0. q \in Nat \ {0, 1} /\ q \in Int /\ N \in Nat \ {0} /\ N \in Nat /\ 2 * N \in Nat \ {0} /\ 2 * N \in Nat
  BY SuitableModulus, CoeffCount
<1>1. PICK x \in 2 .. q - 1 : g = modulus_power(x, e, q) /\ h # 1
  BY CandidateFound
<1>2. e \in Nat /\ e * (2 * N) = q - 1
  <2>1. q \in Int /\ q % (2 * N) = 1
    BY <1>0 DEF Suitable
  <2>2. q = ((2 * N) * (q \div (2 * N))) + 1 /\ q \div (2 * N) \in Int
    BY <1>0, <2>1, DivMod
  <2> DEFINE w == q \div (2 * N)
  <2>3. w \in Int /\ q - 1 = (2 * N) * w
    BY <1>0, <2>1, <2>2
  <2> HIDE DEF w
  <2>4. w \in Nat
    <3>1. SUFFICES ASSUME w =< -1
                   PROVE  FALSE
      BY <2>3
    <3>2. (2 * N) * w < 0
      BY <1>0, <2>3, <3>1
    <3> QED
      BY <1>0, <2>3, <3>2
  <2>5. (q - 1) \div (2 * N) = w
    <3>1. (((2 * N) * w) + 0) \div (2 * N) = w
      <4>1. 0 \in 0 .. (2 * N) - 1
        BY <1>0
      <4> QED
        BY <1>0, <2>3, <4>1, DivModUnique
    <3>2. q - 1 = ((2 * N) * w) + 0
      BY <2>3, <1>0
    <3> QED
      BY <3>1, <3>2
  <2>6. w * (2 * N) = (2 * N) * w
    BY <1>0, <2>3
  <2> QED
    BY <2>3, <2>4, <2>5, <2>6
<1>3. x \in Nat /\ x \in 1 .. q - 1
  OBVIOUS
<1> HIDE DEF e
<1>4. g \in 0 .. q - 1 /\ g \in Nat
  <2>1. g \in 0 .. q - 1
    BY <1>0, <1>1, <1>2, <1>3, PowerStep
  <2> QED
    BY <2>1
<1>5. modulus_power(g, 2 * N, q) = 1
  <2>1. modulus_power(modulus_power(x, e, q), 2 * N, q) = modulus_power(x, e * (2 * N), q)
    BY <1>0, <1>2, <1>3, PowerPower
  <2>2. modulus_power(x, q - 1, q) = 1
    BY <1>3 DEF Suitable
  <2> QED
    BY <1>1, <1>2, <2>1, <2>2
<1> HIDE DEF g
<1>6. h \in 0 .. q - 1 /\ h \in Int
  <2>1. h \in 0 .. q - 1
    BY <1>0, <1>4, PowerStep
  <2> QED
    BY <2>1
<1>7. Cong(1, h * h, q)
  <2>1. Cong(modulus_power(g, N + N, q), modulus_power(g, N, q) * modulus_power(g, N, q), q)
    BY <1>0, <1>4, PowerSum
  <2>2. N + N = 2 * N
    BY <1>0
  <2> QED
    BY <1>5, <2>1, <2>2
<1> HIDE DEF h
<1>8. h # 0
  <2>1. SUFFICES ASSUME h = 0
                 PROVE  FALSE
    OBVIOUS
  <2>2. h * h = 0
    BY <2>1
  <2>3. Cong(1, 0, q) /\ 1 \in 0 .. q - 1 /\ 0 \in 0 .. q - 1
    BY <1>0, <1>7, <2>2
  <2>4. 1 = 0
    BY <1>0, <2>3, ResidueUnique
  <2> QED
    BY <2>4
<1>9. Coprime(h - 1, q)
  <2>1. h - 1 \in 1 .. q - 1
    BY <1>0, <1>1, <1>6, <1>8
  <2> QED
    BY <2>1, ResidueCoprime
<1>10. Cong(h, -1, q)
  <2>1. PICK w \in Int : 1 = h * h + q * w
    BY <1>7 DEF Cong
  <2> DEFINE a == h - 1
             b == h + 1
  <2>2. a * b = h * h - 1
    BY <1>6
  <2>3. q * (- w) = - (q * w) /\ - w \in Int /\ q * w \in Int /\ h * h \in Int
    BY <1>0, <1>6
  <2>4. a * b = a * 0 + q * (- w)
    BY <1>6, <2>1, <2>2, <2>3
  <2>5. a \in Int /\ b \in Int /\ 0 \in Int /\ Coprime(a, q) /\ Cong(a * b, a * 0, q)
    BY <1>6, <1>9, <2>3, <2>4 DEF Cong
  <2>6. b = h + 1
    OBVIOUS
  <2> HIDE DEF a, b
  <2>7. Cong(b, 0, q)
    BY <1>0, <2>5, CoprimeCancel
  <2>8. PICK v \in Int : b = 0 + q * v
    BY <2>7 DEF Cong
  <2>9. h = -1 + q * v
    BY <1>0, <1>6, <2>6, <2>8
  <2> QED
    BY <2>9 DEF Cong
<1>11. Coprime(g, q)
  <2> DEFINE m == 2 * N - 1
             y == modulus_power(g, m, q)
  <2>1. m \in Nat /\ m + 1 = 2 * N
    BY <1>0
  <2> HIDE DEF m
  <2>2. y \in 0 .. q - 1 /\ modulus_power(g, 2 * N, q) = (y * g) % q
    BY <1>0, <1>4, <2>1, PowerStep
  <2>3. y \in Int /\ y * g \in Int /\ (y * g) % q = 1 /\ g * y = y * g
    BY <1>4, <1>5, <2>2
  <2>4. q \in Nat \ {0}
    BY <1>0
  <2>5. y * g = (q * ((y * g) \div q)) + 1 /\ (y * g) \div q \in Int
    BY <2>3, <2>4, DivMod
  <2>6. g * y = 1 + q * ((y * g) \div q)
    BY <1>0, <2>3, <2>5
  <2> QED
    BY <2>3, <2>5, <2>6 DEF Coprime
<1> QED
  BY <1>4, <1>5, <1>10, <1>11 DEF h, g

-----------------------------------------------------------------------------
(* Sums of natural numbers are natural. *)
LEMMA TotalNatural ==
    ASSUME NEW count \in Nat, NEW term, \A i \in 0 .. count - 1 : term[i] \in Nat
    PROVE  Summands(term, count) /\ Total(term, count) \in Nat
<1>0. Summands(term, count)
  BY DEF Summands
<1> DEFINE S == {n \in 0 .. count : Total(term, n) \in Nat}
<1>1. 0 \in S
  BY <1>0, TotalStep
<1>2. ASSUME NEW n \in 0 .. count, n + 1 =< count, n \in S
      PROVE  n + 1 \in S
  <2>1. n \in 0 .. count - 1 /\ n + 1 \in 0 .. count
    BY <1>2
  <2>2. Total(term, n + 1) = Total(term, n) + term[n]
    BY <1>0, <2>1, TotalStep
  <2>3. term[n] \in Nat
    BY <2>1
  <2> QED
    BY <1>2, <2>1, <2>2, <2>3
<1> HIDE DEF S
<1>3. /\ 0 \in Int /\ count \in Int
      /\ \A n \in 0 .. count : n + 1 =< count /\ n \in S => n + 1 \in S
  BY <1>2
<1>4. \A n \in 0 .. count : n \in S
  BY <1>1, <1>3, Upward, Zenon
<1>5. count \in S
  BY <1>4
<1> QED
  BY <1>0, <1>5 DEF S

-----------------------------------------------------------------------------
(***************************************************************************)
(* reverse_integer_bits, of numbers with LogN bits.                        *)
(***************************************************************************)
ReversedBit(i, b) == ((i \div 2 ^ b) % 2) * 2 ^ (LogN - 1 - b)

(* Bit b of i, and where it goes. *)
LEMMA BitFacts ==
    ASSUME NEW i \in Nat, NEW b \in 0 .. LogN - 1
    PROVE  /\ 2 ^ b \in Nat \ {0} /\ 2 ^ (LogN - 1 - b) \in Nat \ {0}
           /\ i \div 2 ^ b \in Int /\ (i \div 2 ^ b) % 2 \in 0 .. 1
           /\ ReversedBit(i, b) \in Nat
<1>1. b \in Nat /\ LogN - 1 - b \in Nat
  BY LogNAssumption
<1>2. 2 ^ b \in Nat \ {0} /\ 2 ^ (LogN - 1 - b) \in Nat \ {0}
  BY <1>1, TwoPower
<1>3. i \div 2 ^ b \in Int
  BY <1>2, DivMod
<1>4. (i \div 2 ^ b) % 2 \in 0 .. 1
  <2> DEFINE d == i \div 2 ^ b
  <2>1. d \in Int /\ 2 \in Nat \ {0}
    BY <1>3
  <2> HIDE DEF d
  <2>2. d % 2 \in 0 .. 2 - 1
    BY <2>1, DivMod
  <2> QED
    BY <2>2 DEF d
<1> DEFINE x == (i \div 2 ^ b) % 2
           p == 2 ^ (LogN - 1 - b)
<1>5. x \in Nat /\ p \in Nat
  BY <1>2, <1>4
<1>6. ReversedBit(i, b) = x * p
  BY DEF ReversedBit
<1> HIDE DEF x, p
<1>7. x * p \in Nat
  BY <1>5
<1> QED
  BY <1>2, <1>3, <1>4, <1>6, <1>7 DEF x

(* Reversing is summing up the moved bits. *)
LEMMA ReverseTotal ==
    ASSUME NEW i \in Nat
    PROVE  LET f == [b \in 0 .. LogN - 1 |-> ReversedBit(i, b)]
           IN  /\ reverse_integer_bits(i, LogN) = Total(f, LogN)
               /\ Summands(f, LogN) /\ \A b \in 0 .. LogN - 1 : f[b] = ReversedBit(i, b)
               /\ reverse_integer_bits(i, LogN) \in Nat
<1> DEFINE f == [b \in 0 .. LogN - 1 |-> ReversedBit(i, b)]
<1>1. reverse_integer_bits(i, LogN) = Total(f, LogN)
  BY DEF reverse_integer_bits, ReversedBit
<1>2. \A b \in 0 .. LogN - 1 : f[b] = ReversedBit(i, b) /\ f[b] \in Nat
  BY BitFacts
<1> HIDE DEF f
<1>3. Summands(f, LogN) /\ Total(f, LogN) \in Nat
  BY <1>2, LogNAssumption, TotalNatural
<1> QED
  BY <1>1, <1>2, <1>3 DEF f

(* Reversed numbers are natural. *)
LEMMA ReverseNatural == \A i \in Nat : reverse_integer_bits(i, LogN) \in Nat
<1> TAKE i \in Nat
<1> QED
  BY ReverseTotal

(* Zero has no bits. *)
LEMMA ReverseZero == reverse_integer_bits(0, LogN) = 0
<1> DEFINE f == [b \in 0 .. LogN - 1 |-> ReversedBit(0, b)]
<1>1. /\ reverse_integer_bits(0, LogN) = Total(f, LogN)
      /\ Summands(f, LogN) /\ \A b \in 0 .. LogN - 1 : f[b] = ReversedBit(0, b)
  BY ReverseTotal
<1>2. ASSUME NEW b \in 0 .. LogN - 1
      PROVE  f[b] = 0
  <2>1. 2 ^ b \in Nat \ {0} /\ 2 ^ (LogN - 1 - b) \in Nat
    BY BitFacts
  <2> DEFINE p == 2 ^ b
             r == 2 ^ (LogN - 1 - b)
  <2>2. ((p * 0) + 0) \div p = 0 /\ ((2 * 0) + 0) % 2 = 0
    <3>1. 0 \in 0 .. p - 1 /\ 0 \in 0 .. 2 - 1 /\ 2 \in Nat \ {0} /\ p \in Nat \ {0}
      BY <2>1
    <3> HIDE DEF p
    <3> QED
      BY <3>1, DivModUnique
  <2>3. 0 \div p = 0 /\ 0 % 2 = 0
    BY <2>1, <2>2
  <2>4. ReversedBit(0, b) = 0 * r
    BY <2>3 DEF ReversedBit
  <2> QED
    BY <1>1, <2>1, <2>4
<1> HIDE DEF f
<1> DEFINE zero == 0
<1>3. zero \in Int /\ \A b \in 0 .. LogN - 1 : f[b] = zero * f[b]
  BY <1>1, <1>2
<1> HIDE DEF zero
<1>4. Total(f, LogN) = zero * Total(f, LogN)
  BY <1>1, <1>3, LogNAssumption, TotalScale
<1>5. Total(f, LogN) \in Int
  <2>1. LogN \in Nat /\ LogN \in 0 .. LogN /\ Summands(f, LogN)
    BY <1>1, LogNAssumption
  <2> QED
    BY <2>1, TotalStep
<1> QED
  BY <1>1, <1>4, <1>5 DEF zero

(* The lowest bit does not matter to the others. *)
LEMMA HalfDivision ==
    ASSUME NEW x \in Nat, NEW e \in 0 .. 1, NEW p \in Nat \ {0}
    PROVE  (2 * x + e) \div (2 * p) = x \div p
<1>1. x = (p * (x \div p)) + (x % p) /\ x \div p \in Int /\ x % p \in 0 .. p - 1
  BY DivMod
<1> DEFINE w == x \div p
           r == x % p
<1>2. x = p * w + r /\ w \in Int /\ r \in 0 .. p - 1
  BY <1>1
<1> HIDE DEF w, r
<1>3. 2 * x + e = ((2 * p) * w) + (2 * r + e)
  BY <1>2
<1>4. 2 * r + e \in 0 .. (2 * p) - 1 /\ 2 * p \in Nat \ {0}
  BY <1>2
<1>5. (((2 * p) * w) + (2 * r + e)) \div (2 * p) = w
  BY <1>2, <1>4, DivModUnique
<1> QED
  BY <1>3, <1>5 DEF w

(* Appending a lowest bit puts it on top of the reversed ones. *)
LEMMA ReverseDouble ==
    ASSUME LogN # 0, NEW x \in 0 .. 2 ^ (LogN - 1) - 1, NEW e \in 0 .. 1
    PROVE  2 * reverse_integer_bits(2 * x + e, LogN) = reverse_integer_bits(x, LogN) + e * N
<1> DEFINE H == 2 ^ (LogN - 1)
           f == [b \in 0 .. LogN - 1 |-> ReversedBit(2 * x + e, b)]
           g == [b \in 0 .. LogN - 1 |-> ReversedBit(x, b)]
           M == LogN - 1
           tail == [b \in 0 .. M - 1 |-> f[1 + b]]
<1>1. M \in Nat /\ LogN = M + 1 /\ LogN \in Nat /\ 1 + M = LogN
  BY LogNAssumption
<1>2. x \in Nat /\ 2 * x + e \in Nat /\ H \in Nat \ {0} /\ N = 2 * H
  <2>1. H \in Nat \ {0} /\ 2 ^ (M + 1) = 2 * H
    BY <1>1, TwoPower
  <2> QED
    BY <1>1, <2>1 DEF N
<1>3. /\ reverse_integer_bits(2 * x + e, LogN) = Total(f, LogN)
      /\ Summands(f, LogN) /\ \A b \in 0 .. LogN - 1 : f[b] = ReversedBit(2 * x + e, b)
  BY <1>2, ReverseTotal
<1>4. /\ reverse_integer_bits(x, LogN) = Total(g, LogN)
      /\ Summands(g, LogN) /\ \A b \in 0 .. LogN - 1 : g[b] = ReversedBit(x, b)
  BY <1>2, ReverseTotal
<1>5. \A b \in 0 .. M - 1 : tail[b] = f[1 + b]
  OBVIOUS
<1>6. f[0] = e * H
  <2>1. 0 \in 0 .. LogN - 1 /\ 2 ^ 0 = 1 /\ LogN - 1 - 0 = LogN - 1
    BY <1>1, TwoPower
  <2> DEFINE a == 2 * x + e
             one == 1
             two == 2
  <2>2. a \div 1 = a
    <3>1. a = (one * a) + 0 /\ 0 \in 0 .. one - 1 /\ a \in Int /\ one \in Nat \ {0}
      BY <1>2
    <3> HIDE DEF a, one
    <3>2. ((one * a) + 0) \div one = a
      BY <3>1, DivModUnique
    <3> QED
      BY <3>1, <3>2 DEF one
  <2>3. a % 2 = e
    <3>1. a = (two * x) + e /\ e \in 0 .. two - 1 /\ x \in Int /\ two \in Nat \ {0}
      BY <1>2
    <3> HIDE DEF a, two
    <3>2. ((two * x) + e) % two = e
      BY <3>1, DivModUnique
    <3> QED
      BY <3>1, <3>2 DEF two
  <2>4. f[0] = ReversedBit(a, 0)
    BY <1>3, <2>1
  <2>5. ReversedBit(a, 0) = ((a \div 1) % 2) * H
    BY <2>1 DEF ReversedBit
  <2> QED
    BY <2>2, <2>3, <2>4, <2>5
<1>7. ASSUME NEW b \in 0 .. M - 1
      PROVE  g[b] = 2 * tail[b]
  <2>1. b \in 0 .. LogN - 1 /\ 1 + b \in 0 .. LogN - 1 /\ b \in Nat /\ 1 + b = b + 1
        /\ LogN - 1 - (1 + b) \in Nat /\ LogN - 1 - b = (LogN - 1 - (1 + b)) + 1
    BY <1>1
  <2>2. 2 ^ (b + 1) = 2 * 2 ^ b /\ 2 ^ b \in Nat \ {0}
    BY <2>1, TwoPower
  <2> DEFINE r == LogN - 1 - (1 + b)
             d == (x \div 2 ^ b) % 2
             p == 2 ^ r
  <2>3. 2 ^ (r + 1) = 2 * p /\ p \in Nat
    BY <2>1, TwoPower
  <2>4. (2 * x + e) \div 2 ^ (1 + b) = x \div 2 ^ b
    <3> DEFINE u == 2 ^ b
    <3>1. u \in Nat \ {0} /\ 2 ^ (1 + b) = 2 * u
      BY <2>1, <2>2
    <3> HIDE DEF u
    <3>2. (2 * x + e) \div (2 * u) = x \div u
      BY <1>2, <3>1, HalfDivision
    <3> QED
      BY <3>1, <3>2 DEF u
  <2>5. ReversedBit(2 * x + e, 1 + b) = d * p
    BY <2>4 DEF ReversedBit
  <2>6. ReversedBit(x, b) = d * (2 * p)
    BY <2>1, <2>3 DEF ReversedBit
  <2>7. d \in Int
    <3>1. d \in 0 .. 1
      BY <1>2, <2>1, BitFacts
    <3> QED
      BY <3>1
  <2>8. tail[b] = f[1 + b] /\ f[1 + b] = ReversedBit(2 * x + e, 1 + b) /\ g[b] = ReversedBit(x, b)
    BY <1>3, <1>4, <1>5, <2>1
  <2> HIDE DEF d, p, f, g, tail
  <2>9. d * (2 * p) = 2 * (d * p)
    BY <2>3, <2>7
  <2> QED
    BY <2>5, <2>6, <2>8, <2>9
<1>8. g[M] = 0
  <2>1. M \in 0 .. LogN - 1 /\ LogN - 1 - M = 0
    BY <1>1
  <2>2. x = (H * 0) + x /\ x \in 0 .. H - 1
    BY <1>2
  <2> DEFINE two == 2
  <2>3. x \div H = 0
    <3> HIDE DEF H
    <3>1. 0 \in Int
      OBVIOUS
    <3>2. ((H * 0) + x) \div H = 0
      BY <1>2, <2>2, <3>1, DivModUnique
    <3> QED
      BY <2>2, <3>2
  <2>4. 0 % two = 0
    <3>1. 0 = (two * 0) + 0 /\ 0 \in 0 .. two - 1 /\ two \in Nat \ {0} /\ 0 \in Int
      OBVIOUS
    <3> HIDE DEF two
    <3>2. ((two * 0) + 0) % two = 0
      BY <3>1, DivModUnique
    <3> QED
      BY <3>1, <3>2
  <2>5. ReversedBit(x, M) = 0 * 2 ^ 0
    BY <2>1, <2>3, <2>4 DEF ReversedBit
  <2> QED
    BY <1>4, <2>1, <2>5, TwoPower
<1> HIDE DEF f, g, H, tail
<1> HIDE DEF M
<1>9. Summands(tail, M) /\ Total(f, 1 + M) = Total(f, 1) + Total(tail, M)
  <2>1. 1 \in Nat /\ Summands(f, 1 + M)
    BY <1>1, <1>3
  <2> QED
    BY <1>1, <1>5, <2>1, TotalJoin
<1>10. Total(f, 1) = f[0] /\ f[0] \in Int
  <2>1. Summands(f, LogN) /\ 0 \in 0 .. LogN - 1
    BY <1>1, <1>3
  <2>2. Total(f, 0 + 1) = Total(f, 0) + f[0] /\ Total(f, 0) = 0
    BY <1>1, <2>1, TotalStep
  <2> QED
    BY <1>2, <1>6, <2>2
<1>11. Total(g, M) = 2 * Total(tail, M)
  BY <1>1, <1>7, <1>9, TotalScale
<1>12. Total(g, M + 1) = Total(g, M) + g[M] /\ Total(g, M) \in Int
  <2>1. M \in 0 .. LogN - 1 /\ M \in 0 .. LogN
    BY <1>1
  <2> QED
    BY <1>1, <1>4, <2>1, TotalStep
<1>13. Total(tail, M) \in Int
  BY <1>1, <1>9, TotalStep
<1> DEFINE t == Total(tail, M)
           c == e * H
<1>14. Total(f, LogN) = c + t
  BY <1>1, <1>6, <1>9, <1>10
<1>15. Total(g, LogN) = 2 * t
  BY <1>1, <1>8, <1>11, <1>12
<1>16. e * N = 2 * c /\ c \in Int /\ t \in Int
  BY <1>2, <1>13
<1> HIDE DEF c, t
<1>17. 2 * (c + t) = 2 * t + 2 * c
  BY <1>16
<1> QED
  BY <1>3, <1>4, <1>14, <1>15, <1>16, <1>17

(* A highest bit becomes the lowest one. *)
LEMMA ReverseTop ==
    ASSUME LogN # 0, NEW x \in 0 .. 2 ^ (LogN - 1) - 1
    PROVE  reverse_integer_bits(2 ^ (LogN - 1) + x, LogN) = reverse_integer_bits(x, LogN) + 1
<1> DEFINE H == 2 ^ (LogN - 1)
           f == [b \in 0 .. LogN - 1 |-> ReversedBit(H + x, b)]
           g == [b \in 0 .. LogN - 1 |-> ReversedBit(x, b)]
           M == LogN - 1
<1>1. M \in Nat /\ LogN = M + 1 /\ LogN \in Nat
  BY LogNAssumption
<1>2. x \in Nat /\ H + x \in Nat /\ H \in Nat \ {0}
  <2>1. H \in Nat \ {0}
    BY <1>1, TwoPower
  <2> QED
    BY <2>1
<1>3. /\ reverse_integer_bits(H + x, LogN) = Total(f, LogN)
      /\ Summands(f, LogN) /\ \A b \in 0 .. LogN - 1 : f[b] = ReversedBit(H + x, b)
  BY <1>2, ReverseTotal
<1>4. /\ reverse_integer_bits(x, LogN) = Total(g, LogN)
      /\ Summands(g, LogN) /\ \A b \in 0 .. LogN - 1 : g[b] = ReversedBit(x, b)
  BY <1>2, ReverseTotal
<1>5. ASSUME NEW b \in 0 .. M - 1
      PROVE  f[b] = g[b]
  <2>1. b \in 0 .. LogN - 1 /\ b \in Nat /\ M - 1 - b \in Nat /\ (b + 1) + (M - 1 - b) = LogN - 1
        /\ b + 1 \in Nat
    BY <1>1
  <2> DEFINE p == 2 ^ b
             r == 2 ^ (M - 1 - b)
             w == x \div p
             z == x % p
  <2>2. p \in Nat \ {0} /\ r \in Nat /\ H = (2 * p) * r
    <3>1. 2 ^ ((b + 1) + (M - 1 - b)) = 2 ^ (b + 1) * r /\ 2 ^ (b + 1) = 2 * p
      BY <2>1, TwoPower, TwoPowerSum
    <3> QED
      BY <2>1, <3>1, TwoPower
  <2>3. x = (p * w) + z /\ w \in Int /\ z \in 0 .. p - 1
    <3>1. p \in Nat \ {0} /\ x \in Int
      BY <2>2
    <3> HIDE DEF p
    <3> QED
      BY <3>1, DivMod
  <2>4. ReversedBit(H + x, b) = (((H + x) \div p) % 2) * 2 ^ (LogN - 1 - b)
        /\ ReversedBit(x, b) = (w % 2) * 2 ^ (LogN - 1 - b)
    BY DEF ReversedBit
  <2> HIDE DEF p, r, w, z, H
  <2>5. H + x = (p * (2 * r + w)) + z /\ 2 * r + w \in Int
    BY <2>2, <2>3
  <2>6. (H + x) \div p = 2 * r + w
    <3> DEFINE v == 2 * r + w
    <3>1. v \in Int /\ H + x = (p * v) + z
      BY <2>5
    <3> HIDE DEF v
    <3>2. ((p * v) + z) \div p = v
      BY <2>2, <2>3, <3>1, DivModUnique
    <3> QED
      BY <3>1, <3>2 DEF v
  <2>7. (2 * r + w) % 2 = w % 2
    <3> DEFINE two == 2
    <3>1. two \in Nat \ {0} /\ two \in Int /\ w \in Int /\ r \in Int
      BY <2>2, <2>3
    <3>2. two * r + w = w + two * r
      BY <3>1
    <3> HIDE DEF two
    <3>3. Cong(w + two * r, w, two) /\ w + two * r \in Int
      BY <3>1 DEF Cong
    <3>4. (w + two * r) % two = w % two
      BY <3>1, <3>3, RemainderUnique
    <3> QED
      BY <3>2, <3>4 DEF two
  <2>8. ReversedBit(H + x, b) = ReversedBit(x, b)
    BY <2>4, <2>6, <2>7
  <2>9. f[b] = ReversedBit(H + x, b) /\ g[b] = ReversedBit(x, b)
    BY <1>3, <1>4, <2>1
  <2> QED
    BY <2>8, <2>9
<1>6. g[M] = 0 /\ f[M] = 1
  <2>1. M \in 0 .. LogN - 1 /\ LogN - 1 - M = 0 /\ 2 ^ 0 = 1
    BY <1>1, TwoPower
  <2>2. x = (H * 0) + x /\ x \in 0 .. H - 1 /\ H + x = (H * 1) + x /\ 0 \in Int /\ 1 \in Int
    BY <1>2
  <2> DEFINE two == 2
  <2>3. x \div H = 0 /\ (H + x) \div H = 1
    <3> HIDE DEF H
    <3>1. ((H * 0) + x) \div H = 0 /\ ((H * 1) + x) \div H = 1
      BY <1>2, <2>2, DivModUnique
    <3> QED
      BY <2>2, <3>1
  <2>4. 0 % two = 0 /\ 1 % two = 1
    <3>1. 0 = (two * 0) + 0 /\ 1 = (two * 0) + 1 /\ 0 \in 0 .. two - 1 /\ 1 \in 0 .. two - 1
          /\ two \in Nat \ {0} /\ 0 \in Int
      OBVIOUS
    <3> HIDE DEF two
    <3>2. ((two * 0) + 0) % two = 0 /\ ((two * 0) + 1) % two = 1
      BY <3>1, DivModUnique
    <3> QED
      BY <3>1, <3>2
  <2>5. ReversedBit(x, M) = 0 * 1 /\ ReversedBit(H + x, M) = 1 * 1
    BY <2>1, <2>3, <2>4 DEF ReversedBit
  <2>6. f[M] = ReversedBit(H + x, M) /\ g[M] = ReversedBit(x, M)
    BY <1>3, <1>4, <2>1
  <2> QED
    BY <2>5, <2>6
<1> HIDE DEF f, g, H
<1> HIDE DEF M
<1>7. /\ Total(g, M + 1) = Total(g, M) + g[M] /\ Total(g, M) \in Int
      /\ Total(f, M + 1) = Total(f, M) + f[M] /\ Summands(f, M)
  <2>1. M \in 0 .. LogN - 1 /\ M \in 0 .. LogN
    BY <1>1
  <2>2. \A b \in 0 .. M - 1 : b \in 0 .. LogN - 1
    BY <1>1
  <2> QED
    BY <1>1, <1>3, <1>4, <2>1, <2>2, TotalStep DEF Summands
<1>8. Total(f, M) = Total(g, M)
  BY <1>1, <1>5, <1>7, TotalSame
<1> QED
  BY <1>1, <1>3, <1>4, <1>6, <1>7, <1>8 DEF H

-----------------------------------------------------------------------------
(***************************************************************************)
(* After s stages, block b holds the operand modulo X^(N / 2^s) - t, where  *)
(* t is the power of the root with this exponent.                          *)
(***************************************************************************)
Exponent(s, b) ==
    IF s = 0 THEN N ELSE reverse_integer_bits(2 ^ (s - 1) + b \div 2, LogN) + N * (b % 2)

Twist(q, s, b) == modulus_power(find_root(q), Exponent(s, b), q)

(* The root that block b is transformed with at stage s. *)
StageRoot(q, s, b) ==
    modulus_power(find_root(q), reverse_integer_bits(2 ^ s + b, LogN), q)

(* The children of block b are 2b and 2b + 1. *)
LEMMA Halves ==
    ASSUME NEW b \in Int, NEW e \in 0 .. 1
    PROVE  (2 * b + e) \div 2 = b /\ (2 * b + e) % 2 = e
<1> DEFINE two == 2
<1>1. two \in Nat \ {0} /\ e \in 0 .. two - 1
  OBVIOUS
<1> HIDE DEF two
<1>2. ((two * b) + e) \div two = b /\ ((two * b) + e) % two = e
  BY <1>1, DivModUnique
<1> QED
  BY <1>2 DEF two

(* Every block is a child of its half. *)
LEMMA HalvesOf ==
    ASSUME NEW b \in Nat
    PROVE  b \div 2 \in Nat /\ b % 2 \in 0 .. 1 /\ b = 2 * (b \div 2) + (b % 2)
OBVIOUS

(* The exponents of the blocks that a stage makes. *)
LEMMA NextExponent ==
    ASSUME NEW s \in 0 .. LogN - 1, NEW b \in 0 .. 2 ^ s - 1, NEW e \in 0 .. 1
    PROVE  /\ Exponent(s + 1, 2 * b + e) = reverse_integer_bits(2 ^ s + b, LogN) + N * e
           /\ 2 ^ s + b \in Nat /\ 2 ^ s + b < N
           /\ Exponent(s + 1, 2 * b + e) \in Nat
<1>1. s \in Nat /\ LogN \in Nat /\ s + 1 # 0 /\ (s + 1) - 1 = s /\ s \in 0 .. LogN /\ LogN - s \in Nat
  BY LogNAssumption
<1>2. 2 ^ s \in Nat \ {0} /\ N \in Nat \ {0} /\ b \in Nat
  BY <1>1, CoeffCount
<1>3. (2 * b + e) \div 2 = b /\ (2 * b + e) % 2 = e
  BY <1>2, Halves
<1>4. 2 ^ s + b < N
  <2>1. LogN - 1 - s \in Nat /\ (s + 1) + (LogN - 1 - s) = LogN /\ s + 1 \in Nat
    BY <1>1
  <2>2. 2 ^ ((s + 1) + (LogN - 1 - s)) = 2 ^ (s + 1) * 2 ^ (LogN - 1 - s) /\ 2 ^ (s + 1) = 2 * 2 ^ s
    BY <1>1, <2>1, TwoPower, TwoPowerSum
  <2> DEFINE p == 2 ^ s
             r == 2 ^ (LogN - 1 - s)
  <2>3. p \in Nat \ {0} /\ r \in Nat \ {0} /\ N = (2 * p) * r /\ b < p
    <3>1. N = 2 ^ ((s + 1) + (LogN - 1 - s))
      BY <2>1 DEF N
    <3>2. N = (2 * p) * r
      BY <2>2, <3>1
    <3>3. p \in Nat \ {0} /\ r \in Nat \ {0}
      BY <1>2, <2>1, TwoPower
    <3> QED
      BY <3>2, <3>3
  <2> HIDE DEF p, r
  <2>4. (2 * p) * r >= 2 * p
    BY <2>3
  <2> QED
    BY <1>2, <2>3, <2>4 DEF p
<1>5. Exponent(s + 1, 2 * b + e) = reverse_integer_bits(2 ^ s + b, LogN) + N * e
  BY <1>1, <1>3 DEF Exponent
<1>6. reverse_integer_bits(2 ^ s + b, LogN) \in Nat
  BY <1>2, ReverseNatural
<1> QED
  BY <1>2, <1>4, <1>5, <1>6

(* A block's exponent is twice that of its stage's root. *)
LEMMA ExponentIsTwice ==
    ASSUME NEW s \in 0 .. LogN - 1, NEW b \in 0 .. 2 ^ s - 1
    PROVE  Exponent(s, b) = 2 * reverse_integer_bits(2 ^ s + b, LogN)
<1>1. s \in Nat /\ LogN \in Nat /\ LogN # 0 /\ s \in 0 .. LogN /\ LogN - 1 \in Nat
  BY LogNAssumption
<1>2. 2 ^ s \in Nat \ {0} /\ N \in Nat \ {0} /\ 2 ^ (LogN - 1) \in Nat \ {0} /\ 2 ^ 0 = 1
  BY <1>1, CoeffCount, TwoPower
<1>3. CASE s = 0
  <2>1. b = 0 /\ 2 ^ s + b = 2 * 0 + 1
    BY <1>2, <1>3
  <2>2. 0 \in 0 .. 2 ^ (LogN - 1) - 1 /\ 1 \in 0 .. 1
    BY <1>2
  <2>3. 2 * reverse_integer_bits(2 * 0 + 1, LogN) = reverse_integer_bits(0, LogN) + 1 * N
    BY <1>1, <2>2, ReverseDouble
  <2> QED
    BY <1>2, <1>3, <2>1, <2>3, ReverseZero DEF Exponent
<1>4. CASE s # 0
  <2> DEFINE x == 2 ^ (s - 1) + b \div 2
             e == b % 2
  <2>1. s - 1 \in Nat /\ (s - 1) + 1 = s /\ LogN - 1 - s \in Nat /\ s + (LogN - 1 - s) = LogN - 1
    BY <1>1, <1>4
  <2>2. 2 ^ s = 2 * 2 ^ (s - 1) /\ 2 ^ (s - 1) \in Nat \ {0}
        /\ 2 ^ (LogN - 1) = 2 ^ s * 2 ^ (LogN - 1 - s) /\ 2 ^ (LogN - 1 - s) \in Nat \ {0}
    BY <1>1, <2>1, TwoPower, TwoPowerSum
  <2>3. b \in Nat /\ b \div 2 \in Nat /\ b % 2 \in 0 .. 1 /\ b = 2 * (b \div 2) + (b % 2)
    BY <1>2, HalvesOf
  <2>4. 2 ^ (LogN - 1) >= 2 ^ s
    <3> DEFINE p == 2 ^ s
               r == 2 ^ (LogN - 1 - s)
    <3>1. p \in Nat \ {0} /\ r \in Nat \ {0} /\ 2 ^ (LogN - 1) = p * r
      BY <1>2, <2>2
    <3> HIDE DEF p, r
    <3>2. p * r >= p
      BY <3>1
    <3> QED
      BY <3>1, <3>2 DEF p
  <2>5. x \in 0 .. 2 ^ (LogN - 1) - 1 /\ 2 ^ s + b = 2 * x + e
    <3> DEFINE w == b \div 2
               p == 2 ^ (s - 1)
    <3>1. w \in Nat /\ e \in 0 .. 1 /\ b = 2 * w + e /\ p \in Nat /\ 2 ^ s = 2 * p
          /\ x = p + w /\ b < 2 ^ s
      BY <1>2, <2>2, <2>3
    <3> HIDE DEF w, p, x, e
    <3> QED
      BY <1>2, <2>4, <3>1
  <2>6. Exponent(s, b) = reverse_integer_bits(x, LogN) + N * e
    BY <1>4 DEF Exponent
  <2>7. e \in 0 .. 1 /\ N * e = e * N
    BY <1>2, <2>3
  <2> HIDE DEF x, e
  <2>8. 2 * reverse_integer_bits(2 * x + e, LogN) = reverse_integer_bits(x, LogN) + e * N
    BY <1>1, <2>5, <2>7, ReverseDouble
  <2> QED
    BY <2>5, <2>6, <2>7, <2>8
<1> QED
  BY <1>3, <1>4

(* After the last stage the exponents are those of SlotRoot. *)
LEMMA LastExponent ==
    ASSUME NEW i \in Coeff
    PROVE  Exponent(LogN, i) = 2 * reverse_integer_bits(i, LogN) + 1
<1>1. N \in Nat \ {0} /\ LogN \in Nat /\ i \in Nat
  BY CoeffCount, LogNAssumption DEF Coeff
<1>2. CASE LogN = 0
  <2>1. N = 1 /\ i = 0
    BY <1>1, <1>2, TwoPower DEF N, Coeff
  <2> QED
    BY <1>2, <2>1, ReverseZero DEF Exponent
<1>3. CASE LogN # 0
  <2> DEFINE x == i \div 2
             e == i % 2
  <2>1. x \in Nat /\ e \in 0 .. 1 /\ i = 2 * x + e
    BY <1>1, HalvesOf
  <2>2. LogN - 1 \in Nat /\ (LogN - 1) + 1 = LogN
    BY <1>1, <1>3
  <2>3. N = 2 * 2 ^ (LogN - 1) /\ 2 ^ (LogN - 1) \in Nat
    BY <2>2, TwoPower DEF N
  <2>4. Exponent(LogN, i) = reverse_integer_bits(2 ^ (LogN - 1) + x, LogN) + N * e
    BY <1>3 DEF Exponent
  <2>5. i < N
    BY <1>1 DEF Coeff
  <2> HIDE DEF x, e
  <2>6. x \in 0 .. 2 ^ (LogN - 1) - 1
    BY <1>1, <2>1, <2>3, <2>5
  <2>7. reverse_integer_bits(2 ^ (LogN - 1) + x, LogN) = reverse_integer_bits(x, LogN) + 1
    BY <1>3, <2>6, ReverseTop
  <2>8. 2 * reverse_integer_bits(i, LogN) = reverse_integer_bits(x, LogN) + e * N
    BY <1>3, <2>1, <2>6, ReverseDouble
  <2>9. e * N = N * e /\ N * e \in Int /\ reverse_integer_bits(x, LogN) \in Nat
    BY <1>1, <2>1, ReverseNatural
  <2> QED
    BY <2>4, <2>7, <2>8, <2>9
<1> QED
  BY <1>2, <1>3

-----------------------------------------------------------------------------
(* The two blocks that a stage makes have the square roots of t. *)
LEMMA TwistFacts ==
    ASSUME NEW q, Suitable(q), NEW s \in 0 .. LogN - 1, NEW b \in 0 .. 2 ^ s - 1
    PROVE  /\ StageRoot(q, s, b) \in 0 .. q - 1
           /\ Twist(q, s + 1, 2 * b) = StageRoot(q, s, b)
           /\ Twist(q, s + 1, 2 * b + 1) \in 0 .. q - 1
           /\ Cong(Twist(q, s + 1, 2 * b + 1), - StageRoot(q, s, b), q)
           /\ \A e \in 0 .. 1 :
                modulus_power(Twist(q, s + 1, 2 * b + e), 2, q) = Twist(q, s, b)
<1> DEFINE g == find_root(q)
           r == reverse_integer_bits(2 ^ s + b, LogN)
           h == modulus_power(g, N, q)
           t == modulus_power(g, r, q)
<1>1. g \in Nat /\ Cong(h, -1, q) /\ modulus_power(g, 2 * N, q) = 1
  BY RootFound
<1>2. q \in Nat \ {0, 1} /\ q \in Int /\ N \in Nat \ {0} /\ N \in Nat
  BY SuitableModulus, CoeffCount
<1>3. \A e \in 0 .. 1 : Exponent(s + 1, 2 * b + e) = r + N * e /\ 2 ^ s + b \in Nat
  BY NextExponent
<1>4. r \in Nat
  <2>1. 0 \in 0 .. 1
    OBVIOUS
  <2> QED
    BY <1>3, <2>1, ReverseNatural
<1>5. StageRoot(q, s, b) = t
  BY DEF StageRoot
<1>6. Exponent(s, b) = 2 * r
  BY ExponentIsTwice
<1> HIDE DEF r, g
<1>7. t \in 0 .. q - 1 /\ h \in 0 .. q - 1 /\ t \in Int /\ h \in Int
  <2>1. t \in 0 .. q - 1 /\ h \in 0 .. q - 1
    BY <1>1, <1>2, <1>4, PowerStep
  <2> QED
    BY <2>1
<1>8. Twist(q, s + 1, 2 * b) = t
  <2>1. 0 \in 0 .. 1 /\ 2 * b + 0 = 2 * b
    BY <1>2
  <2>2. Exponent(s + 1, 2 * b) = r + N * 0
    BY <1>3, <2>1
  <2>3. r + N * 0 = r
    BY <1>2, <1>4
  <2> QED
    BY <2>2, <2>3 DEF Twist, g
<1>9. /\ Twist(q, s + 1, 2 * b + 1) \in 0 .. q - 1
      /\ Cong(Twist(q, s + 1, 2 * b + 1), - t, q)
  <2>1. 1 \in 0 .. 1
    OBVIOUS
  <2>2. Exponent(s + 1, 2 * b + 1) = r + N * 1
    BY <1>3, <2>1
  <2>3. r + N * 1 = r + N /\ r + N \in Nat
    BY <1>2, <1>4
  <2> DEFINE u == modulus_power(g, r + N, q)
  <2>4. Twist(q, s + 1, 2 * b + 1) = u
    BY <2>2, <2>3 DEF Twist, g
  <2>5. u \in 0 .. q - 1 /\ u \in Int
    BY <1>1, <1>2, <2>3, PowerStep
  <2>6. Cong(u, t * h, q)
    BY <1>1, <1>2, <1>4, PowerSum
  <2> HIDE DEF u, t, h
  <2>7. Cong(t * h, - t, q) /\ t * h \in Int /\ - t \in Int
    <3> DEFINE m == -1
    <3>1. m \in Int /\ t * m = - t /\ Cong(h, m, q)
      BY <1>1, <1>7
    <3> HIDE DEF m
    <3>2. Cong(t * h, t * m, q)
      BY <1>2, <1>7, <3>1, CongProduct
    <3> QED
      BY <1>7, <3>1, <3>2
  <2>8. Cong(u, - t, q)
    BY <1>2, <2>5, <2>6, <2>7, CongTransitive
  <2> QED
    BY <2>4, <2>5, <2>8
<1>10. ASSUME NEW e \in 0 .. 1
       PROVE  modulus_power(Twist(q, s + 1, 2 * b + e), 2, q) = Twist(q, s, b)
  <2>1. r + N * e \in Nat /\ 2 \in Nat /\ (r + N * e) * 2 = 2 * r + (2 * N) * e
    BY <1>2, <1>4
  <2>2. Twist(q, s + 1, 2 * b + e) = modulus_power(g, r + N * e, q)
    BY <1>3 DEF Twist, g
  <2> DEFINE x == r + N * e
  <2>3. modulus_power(modulus_power(g, x, q), 2, q) = modulus_power(g, x * 2, q)
    <3>1. x \in Nat
      BY <2>1
    <3> HIDE DEF x
    <3> QED
      BY <1>1, <1>2, <2>1, <3>1, PowerPower
  <2>4. Twist(q, s, b) = modulus_power(g, 2 * r, q)
    BY <1>6 DEF Twist, g
  <2>5. modulus_power(g, x * 2, q) = modulus_power(g, 2 * r, q)
    <3>1. CASE e = 0
      <4>1. x * 2 = 2 * r
        BY <1>2, <1>4, <3>1
      <4> QED
        BY <4>1
    <3>2. CASE e = 1
      <4> DEFINE a == modulus_power(g, 2 * r, q)
                 c == modulus_power(g, 2 * r + 2 * N, q)
      <4>1. x * 2 = 2 * r + 2 * N /\ 2 * r \in Nat /\ 2 * N \in Nat /\ 2 * r + 2 * N \in Nat
        BY <1>2, <1>4, <2>1, <3>2
      <4>2. Cong(c, a * modulus_power(g, 2 * N, q), q)
        BY <1>1, <1>2, <4>1, PowerSum
      <4>3. a \in 0 .. q - 1 /\ c \in 0 .. q - 1
        BY <1>1, <1>2, <4>1, PowerStep
      <4>4. a * 1 = a
        BY <4>3
      <4>5. c = a
        BY <1>1, <1>2, <4>2, <4>3, <4>4, ResidueUnique
      <4> QED
        BY <4>1, <4>5
    <3> QED
      BY <3>1, <3>2
  <2> QED
    BY <2>2, <2>3, <2>4, <2>5
<1> QED
  BY <1>5, <1>7, <1>8, <1>9, <1>10

(* After the last stage the powers are the slots' roots. *)
LEMMA LastTwist ==
    ASSUME NEW q, NEW i \in Coeff
    PROVE  Twist(q, LogN, i) = SlotRoot(i, q)
BY LastExponent DEF Twist, SlotRoot

(* They are residues. *)
LEMMA TwistNatural ==
    ASSUME NEW q, Suitable(q), NEW s \in 0 .. LogN, NEW b \in Nat
    PROVE  Twist(q, s, b) \in 0 .. q - 1 /\ Twist(q, s, b) \in Nat
<1>1. q \in Nat \ {0, 1} /\ N \in Nat /\ find_root(q) \in Nat
  BY SuitableModulus, CoeffCount, RootFound
<1>2. Exponent(s, b) \in Nat
  <2>1. CASE s = 0
    BY <1>1, <2>1 DEF Exponent
  <2>2. CASE s # 0
    <3>1. s - 1 \in Nat
      BY <2>2, LogNAssumption
    <3>2. b \div 2 \in Nat /\ b % 2 \in 0 .. 1 /\ 2 ^ (s - 1) \in Nat
      BY <3>1, HalvesOf, TwoPower
    <3>3. reverse_integer_bits(2 ^ (s - 1) + b \div 2, LogN) \in Nat
      <4> DEFINE y == 2 ^ (s - 1) + b \div 2
      <4>1. y \in Nat
        BY <3>2
      <4> HIDE DEF y
      <4>2. reverse_integer_bits(y, LogN) \in Nat
        BY <4>1, ReverseNatural
      <4> QED
        BY <4>2 DEF y
    <3>4. N * (b % 2) \in Nat
      <4> DEFINE y == b % 2
      <4>1. y \in Nat
        BY <3>2
      <4> HIDE DEF y
      <4>2. N * y \in Nat
        BY <1>1, <4>1
      <4> QED
        BY <4>2 DEF y
    <3> QED
      BY <2>2, <3>3, <3>4 DEF Exponent
  <2> QED
    BY <2>1, <2>2
<1>3. Twist(q, s, b) \in 0 .. q - 1
  BY <1>1, <1>2, PowerStep DEF Twist
<1> QED
  BY <1>1, <1>3

-----------------------------------------------------------------------------
(* A sum is that of the even and that of the odd summands. *)
LEMMA TotalPairs ==
    ASSUME NEW count \in Nat, NEW f, NEW g, NEW h, Summands(f, 2 * count),
           \A k \in 0 .. count - 1 : g[k] = f[2 * k] /\ h[k] = f[2 * k + 1]
    PROVE  /\ Summands(g, count) /\ Summands(h, count)
           /\ Total(f, 2 * count) = Total(g, count) + Total(h, count)
<1>0. Summands(g, count) /\ Summands(h, count)
  <2>1. ASSUME NEW k \in 0 .. count - 1
        PROVE  g[k] \in Int /\ h[k] \in Int
    <3>1. 2 * k \in 0 .. 2 * count - 1 /\ 2 * k + 1 \in 0 .. 2 * count - 1
      OBVIOUS
    <3> QED
      BY <3>1 DEF Summands
  <2> QED
    BY <2>1 DEF Summands
<1> DEFINE S == {n \in 0 .. count : Total(f, 2 * n) = Total(g, n) + Total(h, n)}
<1>1. 0 \in S
  <2>1. 2 * count \in Nat /\ 2 * 0 = 0
    OBVIOUS
  <2> QED
    BY <1>0, <2>1, TotalStep
<1>2. ASSUME NEW n \in 0 .. count, n + 1 =< count, n \in S
      PROVE  n + 1 \in S
  <2>1. /\ n \in 0 .. count - 1 /\ n \in 0 .. count /\ n + 1 \in 0 .. count /\ 2 * count \in Nat
        /\ 2 * n \in 0 .. 2 * count - 1 /\ 2 * n + 1 \in 0 .. 2 * count - 1
        /\ 2 * (n + 1) = (2 * n + 1) + 1 /\ 2 * n \in 0 .. 2 * count
    BY <1>2
  <2>2. /\ Total(f, (2 * n) + 1) = Total(f, 2 * n) + f[2 * n]
        /\ Total(f, (2 * n + 1) + 1) = Total(f, 2 * n + 1) + f[2 * n + 1]
    BY <2>1, TotalStep
  <2>3. /\ Total(g, n + 1) = Total(g, n) + g[n] /\ Total(h, n + 1) = Total(h, n) + h[n]
        /\ Total(g, n) \in Int /\ Total(h, n) \in Int
    BY <1>0, <2>1, TotalStep
  <2>4. g[n] = f[2 * n] /\ h[n] = f[2 * n + 1] /\ g[n] \in Int /\ h[n] \in Int
    BY <1>0, <2>1 DEF Summands
  <2>5. Total(f, 2 * n) = Total(g, n) + Total(h, n)
    BY <1>2
  <2>6. Total(f, 2 * (n + 1)) = Total(g, n + 1) + Total(h, n + 1)
    BY <2>1, <2>2, <2>3, <2>4, <2>5
  <2> QED
    BY <2>1, <2>6
<1> HIDE DEF S
<1>3. /\ 0 \in Int /\ count \in Int
      /\ \A n \in 0 .. count : n + 1 =< count /\ n \in S => n + 1 \in S
  BY <1>2
<1>4. \A n \in 0 .. count : n \in S
  BY <1>1, <1>3, Upward, Zenon
<1>5. count \in S
  BY <1>4
<1> QED
  BY <1>0, <1>5 DEF S

-----------------------------------------------------------------------------
(***************************************************************************)
(* Coefficient o of block b after s stages: of the polynomial modulo        *)
(* X^(N / 2^s) - t.                                                        *)
(***************************************************************************)
FoldTerm(q, z, s, b, o) ==
    [k \in 0 .. 2 ^ s - 1 |->
       z[k * 2 ^ (LogN - s) + o] * modulus_power(Twist(q, s, b), k, q)]

Fold(q, z, s, b, o) == Total(FoldTerm(q, z, s, b, o), 2 ^ s)

(* A fold is a sum of integers. *)
LEMMA FoldInteger ==
    ASSUME NEW q, Suitable(q), NEW z \in [Coeff -> Int], NEW s \in 0 .. LogN, NEW b \in Nat,
           NEW o \in 0 .. 2 ^ (LogN - s) - 1
    PROVE  /\ 2 ^ s \in Nat
           /\ \A k \in 0 .. 2 ^ s - 1 :
                /\ k * 2 ^ (LogN - s) + o \in Coeff
                /\ modulus_power(Twist(q, s, b), k, q) \in 0 .. q - 1
                /\ FoldTerm(q, z, s, b, o)[k] =
                     z[k * 2 ^ (LogN - s) + o] * modulus_power(Twist(q, s, b), k, q)
           /\ Summands(FoldTerm(q, z, s, b, o), 2 ^ s)
           /\ Fold(q, z, s, b, o) \in Int
<1> DEFINE c == 2 ^ s
           r == 2 ^ (LogN - s)
<1>1. c \in Nat \ {0} /\ r \in Nat \ {0} /\ c * r = N
  BY CoeffCount
<1>2. q \in Nat \ {0, 1} /\ Twist(q, s, b) \in Nat
  BY SuitableModulus, TwistNatural
<1>3. ASSUME NEW k \in 0 .. c - 1
      PROVE  /\ k * r + o \in Coeff
             /\ modulus_power(Twist(q, s, b), k, q) \in 0 .. q - 1
             /\ FoldTerm(q, z, s, b, o)[k] =
                     z[k * r + o] * modulus_power(Twist(q, s, b), k, q)
             /\ FoldTerm(q, z, s, b, o)[k] \in Int
  <2>1. FoldTerm(q, z, s, b, o)[k] = z[k * r + o] * modulus_power(Twist(q, s, b), k, q)
    BY DEF FoldTerm
  <2>2. o \in 0 .. r - 1
    OBVIOUS
  <2> HIDE DEF c, r
  <2>3. k * r + o \in Coeff
    <3>1. k * r =< (c - 1) * r
      BY <1>1
    <3>2. (c - 1) * r = N - r /\ k * r >= 0 /\ k * r \in Int
      BY <1>1
    <3>3. N \in Int /\ o \in Int /\ r \in Int /\ o =< r - 1 /\ o >= 0
      BY <1>1, <2>2, CoeffCount
    <3>4. k * r + o \in Int /\ k * r + o >= 0 /\ k * r + o =< N - 1
      BY <3>1, <3>2, <3>3
    <3> QED
      BY <3>3, <3>4 DEF Coeff
  <2>4. k \in Nat
    BY <1>1
  <2>5. modulus_power(Twist(q, s, b), k, q) \in 0 .. q - 1
    BY <1>2, <2>4, PowerStep
  <2> DEFINE u == z[k * r + o]
             v == modulus_power(Twist(q, s, b), k, q)
  <2>6. u \in Int /\ v \in Int
    BY <2>3, <2>5
  <2> HIDE DEF u, v
  <2>7. u * v \in Int
    BY <2>6
  <2> QED
    BY <2>1, <2>3, <2>5, <2>7 DEF u, v
<1>4. Summands(FoldTerm(q, z, s, b, o), c)
  BY <1>3 DEF Summands
<1>5. Fold(q, z, s, b, o) \in Int
  <2>1. c \in Nat /\ c \in 0 .. c
    BY <1>1
  <2>2. Fold(q, z, s, b, o) = Total(FoldTerm(q, z, s, b, o), c)
    BY DEF Fold
  <2> HIDE DEF c
  <2> QED
    BY <1>4, <2>1, <2>2, TotalStep
<1> QED
  BY <1>1, <1>3, <1>4, <1>5

(* The sum of one summand. *)
LEMMA TotalOne ==
    ASSUME NEW f, f[0] \in Int
    PROVE  Total(f, 1) = f[0]
<1> DEFINE one == 1
<1>1. one \in Nat /\ Summands(f, one) /\ 0 \in 0 .. one - 1 /\ 0 + 1 = one
  BY DEF Summands
<1> HIDE DEF one
<1>2. Total(f, 0) = 0 /\ Total(f, 0 + 1) = Total(f, 0) + f[0]
  BY <1>1, TotalStep
<1> QED
  BY <1>1, <1>2 DEF one

(* Before the first stage. *)
LEMMA FoldStart ==
    ASSUME NEW q, Suitable(q), NEW z \in [Coeff -> Int], NEW o \in Coeff
    PROVE  Fold(q, z, 0, 0, o) = z[o]
<1>1. 0 \in 0 .. LogN /\ 0 \in Nat /\ LogN - 0 = LogN /\ 2 ^ 0 = 1 /\ 0 \in 0 .. 2 ^ 0 - 1
  BY LogNAssumption, TwoPower
<1>2. o \in 0 .. 2 ^ (LogN - 0) - 1
  BY <1>1 DEF N, Coeff
<1> DEFINE f == FoldTerm(q, z, 0, 0, o)
           r == 2 ^ (LogN - 0)
<1>3. f[0] = z[0 * r + o] * modulus_power(Twist(q, 0, 0), 0, q) /\ 0 * r + o \in Coeff
  BY <1>1, <1>2, FoldInteger
<1>4. Twist(q, 0, 0) \in Nat /\ q \in Nat \ {0, 1}
  BY <1>1, TwistNatural, SuitableModulus
<1>5. modulus_power(Twist(q, 0, 0), 0, q) = 1
  BY <1>4, PowerStep
<1>6. r \in Nat /\ o \in Int
  BY <1>1, CoeffCount DEF Coeff
<1>7. Fold(q, z, 0, 0, o) = Total(f, 1)
  BY <1>1 DEF Fold
<1> HIDE DEF f, r
<1>8. 0 * r + o = o
  BY <1>6
<1>9. z[o] \in Int
  OBVIOUS
<1>10. f[0] = z[o]
  BY <1>3, <1>5, <1>8, <1>9
<1> QED
  BY <1>7, <1>9, <1>10, TotalOne

(* The value of a polynomial, whose coefficients need not be residues. *)
Evaluation(z, r, q) == Total([i \in Coeff |-> z[i] * modulus_power(r, i, q)], N)

(* Reducing the coefficients first makes no difference modulo q. *)
LEMMA ValueIsEvaluation ==
    ASSUME NEW q, Suitable(q), NEW z \in [Coeff -> Int], NEW r \in Nat
    PROVE  /\ Value(z, r, q) \in Int /\ Evaluation(z, r, q) \in Int
           /\ Cong(Evaluation(z, r, q), Value(z, r, q), q)
<1>1. q \in Nat \ {0, 1} /\ q \in Int /\ N \in Nat
  BY SuitableModulus, CoeffCount
<1> DEFINE f == [i \in Coeff |-> z[i] * modulus_power(r, i, q)]
           g == [i \in Coeff |-> (z[i] % q) * modulus_power(r, i, q)]
<1>2. ASSUME NEW k \in 0 .. N - 1
      PROVE  g[k] \in Int /\ f[k] \in Int /\ Cong(f[k], g[k], q)
  <2>1. k \in Nat /\ k \in Coeff
    BY <1>1 DEF Coeff
  <2> DEFINE a == z[k]
             p == modulus_power(r, k, q)
  <2>2. f[k] = a * p /\ g[k] = (a % q) * p /\ a \in Int
    BY <2>1
  <2>3. p \in 0 .. q - 1
    BY <1>1, <2>1, PowerStep
  <2> HIDE DEF a, p, f, g
  <2>4. Cong(a, a % q, q) /\ a % q \in Int /\ p \in Int
    BY <1>1, <2>2, <2>3, RemainderFacts
  <2>5. Cong(a * p, (a % q) * p, q)
    BY <1>1, <2>2, <2>4, CongProduct
  <2>6. (a % q) * p \in Int /\ a * p \in Int
    BY <2>2, <2>4
  <2> QED
    BY <2>2, <2>5, <2>6
<1>3. Value(z, r, q) = Total(g, N) /\ Evaluation(z, r, q) = Total(f, N)
  BY DEF Value, Evaluation
<1> HIDE DEF f, g
<1>4. Summands(g, N) /\ Summands(f, N)
  BY <1>2 DEF Summands
<1>5. Cong(Total(f, N), Total(g, N), q)
  BY <1>1, <1>2, <1>4, TotalCong
<1>6. Total(g, N) \in Int /\ Total(f, N) \in Int
  <2>1. N \in 0 .. N
    BY <1>1
  <2> QED
    BY <1>1, <1>4, <2>1, TotalStep
<1> QED
  BY <1>3, <1>5, <1>6

(* The roots of the slots are residues. *)
LEMMA SlotRootNatural ==
    ASSUME NEW q, Suitable(q), NEW b \in Coeff
    PROVE  SlotRoot(b, q) \in Nat /\ SlotRoot(b, q) \in 0 .. q - 1
<1>1. LogN \in 0 .. LogN /\ b \in Nat
  BY LogNAssumption DEF Coeff
<1>2. Twist(q, LogN, b) = SlotRoot(b, q)
  BY LastTwist
<1>3. Twist(q, LogN, b) \in 0 .. q - 1 /\ Twist(q, LogN, b) \in Nat
  BY <1>1, TwistNatural
<1> QED
  BY <1>2, <1>3

(* After the last stage. *)
LEMMA FoldLast ==
    ASSUME NEW q, Suitable(q), NEW z \in [Coeff -> Int], NEW b \in Coeff
    PROVE  Fold(q, z, LogN, b, 0) = Evaluation(z, SlotRoot(b, q), q)
<1>1. LogN \in 0 .. LogN /\ b \in Nat /\ LogN - LogN = 0 /\ 2 ^ 0 = 1 /\ 0 \in 0 .. 2 ^ (LogN - LogN) - 1
  BY LogNAssumption, TwoPower DEF Coeff
<1>2. N \in Nat
  BY CoeffCount
<1> DEFINE f == FoldTerm(q, z, LogN, b, 0)
           r == SlotRoot(b, q)
           g == [i \in Coeff |-> z[i] * modulus_power(r, i, q)]
<1>3. Twist(q, LogN, b) = r
  BY LastTwist
<1>4. Summands(f, N) /\ Fold(q, z, LogN, b, 0) = Total(f, N)
  BY <1>1, FoldInteger DEF Fold, N
<1>5. ASSUME NEW k \in 0 .. N - 1
      PROVE  f[k] = g[k]
  <2>1. f[k] = z[k * 2 ^ (LogN - LogN) + 0] * modulus_power(r, k, q)
    BY <1>1, <1>3, FoldInteger DEF N
  <2>2. k * 2 ^ (LogN - LogN) + 0 = k
    <3>1. 2 ^ (LogN - LogN) = 1
      BY <1>1, Zenon
    <3>2. k \in Int
      BY <1>2
    <3> QED
      BY <3>1, <3>2
  <2>3. k \in Coeff
    BY DEF Coeff
  <2>4. g[k] = z[k] * modulus_power(r, k, q)
    BY <2>3
  <2> QED
    BY <2>1, <2>2, <2>4
<1>6. Evaluation(z, r, q) = Total(g, N)
  BY DEF Evaluation
<1> HIDE DEF f, g
<1>7. Total(f, N) = Total(g, N)
  BY <1>2, <1>4, <1>5, TotalSame
<1> QED
  BY <1>4, <1>6, <1>7

(* A stage splits each block into two. *)
LEMMA FoldSplit ==
    ASSUME NEW q, Suitable(q), NEW z \in [Coeff -> Int], NEW s \in 0 .. LogN - 1,
           NEW b \in 0 .. 2 ^ s - 1, NEW o \in 0 .. 2 ^ (LogN - 1 - s) - 1, NEW e \in 0 .. 1
    PROVE  LET u == Twist(q, s + 1, 2 * b + e)
           IN  Cong(Fold(q, z, s + 1, 2 * b + e, o),
                    Fold(q, z, s, b, o) + u * Fold(q, z, s, b, 2 ^ (LogN - 1 - s) + o), q)
<1> DEFINE u == Twist(q, s + 1, 2 * b + e)
           t == Twist(q, s, b)
           M == 2 ^ (LogN - 1 - s)
           c == 2 ^ s
           f == FoldTerm(q, z, s + 1, 2 * b + e, o)
           g == FoldTerm(q, z, s, b, o)
           h == FoldTerm(q, z, s, b, M + o)
           odd == [k \in 0 .. c - 1 |-> f[2 * k + 1]]
           scaled == [k \in 0 .. c - 1 |-> u * h[k]]
<1>1. /\ s \in Nat /\ s \in 0 .. LogN /\ s + 1 \in 0 .. LogN /\ LogN - s = (LogN - 1 - s) + 1
      /\ LogN - (s + 1) = LogN - 1 - s /\ LogN - 1 - s \in Nat
  BY LogNAssumption
<1>2. /\ c \in Nat \ {0} /\ M \in Nat \ {0} /\ 2 ^ (s + 1) = 2 * c /\ 2 ^ (LogN - s) = 2 * M
      /\ 2 ^ (LogN - (s + 1)) = M
  BY <1>1, TwoPower
<1>3. b \in Nat /\ 2 * b + e \in Nat /\ o \in Nat
  BY <1>2
<1>4. q \in Nat \ {0, 1} /\ q \in Int /\ u \in 0 .. q - 1 /\ u \in Nat
  BY <1>1, <1>3, SuitableModulus, TwistNatural
<1>5. t \in 0 .. q - 1 /\ t \in Nat /\ modulus_power(u, 2, q) = t
  BY <1>1, <1>3, TwistNatural, TwistFacts
<1>6. /\ \A k \in 0 .. 2 * c - 1 :
           /\ k * M + o \in Coeff
           /\ modulus_power(u, k, q) \in 0 .. q - 1
           /\ f[k] = z[k * M + o] * modulus_power(u, k, q)
      /\ Summands(f, 2 * c) /\ Fold(q, z, s + 1, 2 * b + e, o) = Total(f, 2 * c)
  <2>1. o \in 0 .. 2 ^ (LogN - (s + 1)) - 1
    BY <1>1
  <2> DEFINE d == 2 * b + e
             n == s + 1
  <2>2. n \in 0 .. LogN /\ d \in Nat /\ o \in 0 .. 2 ^ (LogN - n) - 1
    BY <1>1, <1>3, <2>1
  <2> HIDE DEF d, n
  <2>3. /\ \A k \in 0 .. 2 ^ n - 1 :
                /\ k * 2 ^ (LogN - n) + o \in Coeff
                /\ modulus_power(Twist(q, n, d), k, q) \in 0 .. q - 1
                /\ FoldTerm(q, z, n, d, o)[k] =
                     z[k * 2 ^ (LogN - n) + o] * modulus_power(Twist(q, n, d), k, q)
        /\ Summands(FoldTerm(q, z, n, d, o), 2 ^ n)
    BY <2>2, FoldInteger
  <2>4. 2 ^ n = 2 * c /\ 2 ^ (LogN - n) = M
    BY <1>2 DEF n
  <2>5. Twist(q, n, d) = u /\ FoldTerm(q, z, n, d, o) = f
    BY DEF n, d
  <2>6. Fold(q, z, s + 1, 2 * b + e, o) = Total(f, 2 * c)
    BY <2>4 DEF Fold, n
  <2> HIDE DEF f, u, M, c
  <2> QED
    BY <2>3, <2>4, <2>5, <2>6
<1>7. /\ \A k \in 0 .. c - 1 :
           /\ k * (2 * M) + o \in Coeff
           /\ modulus_power(t, k, q) \in 0 .. q - 1
           /\ g[k] = z[k * (2 * M) + o] * modulus_power(t, k, q)
      /\ Summands(g, c) /\ Fold(q, z, s, b, o) = Total(g, c)
  <2>1. o \in 0 .. 2 ^ (LogN - s) - 1
    BY <1>2
  <2> QED
    BY <1>1, <1>2, <1>3, <2>1, FoldInteger DEF Fold
<1>8. /\ \A k \in 0 .. c - 1 :
           /\ k * (2 * M) + (M + o) \in Coeff
           /\ h[k] = z[k * (2 * M) + (M + o)] * modulus_power(t, k, q)
      /\ Summands(h, c) /\ Fold(q, z, s, b, M + o) = Total(h, c)
  <2>1. M + o \in 0 .. 2 ^ (LogN - s) - 1
    BY <1>2
  <2> QED
    BY <1>1, <1>2, <1>3, <2>1, FoldInteger DEF Fold
<1> HIDE DEF f, g, h, M, c, t, u
<1>9. ASSUME NEW k \in 0 .. c - 1
      PROVE  /\ g[k] = f[2 * k]
             /\ Cong(odd[k], scaled[k], q) /\ scaled[k] = u * h[k] /\ odd[k] = f[2 * k + 1]
             /\ odd[k] \in Int /\ scaled[k] \in Int
  <2>1. k \in Nat /\ 2 * k \in 0 .. 2 * c - 1 /\ 2 * k + 1 \in 0 .. 2 * c - 1 /\ 2 * k \in Nat
    BY <1>2
  <2>2. (2 * k) * M + o = k * (2 * M) + o /\ (2 * k + 1) * M + o = k * (2 * M) + (M + o)
    BY <1>2, <1>3, <2>1
  <2>3. modulus_power(u, 2 * k, q) = modulus_power(t, k, q)
    <3>1. 2 \in Nat
      OBVIOUS
    <3> QED
      BY <1>4, <1>5, <2>1, <3>1, PowerPower
  <2>4. g[k] = f[2 * k]
    BY <1>6, <1>7, <2>1, <2>2, <2>3
  <2> DEFINE p == modulus_power(t, k, q)
             v == modulus_power(u, 2 * k + 1, q)
             a == z[k * (2 * M) + (M + o)]
  <2>5. v = (p * u) % q /\ p \in 0 .. q - 1
    BY <1>4, <1>7, <2>1, <2>3, PowerStep
  <2>6. f[2 * k + 1] = a * v /\ h[k] = a * p
    BY <1>6, <1>8, <2>1, <2>2
  <2>7. a \in Int
    BY <1>8
  <2>8. scaled[k] = u * h[k] /\ odd[k] = f[2 * k + 1]
    OBVIOUS
  <2> HIDE DEF p, v, a, scaled, odd
  <2>9. p \in Int /\ u \in Int /\ p * u \in Int
    BY <1>4, <2>5
  <2>10. Cong(v, p * u, q) /\ v \in Int
    BY <1>4, <2>5, <2>9, RemainderFacts
  <2>11. Cong(a * v, a * (p * u), q)
    BY <1>4, <2>7, <2>9, <2>10, CongProduct
  <2>12. a * (p * u) = u * (a * p) /\ a * v \in Int /\ u * (a * p) \in Int
    BY <2>7, <2>9, <2>10
  <2> QED
    BY <2>4, <2>6, <2>8, <2>11, <2>12
<1> HIDE DEF odd, scaled
<1>10. Summands(odd, c) /\ Summands(scaled, c) /\ c \in Nat /\ u \in Int
  BY <1>2, <1>4, <1>9 DEF Summands
<1>11. Total(f, 2 * c) = Total(g, c) + Total(odd, c)
  <2>1. \A k \in 0 .. c - 1 : g[k] = f[2 * k] /\ odd[k] = f[2 * k + 1]
    BY <1>9
  <2> QED
    BY <1>6, <1>10, <2>1, TotalPairs
<1>12. Cong(Total(odd, c), Total(scaled, c), q)
  BY <1>2, <1>4, <1>9, <1>10, TotalCong
<1>13. Total(scaled, c) = u * Total(h, c)
  <2>1. \A k \in 0 .. c - 1 : scaled[k] = u * h[k]
    BY <1>9
  <2> QED
    BY <1>8, <1>10, <2>1, TotalScale
<1>14. Total(g, c) \in Int /\ Total(odd, c) \in Int /\ Total(scaled, c) \in Int
  <2>1. c \in Nat /\ c \in 0 .. c
    BY <1>2
  <2> QED
    BY <1>7, <1>10, <2>1, TotalStep
<1>15. Cong(Total(g, c) + Total(odd, c), Total(g, c) + Total(scaled, c), q)
  <2>1. Cong(Total(g, c), Total(g, c), q)
    BY <1>4, <1>14, CongRules
  <2> QED
    BY <1>4, <1>12, <1>14, <2>1, CongSum
<1>16. Cong(Fold(q, z, s + 1, 2 * b + e, o), Fold(q, z, s, b, o) + u * Fold(q, z, s, b, M + o), q)
  BY <1>6, <1>7, <1>8, <1>11, <1>13, <1>15
<1> QED
  BY <1>16 DEF u, M

(* The butterfly, on exact integers: the second block has the negated root. *)
LEMMA FoldStep ==
    ASSUME NEW q, Suitable(q), NEW z \in [Coeff -> Int], NEW s \in 0 .. LogN - 1,
           NEW b \in 0 .. 2 ^ s - 1, NEW o \in 0 .. 2 ^ (LogN - 1 - s) - 1
    PROVE  LET w == StageRoot(q, s, b)
               x == Fold(q, z, s, b, o)
               y == Fold(q, z, s, b, 2 ^ (LogN - 1 - s) + o)
           IN  /\ x \in Int /\ y \in Int /\ w \in 0 .. q - 1
               /\ Fold(q, z, s + 1, 2 * b, o) \in Int /\ Fold(q, z, s + 1, 2 * b + 1, o) \in Int
               /\ Cong(Fold(q, z, s + 1, 2 * b, o), x + w * y, q)
               /\ Cong(Fold(q, z, s + 1, 2 * b + 1, o), x - w * y, q)
<1> DEFINE w == StageRoot(q, s, b)
           x == Fold(q, z, s, b, o)
           y == Fold(q, z, s, b, 2 ^ (LogN - 1 - s) + o)
           v == Twist(q, s + 1, 2 * b + 1)
           first == Fold(q, z, s + 1, 2 * b, o)
           second == Fold(q, z, s + 1, 2 * b + 1, o)
<1>1. /\ s \in Nat /\ s \in 0 .. LogN /\ s + 1 \in 0 .. LogN /\ LogN - s = (LogN - 1 - s) + 1
      /\ LogN - (s + 1) = LogN - 1 - s /\ LogN - 1 - s \in Nat
  BY LogNAssumption
<1>2. /\ 2 ^ s \in Nat \ {0} /\ 2 ^ (LogN - 1 - s) \in Nat \ {0} /\ 2 ^ (LogN - s) = 2 * 2 ^ (LogN - 1 - s)
  BY <1>1, TwoPower
<1>3. b \in Nat /\ 2 * b + 0 = 2 * b /\ 2 * b \in Nat /\ 2 * b + 1 \in Nat /\ 0 \in 0 .. 1 /\ 1 \in 0 .. 1
  BY <1>2
<1>4. q \in Int /\ w \in 0 .. q - 1 /\ w \in Int /\ Twist(q, s + 1, 2 * b) = w /\ v \in 0 .. q - 1 /\ v \in Int /\ Cong(v, - w, q)
  <2>1. q \in Int
    BY SuitableModulus
  <2>2. w \in 0 .. q - 1 /\ Twist(q, s + 1, 2 * b) = w /\ v \in 0 .. q - 1 /\ Cong(v, - w, q)
    BY TwistFacts
  <2> HIDE DEF w, v
  <2> QED
    BY <2>1, <2>2
<1>5. x \in Int /\ y \in Int
  <2>1. o \in 0 .. 2 ^ (LogN - s) - 1 /\ 2 ^ (LogN - 1 - s) + o \in 0 .. 2 ^ (LogN - s) - 1
    BY <1>2
  <2> QED
    BY <1>1, <1>3, <2>1, FoldInteger
<1>6. first \in Int /\ second \in Int
  <2>1. o \in 0 .. 2 ^ (LogN - (s + 1)) - 1
    BY <1>1
  <2> QED
    BY <1>1, <1>3, <2>1, FoldInteger
<1>7. Cong(first, x + w * y, q)
  <2>1. Cong(Fold(q, z, s + 1, 2 * b + 0, o), x + Twist(q, s + 1, 2 * b + 0) * y, q)
    BY <1>3, FoldSplit
  <2> QED
    BY <1>3, <1>4, <2>1
<1>8. Cong(second, x + v * y, q)
  BY <1>3, FoldSplit
<1> HIDE DEF x, y, w, v, first, second
<1>9. Cong(second, x - w * y, q)
  <2> DEFINE m == - w
  <2>1. m \in Int /\ m * y = - (w * y) /\ Cong(v, m, q)
    BY <1>4, <1>5
  <2> HIDE DEF m
  <2>2. Cong(v * y, m * y, q) /\ v * y \in Int /\ m * y \in Int /\ w * y \in Int
    BY <1>4, <1>5, <2>1, CongProduct
  <2>3. Cong(x, x, q)
    BY <1>4, <1>5, CongRules
  <2>4. Cong(x + v * y, x + m * y, q)
    BY <1>4, <1>5, <2>2, <2>3, CongSum
  <2>5. x + m * y = x - w * y /\ x + v * y \in Int /\ x + m * y \in Int
    BY <1>5, <2>1, <2>2
  <2>6. Cong(second, x + m * y, q)
    BY <1>4, <1>6, <1>8, <2>4, <2>5, CongTransitive
  <2> QED
    BY <2>5, <2>6
<1> QED
  BY <1>4, <1>5, <1>6, <1>7, <1>9 DEF x, y, w, first, second

-----------------------------------------------------------------------------
(* Powers of 1. *)
LEMMA PowerOne ==
    ASSUME NEW q \in Nat \ {0, 1}, NEW n \in Nat
    PROVE  modulus_power(1, n, q) = 1
<1> DEFINE S == {i \in 0 .. n : modulus_power(1, i, q) = 1}
           one == 1
<1>0. one \in Nat /\ one = 1
  OBVIOUS
<1>1. 0 \in S
  <2>1. modulus_power(one, 0, q) = 1
    BY <1>0, PowerStep
  <2> QED
    BY <2>1
<1>2. ASSUME NEW i \in 0 .. n, i + 1 =< n, i \in S
      PROVE  i + 1 \in S
  <2>1. i \in Nat /\ i + 1 \in 0 .. n /\ modulus_power(one, i, q) = 1
    BY <1>2
  <2> HIDE DEF one
  <2>2. modulus_power(one, i + 1, q) = (1 * one) % q
    BY <1>0, <2>1, PowerStep
  <2>3. 1 * one = (q * 0) + 1 /\ 1 \in 0 .. q - 1 /\ q \in Nat \ {0} /\ 0 \in Int
    BY <1>0
  <2>4. ((q * 0) + 1) % q = 1
    BY <2>3, DivModUnique
  <2> QED
    BY <2>1, <2>2, <2>3, <2>4 DEF one
<1> HIDE DEF S
<1>3. /\ 0 \in Int /\ n \in Int
      /\ \A i \in 0 .. n : i + 1 =< n /\ i \in S => i + 1 \in S
  BY <1>2
<1>4. \A i \in 0 .. n : i \in S
  BY <1>1, <1>3, Upward, Zenon
<1>5. n \in S
  BY <1>4
<1> QED
  BY <1>5 DEF S

(* The slots are at roots of X^N + 1. *)
LEMMA SlotRootPower ==
    ASSUME NEW q, Suitable(q), NEW b \in Coeff
    PROVE  Cong(modulus_power(SlotRoot(b, q), N, q), -1, q)
<1> DEFINE g == find_root(q)
           v == reverse_integer_bits(b, LogN)
           h == modulus_power(g, N, q)
           x == modulus_power(SlotRoot(b, q), N, q)
<1>1. g \in Nat /\ Cong(h, -1, q) /\ modulus_power(g, 2 * N, q) = 1
  BY RootFound
<1>2. q \in Nat \ {0, 1} /\ q \in Int /\ N \in Nat \ {0} /\ N \in Nat /\ 2 * N \in Nat
  BY SuitableModulus, CoeffCount
<1>3. v \in Nat
  <2>1. b \in Nat
    BY DEF Coeff
  <2> QED
    BY <2>1, ReverseNatural
<1>4. SlotRoot(b, q) = modulus_power(g, 2 * v + 1, q)
  BY DEF SlotRoot
<1> HIDE DEF v, g
<1>5. 2 * v + 1 \in Nat /\ (2 * v + 1) * N = (2 * N) * v + N /\ (2 * N) * v \in Nat
  BY <1>2, <1>3
<1>6. x = modulus_power(g, (2 * N) * v + N, q)
  <2>1. modulus_power(modulus_power(g, 2 * v + 1, q), N, q) = modulus_power(g, (2 * v + 1) * N, q)
    BY <1>1, <1>2, <1>5, PowerPower
  <2> QED
    BY <1>4, <1>5, <2>1
<1>7. modulus_power(g, (2 * N) * v, q) = 1
  <2>1. modulus_power(modulus_power(g, 2 * N, q), v, q) = modulus_power(g, (2 * N) * v, q)
    BY <1>1, <1>2, <1>3, PowerPower
  <2> QED
    BY <1>1, <1>2, <1>3, <2>1, PowerOne
<1>8. Cong(x, 1 * h, q)
  <2>1. Cong(modulus_power(g, (2 * N) * v + N, q), modulus_power(g, (2 * N) * v, q) * h, q)
    BY <1>1, <1>2, <1>5, PowerSum
  <2> QED
    BY <1>6, <1>7, <2>1
<1>9. h \in Int /\ x \in Int
  <2>1. h \in 0 .. q - 1
    BY <1>1, <1>2, PowerStep
  <2>2. (2 * N) * v + N \in Nat
    BY <1>2, <1>5
  <2>3. x \in 0 .. q - 1
    BY <1>1, <1>2, <1>6, <2>2, PowerStep
  <2> HIDE DEF h, x
  <2> QED
    BY <2>1, <2>3
<1> HIDE DEF h, x
<1> DEFINE m == -1
<1>10. m \in Int /\ 1 * h = h /\ Cong(h, m, q)
  BY <1>1, <1>9
<1> HIDE DEF m
<1>11. Cong(x, m, q)
  BY <1>2, <1>8, <1>9, <1>10, CongTransitive
<1> QED
  BY <1>11 DEF x, m

-----------------------------------------------------------------------------
(***************************************************************************)
(* NegacyclicProduct, at a root of X^N + 1.                                *)
(***************************************************************************)
ProductTerm(x, y, i, j) == IF j =< i THEN x[j] * y[i - j] ELSE - (x[j] * y[i - j + N])

(* The product is a sum of integer products. *)
LEMMA ProductInteger ==
    ASSUME NEW x \in [Coeff -> Int], NEW y \in [Coeff -> Int]
    PROVE  /\ \A i \in Coeff, j \in Coeff : ProductTerm(x, y, i, j) \in Int
           /\ \A i \in Coeff :
                LET f == [j \in Coeff |-> ProductTerm(x, y, i, j)]
                IN  Summands(f, N) /\ NegacyclicProduct(x, y)[i] = Total(f, N)
           /\ NegacyclicProduct(x, y) \in [Coeff -> Int]
<1>0. N \in Nat \ {0} /\ N \in 0 .. N /\ N \in Nat
  BY CoeffCount
<1>1. ASSUME NEW i \in Coeff, NEW j \in Coeff
      PROVE  ProductTerm(x, y, i, j) \in Int
  <2>1. i \in 0 .. N - 1 /\ j \in 0 .. N - 1 /\ x[j] \in Int
    BY DEF Coeff
  <2>2. CASE j =< i
    <3>1. i - j \in Coeff
      BY <1>0, <2>1, <2>2 DEF Coeff
    <3>2. y[i - j] \in Int
      BY <3>1
    <3>3. x[j] * y[i - j] \in Int
      BY <2>1, <3>2
    <3> QED
      BY <2>2, <3>3 DEF ProductTerm
  <2>3. CASE ~(j =< i)
    <3>1. i - j + N \in Coeff
      BY <1>0, <2>1, <2>3 DEF Coeff
    <3>2. y[i - j + N] \in Int
      BY <3>1
    <3>3. - (x[j] * y[i - j + N]) \in Int
      BY <2>1, <3>2
    <3> QED
      BY <2>3, <3>3 DEF ProductTerm
  <2> QED
    BY <2>2, <2>3
<1>2. ASSUME NEW i \in Coeff
      PROVE  LET f == [j \in Coeff |-> ProductTerm(x, y, i, j)]
             IN  Summands(f, N) /\ NegacyclicProduct(x, y)[i] = Total(f, N) /\ Total(f, N) \in Int
  <2> DEFINE f == [j \in Coeff |-> ProductTerm(x, y, i, j)]
  <2>1. NegacyclicProduct(x, y)[i] = Total(f, N)
    BY DEF NegacyclicProduct, ProductTerm
  <2>2. Summands(f, N)
    BY <1>1 DEF Summands, Coeff
  <2> HIDE DEF f
  <2>3. Total(f, N) \in Int
    BY <1>0, <2>2, TotalStep
  <2> QED
    BY <2>1, <2>2, <2>3 DEF f
<1>3. NegacyclicProduct(x, y) \in [Coeff -> Int]
  <2>1. \A i \in Coeff : NegacyclicProduct(x, y)[i] \in Int
    BY <1>2
  <2>2. NegacyclicProduct(x, y) = [i \in Coeff |-> NegacyclicProduct(x, y)[i]]
    BY DEF NegacyclicProduct
  <2> QED
    BY <2>1, <2>2
<1> QED
  BY <1>1, <1>2, <1>3

(* A coefficient of x contributes x[j] * r^j times the value of y. *)
LEMMA ProductColumn ==
    ASSUME NEW q, Suitable(q), NEW x \in [Coeff -> Int], NEW y \in [Coeff -> Int],
           NEW r \in Nat, Cong(modulus_power(r, N, q), -1, q),
           NEW j \in Coeff, NEW f,
           \A i \in Coeff : f[i] = ProductTerm(x, y, i, j) * modulus_power(r, i, q)
    PROVE  /\ Summands(f, N) /\ Total(f, N) \in Int
           /\ Cong(Total(f, N), (x[j] * modulus_power(r, j, q)) * Evaluation(y, r, q), q)
<1> DEFINE p(i) == modulus_power(r, i, q)
           c == x[j] * p(j)
           h == [k \in Coeff |-> y[k] * p(k)]
           upper == [k \in 0 .. N - j - 1 |-> f[j + k]]
           scaled == [k \in 0 .. N - j - 1 |-> c * h[k]]
           rest == [i \in 0 .. j - 1 |-> h[(N - j) + i]]
           wrapped == [i \in 0 .. j - 1 |-> c * rest[i]]
<1>1. N \in Nat \ {0} /\ N \in Nat /\ q \in Int /\ q \in Nat \ {0, 1} /\ j \in 0 .. N - 1 /\ j \in Nat
      /\ N - j \in Nat /\ j + (N - j) = N /\ (N - j) + j = N
  BY CoeffCount, SuitableModulus DEF Coeff
<1>2. \A i \in Nat : p(i) \in 0 .. q - 1 /\ p(i) \in Int
  <2> TAKE i \in Nat
  <2>1. p(i) \in 0 .. q - 1
    BY <1>1, PowerStep
  <2> HIDE DEF p
  <2> QED
    BY <2>1
<1>3. \A m, n \in Nat : Cong(p(m + n), p(m) * p(n), q)
  BY <1>1, PowerSum
<1>4. Cong(p(N), -1, q)
  OBVIOUS
<1> HIDE DEF p
<1>5. c \in Int /\ x[j] \in Int
  <2>1. x[j] \in Int /\ p(j) \in Int
    BY <1>1, <1>2
  <2> QED
    BY <2>1
<1>6. \A k \in Coeff : h[k] = y[k] * p(k) /\ h[k] \in Int /\ y[k] \in Int
  <2> TAKE k \in Coeff
  <2>1. k \in Nat
    BY DEF Coeff
  <2>2. y[k] \in Int /\ p(k) \in Int
    BY <1>2, <2>1
  <2>3. h[k] = y[k] * p(k)
    OBVIOUS
  <2> HIDE DEF h
  <2> QED
    BY <2>2, <2>3
<1>7. Summands(h, N) /\ Evaluation(y, r, q) = Total(h, N)
  BY <1>6 DEF Summands, Coeff, Evaluation, p
<1>8. \A i \in Coeff : f[i] = ProductTerm(x, y, i, j) * p(i) /\ f[i] \in Int
  <2> TAKE i \in Coeff
  <2>1. i \in Nat
    BY DEF Coeff
  <2>2. ProductTerm(x, y, i, j) \in Int /\ p(i) \in Int
    BY <1>2, <2>1, ProductInteger
  <2>3. f[i] = ProductTerm(x, y, i, j) * p(i)
    BY DEF p
  <2> QED
    BY <2>2, <2>3
<1>9. Summands(f, N)
  BY <1>8 DEF Summands, Coeff
<1>10. ASSUME NEW k \in 0 .. N - j - 1
       PROVE  Cong(upper[k], scaled[k], q) /\ upper[k] = f[j + k] /\ scaled[k] = c * h[k]
              /\ scaled[k] \in Int /\ upper[k] \in Int
  <2>1. k \in Nat /\ k \in Coeff /\ j + k \in Coeff /\ j =< j + k /\ (j + k) - j = k
    BY <1>1 DEF Coeff
  <2>2. f[j + k] = (x[j] * y[k]) * p(j + k)
    BY <1>8, <2>1 DEF ProductTerm
  <2>3. h[k] = y[k] * p(k) /\ y[k] \in Int /\ p(k) \in Int /\ p(j) \in Int /\ p(j + k) \in Int
    <3>1. j + k \in Nat
      BY <1>1, <2>1
    <3> QED
      BY <1>1, <1>2, <1>6, <2>1, <3>1
  <2>4. Cong(p(j + k), p(j) * p(k), q)
    BY <1>1, <1>3, <2>1
  <2>5. upper[k] = f[j + k] /\ scaled[k] = c * h[k]
    OBVIOUS
  <2> DEFINE a == x[j]
             d == y[k]
             u == p(j + k)
             v == p(j)
             w == p(k)
  <2>6. a \in Int /\ d \in Int /\ u \in Int /\ v \in Int /\ w \in Int /\ Cong(u, v * w, q)
        /\ upper[k] = (a * d) * u /\ scaled[k] = (a * v) * (d * w)
    BY <1>5, <2>2, <2>3, <2>4, <2>5
  <2> HIDE DEF a, d, u, v, w, upper, scaled, c, h
  <2>7. a * d \in Int /\ v * w \in Int
    BY <2>6
  <2>8. Cong((a * d) * u, (a * d) * (v * w), q)
    BY <1>1, <2>6, <2>7, CongProduct
  <2>9. (a * d) * (v * w) = (a * v) * (d * w) /\ (a * d) * u \in Int /\ (a * v) * (d * w) \in Int
    BY <2>6
  <2> QED
    BY <2>5, <2>6, <2>8, <2>9
<1>11. ASSUME NEW i \in 0 .. j - 1
       PROVE  /\ Cong(f[i], wrapped[i], q) /\ rest[i] = h[(N - j) + i] /\ wrapped[i] = c * rest[i]
              /\ wrapped[i] \in Int /\ f[i] \in Int
  <2> DEFINE k == (N - j) + i
  <2>1. i \in Nat /\ i \in Coeff /\ k \in Coeff /\ k \in Nat /\ ~(j =< i) /\ i - j + N = k
        /\ j + k = N + i /\ j \in Nat
    BY <1>1 DEF Coeff
  <2>2. f[i] = (- (x[j] * y[k])) * p(i)
    BY <1>8, <2>1 DEF ProductTerm
  <2>3. rest[i] = h[(N - j) + i] /\ wrapped[i] = c * rest[i]
    OBVIOUS
  <2>4. h[k] = y[k] * p(k) /\ y[k] \in Int
    BY <1>6, <2>1
  <2>5. p(k) \in Int /\ p(j) \in Int /\ p(i) \in Int /\ p(N) \in Int /\ p(N + i) \in Int
    <3>1. N + i \in Nat
      BY <1>1, <2>1
    <3> QED
      BY <1>1, <1>2, <2>1, <3>1
  <2>6. Cong(p(N + i), p(j) * p(k), q) /\ Cong(p(N + i), p(N) * p(i), q)
    <3>1. Cong(p(j + k), p(j) * p(k), q)
      BY <1>3, <2>1
    <3> QED
      BY <1>1, <1>3, <2>1, <3>1
  <2> DEFINE a == x[j]
             d == y[k]
             t == p(i)
             v == p(j)
             w == p(k)
             u == p(N + i)
             n == p(N)
             m == -1
  <2>7. /\ a \in Int /\ d \in Int /\ t \in Int /\ v \in Int /\ w \in Int /\ u \in Int /\ n \in Int /\ m \in Int
        /\ Cong(u, v * w, q) /\ Cong(u, n * t, q) /\ Cong(n, m, q)
        /\ f[i] = (- (a * d)) * t /\ wrapped[i] = (a * v) * (d * w) /\ m = -1
    BY <1>4, <1>5, <2>2, <2>3, <2>4, <2>5, <2>6
  <2> HIDE DEF a, d, t, v, w, u, n, m, k, rest, wrapped, c, h
  <2>8. Cong(n * t, m * t, q) /\ v * w \in Int /\ n * t \in Int /\ m * t \in Int /\ a * d \in Int
    <3>1. Cong(n * t, m * t, q)
      BY <1>1, <2>7, CongProduct
    <3> QED
      BY <2>7, <3>1
  <2>9. Cong(v * w, u, q)
    BY <1>1, <2>7, <2>8, CongRules
  <2>10. Cong(u, m * t, q)
    BY <1>1, <2>7, <2>8, CongTransitive
  <2>11. Cong(v * w, m * t, q)
    BY <1>1, <2>7, <2>8, <2>9, <2>10, CongTransitive
  <2>12. Cong(m * t, v * w, q)
    BY <1>1, <2>8, <2>11, CongRules
  <2>13. Cong((a * d) * (m * t), (a * d) * (v * w), q)
    BY <1>1, <2>8, <2>12, CongProduct
  <2>14. (a * d) * (m * t) = (- (a * d)) * t
    <3>1. m * t = - t /\ (a * d) * (- t) = (- (a * d)) * t
      BY <2>7, <2>8
    <3> QED
      BY <3>1
  <2>15. (a * d) * (v * w) = (a * v) * (d * w) /\ (a * v) * (d * w) \in Int
    BY <2>7
  <2>16. i \in Coeff
    BY <2>1
  <2> QED
    BY <1>8, <2>3, <2>7, <2>13, <2>14, <2>15, <2>16
<1> HIDE DEF c, h, upper, scaled, rest, wrapped
<1>12. Summands(upper, N - j) /\ Summands(scaled, N - j) /\ Summands(wrapped, j)
  BY <1>10, <1>11 DEF Summands
<1>13. Summands(f, j) /\ Total(f, N) = Total(f, j) + Total(upper, N - j)
  <2>1. \A k \in 0 .. (N - j) - 1 : upper[k] = f[j + k]
    BY <1>10
  <2> DEFINE n == N - j
  <2>2. n \in Nat /\ j + n = N /\ Summands(f, j + n) /\ \A k \in 0 .. n - 1 : upper[k] = f[j + k]
    BY <1>1, <1>9, <2>1
  <2> HIDE DEF n
  <2>3. Summands(f, j) /\ Total(f, j + n) = Total(f, j) + Total(upper, n)
    BY <1>1, <2>2, TotalJoin
  <2> QED
    BY <2>2, <2>3 DEF n
<1>14. Summands(h, N - j) /\ Summands(rest, j) /\ Total(h, N) = Total(h, N - j) + Total(rest, j)
  <2> DEFINE n == N - j
  <2>2. n \in Nat /\ n + j = N /\ Summands(h, n + j) /\ \A k \in 0 .. j - 1 : rest[k] = h[n + k]
    BY <1>1, <1>7, <1>11
  <2> HIDE DEF n
  <2>3. Summands(h, n) /\ Summands(rest, j) /\ Total(h, n + j) = Total(h, n) + Total(rest, j)
    BY <1>1, <2>2, TotalJoin
  <2> QED
    BY <2>2, <2>3 DEF n
<1>15. Cong(Total(upper, N - j), Total(scaled, N - j), q) /\ Cong(Total(f, j), Total(wrapped, j), q)
  <2>1. Cong(Total(upper, N - j), Total(scaled, N - j), q)
    <3> DEFINE n == N - j
    <3>1. n \in Nat /\ Summands(upper, n) /\ Summands(scaled, n)
          /\ \A k \in 0 .. n - 1 : Cong(upper[k], scaled[k], q)
      BY <1>1, <1>10, <1>12
    <3> HIDE DEF n
    <3>2. Cong(Total(upper, n), Total(scaled, n), q)
      BY <1>1, <3>1, TotalCong
    <3> QED
      BY <3>2 DEF n
  <2>2. Cong(Total(f, j), Total(wrapped, j), q)
    BY <1>1, <1>11, <1>12, <1>13, TotalCong
  <2> QED
    BY <2>1, <2>2
<1>16. Total(scaled, N - j) = c * Total(h, N - j) /\ Total(wrapped, j) = c * Total(rest, j)
  <2>1. Total(scaled, N - j) = c * Total(h, N - j)
    <3> DEFINE n == N - j
    <3>1. n \in Nat /\ Summands(h, n) /\ \A k \in 0 .. n - 1 : scaled[k] = c * h[k]
      BY <1>1, <1>10, <1>14
    <3> HIDE DEF n
    <3>2. Total(scaled, n) = c * Total(h, n)
      BY <1>5, <3>1, TotalScale
    <3> QED
      BY <3>2 DEF n
  <2>2. \A i \in 0 .. j - 1 : wrapped[i] = c * rest[i]
    BY <1>11
  <2>3. Total(wrapped, j) = c * Total(rest, j)
    BY <1>1, <1>5, <1>14, <2>2, TotalScale
  <2> QED
    BY <2>1, <2>3
<1>17. /\ Total(upper, N - j) \in Int /\ Total(f, j) \in Int /\ Total(scaled, N - j) \in Int
       /\ Total(wrapped, j) \in Int /\ Total(h, N - j) \in Int /\ Total(rest, j) \in Int
  <2> DEFINE n == N - j
  <2>1. n \in Nat /\ n \in 0 .. n /\ j \in 0 .. j /\ Summands(upper, n) /\ Summands(scaled, n) /\ Summands(h, n)
    BY <1>1, <1>12, <1>14
  <2> HIDE DEF n
  <2>2. Total(upper, n) \in Int /\ Total(scaled, n) \in Int /\ Total(h, n) \in Int
    BY <2>1, TotalStep
  <2>3. Total(f, j) \in Int /\ Total(wrapped, j) \in Int /\ Total(rest, j) \in Int
    BY <1>1, <1>12, <1>13, <1>14, <2>1, TotalStep
  <2> QED
    BY <2>2, <2>3 DEF n
<1> DEFINE tu == Total(upper, N - j)
           tf == Total(f, j)
           ts == Total(scaled, N - j)
           tw == Total(wrapped, j)
           th == Total(h, N - j)
           tr == Total(rest, j)
<1>18. /\ tu \in Int /\ tf \in Int /\ ts \in Int /\ tw \in Int /\ th \in Int /\ tr \in Int
       /\ Cong(tu, ts, q) /\ Cong(tf, tw, q) /\ ts = c * th /\ tw = c * tr
       /\ Total(f, N) = tf + tu /\ Total(h, N) = th + tr
  BY <1>13, <1>14, <1>15, <1>16, <1>17
<1> HIDE DEF tu, tf, ts, tw, th, tr
<1>19. Cong(tf + tu, tw + ts, q)
  BY <1>1, <1>18, CongSum
<1>20. tw + ts = c * (th + tr)
  BY <1>5, <1>18
<1>21. c * Total(h, N) = (x[j] * modulus_power(r, j, q)) * Evaluation(y, r, q)
  BY <1>7 DEF c, p
<1> QED
  BY <1>9, <1>18, <1>19, <1>20, <1>21

(* The value of the product is the product of the values. *)
LEMMA Convolution ==
    ASSUME NEW q, Suitable(q), NEW x \in [Coeff -> Int], NEW y \in [Coeff -> Int],
           NEW r \in Nat, Cong(modulus_power(r, N, q), -1, q)
    PROVE  Cong(Evaluation(NegacyclicProduct(x, y), r, q),
                Evaluation(x, r, q) * Evaluation(y, r, q), q)
<1> DEFINE p(i) == modulus_power(r, i, q)
           z == NegacyclicProduct(x, y)
           row == [i \in Coeff |-> [j \in Coeff |-> ProductTerm(x, y, i, j) * p(i)]]
           column == [j \in Coeff |-> [i \in Coeff |-> ProductTerm(x, y, i, j) * p(i)]]
           rows == [i \in Coeff |-> z[i] * p(i)]
           columns == [j \in Coeff |-> Total(column[j], N)]
           ex == [j \in Coeff |-> x[j] * p(j)]
           ey == Evaluation(y, r, q)
           scaled == [j \in Coeff |-> ey * ex[j]]
<1>1. N \in Nat \ {0} /\ N \in Nat /\ q \in Int /\ q \in Nat \ {0, 1} /\ Coeff = 0 .. N - 1 /\ N \in 0 .. N
  BY CoeffCount, SuitableModulus DEF Coeff
<1>2. \A i \in Coeff : p(i) \in 0 .. q - 1 /\ p(i) \in Int
  <2> TAKE i \in Coeff
  <2>1. p(i) \in 0 .. q - 1
    <3>1. i \in Nat
      BY <1>1
    <3> QED
      BY <1>1, <3>1, PowerStep
  <2> HIDE DEF p
  <2> QED
    BY <2>1
<1>3. z \in [Coeff -> Int] /\ \A i, j \in Coeff : ProductTerm(x, y, i, j) \in Int
  BY ProductInteger
<1>4. ey \in Int
  BY ValueIsEvaluation
<1>5. Evaluation(z, r, q) = Total(rows, N) /\ Evaluation(x, r, q) = Total(ex, N)
  BY DEF Evaluation
<1> HIDE DEF z, ey
<1>6. ASSUME NEW i \in Coeff
      PROVE  Summands(row[i], N) /\ rows[i] = Total(row[i], N)
  <2> DEFINE f == [j \in Coeff |-> ProductTerm(x, y, i, j)]
             g == row[i]
             c == p(i)
  <2>1. Summands(f, N) /\ z[i] = Total(f, N)
    BY ProductInteger DEF z
  <2>2. c \in Int /\ z[i] \in Int
    BY <1>2, <1>3
  <2>3. \A j \in 0 .. N - 1 : g[j] = c * f[j]
    <3> TAKE j \in 0 .. N - 1
    <3>1. ProductTerm(x, y, i, j) \in Int /\ j \in Coeff
      BY <1>1, <1>3
    <3>2. g[j] = ProductTerm(x, y, i, j) * c /\ f[j] = ProductTerm(x, y, i, j)
      BY <3>1
    <3> HIDE DEF c, g, f
    <3> QED
      BY <2>2, <3>1, <3>2
  <2>4. rows[i] = z[i] * c
    OBVIOUS
  <2> HIDE DEF f, g, c, rows
  <2>5. Summands(g, N) /\ Total(g, N) = c * Total(f, N)
    <3>1. N \in Nat /\ c \in Int /\ Summands(f, N)
      BY <1>1, <2>1, <2>2
    <3> QED
      BY <2>3, <3>1, TotalScale
  <2>6. z[i] * c = c * z[i]
    BY <2>2
  <2>7. rows[i] = Total(g, N)
    BY <2>1, <2>4, <2>5, <2>6
  <2> QED
    BY <2>5, <2>7 DEF g
<1>7. ASSUME NEW j \in Coeff
      PROVE  /\ columns[j] = Total(column[j], N) /\ columns[j] \in Int
             /\ Cong(columns[j], scaled[j], q) /\ scaled[j] = ey * ex[j] /\ ex[j] \in Int
             /\ scaled[j] \in Int
  <2> DEFINE f == column[j]
             c == x[j] * p(j)
  <2>1. \A i \in Coeff : f[i] = ProductTerm(x, y, i, j) * modulus_power(r, i, q)
    OBVIOUS
  <2>2. c \in Int
    <3>1. x[j] \in Int /\ p(j) \in Int
      BY <1>2
    <3> HIDE DEF p
    <3> QED
      BY <3>1
  <2>3. columns[j] = Total(column[j], N) /\ scaled[j] = ey * ex[j] /\ ex[j] = c
    OBVIOUS
  <2> HIDE DEF f
  <2>4. Total(f, N) \in Int /\ Cong(Total(f, N), c * ey, q)
    BY <2>1, ProductColumn DEF ey
  <2> HIDE DEF c
  <2>5. c * ey = ey * c /\ ey * c \in Int
    BY <1>4, <2>2
  <2>6. columns[j] = Total(f, N)
    BY DEF f
  <2> HIDE DEF columns, scaled, ex, column
  <2> QED
    BY <2>2, <2>3, <2>4, <2>5, <2>6
<1>8. \A i, j \in Coeff : column[j][i] = row[i][j]
  OBVIOUS
<1> HIDE DEF p, row, column, rows, columns, ex, scaled
<1>9. Total(rows, N) = Total(columns, N)
  <2>1. SumsOf(N, N, row, rows, column, columns)
    BY <1>1, <1>6, <1>7, <1>8 DEF SumsOf
  <2>2. N \in Nat
    BY <1>1
  <2> QED
    BY <2>1, <2>2, TotalSwap
<1>10. Summands(columns, N) /\ Summands(scaled, N) /\ Summands(ex, N)
  BY <1>1, <1>7 DEF Summands
<1>11. Cong(Total(columns, N), Total(scaled, N), q)
  BY <1>1, <1>7, <1>10, TotalCong
<1>12. Total(scaled, N) = ey * Total(ex, N)
  <2>1. \A j \in 0 .. N - 1 : scaled[j] = ey * ex[j]
    BY <1>1, <1>7
  <2> QED
    BY <1>1, <1>4, <1>10, <2>1, TotalScale
<1>13. Total(ex, N) \in Int
  BY <1>1, <1>10, TotalStep
<1>14. ey * Total(ex, N) = Total(ex, N) * ey
  BY <1>4, <1>13
<1>15. Cong(Evaluation(z, r, q), Evaluation(x, r, q) * ey, q)
  BY <1>5, <1>9, <1>11, <1>12, <1>14
<1> QED
  BY <1>15 DEF z, ey

-----------------------------------------------------------------------------
(***************************************************************************)
(* The tables of CKKSDerivedParameters.                                    *)
(***************************************************************************)
(* A table entry stands for the residue x: it is x's Montgomery form.      *)
Entry(e, x, q) == e \in Int /\ e >= 0 /\ 4 * e =< 5 * q /\ Cong(e, x * R, q)

(* mont_enter of a residue makes a table entry. *)
LEMMA Entered ==
    ASSUME NEW q, Suitable(q), NEW x \in 0 .. q - 1
    PROVE  /\ Entry(mont_mult_scalar(x, r_squared(q), q, calculate_k(q)), x, q)
           /\ r_squared(q) \in 0 .. q - 1 /\ Cong(r_squared(q), R * R, q)
<1> DEFINE c == r_squared(q)
           k == calculate_k(q)
           e == mont_mult_scalar(x, c, q, k)
<1>1. /\ q \in Nat \ {0, 1} /\ q \in Int /\ R \in Nat \ {0} /\ R \in Int /\ Valid(q, k)
      /\ Coprime(R, q) /\ 4 * q < R /\ x \in Int /\ R * R \in Int
  <2>1. q \in Nat \ {0, 1} /\ q \in Int /\ R \in Nat \ {0} /\ R \in Int /\ Valid(q, k) /\ Coprime(R, q)
    BY SuitableModulus
  <2> HIDE DEF k
  <2> QED
    BY <2>1 DEF Suitable
<1>2. c = (R * R) % q
  <2>1. ~(R * R < 0)
    BY <1>1
  <2>2. c = modulus_multiply(R, R, q)
    BY DEF r_squared
  <2> HIDE DEF c
  <2>3. modulus_multiply(R, R, q) = (R * R) % q
    BY <2>1, Zenon DEF modulus_multiply
  <2> QED
    BY <2>2, <2>3
<1>3. c \in 0 .. q - 1 /\ Cong(c, R * R, q)
  BY <1>1, <1>2, RemainderFacts
<1> HIDE DEF c, k
<1>4. e \in Int /\ Cong(e, x * R, q)
  <2>1. - (2 * R) =< x /\ x =< 2 * R /\ c \in Int /\ - q =< c /\ c =< q
    BY <1>1, <1>3
  <2> QED
    BY <1>1, <1>3, <2>1, MontMultCong
<1>5. 0 =< 16 * e /\ 16 * e =< 20 * q
  <2>1. 16 * x =< 4 * R /\ - (0 * R) =< 16 * x /\ 0 \in 0 .. 64 /\ 4 \in 0 .. 64 /\ c \in Int /\ - q =< c /\ c =< q /\ c >= 0
    BY <1>1, <1>3
  <2>2. - (0 * q) =< 16 * e /\ 16 * e =< (4 + 16) * q
    BY <1>1, <2>1, MontMultRange
  <2> HIDE DEF e
  <2> QED
    BY <1>1, <1>4, <2>2
<1>6. e >= 0 /\ 4 * e =< 5 * q
  <2> HIDE DEF e
  <2> QED
    BY <1>1, <1>4, <1>5
<1> QED
  BY <1>3, <1>4, <1>6 DEF Entry, c, k

-----------------------------------------------------------------------------
(* Block b of stage s and its place in the tables. *)
LEMMA TablePlace ==
    ASSUME NEW s \in 0 .. LogN - 1, NEW b \in 0 .. 2 ^ s - 1
    PROVE  /\ 2 ^ s - 1 + b \in 0 .. N - 2
           /\ N - 2 ^ (s + 1) + b \in 0 .. N - 2
           /\ 2 ^ s + b \in Nat /\ 2 ^ s + b < N /\ s \in Nat /\ s + 1 \in 0 .. LogN
<1>1. s \in Nat /\ s + 1 \in 0 .. LogN /\ 0 \in 0 .. 1
  BY LogNAssumption
<1>2. 2 ^ s + b \in Nat /\ 2 ^ s + b < N
  BY <1>1, NextExponent
<1>3. 2 ^ s \in Nat \ {0} /\ 2 ^ (s + 1) = 2 * 2 ^ s /\ N \in Nat
  BY <1>1, TwoPower, CoeffCount
<1>4. N >= 2 ^ (s + 1)
  <2> DEFINE p == 2 ^ (s + 1)
             r == 2 ^ (LogN - (s + 1))
  <2>1. p \in Nat \ {0} /\ r \in Nat \ {0} /\ p * r = N
    <3> DEFINE m == s + 1
    <3>1. m \in 0 .. LogN
      BY <1>1
    <3> HIDE DEF m
    <3>2. 2 ^ m \in Nat \ {0} /\ 2 ^ (LogN - m) \in Nat \ {0} /\ 2 ^ m * 2 ^ (LogN - m) = N
      BY <3>1, CoeffCount
    <3> QED
      BY <3>2 DEF m
  <2> HIDE DEF p, r
  <2>2. p * r >= p
    BY <2>1
  <2> QED
    BY <2>1, <2>2 DEF p
<1> QED
  BY <1>1, <1>2, <1>3, <1>4

(***************************************************************************)
(* get_backward_paint: the stages one after the other, the last one first. *)
(***************************************************************************)
PaintStage(log) == [i \in 1 .. 2 ^ log |-> 2 ^ log + i - 1]

Painting(paint, count) ==
    paint[0] = <<>> /\ \A n \in 1 .. count : paint[n] = PaintStage(n - 1) \o paint[n - 1]

(* A stage paints 2^s places. *)
LEMMA PaintStageSequence ==
    ASSUME NEW s \in Nat
    PROVE  PaintStage(s) \in Seq(Int) /\ Len(PaintStage(s)) = 2 ^ s
<1>1. 2 ^ s \in Nat
  BY TwoPower
<1> DEFINE p == 2 ^ s
<1>2. p \in Nat
  BY <1>1
<1>3. PaintStage(s) = [i \in 1 .. p |-> p + i - 1]
  BY DEF PaintStage
<1> HIDE DEF p
<1>4. [i \in 1 .. p |-> p + i - 1] \in [1 .. p -> Int]
  BY <1>2
<1>5. [i \in 1 .. p |-> p + i - 1] \in Seq(Int)
  BY <1>2, <1>4
<1>6. Len([i \in 1 .. p |-> p + i - 1]) = p
  BY <1>2, <1>5
<1> QED
  BY <1>3, <1>5, <1>6 DEF p

SequenceSolvable(V, count, first, step) ==
    \E f \in [0 .. count -> V] :
      f[0] = first /\ \A n \in 1 .. count : f[n] = step[<<f[n - 1], n>>]

(* RecursionExists, for any kind of values. *)
LEMMA SequenceExists ==
    ASSUME NEW V, NEW count \in Nat, NEW first \in V,
           NEW step \in [V \X (1 .. count) -> V]
    PROVE  SequenceSolvable(V, count, first, step)
<1> DEFINE Solves(f, k) == /\ f \in [0 .. k -> V] /\ f[0] = first
                           /\ \A n \in 1 .. k : f[n] = step[<<f[n - 1], n>>]
           S == {k \in 0 .. count : \E f : Solves(f, k)}
<1>1. 0 \in S
  <2> DEFINE f == [n \in 0 .. 0 |-> first]
  <2>1. Solves(f, 0)
    OBVIOUS
  <2>2. 0 \in 0 .. count
    OBVIOUS
  <2> HIDE DEF f, Solves
  <2> QED
    BY <2>1, <2>2
<1>2. ASSUME NEW k \in 0 .. count, k + 1 =< count, k \in S
      PROVE  k + 1 \in S
  <2>1. PICK f : Solves(f, k)
    BY <1>2
  <2> DEFINE g == [n \in 0 .. k + 1 |-> IF n = k + 1 THEN step[<<f[k], k + 1>>] ELSE f[n]]
  <2>2. f[k] \in V /\ k + 1 \in 1 .. count
    BY <1>2, <2>1
  <2>3. step[<<f[k], k + 1>>] \in V
    BY <2>2
  <2>4. g \in [0 .. k + 1 -> V]
    <3>1. ASSUME NEW n \in 0 .. k + 1
          PROVE  g[n] \in V
      <4>1. n \in 0 .. k \/ n = k + 1
        OBVIOUS
      <4> QED
        BY <2>1, <2>3, <4>1
    <3> QED
      BY <3>1
  <2>5. ASSUME NEW n \in 1 .. k + 1
        PROVE  g[n] = step[<<g[n - 1], n>>]
    <3>1. n - 1 \in 0 .. k + 1 /\ n - 1 # k + 1 /\ g[n - 1] = f[n - 1]
      OBVIOUS
    <3>2. CASE n = k + 1
      BY <3>1, <3>2
    <3>3. CASE n # k + 1
      <4>1. n \in 1 .. k
        BY <3>3
      <4>2. f[n] = step[<<f[n - 1], n>>]
        BY <2>1, <4>1
      <4> QED
        BY <3>1, <3>3, <4>2
    <3> QED
      BY <3>2, <3>3
  <2>6. g[0] = first
    BY <2>1
  <2> HIDE DEF g
  <2>7. Solves(g, k + 1)
    BY <2>4, <2>5, <2>6
  <2>8. k + 1 \in 0 .. count
    BY <1>2
  <2> QED
    BY <2>7, <2>8
<1> HIDE DEF S
<1>3. count \in S
  BY <1>1, <1>2, Upward
<1>4. PICK f : Solves(f, count)
  BY <1>3 DEF S
<1> QED
  BY <1>4 DEF SequenceSolvable

(* The recursion of get_backward_paint. *)
LEMMA PaintExists ==
    \E f \in [0 .. LogN -> Seq(Int)] : Painting(f, LogN) /\ f[LogN] = get_backward_paint
<1> DEFINE V == Seq(Int)
           step == [p \in V \X (1 .. LogN) |-> PaintStage(p[2] - 1) \o p[1]]
           first == <<>>
           stage(log) == [i \in 1 .. 2 ^ log |-> 2 ^ log + i - 1]
           Paints(g) == g = [log \in -1 .. LogN - 1 |->
                               IF log = -1 THEN <<>> ELSE stage(log) \o g[log - 1]]
           paint == CHOOSE g : Paints(g)
<1>0. LogN \in Nat /\ \A n \in 1 .. LogN : n - 1 \in Nat /\ n - 1 \in 0 .. LogN
  BY LogNAssumption
<1>1. first \in V /\ step \in [V \X (1 .. LogN) -> V]
  <2>1. ASSUME NEW p \in V \X (1 .. LogN)
        PROVE  PaintStage(p[2] - 1) \o p[1] \in V
    <3>1. p[2] - 1 \in Nat /\ p[1] \in Seq(Int)
      BY <1>0
    <3>2. PaintStage(p[2] - 1) \in Seq(Int)
      BY <3>1, PaintStageSequence
    <3> HIDE DEF step
    <3> QED
      BY <3>1, <3>2
  <2> QED
    BY <2>1
<1>2. PICK f \in [0 .. LogN -> V] :
        f[0] = first /\ \A n \in 1 .. LogN : f[n] = step[<<f[n - 1], n>>]
  <2> HIDE DEF V, step, first
  <2>1. SequenceSolvable(V, LogN, first, step)
    BY <1>0, <1>1, SequenceExists
  <2> QED
    BY <2>1 DEF SequenceSolvable
<1>3. f[0] = <<>> /\ \A n \in 1 .. LogN : f[n] = PaintStage(n - 1) \o f[n - 1]
  <2>1. ASSUME NEW n \in 1 .. LogN
        PROVE  f[n] = PaintStage(n - 1) \o f[n - 1]
    <3>1. n - 1 \in 0 .. LogN
      BY <1>0
    <3>2. f[n - 1] \in V /\ f[n] = step[<<f[n - 1], n>>]
      BY <1>2, <3>1
    <3> DEFINE y == f[n - 1]
    <3>3. <<y, n>> \in V \X (1 .. LogN)
      BY <3>2
    <3> HIDE DEF y, V
    <3>4. step[<<y, n>>] = PaintStage(n - 1) \o y
      BY <3>3
    <3> QED
      BY <3>2, <3>4 DEF y
  <2> QED
    BY <1>2, <2>1
<1> DEFINE h == [log \in -1 .. LogN - 1 |-> f[log + 1]]
<1>4. Paints(h)
  <2>1. ASSUME NEW log \in -1 .. LogN - 1
        PROVE  f[log + 1] = IF log = -1 THEN <<>> ELSE stage(log) \o h[log - 1]
    <3>1. CASE log = -1
      BY <1>3, <3>1
    <3>2. CASE log # -1
      <4>1. log + 1 \in 1 .. LogN /\ (log + 1) - 1 = log /\ log - 1 \in -1 .. LogN - 1 /\ (log - 1) + 1 = log
        BY <1>0, <3>2
      <4>2. f[log + 1] = PaintStage(log) \o f[log]
        BY <1>3, <4>1
      <4>3. h[log - 1] = f[log]
        BY <4>1
      <4> QED
        BY <3>2, <4>2, <4>3 DEF PaintStage
    <3> QED
      BY <3>1, <3>2
  <2> QED
    BY <2>1
<1>5. Paints(paint)
  <2> HIDE DEF Paints
  <2> QED
    BY <1>4
<1>6. get_backward_paint = paint[LogN - 1]
  BY DEF get_backward_paint
<1> HIDE DEF paint
<1>7. \A log \in -1 .. LogN - 1 :
        paint[log] = IF log = -1 THEN <<>> ELSE stage(log) \o paint[log - 1]
  BY <1>5, Zenon
<1>8. \A n \in 0 .. LogN : f[n] = paint[n - 1]
  <2> DEFINE S == {n \in 0 .. LogN : f[n] = paint[n - 1]}
  <2>1. 0 \in S
    <3>1. -1 \in -1 .. LogN - 1 /\ 0 - 1 = -1 /\ 0 \in 0 .. LogN
      BY <1>0
    <3>2. paint[-1] = <<>>
      BY <1>7, <3>1
    <3> QED
      BY <1>3, <3>1, <3>2
  <2>2. ASSUME NEW n \in 0 .. LogN, n + 1 =< LogN, n \in S
        PROVE  n + 1 \in S
    <3>1. n + 1 \in 1 .. LogN /\ (n + 1) - 1 = n /\ n \in -1 .. LogN - 1 /\ n # -1 /\ n + 1 \in 0 .. LogN
      BY <1>0, <2>2
    <3>2. f[n + 1] = PaintStage(n) \o f[n]
      BY <1>3, <3>1
    <3>3. paint[n] = stage(n) \o paint[n - 1]
      BY <1>7, <3>1
    <3>4. f[n] = paint[n - 1]
      BY <2>2
    <3>5. f[n + 1] = paint[n]
      BY <3>2, <3>3, <3>4 DEF PaintStage
    <3> QED
      BY <3>1, <3>5
  <2> HIDE DEF S
  <2>3. /\ 0 \in Int /\ LogN \in Int
        /\ \A n \in 0 .. LogN : n + 1 =< LogN /\ n \in S => n + 1 \in S
    BY <1>0, <2>2
  <2>4. \A n \in 0 .. LogN : n \in S
    BY <2>1, <2>3, Upward, Zenon
  <2> QED
    BY <2>4 DEF S
<1>9. f[LogN] = get_backward_paint
  BY <1>0, <1>6, <1>8
<1>10. Painting(f, LogN)
  BY <1>3 DEF Painting
<1> QED
  BY <1>9, <1>10

-----------------------------------------------------------------------------
(* Powers of two are ordered as their exponents. *)
LEMMA TwoPowerOrder ==
    ASSUME NEW m \in Nat, NEW n \in Nat, m =< n
    PROVE  2 ^ m =< 2 ^ n
<1> DEFINE d == n - m
<1>1. d \in Nat /\ m + d = n
  OBVIOUS
<1> HIDE DEF d
<1>2. 2 ^ (m + d) = 2 ^ m * 2 ^ d /\ 2 ^ m \in Nat \ {0} /\ 2 ^ d \in Nat \ {0}
  BY <1>1, TwoPower, TwoPowerSum
<1> DEFINE p == 2 ^ m
           r == 2 ^ d
<1>3. p \in Nat \ {0} /\ r \in Nat \ {0} /\ 2 ^ n = p * r
  BY <1>1, <1>2
<1> HIDE DEF p, r
<1>4. p * r >= p
  BY <1>3
<1> QED
  BY <1>3, <1>4 DEF p

(* What has been painted after n stages. *)
Painted(x, n) ==
    /\ x \in Seq(Int) /\ Len(x) = 2 ^ n - 1
    /\ \A s \in 0 .. n - 1 : \A b \in 0 .. 2 ^ s - 1 :
         x[2 ^ n - 2 ^ (s + 1) + b + 1] = 2 ^ s + b

(* The stage that is painted next comes first. *)
LEMMA PaintedStep ==
    ASSUME NEW n \in Nat, NEW x, Painted(x, n)
    PROVE  Painted(PaintStage(n) \o x, n + 1)
<1> DEFINE p == 2 ^ n
           y == PaintStage(n)
           z == y \o x
<1>1. p \in Nat \ {0} /\ 2 ^ (n + 1) = 2 * p
  BY TwoPower
<1>2. y \in Seq(Int) /\ Len(y) = p /\ \A i \in 1 .. p : y[i] = p + i - 1
  BY PaintStageSequence DEF PaintStage
<1>3. x \in Seq(Int) /\ Len(x) = p - 1
  BY DEF Painted
<1>4. \A s \in 0 .. n - 1 : \A b \in 0 .. 2 ^ s - 1 : x[p - 2 ^ (s + 1) + b + 1] = 2 ^ s + b
  BY DEF Painted
<1> HIDE DEF y
<1>5. z \in Seq(Int) /\ Len(z) = 2 * p - 1
  <2> HIDE DEF p
  <2> QED
    BY <1>1, <1>2, <1>3
<1>6. (\A i \in 1 .. p : z[i] = y[i]) /\ (\A i \in 1 .. p - 1 : z[p + i] = x[i])
  <2> HIDE DEF p
  <2>1. ASSUME NEW i \in 1 .. p
        PROVE  z[i] = y[i]
    <3>1. i \in 1 .. Len(y) + Len(x) /\ i =< Len(y)
      BY <1>1, <1>2, <1>3
    <3> QED
      BY <1>2, <1>3, <3>1
  <2>2. ASSUME NEW i \in 1 .. p - 1
        PROVE  z[p + i] = x[i]
    <3> DEFINE j == p + i
    <3>1. j \in 1 .. Len(y) + Len(x) /\ ~(j =< Len(y)) /\ j - Len(y) = i
      BY <1>1, <1>2, <1>3
    <3> HIDE DEF j
    <3>2. z[j] = x[j - Len(y)]
      BY <1>2, <1>3, <3>1, ConcatProperties
    <3> QED
      BY <3>1, <3>2 DEF j
  <2> QED
    BY <2>1, <2>2
<1> HIDE DEF z
<1>7. ASSUME NEW s \in 0 .. n, NEW b \in 0 .. 2 ^ s - 1
      PROVE  z[2 ^ (n + 1) - 2 ^ (s + 1) + b + 1] = 2 ^ s + b
  <2>1. s \in Nat /\ s + 1 \in Nat /\ 2 ^ s \in Nat \ {0} /\ 2 ^ (s + 1) = 2 * 2 ^ s
    BY TwoPower
  <2> DEFINE u == 2 ^ s
  <2>2. u \in Nat \ {0} /\ b \in 0 .. u - 1 /\ 2 ^ (s + 1) = 2 * u
    BY <2>1
  <2>3. CASE s = n
    <3>1. u = p
      BY <2>3
    <3> HIDE DEF u, p
    <3>2. 2 ^ (n + 1) - 2 ^ (s + 1) + b + 1 = b + 1 /\ b + 1 \in 1 .. p
      BY <1>1, <2>2, <3>1
    <3>3. z[b + 1] = p + b
      <4>1. y[b + 1] = p + (b + 1) - 1
        BY <1>2, <3>2
      <4>2. p + (b + 1) - 1 = p + b
        BY <1>1, <2>2
      <4> QED
        BY <1>6, <3>2, <4>1, <4>2
    <3>4. z[b + 1] = u + b
      BY <3>1, <3>3
    <3> QED
      BY <3>2, <3>4 DEF u
  <2>4. CASE s # n
    <3>1. s \in 0 .. n - 1 /\ s + 1 =< n
      BY <2>4
    <3>2. 2 * u =< p
      BY <2>1, <3>1, TwoPowerOrder
    <3>3. x[p - 2 ^ (s + 1) + b + 1] = u + b
      BY <1>4, <3>1
    <3> HIDE DEF u, p
    <3> DEFINE i == p - 2 ^ (s + 1) + b + 1
    <3>4. i \in 1 .. p - 1 /\ 2 ^ (n + 1) - 2 ^ (s + 1) + b + 1 = p + i
      BY <1>1, <2>2, <3>2
    <3>5. x[i] = u + b
      BY <3>3
    <3> HIDE DEF i
    <3>6. z[p + i] = u + b
      BY <1>6, <3>4, <3>5
    <3> QED
      BY <3>4, <3>6 DEF u
  <2> QED
    BY <2>3, <2>4
<1>8. (n + 1) - 1 = n
  OBVIOUS
<1>9. Len(z) = 2 ^ (n + 1) - 1
  BY <1>1, <1>5
<1> DEFINE m == n + 1
<1>10. \A s \in 0 .. m - 1 : \A b \in 0 .. 2 ^ s - 1 : z[2 ^ m - 2 ^ (s + 1) + b + 1] = 2 ^ s + b
  <2> TAKE s \in 0 .. m - 1
  <2> TAKE b \in 0 .. 2 ^ s - 1
  <2>1. s \in 0 .. n
    BY <1>8
  <2> QED
    BY <1>7, <2>1
<1>11. z \in Seq(Int) /\ Len(z) = 2 ^ m - 1
  BY <1>5, <1>9
<1> HIDE DEF m
<1>12. Painted(z, m)
  BY <1>10, <1>11 DEF Painted
<1> QED
  BY <1>12 DEF z, y, m

(* Where stage s has painted block b. *)
LEMMA PaintFound ==
    ASSUME NEW s \in 0 .. LogN - 1, NEW b \in 0 .. 2 ^ s - 1
    PROVE  get_backward_paint[N - 2 ^ (s + 1) + b + 1] = 2 ^ s + b
<1>1. PICK f \in [0 .. LogN -> Seq(Int)] : Painting(f, LogN) /\ f[LogN] = get_backward_paint
  BY PaintExists
<1> DEFINE S == {n \in 0 .. LogN : Painted(f[n], n)}
<1>2. 0 \in S
  <2> DEFINE zero == 0
             empty == f[0]
  <2>1. empty = <<>> /\ zero = 0 /\ 2 ^ zero = 1 /\ f[zero] = empty
    BY <1>1, TwoPower DEF Painting
  <2>2. empty \in Seq(Int) /\ Len(empty) = 2 ^ zero - 1 /\ 0 .. zero - 1 = {}
    BY <2>1
  <2>3. zero \in 0 .. LogN
    BY LogNAssumption
  <2> HIDE DEF empty, zero
  <2>4. Painted(empty, zero)
    BY <2>2 DEF Painted
  <2> QED
    BY <2>1, <2>3, <2>4
<1>3. ASSUME NEW n \in 0 .. LogN, n + 1 =< LogN, n \in S
      PROVE  n + 1 \in S
  <2>1. n \in Nat /\ n + 1 \in 1 .. LogN /\ n + 1 \in 0 .. LogN /\ (n + 1) - 1 = n
    BY <1>3, LogNAssumption
  <2>2. f[n + 1] = PaintStage(n) \o f[n]
    BY <1>1, <2>1 DEF Painting
  <2>3. Painted(f[n], n)
    BY <1>3
  <2>4. Painted(f[n + 1], n + 1)
    BY <2>1, <2>2, <2>3, PaintedStep
  <2> QED
    BY <2>1, <2>4
<1> HIDE DEF S
<1>4. /\ 0 \in Int /\ LogN \in Int
      /\ \A n \in 0 .. LogN : n + 1 =< LogN /\ n \in S => n + 1 \in S
  BY <1>3, LogNAssumption
<1>5. \A n \in 0 .. LogN : n \in S
  BY <1>2, <1>4, Upward, Zenon
<1>6. Painted(get_backward_paint, LogN)
  <2>1. LogN \in 0 .. LogN
    BY LogNAssumption
  <2>2. LogN \in S
    BY <1>5, <2>1
  <2> QED
    BY <1>1, <2>2 DEF S
<1> HIDE DEF S
<1> QED
  BY <1>6 DEF Painted, N

-----------------------------------------------------------------------------
(* Powers of inverses are inverses. *)
LEMMA PowerInverse ==
    ASSUME NEW q \in Nat \ {0, 1}, NEW x \in Nat, NEW y \in Nat, Cong(x * y, 1, q), NEW n \in Nat
    PROVE  Cong(modulus_power(x, n, q) * modulus_power(y, n, q), 1, q)
<1> DEFINE u(i) == modulus_power(x, i, q)
           v(i) == modulus_power(y, i, q)
           S == {i \in 0 .. n : Cong(u(i) * v(i), 1, q)}
<1>0. q \in Int /\ u(0) = 1 /\ v(0) = 1
  <2>1. modulus_power(x, 0, q) = 1 /\ modulus_power(y, 0, q) = 1
    BY PowerStep, Zenon
  <2> QED
    BY <2>1
<1>1. \A i \in Nat : /\ u(i) \in 0 .. q - 1 /\ u(i + 1) = (u(i) * x) % q
                     /\ v(i) \in 0 .. q - 1 /\ v(i + 1) = (v(i) * y) % q
  BY PowerStep
<1> HIDE DEF u, v
<1>2. 0 \in S
  <2>1. 1 * 1 = 1 /\ Cong(1, 1, q)
    BY <1>0, CongRules
  <2> QED
    BY <1>0, <2>1
<1>3. ASSUME NEW i \in 0 .. n, i + 1 =< n, i \in S
      PROVE  i + 1 \in S
  <2> DEFINE a == u(i)
             b == v(i)
             c == u(i + 1)
             d == v(i + 1)
  <2>1. i \in Nat /\ i + 1 \in 0 .. n /\ i + 1 \in Nat
    BY <1>3
  <2>2. a \in 0 .. q - 1 /\ b \in 0 .. q - 1 /\ c = (a * x) % q /\ d = (b * y) % q
    BY <1>1, <2>1
  <2>3. c \in 0 .. q - 1 /\ d \in 0 .. q - 1
    BY <1>1, <2>1
  <2>4. Cong(a * b, 1, q)
    BY <1>3
  <2> HIDE DEF a, b, c, d
  <2>5. a \in Int /\ b \in Int /\ c \in Int /\ d \in Int /\ a * x \in Int /\ b * y \in Int
    BY <2>2, <2>3
  <2>6. Cong(c, a * x, q) /\ Cong(d, b * y, q)
    BY <2>2, <2>5, RemainderFacts
  <2>7. Cong(c * d, (a * x) * (b * y), q)
    BY <1>0, <2>5, <2>6, CongProducts
  <2>8. Cong((a * b) * (x * y), 1 * 1, q)
    <3> DEFINE e == a * b
               f == x * y
    <3>1. e \in Int /\ f \in Int /\ Cong(e, 1, q) /\ Cong(f, 1, q) /\ 1 \in Int
      BY <2>4, <2>5
    <3> HIDE DEF e, f
    <3>2. Cong(e * f, 1 * 1, q)
      BY <1>0, <3>1, CongProducts
    <3> QED
      BY <3>2 DEF e, f
  <2>9. (a * x) * (b * y) = (a * b) * (x * y) /\ 1 * 1 = 1 /\ (a * b) * (x * y) \in Int /\ c * d \in Int
    BY <2>5
  <2>10. Cong(c * d, 1, q)
    <3> DEFINE e == (a * b) * (x * y)
               one == 1
    <3>1. e \in Int /\ one \in Int /\ Cong(c * d, e, q) /\ Cong(e, one, q) /\ c * d \in Int
      BY <2>7, <2>8, <2>9
    <3> HIDE DEF e, one
    <3>2. Cong(c * d, one, q)
      BY <1>0, <3>1, CongTransitive
    <3> QED
      BY <3>2 DEF one
  <2> QED
    BY <2>1, <2>10 DEF c, d
<1> HIDE DEF S
<1>4. /\ 0 \in Int /\ n \in Int
      /\ \A i \in 0 .. n : i + 1 =< n /\ i \in S => i + 1 \in S
  BY <1>3
<1>5. \A i \in 0 .. n : i \in S
  BY <1>2, <1>4, Upward, Zenon
<1>6. n \in S
  BY <1>5
<1> QED
  BY <1>6 DEF S, u, v

-----------------------------------------------------------------------------
(***************************************************************************)
(* What the kernels rely on of a modulus's parameters.                     *)
(***************************************************************************)
LEMMA ParameterScalars ==
    ASSUME NEW q, Suitable(q)
    PROVE  LET d == CKKSDerivedParameters(q)
           IN  /\ d.q = q /\ Valid(q, d.k)
               /\ d.r_squared \in 0 .. q - 1 /\ Cong(d.r_squared, R * R, q)
               /\ d.coeff_count_inverse \in 0 .. q - 1
               /\ \E v \in Int : Cong(d.coeff_count_inverse, v * R, q) /\ Cong(N * v, 1, q)
<1> DEFINE d == CKKSDerivedParameters(q)
           v == modulus_invert(N, q)
           c == modulus_multiply(v, R, q)
<1>1. d.q = q /\ d.k = calculate_k(q) /\ d.r_squared = r_squared(q) /\ d.coeff_count_inverse = c
  BY DEF CKKSDerivedParameters
<1>2. /\ q \in Nat \ {0, 1} /\ q \in Nat \ {0} /\ q \in Int /\ R \in Nat \ {0} /\ R \in Int
      /\ Coprime(N, q) /\ N \in 1 .. q - 1 /\ Valid(q, calculate_k(q))
  BY SuitableModulus
<1>3. N % q = N
  <2>1. N = (q * 0) + N /\ N \in 0 .. q - 1 /\ 0 \in Int
    BY <1>2
  <2>2. ((q * 0) + N) % q = N
    BY <1>2, <2>1, DivModUnique
  <2> QED
    BY <2>1, <2>2
<1>4. v \in 0 .. q - 1 /\ Cong(N * v, 1, q)
  <2>1. N \in Int
    BY <1>2
  <2> QED
    BY <1>2, <1>3, <2>1, InverseFound
<1> HIDE DEF v, d
<1>5. c = (v * R) % q /\ v * R \in Int /\ v \in Int
  <2>1. ~(v * R < 0) /\ v * R \in Int /\ v \in Int
    BY <1>2, <1>4
  <2>2. modulus_multiply(v, R, q) = (v * R) % q
    BY <2>1, Zenon DEF modulus_multiply
  <2> QED
    BY <2>1, <2>2
<1> HIDE DEF c
<1>6. c \in 0 .. q - 1 /\ Cong(c, v * R, q)
  BY <1>2, <1>5, RemainderFacts
<1>7. 0 \in 0 .. q - 1
  BY <1>2
<1>8. r_squared(q) \in 0 .. q - 1 /\ Cong(r_squared(q), R * R, q)
  BY <1>7, Entered
<1> QED
  BY <1>1, <1>2, <1>4, <1>5, <1>6, <1>8 DEF d

(* Both tables hold a stage's root, and its inverse, where the kernels look. *)
LEMMA ParameterTables ==
    ASSUME NEW q, Suitable(q), NEW s \in 0 .. LogN - 1, NEW b \in 0 .. 2 ^ s - 1
    PROVE  LET d == CKKSDerivedParameters(q)
               w == StageRoot(q, s, b)
           IN  /\ Entry(d.root[2 ^ s - 1 + b], w, q)
               /\ \E v \in 0 .. q - 1 :
                    /\ Entry(d.root_inverse[N - 2 ^ (s + 1) + b], v, q)
                    /\ Cong(v * w, 1, q)
<1> DEFINE d == CKKSDerivedParameters(q)
           w == StageRoot(q, s, b)
           g == find_root(q)
           y == modulus_invert(g, q)
           n == reverse_integer_bits(2 ^ s + b, LogN)
           entered(x) == mont_mult_scalar(x, r_squared(q), q, calculate_k(q))
           v == modulus_power(y, n, q)
           first == 2 ^ s - 1 + b
           second == N - 2 ^ (s + 1) + b
<1>1. first \in 0 .. N - 2 /\ second \in 0 .. N - 2 /\ 2 ^ s + b \in Nat
  BY TablePlace
<1>2. d.root[first] = entered(modulus_power(g, reverse_integer_bits(first + 1, LogN), q))
  BY <1>1 DEF CKKSDerivedParameters
<1>3. d.root_inverse[second] =
        entered(modulus_power(y, reverse_integer_bits(get_backward_paint[second + 1], LogN), q))
  BY <1>1 DEF CKKSDerivedParameters
<1>4. first + 1 = 2 ^ s + b
  <2>1. 2 ^ s \in Nat
    BY TwoPower
  <2>2. 2 ^ s \in Int /\ b \in Int
    BY <2>1
  <2> QED
    BY <2>2
<1>5. get_backward_paint[second + 1] = 2 ^ s + b
  BY PaintFound
<1>6. q \in Nat \ {0, 1} /\ q \in Nat \ {0} /\ q \in Int /\ g \in Nat /\ g \in 0 .. q - 1 /\ Coprime(g, q)
  BY SuitableModulus, RootFound
<1>7. y \in 0 .. q - 1 /\ Cong(g * y, 1, q)
  <2>1. g % q = g
    <3> HIDE DEF g
    <3>1. g = (q * 0) + g /\ 0 \in Int
      BY <1>6
    <3>2. ((q * 0) + g) % q = g
      BY <1>6, <3>1, DivModUnique
    <3> QED
      BY <3>1, <3>2
  <2> HIDE DEF g
  <2>2. g \in Int
    BY <1>6
  <2> QED
    BY <1>6, <2>1, <2>2, InverseFound
<1>8. n \in Nat
  BY <1>1, ReverseNatural
<1>9. w = modulus_power(g, n, q)
  BY DEF StageRoot
<1> HIDE DEF g, y, n, w, d, first, second
<1>10. y \in Nat /\ v \in 0 .. q - 1 /\ w \in 0 .. q - 1
  <2>1. y \in Nat
    BY <1>7
  <2> QED
    BY <1>6, <1>8, <1>9, <2>1, PowerStep
<1>11. Cong(w * v, 1, q)
  BY <1>6, <1>7, <1>8, <1>9, <1>10, PowerInverse
<1>12. w * v = v * w
  <2> HIDE DEF v
  <2>1. w \in Int /\ v \in Int
    BY <1>10
  <2> QED
    BY <2>1
<1>13. d.root[first] = entered(w) /\ d.root_inverse[second] = entered(v)
  <2>1. d.root[first] = entered(w)
    BY <1>2, <1>4, <1>9 DEF n
  <2>2. d.root_inverse[second] = entered(v)
    BY <1>3, <1>5 DEF n
  <2> QED
    BY <2>1, <2>2
<1> HIDE DEF v
<1>14. Entry(entered(w), w, q) /\ Entry(entered(v), v, q)
  BY <1>10, Entered
<1> HIDE DEF entered
<1>15. Entry(d.root[first], w, q) /\ Entry(d.root_inverse[second], v, q) /\ Cong(v * w, 1, q)
  BY <1>11, <1>12, <1>13, <1>14
<1> QED
  BY <1>10, <1>15 DEF d, w, first, second

-----------------------------------------------------------------------------
(***************************************************************************)
(* The butterflies, whose operands may be out of the lazy range by B.      *)
(***************************************************************************)
LEMMA StageProduct ==
    ASSUME NEW q, Suitable(q), NEW k, Valid(q, k), NEW root, NEW w \in Int, Entry(root, w, q),
           NEW B \in Nat, B =< q, NEW y \in Int, - B =< y, y =< 2 * q - 1 + B
    PROVE  LET m == mont_mult_scalar(root, y, q, k)
           IN  /\ m \in Int /\ Cong(m, w * y, q)
               /\ - (5 * B) =< 16 * m /\ 16 * m =< 26 * q + 5 * B
<1> DEFINE m == mont_mult_scalar(root, y, q, k)
           a == root * y
<1>1. /\ q \in Nat \ {0, 1} /\ q \in Int /\ R \in Nat \ {0} /\ R \in Int /\ Coprime(R, q)
      /\ 4 * q < R /\ R * q \in Nat /\ R * B \in Nat /\ q * B \in Nat
  <2>1. q \in Nat \ {0, 1} /\ q \in Int /\ R \in Nat \ {0} /\ R \in Int /\ Coprime(R, q)
    BY SuitableModulus
  <2>2. 4 * q < R
    BY DEF Suitable
  <2> QED
    BY <2>1, <2>2
<1>2. root \in Int /\ root >= 0 /\ 4 * root =< 5 * q /\ Cong(root, w * R, q)
  BY DEF Entry
<1>3. a \in Int
  BY <1>2
<1>4. - (5 * (q * B)) =< 4 * a /\ 4 * a =< 5 * (q * (2 * q + B))
  <2>1. 4 * root \in Nat /\ 2 * q + B \in Nat /\ y =< 2 * q + B
    BY <1>1, <1>2
  <2>2. y * (4 * root) =< (2 * q + B) * (4 * root)
    BY <2>1, Monotone
  <2>3. (4 * root) * (2 * q + B) =< (5 * q) * (2 * q + B)
    BY <1>1, <2>1, Monotone, <1>2
  <2>4. (- B) * (4 * root) =< y * (4 * root)
    BY <2>1, Monotone
  <2>5. (4 * root) * B =< (5 * q) * B
    BY <1>1, <2>1, Monotone, <1>2
  <2>6. /\ y * (4 * root) = 4 * a /\ (2 * q + B) * (4 * root) = (4 * root) * (2 * q + B)
        /\ (5 * q) * (2 * q + B) = 5 * (q * (2 * q + B))
        /\ (- B) * (4 * root) = - ((4 * root) * B) /\ (5 * q) * B = 5 * (q * B)
    BY <1>1, <1>2
  <2> HIDE DEF a
  <2> QED
    BY <1>1, <1>2, <1>3, <2>2, <2>3, <2>4, <2>5, <2>6
<1>5. 4 * (q * B) =< R * B /\ 4 * (q * (2 * q + B)) =< R * (2 * q + B)
  <2>1. (4 * q) * B =< R * B /\ (4 * q) * (2 * q + B) =< R * (2 * q + B)
    BY <1>1, Monotone
  <2>2. (4 * q) * B = 4 * (q * B) /\ (4 * q) * (2 * q + B) = 4 * (q * (2 * q + B))
    BY <1>1
  <2> QED
    BY <2>1, <2>2
<1>6. R * (2 * q + B) = 2 * (R * q) + R * B
  BY <1>1
<1>7. R * B =< R * q /\ 4 * (R * q) =< R * R
  <2>1. B * R =< q * R /\ (4 * q) * R =< R * R
    BY <1>1, Monotone
  <2> QED
    BY <1>1, <2>1
<1>8. q * (2 * q + B) \in Int /\ R * (2 * q + B) \in Int /\ R * R \in Int
  BY <1>1
<1>9. - (R * R) =< a /\ a =< R * R
  <2> HIDE DEF a
  <2> QED
    BY <1>1, <1>3, <1>4, <1>5, <1>6, <1>7, <1>8
<1>10. PICK t \in 0 .. R - 1 : m \in Int /\ R * m = a + t * q
  BY <1>2, <1>9, MontMultExact
<1> HIDE DEF m
<1>11. t * q \in Nat /\ t * q =< R * q
  BY <1>1, Monotone
<1>12. - (5 * B) =< 16 * m
  <2>1. R * (- (5 * B) - 1) < R * (16 * m)
    <3>1. R * (- (5 * B) - 1) = - (5 * (R * B)) - R /\ R * (16 * m) = 16 * (R * m) /\ R * m \in Int
      BY <1>1, <1>10
    <3> HIDE DEF a
    <3> QED
      BY <1>1, <1>3, <1>4, <1>5, <1>10, <1>11, <3>1
  <2>2. - (5 * B) - 1 < 16 * m
    BY <1>1, <1>10, <2>1, Cancel
  <2> QED
    BY <1>1, <1>10, <2>2
<1>13. 16 * m =< 26 * q + 5 * B
  <2>1. R * (16 * m) < R * (26 * q + 5 * B + 1)
    <3>1. R * (26 * q + 5 * B + 1) = 26 * (R * q) + 5 * (R * B) + R /\ R * (16 * m) = 16 * (R * m) /\ R * m \in Int
      BY <1>1, <1>10
    <3> HIDE DEF a
    <3> QED
      BY <1>1, <1>3, <1>4, <1>5, <1>6, <1>8, <1>10, <1>11, <3>1
  <2>2. 16 * m < 26 * q + 5 * B + 1
    BY <1>1, <1>10, <2>1, Cancel
  <2> QED
    BY <1>1, <1>10, <2>2
<1>14. Cong(m, w * y, q)
  <2>1. Cong(R * m, a, q) /\ R * m \in Int
    <3>1. R * m = a + q * t /\ t \in Int /\ R * m \in Int
      BY <1>1, <1>3, <1>10
    <3> QED
      BY <3>1 DEF Cong
  <2> DEFINE u == w * R
  <2>2. u \in Int /\ Cong(root, u, q)
    BY <1>1, <1>2
  <2>3. u * y = R * (w * y) /\ w * y \in Int /\ u * y \in Int
    BY <1>1
  <2> HIDE DEF u
  <2>4. Cong(root * y, u * y, q)
    BY <1>1, <1>2, <2>2, CongProduct
  <2>5. Cong(a, R * (w * y), q) /\ R * (w * y) \in Int
    BY <2>3, <2>4
  <2> DEFINE e == w * y
  <2>6. e \in Int /\ Cong(a, R * e, q) /\ R * e \in Int
    BY <2>3, <2>5
  <2> HIDE DEF e, a
  <2>7. Cong(R * m, R * e, q)
    BY <1>1, <1>3, <2>1, <2>6, CongTransitive
  <2>8. Cong(m, e, q)
    BY <1>1, <1>10, <2>6, <2>7, CoprimeCancel
  <2> QED
    BY <2>8 DEF e
<1> QED
  BY <1>10, <1>12, <1>13, <1>14 DEF m

(* A butterfly of ntt doubles how far values are out of the lazy range. *)
LEMMA NttRange ==
    ASSUME NEW q \in Nat, NEW B \in Nat, B =< q, NEW x \in Int, NEW m \in Int,
           - B =< x, x =< 2 * q - 1 + B, - (5 * B) =< 16 * m, 16 * m =< 26 * q + 5 * B
    PROVE  LET first == guard(x + m, 2 * q)
               second == guard(x + 2 * q - m, 2 * q)
           IN  /\ first \in Int /\ - (2 * B) =< first /\ first =< 2 * q - 1 + 2 * B
               /\ second \in Int /\ - (2 * B) =< second /\ second =< 2 * q - 1 + 2 * B
BY DEF guard

(* So does one of intt, before it multiplies. *)
LEMMA InttRange ==
    ASSUME NEW q \in Nat, NEW B \in Nat, B =< q, NEW x \in Int, NEW y \in Int,
           - B =< x, x =< 2 * q - 1, - B =< y, y =< 2 * q - 1
    PROVE  LET first == guard(x + y, 2 * q)
               second == guard(x + 2 * q - y, 2 * q)
           IN  /\ first \in Int /\ - (2 * B) =< first /\ first =< 2 * q - 1
               /\ second \in Int /\ - B =< second /\ second =< 2 * q - 1 + B
BY DEF guard

-----------------------------------------------------------------------------
(***************************************************************************)
(* The places of a butterfly of stage s: offset o of block b, and the      *)
(* coefficient a jump further.                                             *)
(***************************************************************************)
Place(s, b, o) == b * (2 * JumpSize(s)) + o

FoldAt(q, z, s, i) == Fold(q, z, s, i \div 2 ^ (LogN - s), i % 2 ^ (LogN - s))

(* The jump of a stage is half a block. *)
LEMMA JumpFacts ==
    ASSUME NEW s \in 0 .. LogN - 1
    PROVE  /\ JumpSize(s) \in Nat \ {0} /\ s \in Nat /\ s \in 0 .. LogN /\ s + 1 \in 0 .. LogN
           /\ 2 ^ s \in Nat \ {0} /\ 2 ^ (s + 1) = 2 * 2 ^ s
           /\ JumpSize(s) = 2 ^ (LogN - (s + 1)) /\ 2 * JumpSize(s) = 2 ^ (LogN - s)
           /\ 2 ^ s * (2 * JumpSize(s)) = N
<1>1. /\ s \in Nat /\ s \in 0 .. LogN /\ s + 1 \in 0 .. LogN /\ LogN - s = (LogN - 1 - s) + 1
      /\ LogN - (s + 1) = LogN - 1 - s /\ LogN - 1 - s \in Nat
  BY LogNAssumption
<1>2. /\ 2 ^ (LogN - 1 - s) \in Nat \ {0} /\ 2 ^ (LogN - s) = 2 * 2 ^ (LogN - 1 - s)
      /\ 2 ^ s \in Nat \ {0} /\ 2 ^ (s + 1) = 2 * 2 ^ s
  BY <1>1, TwoPower
<1>3. 2 ^ s * 2 ^ (LogN - s) = N
  BY <1>1, CoeffCount
<1> QED
  BY <1>1, <1>2, <1>3 DEF JumpSize

(* Both places of a butterfly, as the source and as the folds count them. *)
LEMMA PlaceFacts ==
    ASSUME NEW s \in 0 .. LogN - 1, NEW b \in 0 .. 2 ^ s - 1, NEW o \in 0 .. JumpSize(s) - 1
    PROVE  LET i == Place(s, b, o)
               M == JumpSize(s)
           IN  /\ i \in Coeff /\ i + M \in Coeff /\ (i + M) - M = i
               /\ Block(i, s) = b /\ Block(i + M, s) = b /\ Upper(i, s) /\ ~Upper(i + M, s)
               /\ \A q, z :
                    /\ FoldAt(q, z, s, i) = Fold(q, z, s, b, o)
                    /\ FoldAt(q, z, s, i + M) = Fold(q, z, s, b, M + o)
                    /\ FoldAt(q, z, s + 1, i) = Fold(q, z, s + 1, 2 * b, o)
                    /\ FoldAt(q, z, s + 1, i + M) = Fold(q, z, s + 1, 2 * b + 1, o)
<1> DEFINE i == Place(s, b, o)
           M == JumpSize(s)
           p == 2 ^ s
           r == 2 ^ (LogN - s)
           t == 2 ^ (LogN - (s + 1))
<1>1. M \in Nat \ {0} /\ p \in Nat \ {0} /\ r = 2 * M /\ t = M /\ p * (2 * M) = N
  BY JumpFacts
<1>2. b \in 0 .. p - 1 /\ o \in 0 .. M - 1 /\ i = b * (2 * M) + o
  BY DEF Place
<1> HIDE DEF i, M, p, r, t
<1>3. b \in Int /\ o \in Int /\ 2 * M \in Nat \ {0} /\ 2 * b \in Int /\ 2 * b + 1 \in Int
      /\ o \in 0 .. (2 * M) - 1 /\ M + o \in 0 .. (2 * M) - 1
  BY <1>1, <1>2
<1>4. /\ i = ((2 * M) * b) + o /\ i + M = ((2 * M) * b) + (M + o)
      /\ i = (M * (2 * b)) + o /\ i + M = (M * (2 * b + 1)) + o /\ i \in Int
  BY <1>1, <1>2, <1>3
<1>5. /\ i \div (2 * M) = b /\ i % (2 * M) = o
      /\ (i + M) \div (2 * M) = b /\ (i + M) % (2 * M) = M + o
  <2> DEFINE T == 2 * M
             e == M + o
  <2>1. T \in Nat \ {0} /\ e \in 0 .. T - 1 /\ o \in 0 .. T - 1 /\ i = (T * b) + o /\ i + M = (T * b) + e
    BY <1>3, <1>4
  <2> HIDE DEF T, e
  <2>2. /\ ((T * b) + o) \div T = b /\ ((T * b) + o) % T = o
        /\ ((T * b) + e) \div T = b /\ ((T * b) + e) % T = e
    BY <1>3, <2>1, DivModUnique
  <2>3. i \div T = b /\ i % T = o /\ (i + M) \div T = b /\ (i + M) % T = e
    BY <2>1, <2>2
  <2> QED
    BY <2>3 DEF T, e
<1>6. /\ i \div M = 2 * b /\ i % M = o
      /\ (i + M) \div M = 2 * b + 1 /\ (i + M) % M = o
  <2> DEFINE c == 2 * b
             e == 2 * b + 1
  <2>1. c \in Int /\ e \in Int /\ i = (M * c) + o /\ i + M = (M * e) + o
    BY <1>3, <1>4
  <2> HIDE DEF c, e
  <2>2. /\ ((M * c) + o) \div M = c /\ ((M * c) + o) % M = o
        /\ ((M * e) + o) \div M = e /\ ((M * e) + o) % M = o
    BY <1>1, <1>2, <2>1, DivModUnique
  <2>3. i \div M = c /\ i % M = o /\ (i + M) \div M = e /\ (i + M) % M = o
    BY <2>1, <2>2
  <2> QED
    BY <2>3 DEF c, e
<1>7. i \in Coeff /\ i + M \in Coeff
  <2>1. b * (2 * M) =< (p - 1) * (2 * M) /\ 0 =< b * (2 * M)
    BY <1>1, <1>2
  <2>2. (p - 1) * (2 * M) = N - 2 * M /\ N \in Int
    BY <1>1
  <2>3. b * (2 * M) \in Int
    BY <1>1, <1>3
  <2> QED
    BY <1>1, <1>2, <1>3, <2>1, <2>2, <2>3 DEF Coeff
<1>8. (i + M) - M = i
  BY <1>1, <1>4
<1>9. Block(i, s) = b /\ Block(i + M, s) = b /\ Upper(i, s) /\ ~Upper(i + M, s)
  <2>1. o < M /\ ~(M + o < M)
    BY <1>1, <1>2
  <2> QED
    BY <1>5, <2>1 DEF Block, Upper, M
<1>10. ASSUME NEW q, NEW z
       PROVE  /\ FoldAt(q, z, s, i) = Fold(q, z, s, b, o)
              /\ FoldAt(q, z, s, i + M) = Fold(q, z, s, b, M + o)
              /\ FoldAt(q, z, s + 1, i) = Fold(q, z, s + 1, 2 * b, o)
              /\ FoldAt(q, z, s + 1, i + M) = Fold(q, z, s + 1, 2 * b + 1, o)
  <2>1. \A j : FoldAt(q, z, s, j) = Fold(q, z, s, j \div r, j % r)
               /\ FoldAt(q, z, s + 1, j) = Fold(q, z, s + 1, j \div t, j % t)
    BY DEF FoldAt, r, t
  <2> QED
    BY <1>1, <1>5, <1>6, <2>1
<1> QED
  BY <1>7, <1>8, <1>9, <1>10 DEF i, M

(* Every coefficient is in a butterfly. *)
LEMMA Placed ==
    ASSUME NEW s \in 0 .. LogN - 1, NEW i \in Coeff
    PROVE  \E b \in 0 .. 2 ^ s - 1 : \E o \in 0 .. JumpSize(s) - 1 :
             i = Place(s, b, o) \/ i = Place(s, b, o) + JumpSize(s)
<1> DEFINE M == JumpSize(s)
           p == 2 ^ s
           b == i \div (2 * M)
           e == i % (2 * M)
<1>1. M \in Nat \ {0} /\ p \in Nat \ {0} /\ p * (2 * M) = N /\ 2 * M \in Nat \ {0}
  BY JumpFacts
<1>2. i \in 0 .. N - 1 /\ i \in Int
  BY CoeffCount DEF Coeff
<1>3. b \in Int /\ e \in 0 .. (2 * M) - 1 /\ i = ((2 * M) * b) + e
  <2> DEFINE T == 2 * M
  <2>1. T \in Nat \ {0}
    BY <1>1
  <2> HIDE DEF T
  <2>2. i \div T \in Int /\ i % T \in 0 .. T - 1 /\ i = (T * (i \div T)) + (i % T)
    BY <1>2, <2>1, DivMod
  <2> QED
    BY <2>2 DEF T
<1> HIDE DEF b, e
<1>4. b \in 0 .. p - 1
  <2> DEFINE T == 2 * M
  <2>1. T \in Nat \ {0} /\ p * T = N /\ e \in 0 .. T - 1 /\ i = T * b + e /\ T * p = N
    BY <1>1, <1>3
  <2> HIDE DEF T, M, p
  <2>2. b >= 0
    <3>1. SUFFICES ASSUME b =< -1
                   PROVE  FALSE
      BY <1>3
    <3>2. T * b =< - T
      BY <1>3, <2>1, <3>1
    <3>3. T * b \in Int
      BY <1>3, <2>1
    <3> QED
      BY <1>2, <2>1, <3>2, <3>3
  <2>3. b < p
    <3>1. T * b < T * p
      <4>1. T * b \in Int /\ N \in Int /\ T * b =< i
        BY <1>2, <1>3, <2>1, CoeffCount
      <4> QED
        BY <1>2, <2>1, <4>1
    <3> QED
      BY <1>1, <1>3, <2>1, <3>1, Cancel
  <2> QED
    BY <1>1, <1>3, <2>2, <2>3
<1>5. CASE e < M
  <2>1. e \in 0 .. M - 1
    BY <1>1, <1>3, <1>5
  <2>2. i = Place(s, b, e)
    BY <1>1, <1>3 DEF Place
  <2> QED
    BY <1>4, <2>1, <2>2
<1>6. CASE ~(e < M)
  <2>1. e - M \in 0 .. M - 1
    BY <1>1, <1>3, <1>6
  <2>2. i = Place(s, b, e - M) + M
    <3>1. (2 * M) * b = b * (2 * M) /\ b * (2 * M) \in Int
      BY <1>1, <1>3
    <3> QED
      BY <1>1, <1>3, <3>1 DEF Place
  <2> QED
    BY <1>4, <2>1, <2>2
<1> QED
  BY <1>5, <1>6

-----------------------------------------------------------------------------
(* The two results of one butterfly. *)
LEMMA StageAt ==
    ASSUME NEW s \in 0 .. LogN - 1, NEW b \in 0 .. 2 ^ s - 1, NEW o \in 0 .. JumpSize(s) - 1,
           NEW y, NEW d
    PROVE  LET i == Place(s, b, o)
               j == Place(s, b, o) + JumpSize(s)
               m == mont_mult_scalar(d.root[2 ^ s - 1 + b], y[j], d.q, d.k)
               e == guard(y[i] + 2 * d.q - y[j], 2 * d.q)
           IN  /\ ntt_stage(y, s, d)[i] = guard(y[i] + m, 2 * d.q)
               /\ ntt_stage(y, s, d)[j] = guard(y[i] + 2 * d.q - m, 2 * d.q)
               /\ intt_stage(y, s, d)[i] = guard(y[i] + y[j], 2 * d.q)
               /\ intt_stage(y, s, d)[j] =
                    mont_mult_scalar(d.root_inverse[N - 2 ^ (s + 1) + b], e, d.q, d.k)
<1> DEFINE i == Place(s, b, o)
           M == JumpSize(s)
           j == i + M
<1>1. /\ i \in Coeff /\ j \in Coeff /\ j - M = i
      /\ Block(i, s) = b /\ Block(j, s) = b /\ Upper(i, s) /\ ~Upper(j, s)
  BY PlaceFacts
<1>2. j = i + M /\ M = JumpSize(s)
  OBVIOUS
<1> HIDE DEF i, M, j
<1>3. /\ ntt_stage(y, s, d)[i] =
           guard(y[i] + mont_mult_scalar(d.root[2 ^ s - 1 + Block(i + M, s)], y[i + M], d.q, d.k), 2 * d.q)
      /\ ntt_stage(y, s, d)[j] =
           guard(y[j - M] + 2 * d.q
                   - mont_mult_scalar(d.root[2 ^ s - 1 + Block(j, s)], y[j], d.q, d.k), 2 * d.q)
  BY <1>1, Zenon DEF ntt_stage, M
<1>4. /\ intt_stage(y, s, d)[i] = guard(y[i] + y[i + M], 2 * d.q)
      /\ intt_stage(y, s, d)[j] =
           mont_mult_scalar(d.root_inverse[N - 2 ^ (s + 1) + Block(j, s)],
                            guard(y[j - M] + 2 * d.q - y[j], 2 * d.q), d.q, d.k)
  BY <1>1, Zenon DEF intt_stage, M
<1>5. Place(s, b, o) = i /\ Place(s, b, o) + JumpSize(s) = j
  BY DEF i, j, M
<1> QED
  BY <1>1, <1>2, <1>3, <1>4, <1>5, Zenon

StageDomain(y, s, d) ==
    /\ ntt_stage(y, s, d) = [i \in Coeff |-> ntt_stage(y, s, d)[i]]
    /\ intt_stage(y, s, d) = [i \in Coeff |-> intt_stage(y, s, d)[i]]

(* The stages return a value for each coefficient. *)
LEMMA StageFunctions == \A y, s, d : StageDomain(y, s, d)
BY DEF StageDomain, ntt_stage, intt_stage

(* Values within B of the lazy range, that stand for c times the folds of z. *)
Within(y, low, high) == \A i \in Coeff : y[i] \in Int /\ - low =< y[i] /\ y[i] =< high

StandsFor(y, c, q, z, s) == \A i \in Coeff : Cong(y[i], c * FoldAt(q, z, s, i), q)

-----------------------------------------------------------------------------
(***************************************************************************)
(* A stage of ntt, and a stage of intt, do what the folds do.              *)
(***************************************************************************)
LEMMA NttStageFolds ==
    ASSUME NEW q, Suitable(q), NEW z \in [Coeff -> Int], NEW s \in 0 .. LogN - 1,
           NEW B \in Nat, B =< q, NEW y, Within(y, B, 2 * q - 1 + B),
           NEW c \in Int, StandsFor(y, c, q, z, s)
    PROVE  LET x == ntt_stage(y, s, CKKSDerivedParameters(q))
           IN  /\ Within(x, 2 * B, 2 * q - 1 + 2 * B)
               /\ StandsFor(x, c, q, z, s + 1)
               /\ x \in [Coeff -> Int]
<1> DEFINE d == CKKSDerivedParameters(q)
           x == ntt_stage(y, s, d)
           Good(i) == /\ x[i] \in Int /\ - (2 * B) =< x[i] /\ x[i] =< 2 * q - 1 + 2 * B
                      /\ Cong(x[i], c * FoldAt(q, z, s + 1, i), q)
<1>1. d.q = q /\ Valid(q, d.k) /\ q \in Nat /\ q \in Int
  BY ParameterScalars, SuitableModulus
<1>2. ASSUME NEW b \in 0 .. 2 ^ s - 1, NEW o \in 0 .. JumpSize(s) - 1
      PROVE  Good(Place(s, b, o)) /\ Good(Place(s, b, o) + JumpSize(s))
  <2> DEFINE i == Place(s, b, o)
             j == i + JumpSize(s)
             root == d.root[2 ^ s - 1 + b]
             w == StageRoot(q, s, b)
             m == mont_mult_scalar(root, y[j], q, d.k)
             f == Fold(q, z, s, b, o)
             g == Fold(q, z, s, b, JumpSize(s) + o)
             h1 == Fold(q, z, s + 1, 2 * b, o)
             h2 == Fold(q, z, s + 1, 2 * b + 1, o)
  <2>1. x[i] = guard(y[i] + m, 2 * q) /\ x[j] = guard(y[i] + 2 * q - m, 2 * q)
    BY <1>1, StageAt
  <2>2. /\ i \in Coeff /\ j \in Coeff
        /\ FoldAt(q, z, s, i) = f /\ FoldAt(q, z, s, j) = g
        /\ FoldAt(q, z, s + 1, i) = h1 /\ FoldAt(q, z, s + 1, j) = h2
    BY PlaceFacts
  <2>3. /\ f \in Int /\ g \in Int /\ w \in 0 .. q - 1 /\ h1 \in Int /\ h2 \in Int
        /\ Cong(h1, f + w * g, q) /\ Cong(h2, f - w * g, q)
    BY FoldStep DEF JumpSize
  <2>4. Entry(root, w, q)
    BY ParameterTables
  <2>5. /\ y[i] \in Int /\ - B =< y[i] /\ y[i] =< 2 * q - 1 + B
        /\ y[j] \in Int /\ - B =< y[j] /\ y[j] =< 2 * q - 1 + B
    BY <2>2 DEF Within
  <2>6. Cong(y[i], c * f, q) /\ Cong(y[j], c * g, q)
    <3>1. Cong(y[i], c * FoldAt(q, z, s, i), q) /\ Cong(y[j], c * FoldAt(q, z, s, j), q)
      BY <2>2 DEF StandsFor
    <3> QED
      BY <2>2, <3>1
  <2> DEFINE yi == y[i]
             yj == y[j]
  <2>7. /\ yi \in Int /\ - B =< yi /\ yi =< 2 * q - 1 + B
        /\ yj \in Int /\ - B =< yj /\ yj =< 2 * q - 1 + B
        /\ Cong(yi, c * f, q) /\ Cong(yj, c * g, q) /\ w \in Int
        /\ x[i] = guard(yi + m, 2 * q) /\ x[j] = guard(yi + 2 * q - m, 2 * q)
    <3> HIDE DEF w
    <3> QED
      BY <2>1, <2>3, <2>5, <2>6
  <2>8. m = mont_mult_scalar(root, yj, q, d.k)
    OBVIOUS
  <2> HIDE DEF d, x, i, j, root, w, m, f, g, h1, h2, yi, yj
  <2>9. m \in Int /\ Cong(m, w * yj, q) /\ - (5 * B) =< 16 * m /\ 16 * m =< 26 * q + 5 * B
    BY <1>1, <2>4, <2>7, <2>8, StageProduct
  <2>10. /\ x[i] \in Int /\ - (2 * B) =< x[i] /\ x[i] =< 2 * q - 1 + 2 * B
         /\ x[j] \in Int /\ - (2 * B) =< x[j] /\ x[j] =< 2 * q - 1 + 2 * B
    <3> DEFINE first == guard(yi + m, 2 * q)
               second == guard(yi + 2 * q - m, 2 * q)
    <3>1. /\ first \in Int /\ - (2 * B) =< first /\ first =< 2 * q - 1 + 2 * B
          /\ second \in Int /\ - (2 * B) =< second /\ second =< 2 * q - 1 + 2 * B
      BY <1>1, <2>7, <2>9, NttRange
    <3> HIDE DEF first, second
    <3> QED
      BY <2>7, <3>1 DEF first, second
  <2>11. Cong(m, c * (w * g), q) /\ c * (w * g) \in Int
    <3>1. c * g \in Int /\ w * yj \in Int /\ w * (c * g) = c * (w * g) /\ c * (w * g) \in Int
      BY <2>3, <2>7
    <3> DEFINE e == c * g
               n == w * yj
    <3>2. e \in Int /\ n \in Int /\ Cong(m, n, q) /\ Cong(yj, e, q) /\ w * e = c * (w * g) /\ w * e \in Int
      BY <2>7, <2>9, <3>1
    <3>3. n = w * yj
      OBVIOUS
    <3> HIDE DEF e, n
    <3>4. Cong(w * yj, w * e, q)
      BY <1>1, <2>7, <3>2, CongProduct
    <3>5. Cong(m, w * e, q)
      BY <1>1, <2>9, <3>2, <3>3, <3>4, CongTransitive
    <3> QED
      BY <3>1, <3>2, <3>5
  <2> DEFINE cf == c * f
             cg == c * (w * g)
  <2>12. cf \in Int /\ cg \in Int /\ Cong(yi, cf, q) /\ Cong(m, cg, q)
    BY <2>3, <2>7, <2>11
  <2>13. /\ c * (f + w * g) = cf + cg /\ c * (f - w * g) = cf - cg
         /\ f + w * g \in Int /\ f - w * g \in Int
    BY <2>3, <2>7
  <2> HIDE DEF cf, cg
  <2>14. Cong(yi + m, cf + cg, q) /\ Cong(yi - m, cf - cg, q)
    BY <1>1, <2>7, <2>9, <2>12, CongSum
  <2>15. Cong(c * h1, cf + cg, q) /\ Cong(c * h2, cf - cg, q)
    <3> DEFINE e1 == f + w * g
               e2 == f - w * g
    <3>1. e1 \in Int /\ e2 \in Int /\ Cong(h1, e1, q) /\ Cong(h2, e2, q) /\ c * e1 = cf + cg /\ c * e2 = cf - cg
      BY <2>3, <2>13
    <3> HIDE DEF e1, e2
    <3>2. Cong(c * h1, c * e1, q) /\ Cong(c * h2, c * e2, q)
      BY <1>1, <2>3, <3>1, CongProduct
    <3> QED
      BY <3>1, <3>2
  <2>16. Cong(x[i], c * h1, q)
    <3> DEFINE u == yi + m
               v == cf + cg
               h == c * h1
    <3>1. u \in Int /\ v \in Int /\ h \in Int /\ Cong(u, v, q) /\ Cong(h, v, q) /\ x[i] = guard(u, 2 * q)
      BY <2>3, <2>7, <2>9, <2>12, <2>14, <2>15
    <3> HIDE DEF u, v, h
    <3>2. Cong(x[i], u, q) /\ x[i] \in Int
      BY <1>1, <3>1, GuardCong
    <3>3. Cong(v, h, q)
      BY <1>1, <3>1, CongRules
    <3>4. Cong(x[i], v, q)
      BY <1>1, <3>1, <3>2, CongTransitive
    <3>5. Cong(x[i], h, q)
      BY <1>1, <3>1, <3>2, <3>3, <3>4, CongTransitive
    <3> QED
      BY <3>5 DEF h
  <2>17. Cong(x[j], c * h2, q)
    <3> DEFINE u == yi - m
               t == yi + 2 * q - m
               v == cf - cg
               h == c * h2
    <3>1. u \in Int /\ v \in Int /\ h \in Int /\ t \in Int /\ t = u + q * 2 /\ Cong(u, v, q) /\ Cong(h, v, q) /\ x[j] = guard(t, 2 * q)
      BY <1>1, <2>3, <2>7, <2>9, <2>12, <2>14, <2>15
    <3> HIDE DEF u, v, h, t
    <3>2. Cong(x[j], t, q) /\ x[j] \in Int
      BY <1>1, <3>1, GuardCong
    <3>3. Cong(v, h, q) /\ Cong(t, u, q)
      <4>1. Cong(v, h, q)
        BY <1>1, <3>1, CongRules
      <4>2. Cong(t, u, q)
        BY <3>1 DEF Cong
      <4> QED
        BY <4>1, <4>2
    <3>4. Cong(x[j], u, q)
      BY <1>1, <3>1, <3>2, <3>3, CongTransitive
    <3>5. Cong(x[j], v, q)
      BY <1>1, <3>1, <3>2, <3>4, CongTransitive
    <3>6. Cong(x[j], h, q)
      BY <1>1, <3>1, <3>2, <3>3, <3>5, CongTransitive
    <3> QED
      BY <3>6 DEF h
  <2>18. Good(i) /\ Good(j)
    BY <2>2, <2>10, <2>16, <2>17
  <2> QED
    BY <2>18 DEF i, j
<1>3. \A i \in Coeff : Good(i)
  <2> TAKE i \in Coeff
  <2>1. PICK b \in 0 .. 2 ^ s - 1, o \in 0 .. JumpSize(s) - 1 :
          i = Place(s, b, o) \/ i = Place(s, b, o) + JumpSize(s)
    BY Placed
  <2>2. Good(Place(s, b, o)) /\ Good(Place(s, b, o) + JumpSize(s))
    BY <1>2
  <2> HIDE DEF Good
  <2> QED
    BY <2>1, <2>2
<1>4. x = [i \in Coeff |-> x[i]]
  BY StageFunctions DEF StageDomain
<1> HIDE DEF x
<1> QED
  BY <1>3, <1>4 DEF Within, StandsFor, x

(* Butterflies of intt undo those of ntt, but for a factor of two. *)
LEMMA InttStageFolds ==
    ASSUME NEW q, Suitable(q), NEW z \in [Coeff -> Int], NEW s \in 0 .. LogN - 1,
           NEW B \in Nat, 4 * B =< q, NEW y, Within(y, B, 2 * q - 1),
           NEW c \in Int, StandsFor(y, c, q, z, s + 1)
    PROVE  LET x == intt_stage(y, s, CKKSDerivedParameters(q))
           IN  /\ Within(x, 2 * B, 2 * q - 1)
               /\ StandsFor(x, 2 * c, q, z, s)
               /\ x \in [Coeff -> Int]
<1> DEFINE d == CKKSDerivedParameters(q)
           x == intt_stage(y, s, d)
           Good(i) == /\ x[i] \in Int /\ - (2 * B) =< x[i] /\ x[i] =< 2 * q - 1
                      /\ Cong(x[i], (2 * c) * FoldAt(q, z, s, i), q)
<1>1. d.q = q /\ Valid(q, d.k) /\ q \in Nat /\ q \in Int /\ B =< q
  BY ParameterScalars, SuitableModulus
<1>2. ASSUME NEW b \in 0 .. 2 ^ s - 1, NEW o \in 0 .. JumpSize(s) - 1
      PROVE  Good(Place(s, b, o)) /\ Good(Place(s, b, o) + JumpSize(s))
  <2> DEFINE i == Place(s, b, o)
             j == i + JumpSize(s)
             root == d.root_inverse[N - 2 ^ (s + 1) + b]
             w == StageRoot(q, s, b)
             e == guard(y[i] + 2 * q - y[j], 2 * q)
             f == Fold(q, z, s, b, o)
             g == Fold(q, z, s, b, JumpSize(s) + o)
             h1 == Fold(q, z, s + 1, 2 * b, o)
             h2 == Fold(q, z, s + 1, 2 * b + 1, o)
  <2>1. x[i] = guard(y[i] + y[j], 2 * q) /\ x[j] = mont_mult_scalar(root, e, q, d.k)
    BY <1>1, StageAt
  <2>2. /\ i \in Coeff /\ j \in Coeff
        /\ FoldAt(q, z, s, i) = f /\ FoldAt(q, z, s, j) = g
        /\ FoldAt(q, z, s + 1, i) = h1 /\ FoldAt(q, z, s + 1, j) = h2
    BY PlaceFacts
  <2>3. /\ f \in Int /\ g \in Int /\ w \in 0 .. q - 1 /\ h1 \in Int /\ h2 \in Int
        /\ Cong(h1, f + w * g, q) /\ Cong(h2, f - w * g, q)
    BY FoldStep DEF JumpSize
  <2>4. PICK v \in 0 .. q - 1 : Entry(root, v, q) /\ Cong(v * w, 1, q)
    BY ParameterTables
  <2>5. /\ y[i] \in Int /\ - B =< y[i] /\ y[i] =< 2 * q - 1
        /\ y[j] \in Int /\ - B =< y[j] /\ y[j] =< 2 * q - 1
    BY <2>2 DEF Within
  <2>6. Cong(y[i], c * h1, q) /\ Cong(y[j], c * h2, q)
    <3>1. Cong(y[i], c * FoldAt(q, z, s + 1, i), q) /\ Cong(y[j], c * FoldAt(q, z, s + 1, j), q)
      BY <2>2 DEF StandsFor
    <3> QED
      BY <2>2, <3>1
  <2> DEFINE yi == y[i]
             yj == y[j]
  <2>7. /\ yi \in Int /\ - B =< yi /\ yi =< 2 * q - 1
        /\ yj \in Int /\ - B =< yj /\ yj =< 2 * q - 1
        /\ Cong(yi, c * h1, q) /\ Cong(yj, c * h2, q) /\ w \in Int /\ v \in Int
        /\ x[i] = guard(yi + yj, 2 * q) /\ e = guard(yi + 2 * q - yj, 2 * q)
    <3> HIDE DEF w
    <3> QED
      BY <2>1, <2>3, <2>4, <2>5, <2>6
  <2> HIDE DEF d, x, i, j, root, w, e, f, g, h1, h2, yi, yj
  <2>8. /\ x[i] \in Int /\ - (2 * B) =< x[i] /\ x[i] =< 2 * q - 1
        /\ e \in Int /\ - B =< e /\ e =< 2 * q - 1 + B
    <3> DEFINE first == guard(yi + yj, 2 * q)
               second == guard(yi + 2 * q - yj, 2 * q)
    <3>1. /\ first \in Int /\ - (2 * B) =< first /\ first =< 2 * q - 1
          /\ second \in Int /\ - B =< second /\ second =< 2 * q - 1 + B
      BY <1>1, <2>7, InttRange
    <3> HIDE DEF first, second
    <3> QED
      BY <2>7, <3>1 DEF first, second
  <2>9. x[j] \in Int /\ Cong(x[j], v * e, q) /\ - (5 * B) =< 16 * x[j] /\ 16 * x[j] =< 26 * q + 5 * B
    BY <1>1, <2>1, <2>4, <2>7, <2>8, StageProduct
  <2>10. - (2 * B) =< x[j] /\ x[j] =< 2 * q - 1
    BY <1>1, <2>9, SuitableModulus
  <2> DEFINE cf == c * f
             cg == c * (w * g)
  <2>11. /\ cf \in Int /\ cg \in Int /\ c * (f + w * g) = cf + cg /\ c * (f - w * g) = cf - cg
         /\ f + w * g \in Int /\ f - w * g \in Int
    BY <2>3, <2>7
  <2>12. Cong(yi, cf + cg, q) /\ Cong(yj, cf - cg, q)
    <3> DEFINE e1 == f + w * g
               e2 == f - w * g
               k1 == c * h1
               k2 == c * h2
    <3>1. /\ e1 \in Int /\ e2 \in Int /\ Cong(h1, e1, q) /\ Cong(h2, e2, q) /\ c * e1 = cf + cg
          /\ c * e2 = cf - cg /\ c * e1 \in Int /\ c * e2 \in Int
      BY <2>3, <2>11
    <3>2. k1 \in Int /\ k2 \in Int /\ k1 = c * h1 /\ k2 = c * h2 /\ Cong(yi, k1, q) /\ Cong(yj, k2, q)
      BY <2>3, <2>7
    <3> HIDE DEF e1, e2, k1, k2, cf, cg
    <3>3. Cong(c * h1, c * e1, q) /\ Cong(c * h2, c * e2, q)
      BY <1>1, <2>3, <3>1, CongProduct
    <3> DEFINE l1 == c * e1
               l2 == c * e2
    <3>4. l1 \in Int /\ l2 \in Int /\ Cong(k1, l1, q) /\ Cong(k2, l2, q)
      BY <3>1, <3>2, <3>3
    <3>5. l1 = cf + cg /\ l2 = cf - cg
      BY <3>1
    <3> HIDE DEF l1, l2
    <3>6. Cong(yi, l1, q) /\ Cong(yj, l2, q)
      BY <1>1, <2>7, <3>2, <3>4, CongTransitive
    <3> QED
      BY <3>5, <3>6
  <2> HIDE DEF cf, cg
  <2>13. Cong(yi + yj, 2 * cf, q) /\ Cong(yi - yj, 2 * cg, q)
    <3> DEFINE l1 == cf + cg
               l2 == cf - cg
    <3>1. l1 \in Int /\ l2 \in Int /\ Cong(yi, l1, q) /\ Cong(yj, l2, q) /\ l1 + l2 = 2 * cf /\ l1 - l2 = 2 * cg
      BY <2>11, <2>12
    <3> HIDE DEF l1, l2
    <3>2. Cong(yi + yj, l1 + l2, q) /\ Cong(yi - yj, l1 - l2, q)
      BY <1>1, <2>7, <3>1, CongSum
    <3> QED
      BY <3>1, <3>2
  <2>14. Cong(x[i], (2 * c) * f, q)
    <3> DEFINE u == yi + yj
               h == 2 * cf
    <3>1. u \in Int /\ h \in Int /\ Cong(u, h, q) /\ x[i] = guard(u, 2 * q)
      BY <2>7, <2>11, <2>13
    <3>2. (2 * c) * f = h
      BY <2>3 DEF cf
    <3> HIDE DEF u, h
    <3>3. Cong(x[i], u, q) /\ x[i] \in Int
      BY <1>1, <3>1, GuardCong
    <3>4. Cong(x[i], h, q)
      BY <1>1, <3>1, <3>3, CongTransitive
    <3> QED
      BY <3>2, <3>4
  <2>15. Cong(x[j], (2 * c) * g, q)
    <3> DEFINE u == yi - yj
               t == yi + 2 * q - yj
               h == 2 * cg
    <3>1. u \in Int /\ h \in Int /\ t \in Int /\ t = u + q * 2 /\ Cong(u, h, q) /\ e = guard(t, 2 * q)
      BY <1>1, <2>7, <2>11, <2>13
    <3>2. h = w * (2 * (c * g)) /\ 2 * (c * g) \in Int /\ (2 * c) * g = 2 * (c * g)
      BY <2>3, <2>7 DEF cg
    <3> HIDE DEF u, t, h
    <3>3. Cong(e, t, q) /\ Cong(t, u, q)
      <4>1. Cong(e, t, q)
        BY <1>1, <3>1, GuardCong
      <4>2. Cong(t, u, q)
        BY <3>1 DEF Cong
      <4> QED
        BY <4>1, <4>2
    <3>4. Cong(e, u, q)
      BY <1>1, <2>8, <3>1, <3>3, CongTransitive
    <3>5. Cong(e, h, q)
      BY <1>1, <2>8, <3>1, <3>4, CongTransitive
    <3>6. Cong(v * e, v * h, q)
      BY <1>1, <2>7, <2>8, <3>1, <3>5, CongProduct
    <3> DEFINE a == 2 * (c * g)
               n == v * w
               ve == v * e
               vh == v * h
    <3>7. /\ a \in Int /\ n \in Int /\ ve \in Int /\ vh \in Int /\ vh = n * a /\ Cong(n, 1, q) /\ 1 * a = a /\ 1 \in Int
          /\ Cong(ve, vh, q) /\ Cong(x[j], ve, q)
      <4>1. a \in Int /\ h = w * a
        BY <3>2
      <4>2. n = v * w /\ ve = v * e /\ vh = v * h
        OBVIOUS
      <4> HIDE DEF a
      <4>3. v * (w * a) = (v * w) * a
        BY <2>7, <4>1
      <4> QED
        BY <2>4, <2>7, <2>8, <2>9, <3>1, <3>6, <4>1, <4>2, <4>3
    <3> HIDE DEF a, n, ve, vh
    <3>8. Cong(n * a, 1 * a, q)
      BY <1>1, <3>7, CongProduct
    <3>9. Cong(vh, a, q)
      BY <3>7, <3>8
    <3>10. Cong(x[j], vh, q)
      BY <1>1, <2>9, <3>7, CongTransitive
    <3>11. Cong(x[j], a, q)
      BY <1>1, <2>9, <3>7, <3>9, <3>10, CongTransitive
    <3> QED
      BY <3>2, <3>11 DEF a
  <2>16. Good(i) /\ Good(j)
    BY <2>2, <2>8, <2>9, <2>10, <2>14, <2>15
  <2> QED
    BY <2>16 DEF i, j
<1>3. \A i \in Coeff : Good(i)
  <2> TAKE i \in Coeff
  <2>1. PICK b \in 0 .. 2 ^ s - 1, o \in 0 .. JumpSize(s) - 1 :
          i = Place(s, b, o) \/ i = Place(s, b, o) + JumpSize(s)
    BY Placed
  <2>2. Good(Place(s, b, o)) /\ Good(Place(s, b, o) + JumpSize(s))
    BY <1>2
  <2> HIDE DEF Good
  <2> QED
    BY <2>1, <2>2
<1>4. x = [i \in Coeff |-> x[i]]
  BY StageFunctions DEF StageDomain
<1> HIDE DEF x
<1> QED
  BY <1>3, <1>4 DEF Within, StandsFor, x

-----------------------------------------------------------------------------
(***************************************************************************)
(* Before, between and after the transforms.                               *)
(***************************************************************************)
(* How far below zero mont_enter may leave a coefficient. *)
Slack(b, q) == b \in Nat /\ (b = 0 \/ (8 * (N * b) =< q /\ 8 * q =< R /\ (2 * N) * q =< R))

(* The slack, doubled by every stage, stays below an eighth of q. *)
LEMMA SlackFacts ==
    ASSUME NEW q, Suitable(q), NEW b, Slack(b, q)
    PROVE  b \in Nat /\ N * b \in Nat /\ 8 * (N * b) =< q
<1>1. q \in Nat /\ N \in Nat
  BY SuitableModulus, CoeffCount
<1>2. b \in Nat /\ (b = 0 \/ 8 * (N * b) =< q)
  BY DEF Slack
<1>3. N * b \in Nat /\ N * 0 = 0
  BY <1>1, <1>2
<1> QED
  BY <1>1, <1>2, <1>3

(* How far below zero mont_enter goes. *)
LEMMA EnterRange ==
    ASSUME NEW q, Suitable(q), NEW b, Slack(b, q), NEW k, Valid(q, k),
           NEW c \in 0 .. q - 1, NEW x \in - (q \div 4) .. 2 * q - 1,
           x >= 0 \/ (b = q \div (8 * N) /\ 8 * q =< R /\ (2 * N) * q =< R)
    PROVE  LET y == mont_mult_scalar(x, c, q, k)
           IN  y \in Int /\ - b =< y /\ y =< 2 * q - 1
<1> DEFINE y == mont_mult_scalar(x, c, q, k)
           a == x * c
<1>1. /\ q \in Nat \ {0, 1} /\ q \in Int /\ R \in Nat \ {0} /\ R \in Int /\ 4 * q < R /\ b \in Nat
      /\ N \in Nat \ {0} /\ c \in Int /\ R * q \in Nat /\ q * q \in Nat
  <2>1. q \in Nat \ {0, 1} /\ q \in Int /\ R \in Nat \ {0} /\ R \in Int /\ N \in Nat \ {0}
    BY SuitableModulus, CoeffCount
  <2>2. 4 * q < R /\ b \in Nat
    BY DEF Suitable, Slack
  <2> QED
    BY <2>1, <2>2
<1>2. x \in Int /\ - q =< 4 * x /\ x =< 2 * q - 1
  <2>1. q \div 4 \in Int /\ 4 * (q \div 4) =< q
    BY <1>1
  <2> HIDE DEF a
  <2> QED
    BY <1>1, <2>1
<1>3. y \in Int /\ 16 * y =< 24 * q /\ - (8 * q) =< 16 * y
  <2>1. /\ - (8 * R) =< 16 * x /\ 16 * x =< 8 * R /\ 8 \in 0 .. 64
        /\ - q =< c /\ c =< q /\ (c >= 0 \/ 8 = 8)
    BY <1>1, <1>2
  <2>2. y \in Int /\ - (8 * q) =< 16 * y /\ 16 * y =< (8 + 16) * q
    BY <1>1, <1>2, <2>1, MontMultRange
  <2> HIDE DEF y
  <2> QED
    BY <1>1, <2>2
<1>4. y =< 2 * q - 1
  <2> HIDE DEF y
  <2> QED
    BY <1>1, <1>3
<1>5. CASE x >= 0
  <2>1. - (0 * R) =< 16 * x /\ 16 * x =< 8 * R /\ 8 \in 0 .. 64 /\ 0 \in 0 .. 64 /\ - q =< c /\ c =< q /\ c >= 0
    BY <1>1, <1>2, <1>5
  <2>2. - (0 * q) =< 16 * y
    BY <1>1, <1>2, <2>1, MontMultRange
  <2> HIDE DEF y
  <2>3. - b =< y
    BY <1>1, <1>3, <2>2
  <2>4. y \in Int /\ - b =< y /\ y =< 2 * q - 1
    BY <1>3, <1>4, <2>3
  <2> QED
    BY <2>4 DEF y
<1>6. CASE x < 0
  <2>1. b = q \div (8 * N) /\ (2 * N) * q =< R
    BY <1>2, <1>6
  <2>2. a \in Int /\ - (q * q) =< 4 * a /\ a =< 0
    <3>1. (- q) * c =< (4 * x) * c
      <4>1. 4 * x \in Int /\ - q \in Int /\ c \in Nat
        BY <1>1, <1>2
      <4> QED
        BY <1>2, <4>1, Monotone
    <3>2. c * q =< q * q
      BY <1>1, Monotone
    <3>3. (4 * x) * c = 4 * a /\ (- q) * c = - (c * q) /\ a \in Int /\ c * q \in Int
      BY <1>1, <1>2
    <3>4. x * c =< 0 * c
      <4>1. c \in Nat /\ 0 \in Int /\ x =< 0
        BY <1>1, <1>2, <1>6
      <4> QED
        BY <1>2, <4>1, Monotone
    <3>5. 0 * c = 0
      BY <1>1
    <3> HIDE DEF a
    <3> QED
      BY <1>1, <3>1, <3>2, <3>3, <3>4, <3>5 DEF a
  <2>3. - (R * R) =< a /\ a =< R * R
    <3>1. q * q =< R * q /\ q * R =< R * R /\ q * R = R * q /\ R * R \in Nat
      BY <1>1, Monotone
    <3> HIDE DEF a
    <3> QED
      BY <1>1, <2>2, <3>1
  <2>4. PICK t \in 0 .. R - 1 : R * y = a + t * q
    <3>1. x \in Int /\ c \in Int /\ - (R * R) =< x * c /\ x * c =< R * R
      BY <1>1, <1>2, <2>3
    <3>2. \E s \in 0 .. R - 1 : R * mont_mult_scalar(x, c, q, k) = x * c + s * q
      BY <3>1, MontMultExact
    <3> QED
      BY <3>2
  <2> HIDE DEF y, a
  <2>5. 4 * (R * y) >= - (q * q) /\ R * y \in Int
    <3>1. t * q \in Nat
      BY <1>1
    <3> QED
      BY <1>1, <1>3, <2>2, <2>4, <3>1
  <2>6. - q =< (8 * N) * y
    <3>1. SUFFICES ASSUME (8 * N) * y < - q
                   PROVE  FALSE
      BY <1>1, <1>3
    <3>2. ((8 * N) * y + 1) * R =< (- q) * R
      <4>1. (8 * N) * y \in Int
        BY <1>1, <1>3
      <4> QED
        BY <1>1, <3>1, <4>1, Monotone
    <3>3. ((2 * N) * q) * q =< R * q
      BY <1>1, <2>1, Monotone
    <3>4. /\ ((8 * N) * y + 1) * R = (2 * N) * (4 * (R * y)) + R
          /\ (- q) * R = - (R * q) /\ ((2 * N) * q) * q = (2 * N) * (q * q)
      BY <1>1, <1>3
    <3>5. (- (q * q)) * (2 * N) =< (4 * (R * y)) * (2 * N)
      <4>1. 4 * (R * y) \in Int /\ - (q * q) \in Int /\ 2 * N \in Nat
        BY <1>1, <2>5
      <4> QED
        BY <2>5, <4>1, Monotone
    <3>6. (- (q * q)) * (2 * N) = - ((2 * N) * (q * q)) /\ (4 * (R * y)) * (2 * N) = (2 * N) * (4 * (R * y))
          /\ (2 * N) * (q * q) \in Int /\ (2 * N) * (4 * (R * y)) \in Int
      BY <1>1, <2>5
    <3> QED
      BY <1>1, <3>2, <3>3, <3>4, <3>5, <3>6
  <2>7. - b =< y
    <3> DEFINE T == 8 * N
    <3>1. T \in Nat \ {0} /\ - q =< T * y /\ b = q \div T
      BY <1>1, <2>1, <2>6
    <3> HIDE DEF T
    <3>2. q = (T * b) + (q % T) /\ q % T \in 0 .. T - 1
      BY <1>1, <3>1, DivMod
    <3>3. T * (- b - 1) < T * y
      <4>1. T * (- b - 1) = - (T * b) - T /\ T * b \in Int /\ T * y \in Int
        BY <1>1, <1>3, <3>1
      <4> QED
        BY <1>1, <3>1, <3>2, <4>1
    <3>4. - b - 1 < y
      BY <1>1, <1>3, <3>1, <3>3, Cancel
    <3> QED
      BY <1>1, <1>3, <3>4
  <2> QED
    BY <1>3, <1>4, <2>7 DEF y
<1> QED
  BY <1>2, <1>5, <1>6

(* mont_enter multiplies by R, modulo q. *)
LEMMA EnterCong ==
    ASSUME NEW q, Suitable(q), NEW x \in - (q \div 4) .. 2 * q - 1
    PROVE  LET d == CKKSDerivedParameters(q)
           IN  Cong(mont_mult_scalar(x, d.r_squared, d.q, d.k), R * x, q)
<1> DEFINE d == CKKSDerivedParameters(q)
           c == d.r_squared
           k == d.k
<1>1. d.q = q /\ Valid(q, k) /\ c \in 0 .. q - 1 /\ Cong(c, R * R, q)
  BY ParameterScalars
<1>2. /\ q \in Nat \ {0, 1} /\ q \in Int /\ R \in Nat \ {0} /\ R \in Int /\ Coprime(R, q) /\ 4 * q < R
  <2>1. q \in Nat \ {0, 1} /\ q \in Int /\ R \in Nat \ {0} /\ R \in Int /\ Coprime(R, q)
    BY SuitableModulus
  <2>2. 4 * q < R
    BY DEF Suitable
  <2> QED
    BY <2>1, <2>2
<1> HIDE DEF d, c, k
<1>3. x \in Int /\ - (2 * R) =< x /\ x =< 2 * R /\ c \in Int /\ - q =< c /\ c =< q
  <2>1. q \div 4 \in Int /\ 4 * (q \div 4) =< q
    BY <1>2
  <2> QED
    BY <1>1, <1>2, <2>1
<1>4. Cong(mont_mult_scalar(x, c, q, k), x * R, q)
  BY <1>1, <1>2, <1>3, MontMultCong
<1>5. x * R = R * x
  BY <1>2, <1>3
<1> QED
  BY <1>1, <1>4, <1>5 DEF d, c, k

-----------------------------------------------------------------------------
(* Products of factors that may be negative by B. *)
LEMMA SignedProduct ==
    ASSUME NEW B \in Nat, NEW U \in Nat, B =< U, NEW x \in Int, NEW y \in Int,
           - B =< x, x =< U, - B =< y, y =< U
    PROVE  x * y \in Int /\ - (B * U) =< x * y /\ x * y =< U * U
<1>1. x * y \in Int /\ B * U \in Nat /\ U * U \in Nat /\ B * B \in Nat /\ B * B =< B * U /\ B * U =< U * U
  <2>1. B * B =< U * B /\ B * U =< U * U /\ U * B = B * U
    BY Monotone
  <2> QED
    BY <2>1
<1>2. CASE x >= 0 /\ y >= 0
  <2>1. x * y =< U * y /\ y * U =< U * U /\ U * y = y * U /\ 0 * y =< x * y /\ 0 * y = 0
    <3>1. x * y =< U * y /\ y * U =< U * U
      BY <1>2, Monotone
    <3>2. 0 * y =< x * y
      BY <1>2
    <3> QED
      BY <3>1, <3>2
  <2>2. U * y \in Int
    OBVIOUS
  <2> QED
    BY <1>1, <2>1, <2>2
<1>3. CASE x >= 0 /\ y < 0
  <2>1. (- B) * x =< y * x /\ x * B =< U * B /\ (- B) * x = - (x * B) /\ U * B = B * U /\ y * x = x * y /\ x * B \in Int
    <3>1. (- B) * x =< y * x /\ x * B =< U * B
      BY <1>3, Monotone
    <3> QED
      BY <3>1
  <2>2. y * x =< 0 * x /\ 0 * x = 0
    <3>1. y * x =< 0 * x
      BY <1>3, Monotone
    <3> QED
      BY <3>1
  <2> QED
    BY <1>1, <2>1, <2>2
<1>4. CASE x < 0 /\ y >= 0
  <2>1. (- B) * y =< x * y /\ y * B =< U * B /\ (- B) * y = - (y * B) /\ U * B = B * U /\ y * B \in Int
    <3>1. (- B) * y =< x * y /\ y * B =< U * B
      BY <1>4, Monotone
    <3> QED
      BY <3>1
  <2>2. x * y =< 0 * y /\ 0 * y = 0
    <3>1. x * y =< 0 * y
      BY <1>4, Monotone
    <3> QED
      BY <3>1
  <2> QED
    BY <1>1, <2>1, <2>2
<1>5. CASE x < 0 /\ y < 0
  <2>1. (- x) * (- y) = x * y /\ - x \in Nat /\ - y \in Nat /\ - x =< B /\ - y =< B
    BY <1>5
  <2> DEFINE u == - x
             v == - y
  <2>2. u \in Nat /\ v \in Nat /\ u =< B /\ v =< B /\ u * v = x * y
    BY <2>1
  <2> HIDE DEF u, v
  <2>3. u * v =< B * v /\ v * B =< B * B /\ B * v = v * B /\ u * v >= 0 /\ v * B \in Int
    <3>1. u * v =< B * v /\ v * B =< B * B
      BY <2>2, Monotone
    <3> QED
      BY <2>2, <3>1
  <2> QED
    BY <1>1, <2>2, <2>3
<1> QED
  BY <1>2, <1>3, <1>4, <1>5

(* What the product of two slots stands for, and its range. *)
LEMMA SlotProduct ==
    ASSUME NEW q, Suitable(q), NEW b, Slack(b, q), NEW k, Valid(q, k),
           NEW x \in Int, - (N * b) =< x, x =< 2 * q - 1 + N * b,
           NEW y \in Int, - (N * b) =< y, y =< 2 * q - 1 + N * b,
           NEW e \in Int, NEW f \in Int, Cong(x, R * e, q), Cong(y, R * f, q)
    PROVE  LET m == mont_mult_scalar(x, y, q, k)
           IN  /\ m \in Int /\ - (2 * b) =< m /\ m =< 2 * q - 1
               /\ Cong(m, R * (e * f), q)
<1> DEFINE m == mont_mult_scalar(x, y, q, k)
           B == N * b
           U == 2 * q + B
           a == x * y
<1>1. /\ q \in Nat \ {0, 1} /\ q \in Int /\ R \in Nat \ {0} /\ R \in Int /\ Coprime(R, q) /\ 4 * q < R
      /\ N \in Nat \ {0} /\ R * q \in Nat /\ q * q \in Nat
  <2>1. q \in Nat \ {0, 1} /\ q \in Int /\ R \in Nat \ {0} /\ R \in Int /\ Coprime(R, q) /\ N \in Nat \ {0}
    BY SuitableModulus, CoeffCount
  <2>2. 4 * q < R
    BY DEF Suitable
  <2> QED
    BY <2>1, <2>2
<1>2. b \in Nat /\ B \in Nat /\ 8 * B =< q /\ U \in Nat /\ B =< U /\ x =< U /\ y =< U /\ - B =< x /\ - B =< y
  <2>1. b \in Nat /\ B \in Nat /\ 8 * B =< q
    BY SlackFacts
  <2> HIDE DEF B
  <2>2. x =< 2 * q - 1 + B /\ y =< 2 * q - 1 + B /\ - B =< x /\ - B =< y
    BY DEF B
  <2> QED
    BY <1>1, <2>1, <2>2
<1>3. U = 2 * q + B
  OBVIOUS
<1>4. a \in Int /\ - (B * U) =< a /\ a =< U * U
  <2> HIDE DEF B, U
  <2> QED
    BY <1>2, SignedProduct
<1>5. B * U \in Nat /\ U * U \in Nat /\ R * R \in Nat /\ 8 * U =< 17 * q
  <2> HIDE DEF B, U
  <2> QED
    BY <1>1, <1>2, <1>3
<1>6. B * U =< U * U /\ 64 * (U * U) =< 289 * (q * q) /\ 8 * (B * U) =< 17 * (q * B)
  <2> HIDE DEF B, U, a
  <2>1. B * U =< U * U
    BY <1>2, Monotone
  <2>2. (8 * U) * (8 * U) =< (17 * q) * (8 * U) /\ (8 * U) * (17 * q) =< (17 * q) * (17 * q)
    BY <1>1, <1>2, <1>5, Monotone
  <2>3. (8 * U) * (8 * U) = 64 * (U * U) /\ (17 * q) * (8 * U) = (8 * U) * (17 * q)
        /\ (17 * q) * (17 * q) = 289 * (q * q)
    BY <1>1, <1>2
  <2>4. (8 * U) * B =< (17 * q) * B
    BY <1>1, <1>2, <1>5, Monotone
  <2>5. (8 * U) * B = 8 * (B * U) /\ (17 * q) * B = 17 * (q * B)
    BY <1>1, <1>2
  <2>6. (8 * U) * (17 * q) \in Int
    BY <1>1, <1>2
  <2> QED
    BY <1>1, <1>5, <2>1, <2>2, <2>3, <2>4, <2>5, <2>6
<1>7. 4 * (q * q) =< R * q /\ 4 * (R * q) =< R * R
  <2>1. (4 * q) * q =< R * q /\ (4 * q) * R =< R * R
    BY <1>1, Monotone
  <2> QED
    BY <1>1, <2>1
<1>8. - (R * R) =< a /\ a =< R * R
  <2> HIDE DEF B, U, a
  <2> QED
    BY <1>1, <1>4, <1>5, <1>6, <1>7
<1>9. PICK t \in 0 .. R - 1 : m \in Int /\ R * m = a + t * q
  <2>1. - (R * R) =< x * y /\ x * y =< R * R
    BY <1>8
  <2>2. /\ mont_mult_scalar(x, y, q, k) \in Int
        /\ \E s \in 0 .. R - 1 : R * mont_mult_scalar(x, y, q, k) = x * y + s * q
    BY <2>1, MontMultExact
  <2> QED
    BY <2>2
<1>10. t * q \in Nat /\ t * q =< (R - 1) * q /\ (R - 1) * q = R * q - q
  BY <1>1, Monotone
<1>11. - (2 * b) =< m /\ m =< 2 * q - 1
  <2>1. CASE b = 0
    <3>1. B = 0
      BY <1>1, <2>1
    <3>2. x \in 0 .. 2 * q - 1 /\ y \in 0 .. 2 * q - 1
      <4>1. - (N * b) = 0 /\ 2 * q - 1 + N * b = 2 * q - 1
        BY <1>1, <3>1
      <4> QED
        BY <1>1, <4>1
    <3>3. m \in 0 .. 2 * q - 1
      BY <3>2, MontMultLazy
    <3> HIDE DEF m
    <3> QED
      BY <1>1, <1>2, <2>1, <3>3
  <2>2. CASE b # 0
    <3>1. 8 * q =< R /\ (2 * N) * q =< R /\ b >= 1
      BY <1>2, <2>2 DEF Slack
    <3>2. 8 * (q * q) =< R * q
      <4>1. (8 * q) * q =< R * q
        BY <1>1, <3>1, Monotone
      <4> QED
        BY <1>1, <4>1
    <3>3. 2 * (q * B) =< R * b /\ R * b \in Nat
      <4>1. ((2 * N) * q) * b =< R * b
        BY <1>1, <1>2, <3>1, Monotone
      <4>2. ((2 * N) * q) * b = 2 * (q * B) /\ R * b \in Nat
        BY <1>1, <1>2
      <4> QED
        BY <4>1, <4>2
    <3>4. q * B \in Nat
      BY <1>1, <1>2
    <3> HIDE DEF B, U, a, m
    <3>5. R * (- (2 * b) - 1) < R * m
      <4>1. R * (- (2 * b) - 1) = - (2 * (R * b)) - R
        BY <1>1, <1>2
      <4> QED
        BY <1>1, <1>4, <1>5, <1>6, <1>9, <1>10, <3>3, <3>4, <4>1
    <3>6. R * m < R * (2 * q)
      <4>1. R * (2 * q) = 2 * (R * q)
        BY <1>1
      <4> QED
        BY <1>1, <1>4, <1>5, <1>6, <1>9, <1>10, <3>2, <4>1
    <3>7. - (2 * b) - 1 < m /\ m < 2 * q
      BY <1>1, <1>2, <1>9, <3>5, <3>6, Cancel
    <3> QED
      BY <1>1, <1>2, <1>9, <3>7
  <2> QED
    BY <2>1, <2>2
<1> HIDE DEF m
<1>12. Cong(m, R * (e * f), q)
  <2>1. Cong(R * m, a, q) /\ R * m \in Int
    <3>1. R * m = a + q * t /\ t \in Int /\ R * m \in Int
      BY <1>1, <1>4, <1>9
    <3> QED
      BY <3>1 DEF Cong
  <2> DEFINE g == R * e
             h == R * f
             w == R * (e * f)
  <2>2. g \in Int /\ h \in Int /\ Cong(x, g, q) /\ Cong(y, h, q) /\ w \in Int
    BY <1>1
  <2>3. g * h = R * w /\ g * h \in Int
    BY <1>1
  <2> HIDE DEF g, h, w
  <2>4. Cong(x * y, g * h, q)
    BY <1>1, <2>2, CongProducts
  <2>5. Cong(a, R * w, q) /\ R * w \in Int
    BY <2>3, <2>4
  <2> HIDE DEF a
  <2>6. Cong(R * m, R * w, q)
    BY <1>1, <1>4, <2>1, <2>5, CongTransitive
  <2>7. Cong(m, w, q)
    BY <1>1, <1>9, <2>2, <2>6, CoprimeCancel
  <2> QED
    BY <2>7 DEF w
<1> QED
  BY <1>9, <1>11, <1>12 DEF m

-----------------------------------------------------------------------------
(* mont_exit divides by R, and makes up for one negative q. *)
LEMMA ExitSigned ==
    ASSUME NEW q, Suitable(q), NEW k, Valid(q, k), NEW y \in - q .. 2 * q - 1
    PROVE  LET z == mont_exit_scalar(y, q, k)
           IN  /\ z \in 0 .. q
               /\ Cong(R * z, y, q)
<1> DEFINE z == mont_exit_scalar(y, q, k)
<1>1. q \in Nat \ {0, 1} /\ q \in Int /\ R \in Nat \ {0} /\ R \in Int /\ 4 * q < R
  <2>1. q \in Nat \ {0, 1} /\ q \in Int /\ R \in Nat \ {0} /\ R \in Int
    BY SuitableModulus
  <2>2. 4 * q < R
    BY DEF Suitable
  <2> QED
    BY <2>1, <2>2
<1>2. y \in Int /\ - (R * R) =< y /\ y =< R * R
  <2>1. R =< R * R
    BY <1>1
  <2> QED
    BY <1>1, <2>1
<1>3. PICK s \in 0 .. R - 1 : z \in Int /\ R * z = y + s * q
  BY <1>2, ReduceExact DEF mont_exit_scalar
<1> HIDE DEF z
<1>4. s * q \in Nat /\ s * q =< (R - 1) * q
  BY <1>1, Monotone
<1>5. (R - 1) * q = R * q - q /\ R * q \in Int
  BY <1>1
<1>6. R * (- 1) < R * z /\ R * z < R * (q + 1)
  <2>1. R * (q + 1) = R * q + R
    BY <1>1
  <2> QED
    BY <1>1, <1>3, <1>4, <1>5, <2>1
<1>7. - 1 < z /\ z < q + 1
  BY <1>1, <1>3, <1>6, Cancel
<1>8. Cong(R * z, y, q)
  <2>1. R * z = y + q * s /\ s \in Int
    BY <1>1, <1>2, <1>3
  <2> QED
    BY <2>1 DEF Cong
<1> QED
  BY <1>1, <1>3, <1>7, <1>8 DEF z

(* mont_enter_exit divides by R and by the number of coefficients. *)
LEMMA LastKernel ==
    ASSUME NEW q, Suitable(q), NEW x \in Int, - q =< 4 * x, x =< 2 * q - 1,
           NEW e \in Int, Cong(x, (R * N) * e, q)
    PROVE  LET d == CKKSDerivedParameters(q)
               z == mont_enter_exit(x, d.coeff_count_inverse, d.q, d.k)
           IN  z \in 0 .. q /\ Cong(z, e, q)
<1> DEFINE d == CKKSDerivedParameters(q)
           c == d.coeff_count_inverse
           k == d.k
           y == mont_mult_scalar(x, c, q, k)
           z == mont_exit_scalar(y, q, k)
<1>1. d.q = q /\ Valid(q, k) /\ c \in 0 .. q - 1
      /\ \E v \in Int : Cong(c, v * R, q) /\ Cong(N * v, 1, q)
  BY ParameterScalars
<1>2. PICK v \in Int : Cong(c, v * R, q) /\ Cong(N * v, 1, q)
  BY <1>1
<1>3. /\ q \in Nat \ {0, 1} /\ q \in Int /\ R \in Nat \ {0} /\ R \in Int /\ Coprime(R, q) /\ 4 * q < R
      /\ N \in Nat \ {0} /\ N \in Int
  <2>1. q \in Nat \ {0, 1} /\ q \in Int /\ R \in Nat \ {0} /\ R \in Int /\ Coprime(R, q) /\ N \in Nat \ {0}
    BY SuitableModulus, CoeffCount
  <2>2. 4 * q < R
    BY DEF Suitable
  <2> QED
    BY <2>1, <2>2
<1>4. mont_enter_exit(x, d.coeff_count_inverse, d.q, d.k) = z
  BY <1>1 DEF mont_enter_exit
<1> HIDE DEF d, c, k
<1>5. c \in Int /\ - q =< c /\ c =< q /\ c >= 0
  BY <1>1, <1>3
<1>6. y \in Int /\ - (1 * q) =< 16 * y /\ 16 * y =< (8 + 16) * q
  <2>1. - (1 * R) =< 16 * x /\ 16 * x =< 8 * R /\ 1 \in 0 .. 64 /\ 8 \in 0 .. 64
    BY <1>3
  <2> QED
    BY <1>1, <1>5, <2>1, MontMultRange
<1>7. Cong(y, x * v, q)
  <2>1. - (2 * R) =< x /\ x =< 2 * R
    BY <1>3
  <2> QED
    BY <1>1, <1>2, <1>3, <1>5, <2>1, MontMultCong
<1> HIDE DEF y
<1>8. y \in - q .. 2 * q - 1
  BY <1>3, <1>6
<1>9. z \in 0 .. q /\ Cong(R * z, y, q)
  BY <1>1, <1>8, ExitSigned
<1> HIDE DEF z
<1>10. z \in Int /\ R * z \in Int /\ x * v \in Int /\ N * v \in Int
  <2>1. z \in Int
    BY <1>9
  <2> QED
    BY <1>3, <2>1
<1>11. Cong(z, e, q)
  <2> DEFINE g == (R * N) * e
             n == N * v
             f == R * e
             xv == x * v
             gv == g * v
             rz == R * z
  <2>1. /\ g \in Int /\ n \in Int /\ f \in Int /\ xv \in Int /\ gv \in Int /\ rz \in Int
        /\ Cong(x, g, q) /\ Cong(n, 1, q) /\ Cong(rz, y, q) /\ Cong(y, xv, q)
    BY <1>2, <1>3, <1>7, <1>9, <1>10
  <2>2. gv = n * f /\ 1 * f = f /\ n * f \in Int /\ 1 \in Int
    BY <1>3
  <2>3. xv = x * v /\ gv = g * v /\ rz = R * z /\ f = R * e
    OBVIOUS
  <2> HIDE DEF g, n, f, xv, gv, rz
  <2>4. Cong(xv, gv, q)
    BY <1>3, <2>1, <2>3, CongProduct
  <2>5. Cong(n * f, 1 * f, q)
    BY <1>3, <2>1, <2>2, CongProduct
  <2>6. Cong(gv, f, q)
    BY <2>2, <2>5
  <2>7. Cong(rz, xv, q)
    BY <1>3, <1>6, <2>1, CongTransitive
  <2>8. Cong(rz, gv, q)
    BY <1>3, <2>1, <2>4, <2>7, CongTransitive
  <2>9. Cong(rz, f, q)
    BY <1>3, <2>1, <2>6, <2>8, CongTransitive
  <2>10. Cong(R * z, R * e, q)
    BY <2>3, <2>9
  <2> QED
    BY <1>3, <1>10, <2>10, CoprimeCancel
<1> QED
  BY <1>4, <1>9, <1>11 DEF d

-----------------------------------------------------------------------------
(* Folds before the first and after the last stage. *)
LEMMA FoldAtEnds ==
    ASSUME NEW q, Suitable(q), NEW z \in [Coeff -> Int], NEW i \in Coeff
    PROVE  /\ FoldAt(q, z, 0, i) = z[i] /\ z[i] \in Int
           /\ FoldAt(q, z, LogN, i) = Evaluation(z, SlotRoot(i, q), q)
<1>1. N \in Nat \ {0} /\ i \in Int /\ i \in 0 .. N - 1 /\ LogN - 0 = LogN /\ LogN - LogN = 0 /\ 2 ^ 0 = 1
  BY CoeffCount, LogNAssumption, TwoPower DEF Coeff
<1>2. i \div N = 0 /\ i % N = i
  <2>1. i = (N * 0) + i /\ 0 \in Int
    BY <1>1
  <2>2. ((N * 0) + i) \div N = 0 /\ ((N * 0) + i) % N = i
    BY <1>1, <2>1, DivModUnique
  <2> QED
    BY <2>1, <2>2
<1>3. i \div 1 = i /\ i % 1 = 0
  <2> DEFINE one == 1
  <2>1. one \in Nat \ {0} /\ 0 \in 0 .. one - 1 /\ i = (one * i) + 0
    BY <1>1
  <2> HIDE DEF one
  <2>2. ((one * i) + 0) \div one = i /\ ((one * i) + 0) % one = 0
    BY <1>1, <2>1, DivModUnique
  <2>3. i \div one = i /\ i % one = 0
    BY <2>1, <2>2
  <2> QED
    BY <2>3 DEF one
<1>4. FoldAt(q, z, 0, i) = Fold(q, z, 0, 0, i)
  <2>1. 2 ^ (LogN - 0) = N
    BY <1>1 DEF N
  <2> QED
    BY <1>2, <2>1 DEF FoldAt
<1>5. FoldAt(q, z, LogN, i) = Fold(q, z, LogN, i, 0)
  <2>1. 2 ^ (LogN - LogN) = 1
    BY <1>1, Zenon
  <2> QED
    BY <1>3, <2>1 DEF FoldAt
<1> QED
  BY <1>4, <1>5, FoldStart, FoldLast

-----------------------------------------------------------------------------
(***************************************************************************)
(* The invariant.                                                          *)
(***************************************************************************)
(* No operand is negative, or the modulus leaves room for what mont_enter  *)
(* makes of negative ones.  R is 2^62 in the code, so that there is room   *)
(* with all primes of 40 bits, but not with those of 54 or 60 bits.        *)
Tolerant(q) ==
    \/ \A z \in Operand1(q) \cup Operand2(q) : \A i \in Coeff : z[i] >= 0
    \/ 8 * q =< R /\ (2 * N) * q =< R

slack == IF Nonnegative THEN 0 ELSE parameter.q \div (8 * N)

Transforming(y, z, s) ==
    LET B == 2 ^ s * slack
        q == parameter.q
    IN  /\ y \in [Coeff -> Int]
        /\ Within(y, B, 2 * q - 1 + B)
        /\ StandsFor(y, R, q, z, s)

Returning(y, z, s) ==
    LET q == parameter.q
    IN  /\ y \in [Coeff -> Int]
        /\ Within(y, 2 ^ (LogN - s) * (2 * slack), 2 * q - 1)
        /\ StandsFor(y, R * 2 ^ (LogN - s), q, z, s)

Returned(y, z) ==
    LET q == parameter.q
    IN  /\ y \in [Coeff -> 0 .. q]
        /\ \A i \in Coeff : Cong(y[i], z[i], q)

ProductInv ==
    /\ kernel \in {"mont_enter", "ntt", "intt", "done"}
    /\ log_coeff_index \in 0 .. LogN
    /\ parameter.q \in Prime /\ parameter = CKKSDerivedParameters(parameter.q)
    /\ operand1 \in Operand1(parameter.q) /\ operand2 \in Operand2(parameter.q)
    /\ kernel = "ntt" =>
         /\ Transforming(product, operand1, log_coeff_index)
         /\ Transforming(transform, operand2, log_coeff_index)
    /\ kernel = "intt" =>
         /\ Returning(product, NegacyclicProduct(operand1, operand2), log_coeff_index)
         /\ Transforming(transform, operand2, LogN)
    /\ kernel = "done" => Returned(product, NegacyclicProduct(operand1, operand2))

(* What the invariant says of the modulus. *)
LEMMA ProductSetting ==
    ASSUME ProductInv, \A q \in Prime : Tolerant(q)
    PROVE  LET q == parameter.q
           IN  /\ Suitable(q) /\ Slack(slack, q)
               /\ operand1 \in Lazy(q) /\ operand2 \in Lazy(q)
               /\ operand1 \in [Coeff -> Int] /\ operand2 \in [Coeff -> Int]
               /\ NegacyclicProduct(operand1, operand2) \in [Coeff -> Int]
               /\ \A i \in Coeff :
                    /\ operand1[i] >= 0 \/ (slack = q \div (8 * N) /\ 8 * q =< R /\ (2 * N) * q =< R)
                    /\ operand2[i] >= 0 \/ (slack = q \div (8 * N) /\ 8 * q =< R /\ (2 * N) * q =< R)
<1> DEFINE q == parameter.q
<1>1. q \in Prime /\ operand1 \in Operand1(q) /\ operand2 \in Operand2(q)
  BY DEF ProductInv
<1>2. Suitable(q) /\ Tolerant(q)
  BY <1>1, PrimeAssumption
<1>3. operand1 \in Lazy(q) /\ operand2 \in Lazy(q)
  BY <1>1, OperandAssumption
<1> HIDE DEF q
<1>4. q \in Nat \ {0} /\ q \in Nat /\ N \in Nat \ {0} /\ R \in Int
  BY <1>2, SuitableModulus, CoeffCount
<1>5. operand1 \in [Coeff -> Int] /\ operand2 \in [Coeff -> Int]
  BY <1>3, <1>4 DEF Lazy
<1>6. NegacyclicProduct(operand1, operand2) \in [Coeff -> Int]
  BY <1>5, ProductInteger
<1>7. CASE Nonnegative
  <2>1. slack = 0
    BY <1>7 DEF slack
  <2> QED
    BY <1>2, <1>3, <1>5, <1>6, <1>7, <2>1 DEF Nonnegative, Slack, q
<1>8. CASE ~Nonnegative
  <2>1. slack = q \div (8 * N)
    BY <1>8 DEF slack, q
  <2>2. 8 * q =< R /\ (2 * N) * q =< R
    <3>1. ~(\A z \in Operand1(q) \cup Operand2(q) : \A i \in Coeff : z[i] >= 0)
      BY <1>1, <1>8 DEF Nonnegative, q
    <3> QED
      BY <1>2, <3>1 DEF Tolerant
  <2>3. slack \in Nat /\ 8 * (N * slack) =< q
    <3> DEFINE T == 8 * N
               w == q \div T
    <3>1. T \in Nat \ {0}
      BY <1>4
    <3>2. slack = w
      BY <2>1
    <3> HIDE DEF T
    <3>3. w \in Int /\ q % T \in 0 .. T - 1 /\ q = (T * w) + (q % T)
      BY <1>4, <3>1, DivMod
    <3> HIDE DEF w
    <3>4. w >= 0
      <4>1. SUFFICES ASSUME w =< -1
                     PROVE  FALSE
        BY <3>3
      <4>2. T * w =< - T /\ T * w \in Int
        BY <3>1, <3>3, <4>1
      <4> QED
        BY <1>4, <3>1, <3>3, <4>2
    <3>5. T * w =< q
      <4>1. T * w \in Int
        BY <3>1, <3>3
      <4> QED
        BY <1>4, <3>1, <3>3, <4>1
    <3>6. T * w = 8 * (N * w)
      BY <1>4, <3>3 DEF T
    <3> QED
      BY <3>2, <3>3, <3>4, <3>5, <3>6
  <2>4. Slack(slack, q)
    BY <2>2, <2>3 DEF Slack
  <2> QED
    BY <1>2, <1>3, <1>5, <1>6, <2>1, <2>2, <2>4 DEF q
<1> QED
  BY <1>7, <1>8

-----------------------------------------------------------------------------
(* The invariant holds initially. *)
LEMMA Started ==
    ASSUME StartProduct
    PROVE  ProductInv
<1>1. PICK q \in Prime : parameter = CKKSDerivedParameters(q) /\ operand1 \in Operand1(q) /\ operand2 \in Operand2(q)
  BY DEF StartProduct
<1>2. parameter.q = q
  BY <1>1 DEF CKKSDerivedParameters
<1>3. kernel = "mont_enter" /\ log_coeff_index = 0 /\ 0 \in 0 .. LogN
  BY LogNAssumption DEF StartProduct
<1> QED
  BY <1>1, <1>2, <1>3 DEF ProductInv

(* mont_enter starts a transform. *)
LEMMA EnteredText ==
    ASSUME NEW q, Suitable(q), NEW b, Slack(b, q), NEW z \in Lazy(q),
           \A i \in Coeff : z[i] >= 0 \/ (b = q \div (8 * N) /\ 8 * q =< R /\ (2 * N) * q =< R),
           NEW y,
           LET d == CKKSDerivedParameters(q)
           IN  y = [i \in Coeff |-> mont_mult_scalar(z[i], d.r_squared, d.q, d.k)]
    PROVE  /\ y \in [Coeff -> Int] /\ Within(y, b, 2 * q - 1 + b)
           /\ StandsFor(y, R, q, z, 0)
<1> DEFINE d == CKKSDerivedParameters(q)
<1>1. d.q = q /\ Valid(q, d.k) /\ d.r_squared \in 0 .. q - 1
  BY ParameterScalars
<1>2. q \in Nat \ {0} /\ q \in Int /\ b \in Nat /\ z \in [Coeff -> Int]
  <2>1. q \in Nat \ {0} /\ q \in Int /\ b \in Nat
    BY SuitableModulus, SlackFacts
  <2> QED
    BY <2>1 DEF Lazy
<1>3. ASSUME NEW i \in Coeff
      PROVE  /\ y[i] \in Int /\ - b =< y[i] /\ y[i] =< 2 * q - 1 + b
             /\ Cong(y[i], R * FoldAt(q, z, 0, i), q)
  <2>1. z[i] \in - (q \div 4) .. 2 * q - 1
    BY DEF Lazy
  <2>2. y[i] = mont_mult_scalar(z[i], d.r_squared, q, d.k)
    BY <1>1
  <2>3. Cong(y[i], R * z[i], q)
    <3>1. Cong(mont_mult_scalar(z[i], d.r_squared, d.q, d.k), R * z[i], q)
      BY <2>1, EnterCong
    <3> QED
      BY <1>1, <2>2, <3>1
  <2> DEFINE x == z[i]
             c == d.r_squared
             m == mont_mult_scalar(x, c, q, d.k)
  <2>4. x >= 0 \/ (b = q \div (8 * N) /\ 8 * q =< R /\ (2 * N) * q =< R)
    OBVIOUS
  <2>5. m \in Int /\ - b =< m /\ m =< 2 * q - 1
    <3>1. x \in - (q \div 4) .. 2 * q - 1 /\ c \in 0 .. q - 1
      BY <1>1, <2>1
    <3> HIDE DEF x, c, d
    <3> QED
      BY <1>1, <2>4, <3>1, EnterRange
  <2>6. y[i] = m
    BY <2>2
  <2> HIDE DEF m, d
  <2>7. y[i] \in Int /\ - b =< y[i] /\ y[i] =< 2 * q - 1 + b
    BY <1>2, <2>5, <2>6
  <2>8. FoldAt(q, z, 0, i) = z[i]
    BY <1>2, FoldAtEnds
  <2> QED
    BY <2>3, <2>7, <2>8
<1>4. y = [i \in Coeff |-> y[i]]
  OBVIOUS
<1> QED
  BY <1>3, <1>4 DEF Within, StandsFor

(* mont_enter keeps the invariant. *)
LEMMA EnterKept ==
    ASSUME ProductInv, \A q \in Prime : Tolerant(q), MontEnter
    PROVE  ProductInv'
<1> DEFINE q == parameter.q
<1>1. /\ Suitable(q) /\ Slack(slack, q) /\ operand1 \in Lazy(q) /\ operand2 \in Lazy(q)
      /\ \A i \in Coeff :
           /\ operand1[i] >= 0 \/ (slack = q \div (8 * N) /\ 8 * q =< R /\ (2 * N) * q =< R)
           /\ operand2[i] >= 0 \/ (slack = q \div (8 * N) /\ 8 * q =< R /\ (2 * N) * q =< R)
  BY ProductSetting
<1>2. parameter = CKKSDerivedParameters(q)
  BY DEF ProductInv
<1>3. /\ product' = [i \in Coeff |-> mont_mult_scalar(operand1[i], parameter.r_squared, parameter.q, parameter.k)]
      /\ transform' = [i \in Coeff |-> mont_mult_scalar(operand2[i], parameter.r_squared, parameter.q, parameter.k)]
      /\ log_coeff_index' = 0 /\ kernel' = "ntt" /\ UNCHANGED <<parameter, operand1, operand2>>
  BY DEF MontEnter, mont_enter
<1>4. /\ product' \in [Coeff -> Int] /\ Within(product', slack, 2 * q - 1 + slack)
      /\ StandsFor(product', R, q, operand1, 0)
      /\ transform' \in [Coeff -> Int] /\ Within(transform', slack, 2 * q - 1 + slack)
      /\ StandsFor(transform', R, q, operand2, 0)
  <2> DEFINE b == slack
  <2>1. Slack(b, q) /\ \A i \in Coeff :
           /\ operand1[i] >= 0 \/ (b = q \div (8 * N) /\ 8 * q =< R /\ (2 * N) * q =< R)
           /\ operand2[i] >= 0 \/ (b = q \div (8 * N) /\ 8 * q =< R /\ (2 * N) * q =< R)
    BY <1>1
  <2> DEFINE y1 == product'
             y2 == transform'
             d == CKKSDerivedParameters(q)
  <2>2. /\ y1 = [i \in Coeff |-> mont_mult_scalar(operand1[i], d.r_squared, d.q, d.k)]
        /\ y2 = [i \in Coeff |-> mont_mult_scalar(operand2[i], d.r_squared, d.q, d.k)]
    <3> HIDE DEF q
    <3>1. parameter.q = q
      BY DEF q
    <3> QED
      BY <1>2, <1>3, <3>1
  <2> HIDE DEF b, y1, y2, q
  <2>3. y1 \in [Coeff -> Int] /\ Within(y1, b, 2 * q - 1 + b) /\ StandsFor(y1, R, q, operand1, 0)
    BY <1>1, <2>1, <2>2, EnteredText
  <2>4. y2 \in [Coeff -> Int] /\ Within(y2, b, 2 * q - 1 + b) /\ StandsFor(y2, R, q, operand2, 0)
    BY <1>1, <2>1, <2>2, EnteredText
  <2> QED
    BY <2>3, <2>4 DEF b, y1, y2
<1>5. 2 ^ 0 * slack = slack
  <2>1. slack \in Nat /\ 2 ^ 0 = 1
    BY <1>1, SlackFacts, TwoPower
  <2> QED
    BY <2>1
<1>6. slack' = slack /\ parameter' = parameter
  BY <1>3 DEF slack, Nonnegative
<1>7. Transforming(product, operand1, log_coeff_index)'
  BY <1>3, <1>4, <1>5, <1>6 DEF Transforming
<1>8. Transforming(transform, operand2, log_coeff_index)'
  BY <1>3, <1>4, <1>5, <1>6 DEF Transforming
<1>9. 0 \in 0 .. LogN
  BY LogNAssumption
<1> QED
  BY <1>3, <1>7, <1>8, <1>9 DEF ProductInv

-----------------------------------------------------------------------------
(* The slack after s stages. *)
LEMMA SlackPower ==
    ASSUME NEW q, Suitable(q), NEW b, Slack(b, q), NEW s \in 0 .. LogN
    PROVE  2 ^ s * b \in Nat /\ 2 ^ s * b =< N * b /\ 8 * (2 ^ s * b) =< q
<1>1. s \in Nat /\ LogN \in Nat /\ s =< LogN /\ q \in Nat /\ N \in Nat
  BY LogNAssumption, SuitableModulus, CoeffCount
<1>2. 2 ^ s =< N /\ 2 ^ s \in Nat \ {0}
  BY <1>1, TwoPowerOrder, TwoPower DEF N
<1>3. b \in Nat /\ N * b \in Nat /\ 8 * (N * b) =< q
  BY SlackFacts
<1> DEFINE p == 2 ^ s
<1>4. p \in Nat /\ p =< N
  BY <1>2
<1> HIDE DEF p
<1>5. p * b =< N * b /\ p * b \in Nat
  BY <1>1, <1>3, <1>4, Monotone
<1> QED
  BY <1>1, <1>3, <1>5 DEF p

(* A stage of ntt takes one transformed text to the next stage. *)
LEMMA TransformedStage ==
    ASSUME ProductInv, \A q \in Prime : Tolerant(q),
           NEW s \in 0 .. LogN - 1, NEW y, NEW z \in [Coeff -> Int], Transforming(y, z, s)
    PROVE  Transforming(ntt_stage(y, s, parameter), z, s + 1)
<1> DEFINE q == parameter.q
           b == slack
           B == 2 ^ s * b
           x == ntt_stage(y, s, parameter)
<1>1. Suitable(q) /\ Slack(b, q) /\ parameter = CKKSDerivedParameters(q)
  BY ProductSetting DEF ProductInv
<1>2. Within(y, B, 2 * q - 1 + B) /\ StandsFor(y, R, q, z, s)
  BY DEF Transforming
<1>3. s \in 0 .. LogN /\ s \in Nat
  BY LogNAssumption
<1>4. 2 ^ (s + 1) * b = 2 * B /\ B \in Nat /\ B =< q /\ R \in Int
  <2> HIDE DEF b, q, B
  <2>1. 2 ^ (s + 1) = 2 * 2 ^ s /\ 2 ^ s \in Nat /\ b \in Nat /\ R \in Int /\ q \in Nat
    BY <1>1, <1>3, TwoPower, SlackFacts, SuitableModulus
  <2>2. 2 ^ s * b \in Nat /\ 8 * (2 ^ s * b) =< q
    BY <1>1, <1>3, SlackPower
  <2>3. B = 2 ^ s * b
    BY DEF B
  <2>4. (2 * 2 ^ s) * b = 2 * B
    <3> DEFINE p == 2 ^ s
    <3>1. p \in Nat /\ B = p * b
      BY <2>1, <2>3
    <3> HIDE DEF p
    <3>2. (2 * p) * b = 2 * B
      BY <2>1, <3>1
    <3> QED
      BY <3>2 DEF p
  <2>5. B \in Nat /\ B =< q
    BY <2>1, <2>2, <2>3
  <2> QED
    BY <2>1, <2>4, <2>5
<1>5. x = ntt_stage(y, s, CKKSDerivedParameters(q))
  BY <1>1
<1> HIDE DEF q, b, B, x
<1>6. Within(x, 2 * B, 2 * q - 1 + 2 * B) /\ StandsFor(x, R, q, z, s + 1) /\ x \in [Coeff -> Int]
  BY <1>1, <1>2, <1>4, <1>5, NttStageFolds
<1> QED
  BY <1>4, <1>6 DEF Transforming, q, b, x

(* A stage of ntt keeps the invariant. *)
LEMMA NttKept ==
    ASSUME ProductInv, \A q \in Prime : Tolerant(q), NttStage
    PROVE  ProductInv'
<1> DEFINE s == log_coeff_index
<1>1. /\ s \in 0 .. LogN - 1 /\ s + 1 \in 0 .. LogN
      /\ Transforming(product, operand1, s) /\ Transforming(transform, operand2, s)
  <2>1. s \in 0 .. LogN /\ kernel = "ntt" /\ s < LogN
    BY DEF ProductInv, NttStage
  <2> QED
    BY <2>1, LogNAssumption DEF ProductInv
<1>2. /\ product' = ntt_stage(product, s, parameter) /\ transform' = ntt_stage(transform, s, parameter)
      /\ s' = s + 1 /\ kernel' = "ntt" /\ UNCHANGED <<parameter, operand1, operand2>>
  BY DEF NttStage
<1>3. operand1 \in [Coeff -> Int] /\ operand2 \in [Coeff -> Int]
  BY ProductSetting
<1> HIDE DEF s
<1>4. Transforming(product', operand1, s + 1) /\ Transforming(transform', operand2, s + 1)
  <2>1. Transforming(ntt_stage(product, s, parameter), operand1, s + 1)
    BY <1>1, <1>3, TransformedStage
  <2>2. Transforming(ntt_stage(transform, s, parameter), operand2, s + 1)
    BY <1>1, <1>3, TransformedStage
  <2> QED
    BY <1>2, <2>1, <2>2
<1>5. slack' = slack /\ parameter' = parameter
  BY <1>2 DEF slack, Nonnegative
<1>6. Transforming(product, operand1, log_coeff_index)' /\ Transforming(transform, operand2, log_coeff_index)'
  BY <1>2, <1>4, <1>5 DEF Transforming, s
<1> QED
  BY <1>1, <1>2, <1>6 DEF ProductInv, s

(* At the end of the transforms, slots hold the operands' values. *)
LEMMA SlotsHold ==
    ASSUME ProductInv, \A q \in Prime : Tolerant(q),
           NEW y, NEW z \in [Coeff -> Int], Transforming(y, z, LogN), NEW i \in Coeff
    PROVE  LET q == parameter.q
           IN  /\ y[i] \in Int /\ - (N * slack) =< y[i] /\ y[i] =< 2 * q - 1 + N * slack
               /\ Evaluation(z, SlotRoot(i, q), q) \in Int
               /\ Cong(y[i], R * Evaluation(z, SlotRoot(i, q), q), q)
<1> DEFINE q == parameter.q
<1>1. Suitable(q)
  BY ProductSetting
<1>2. y[i] \in Int /\ - (N * slack) =< y[i] /\ y[i] =< 2 * q - 1 + N * slack
  BY DEF Transforming, Within, N
<1>3. Cong(y[i], R * FoldAt(q, z, LogN, i), q)
  BY DEF Transforming, StandsFor
<1> HIDE DEF q
<1>4. FoldAt(q, z, LogN, i) = Evaluation(z, SlotRoot(i, q), q)
  BY <1>1, FoldAtEnds
<1>5. Evaluation(z, SlotRoot(i, q), q) \in Int
  <2>1. SlotRoot(i, q) \in Nat
    BY <1>1, SlotRootNatural
  <2> QED
    BY <1>1, <2>1, ValueIsEvaluation
<1> QED
  BY <1>2, <1>3, <1>4, <1>5 DEF q

(* The product of the slots stands for the product of the operands. *)
LEMMA MultKept ==
    ASSUME ProductInv, \A q \in Prime : Tolerant(q), MontMult
    PROVE  ProductInv'
<1> DEFINE q == parameter.q
           b == slack
           z == NegacyclicProduct(operand1, operand2)
           x == product'
<1>1. /\ Suitable(q) /\ Slack(b, q) /\ operand1 \in [Coeff -> Int] /\ operand2 \in [Coeff -> Int]
      /\ z \in [Coeff -> Int] /\ parameter = CKKSDerivedParameters(q)
  BY ProductSetting DEF ProductInv
<1>2. /\ x = [i \in Coeff |-> mont_mult_scalar(product[i], transform[i], parameter.q, parameter.k)]
      /\ log_coeff_index' = LogN /\ kernel' = "intt" /\ UNCHANGED <<parameter, operand1, operand2, transform>>
  BY DEF MontMult
<1>3. Transforming(product, operand1, LogN) /\ Transforming(transform, operand2, LogN)
  BY DEF ProductInv, MontMult
<1>4. parameter.q = q /\ Valid(q, parameter.k)
  <2>1. Valid(q, CKKSDerivedParameters(q).k)
    <3> HIDE DEF q
    <3> QED
      BY <1>1, ParameterScalars
  <2> QED
    BY <1>1, <2>1
<1>5. ASSUME NEW i \in Coeff
      PROVE  /\ x[i] \in Int /\ - (2 * b) =< x[i] /\ x[i] =< 2 * q - 1
             /\ Cong(x[i], R * FoldAt(q, z, LogN, i), q)
  <2> DEFINE u == product[i]
             v == transform[i]
             r == SlotRoot(i, q)
             e == Evaluation(operand1, r, q)
             f == Evaluation(operand2, r, q)
             k == parameter.k
             m == mont_mult_scalar(u, v, q, k)
  <2>1. /\ u \in Int /\ - (N * b) =< u /\ u =< 2 * q - 1 + N * b /\ e \in Int /\ Cong(u, R * e, q)
        /\ v \in Int /\ - (N * b) =< v /\ v =< 2 * q - 1 + N * b /\ f \in Int /\ Cong(v, R * f, q)
    BY <1>1, <1>3, SlotsHold
  <2>2. x[i] = m
    BY <1>2, <1>4
  <2>3. r \in Nat /\ Cong(modulus_power(r, N, q), -1, q)
    <3> HIDE DEF q
    <3> QED
      BY <1>1, SlotRootNatural, SlotRootPower
  <2>4. Valid(q, k)
    BY <1>4
  <2> DEFINE g == Evaluation(z, r, q)
  <2>5. Cong(g, e * f, q) /\ g \in Int
    <3>1. r \in Nat /\ Cong(modulus_power(r, N, q), -1, q) /\ Suitable(q) /\ z \in [Coeff -> Int]
      BY <1>1, <2>3
    <3> HIDE DEF r, q
    <3>2. Cong(Evaluation(NegacyclicProduct(operand1, operand2), r, q),
               Evaluation(operand1, r, q) * Evaluation(operand2, r, q), q)
      BY <1>1, <3>1, Convolution
    <3> HIDE DEF z
    <3>3. Evaluation(z, r, q) \in Int
      BY <3>1, ValueIsEvaluation
    <3> QED
      BY <3>2, <3>3 DEF z
  <2>6. FoldAt(q, z, LogN, i) = g
    <3> HIDE DEF q, z
    <3> QED
      BY <1>1, FoldAtEnds
  <2> HIDE DEF u, v, r, e, f, k, m, g, q, b, z, x
  <2>7. m \in Int /\ - (2 * b) =< m /\ m =< 2 * q - 1 /\ Cong(m, R * (e * f), q)
    BY <1>1, <2>1, <2>4, SlotProduct DEF m
  <2>8. Cong(m, R * g, q)
    <3> DEFINE h == e * f
               rh == R * h
               rg == R * g
    <3>1. q \in Int /\ R \in Int /\ h \in Int
      BY <1>1, <2>1, SuitableModulus
    <3>2. Cong(g, h, q) /\ Cong(m, rh, q)
      BY <2>5, <2>7
    <3>3. rh \in Int /\ rg \in Int
      <4> HIDE DEF h
      <4> QED
        BY <2>5, <3>1
    <3> HIDE DEF h
    <3>4. Cong(R * g, R * h, q)
      BY <2>5, <3>1, <3>2, CongProduct
    <3>5. Cong(rg, rh, q)
      BY <3>4
    <3> HIDE DEF rg, rh
    <3>6. Cong(rh, rg, q)
      BY <3>1, <3>3, <3>5, CongRules
    <3>7. Cong(m, rg, q)
      BY <2>7, <3>1, <3>2, <3>3, <3>6, CongTransitive
    <3> QED
      BY <3>7 DEF rg
  <2> QED
    BY <2>2, <2>6, <2>7, <2>8
<1>6. x = [i \in Coeff |-> x[i]]
  BY <1>2
<1>7. slack' = slack /\ parameter' = parameter
  BY <1>2 DEF slack, Nonnegative
<1>8. 2 ^ (LogN - LogN) * (2 * b) = 2 * b /\ R * 2 ^ (LogN - LogN) = R
  <2>1. LogN - LogN = 0
    BY LogNAssumption
  <2>2. 2 ^ (LogN - LogN) = 1
    BY <2>1, TwoPower, Zenon
  <2>3. b \in Nat /\ R \in Int
    <3> HIDE DEF q, b
    <3> QED
      BY <1>1, SlackFacts, SuitableModulus
  <2> HIDE DEF b
  <2> QED
    BY <2>2, <2>3
<1> HIDE DEF x
<1>9. x \in [Coeff -> Int] /\ Within(x, 2 * b, 2 * q - 1) /\ StandsFor(x, R, q, z, LogN)
  BY <1>5, <1>6 DEF Within, StandsFor
<1>10. Returning(x, z, LogN)
  BY <1>8, <1>9 DEF Returning
<1>11. Returning(product, NegacyclicProduct(operand1, operand2), log_coeff_index)'
  BY <1>2, <1>7, <1>10 DEF Returning, x, z
<1>12. Transforming(transform, operand2, LogN)'
  BY <1>2, <1>3, <1>7 DEF Transforming
<1>13. LogN \in 0 .. LogN
  BY LogNAssumption
<1> QED
  BY <1>2, <1>11, <1>12, <1>13 DEF ProductInv

(* A stage of intt takes the product one stage back. *)
LEMMA ReturnedStage ==
    ASSUME ProductInv, \A q \in Prime : Tolerant(q),
           NEW s \in 0 .. LogN - 1, NEW y, NEW z \in [Coeff -> Int], Returning(y, z, s + 1)
    PROVE  Returning(intt_stage(y, s, parameter), z, s)
<1> DEFINE q == parameter.q
           b == slack
           p == 2 ^ (LogN - (s + 1))
           B == p * (2 * b)
           c == R * p
           x == intt_stage(y, s, parameter)
<1>1. Suitable(q) /\ Slack(b, q) /\ parameter = CKKSDerivedParameters(q)
  BY ProductSetting DEF ProductInv
<1>2. Within(y, B, 2 * q - 1) /\ StandsFor(y, c, q, z, s + 1)
  BY DEF Returning
<1>3. s + 1 \in 0 .. LogN /\ LogN - (s + 1) \in 0 .. LogN /\ LogN - (s + 1) \in Nat
      /\ (LogN - (s + 1)) + 1 = LogN - s
  BY LogNAssumption
<1>4. p \in Nat /\ 2 ^ (LogN - s) = 2 * p /\ p * b \in Nat /\ 8 * (p * b) =< q
  <2> DEFINE n == LogN - (s + 1)
  <2>1. n \in Nat /\ n \in 0 .. LogN /\ n + 1 = LogN - s
    BY <1>3
  <2>2. p = 2 ^ n
    OBVIOUS
  <2> HIDE DEF n, b, q, p
  <2>3. 2 ^ n \in Nat /\ 2 ^ (n + 1) = 2 * 2 ^ n /\ 2 ^ n * b \in Nat /\ 8 * (2 ^ n * b) =< q
    BY <1>1, <2>1, TwoPower, SlackPower
  <2> QED
    BY <2>1, <2>2, <2>3
<1>5. R \in Int /\ b \in Nat /\ q \in Nat
  <2> HIDE DEF b, q
  <2> QED
    BY <1>1, SlackFacts, SuitableModulus
<1>6. x = intt_stage(y, s, CKKSDerivedParameters(q))
  BY <1>1
<1> HIDE DEF q, b, p, x
<1>7. /\ 2 ^ (LogN - s) * (2 * b) = 2 * B /\ R * 2 ^ (LogN - s) = 2 * c
      /\ B \in Nat /\ 4 * B =< q /\ c \in Int
  <2>1. (2 * p) * (2 * b) = 2 * B /\ R * (2 * p) = 2 * c /\ B = 2 * (p * b) /\ c \in Int
    BY <1>4, <1>5
  <2> HIDE DEF B, c
  <2>2. B \in Nat /\ 4 * B =< q
    BY <1>4, <1>5, <2>1
  <2> QED
    BY <1>4, <2>1, <2>2
<1> HIDE DEF B, c
<1>8. Within(x, 2 * B, 2 * q - 1) /\ StandsFor(x, 2 * c, q, z, s) /\ x \in [Coeff -> Int]
  BY <1>1, <1>2, <1>6, <1>7, InttStageFolds
<1> QED
  BY <1>7, <1>8 DEF Returning, q, b, x

(* A stage of intt keeps the invariant. *)
LEMMA InttKept ==
    ASSUME ProductInv, \A q \in Prime : Tolerant(q), InttStage
    PROVE  ProductInv'
<1> DEFINE s == log_coeff_index - 1
           z == NegacyclicProduct(operand1, operand2)
<1>1. /\ s \in 0 .. LogN - 1 /\ s \in 0 .. LogN /\ s + 1 = log_coeff_index
      /\ Returning(product, z, s + 1) /\ Transforming(transform, operand2, LogN)
  <2>1. log_coeff_index \in 0 .. LogN /\ kernel = "intt" /\ log_coeff_index > 0
    BY DEF ProductInv, InttStage
  <2>2. s + 1 = log_coeff_index /\ s \in 0 .. LogN - 1 /\ s \in 0 .. LogN
    BY <2>1, LogNAssumption
  <2> QED
    BY <2>1, <2>2 DEF ProductInv
<1>2. /\ product' = intt_stage(product, s, parameter)
      /\ log_coeff_index' = s /\ kernel' = "intt" /\ UNCHANGED <<parameter, operand1, operand2, transform>>
  BY DEF InttStage
<1>3. z \in [Coeff -> Int]
  BY ProductSetting
<1> HIDE DEF s
<1>4. Returning(product', z, s)
  <2> HIDE DEF z
  <2>1. Returning(intt_stage(product, s, parameter), z, s)
    BY <1>1, <1>3, ReturnedStage
  <2> QED
    BY <1>2, <2>1
<1>5. slack' = slack /\ parameter' = parameter
  BY <1>2 DEF slack, Nonnegative
<1>6. Returning(product, NegacyclicProduct(operand1, operand2), log_coeff_index)'
  BY <1>2, <1>4, <1>5 DEF Returning
<1>7. Transforming(transform, operand2, LogN)'
  BY <1>1, <1>2, <1>5 DEF Transforming
<1> QED
  BY <1>1, <1>2, <1>6, <1>7 DEF ProductInv

(* The last kernel leaves the product, reduced. *)
LEMMA ExitKept ==
    ASSUME ProductInv, \A q \in Prime : Tolerant(q), MontEnterExit
    PROVE  ProductInv'
<1> DEFINE q == parameter.q
           b == slack
           z == NegacyclicProduct(operand1, operand2)
           x == product'
<1>1. Suitable(q) /\ Slack(b, q) /\ z \in [Coeff -> Int] /\ parameter = CKKSDerivedParameters(q)
  BY ProductSetting DEF ProductInv
<1>2. /\ x = [i \in Coeff |-> mont_enter_exit(product[i], parameter.coeff_count_inverse, parameter.q, parameter.k)]
      /\ log_coeff_index' = log_coeff_index /\ kernel' = "done" /\ UNCHANGED <<parameter, operand1, operand2, transform>>
  BY DEF MontEnterExit
<1>3. Returning(product, z, 0)
  BY DEF ProductInv, MontEnterExit
<1>4. /\ LogN - 0 = LogN /\ 2 ^ (LogN - 0) = N /\ 8 * (N * b) =< q /\ b \in Nat /\ N * b \in Nat
      /\ N \in Int /\ q \in Nat /\ R \in Int
  <2>1. LogN - 0 = LogN
    BY LogNAssumption
  <2> HIDE DEF q, b
  <2> QED
    BY <1>1, <2>1, SlackFacts, CoeffCount, SuitableModulus DEF N
<1>5. ASSUME NEW i \in Coeff
      PROVE  x[i] \in 0 .. q /\ Cong(x[i], z[i], q)
  <2> DEFINE u == product[i]
             e == z[i]
             d == CKKSDerivedParameters(q)
             m == mont_enter_exit(u, d.coeff_count_inverse, d.q, d.k)
  <2>1. u \in Int /\ - (N * (2 * b)) =< u /\ u =< 2 * q - 1 /\ Cong(u, (R * N) * FoldAt(q, z, 0, i), q)
    BY <1>3, <1>4 DEF Returning, Within, StandsFor
  <2>2. FoldAt(q, z, 0, i) = e /\ e \in Int
    <3> HIDE DEF q, z
    <3> QED
      BY <1>1, FoldAtEnds
  <2>3. x[i] = m
    BY <1>1, <1>2
  <2> HIDE DEF u, e, d, q, b, z, x
  <2>4. - q =< 4 * u
    <3>1. N * (2 * b) = 2 * (N * b)
      BY <1>4
    <3> QED
      BY <1>4, <2>1, <3>1
  <2>5. m \in 0 .. q /\ Cong(m, e, q)
    <3>1. Cong(u, (R * N) * e, q)
      BY <2>1, <2>2
    <3> QED
      BY <1>1, <2>1, <2>2, <2>4, <3>1, LastKernel DEF d
  <2> QED
    BY <2>3, <2>5 DEF e
<1>6. x = [i \in Coeff |-> x[i]]
  BY <1>2
<1> HIDE DEF x
<1>7. x \in [Coeff -> 0 .. q] /\ \A i \in Coeff : Cong(x[i], z[i], q)
  BY <1>5, <1>6
<1>8. parameter' = parameter /\ NegacyclicProduct(operand1, operand2)' = z
  BY <1>2
<1>9. Returned(product, NegacyclicProduct(operand1, operand2))'
  BY <1>2, <1>7, <1>8 DEF Returned, x
<1> QED
  BY <1>2, <1>9 DEF ProductInv

-----------------------------------------------------------------------------
(* Every step keeps the invariant. *)
LEMMA StepKept ==
    ASSUME ProductInv, \A q \in Prime : Tolerant(q), [ProductStep]_productVars
    PROVE  ProductInv'
<1>1. CASE MontEnter
  BY <1>1, EnterKept
<1>2. CASE NttStage
  BY <1>2, NttKept
<1>3. CASE MontMult
  BY <1>3, MultKept
<1>4. CASE InttStage
  BY <1>4, InttKept
<1>5. CASE MontEnterExit
  BY <1>5, ExitKept
<1>6. CASE UNCHANGED productVars
  <2>1. /\ kernel' = kernel /\ parameter' = parameter /\ operand1' = operand1 /\ operand2' = operand2
        /\ product' = product /\ transform' = transform /\ log_coeff_index' = log_coeff_index
    BY <1>6 DEF productVars
  <2>2. slack' = slack
    BY <2>1 DEF slack, Nonnegative
  <2> QED
    BY <2>1, <2>2 DEF ProductInv, Transforming, Returning, Returned
<1> QED
  BY <1>1, <1>2, <1>3, <1>4, <1>5, <1>6 DEF ProductStep

(* The invariant holds in all reachable states. *)
LEMMA ProductAlways ==
    ASSUME \A q \in Prime : Tolerant(q)
    PROVE  ProductSpec => []ProductInv
<1>1. StartProduct => ProductInv
  BY Started
<1>2. ProductInv /\ [ProductStep]_productVars => ProductInv'
  BY StepKept
<1> QED
  BY <1>1, <1>2, PTL DEF ProductSpec

(* The bounds the invariant gives are those of the type invariant. *)
LEMMA InvTypes ==
    ASSUME ProductInv, \A q \in Prime : Tolerant(q)
    PROVE  ProductTypeOK
<1> DEFINE q == parameter.q
           b == slack
           w == IF Nonnegative THEN 0 ELSE q \div 8
<1>1. Suitable(q) /\ Slack(b, q)
  BY ProductSetting
<1>2. q \in Nat /\ b \in Nat /\ w \in Nat /\ (Nonnegative => b = 0)
  <2> HIDE DEF q
  <2>1. q \in Nat \ {0}
    BY <1>1, SuitableModulus
  <2>2. q \div 8 \in Nat
    BY <2>1
  <2>3. b \in Nat
    BY <1>1, <2>1, SlackFacts
  <2>4. Nonnegative => b = 0
    BY DEF slack
  <2> QED
    BY <2>1, <2>2, <2>3, <2>4
<1>3. ASSUME NEW s \in 0 .. LogN
      PROVE  2 ^ s * b \in Nat /\ 2 ^ s * b =< w
  <2> DEFINE B == 2 ^ s * b
  <2>1. B \in Nat /\ 8 * B =< q
    <3> HIDE DEF q, b
    <3> QED
      BY <1>1, SlackPower
  <2>2. CASE Nonnegative
    <3>1. b = 0 /\ w = 0
      BY <1>2, <2>2
    <3>2. 2 ^ s \in Nat /\ 2 ^ s * 0 = 0
      <4>1. 2 ^ s \in Nat
        BY LogNAssumption, TwoPower
      <4> QED
        BY <4>1
    <3> QED
      BY <3>1, <3>2
  <2>3. CASE ~Nonnegative
    <3>1. w = q \div 8
      BY <2>3
    <3> HIDE DEF B, q
    <3>2. B =< q \div 8
      BY <1>2, <2>1
    <3> QED
      BY <2>1, <3>1, <3>2 DEF B
  <2> QED
    BY <2>2, <2>3
<1>4. ASSUME NEW y, NEW z, NEW s \in 0 .. LogN, Transforming(y, z, s)
      PROVE  y \in [Coeff -> - w .. 2 * q - 1 + w]
  <2> DEFINE B == 2 ^ s * b
  <2>1. B \in Nat /\ B =< w
    BY <1>3
  <2>2. y \in [Coeff -> Int] /\ Within(y, B, 2 * q - 1 + B)
    BY <1>4 DEF Transforming
  <2> HIDE DEF B, q, w, b
  <2>3. \A i \in Coeff : y[i] \in - w .. 2 * q - 1 + w
    BY <1>2, <2>1, <2>2 DEF Within
  <2> QED
    BY <2>2, <2>3
<1>5. ASSUME NEW y, NEW z, NEW s \in 0 .. LogN, Returning(y, z, s)
      PROVE  y \in [Coeff -> - (2 * w) .. 2 * q - 1]
  <2> DEFINE p == 2 ^ (LogN - s)
  <2>1. LogN - s \in 0 .. LogN
    BY LogNAssumption
  <2>2. p * b \in Nat /\ p * b =< w /\ p \in Nat
    <3>1. p \in Nat
      BY <2>1, TwoPower
    <3> QED
      BY <1>3, <2>1, <3>1
  <2>3. y \in [Coeff -> Int] /\ Within(y, p * (2 * b), 2 * q - 1)
    BY <1>5 DEF Returning
  <2> HIDE DEF p, q, w, b
  <2>4. p * (2 * b) = 2 * (p * b)
    BY <1>2, <2>2
  <2> DEFINE B == p * b
  <2>5. B \in Nat /\ B =< w /\ Within(y, 2 * B, 2 * q - 1)
    BY <2>2, <2>3, <2>4
  <2> HIDE DEF B
  <2>6. \A i \in Coeff : y[i] \in - (2 * w) .. 2 * q - 1
    BY <1>2, <2>5 DEF Within
  <2> QED
    BY <2>3, <2>6
<1>6. LogN \in 0 .. LogN
  BY LogNAssumption
<1>7. kernel \in {"mont_enter", "ntt", "intt", "done"} /\ log_coeff_index \in 0 .. LogN
  BY DEF ProductInv
<1>8. CASE kernel = "mont_enter"
  BY <1>7, <1>8 DEF ProductTypeOK
<1>9. CASE kernel = "ntt"
  <2>1. Transforming(product, operand1, log_coeff_index) /\ Transforming(transform, operand2, log_coeff_index)
    BY <1>9 DEF ProductInv
  <2>2. product \in [Coeff -> - w .. 2 * q - 1 + w] /\ transform \in [Coeff -> - w .. 2 * q - 1 + w]
    BY <1>4, <1>7, <2>1
  <2> QED
    BY <1>7, <1>9, <2>2 DEF ProductTypeOK
<1>10. CASE kernel = "intt"
  <2>1. /\ Returning(product, NegacyclicProduct(operand1, operand2), log_coeff_index)
        /\ Transforming(transform, operand2, LogN)
    BY <1>10 DEF ProductInv
  <2>2. product \in [Coeff -> - (2 * w) .. 2 * q - 1] /\ transform \in [Coeff -> - w .. 2 * q - 1 + w]
    BY <1>4, <1>5, <1>6, <1>7, <2>1
  <2> QED
    BY <1>7, <1>10, <2>2 DEF ProductTypeOK
<1>11. CASE kernel = "done"
  <2>1. product \in [Coeff -> 0 .. q]
    BY <1>11 DEF ProductInv, Returned
  <2> QED
    BY <1>7, <1>11, <2>1 DEF ProductTypeOK
<1> QED
  BY <1>7, <1>8, <1>9, <1>10, <1>11

(* A difference of congruent integers is divisible. *)
LEMMA Divisible ==
    ASSUME NEW q \in Nat \ {0}, NEW a \in Int, NEW b \in Int, Cong(a, b, q)
    PROVE  (a - b) % q = 0
<1>1. PICK w \in Int : a = b + q * w
  BY DEF Cong
<1>2. q * w \in Int
  BY <1>1
<1>3. a - b = (q * w) + 0
  BY <1>1, <1>2
<1>4. ((q * w) + 0) % q = 0
  <2>1. 0 \in 0 .. q - 1
    OBVIOUS
  <2> QED
    BY <1>1, <2>1, DivModUnique
<1> QED
  BY <1>3, <1>4

(* The last stage's folds are the polynomial's values at the roots. *)
LEMMA InvSlots ==
    ASSUME ProductInv, \A q \in Prime : Tolerant(q)
    PROVE  EvaluatesAtRoots
<1> DEFINE q == parameter.q
<1>1. SUFFICES ASSUME kernel = "ntt", log_coeff_index = LogN, NEW i \in Coeff
               PROVE  /\ (product[i] - R * Value(operand1, SlotRoot(i, q), q)) % q = 0
                      /\ (transform[i] - R * Value(operand2, SlotRoot(i, q), q)) % q = 0
  BY DEF EvaluatesAtRoots
<1>2. Transforming(product, operand1, LogN) /\ Transforming(transform, operand2, LogN)
  BY <1>1 DEF ProductInv
<1>3. Suitable(q) /\ operand1 \in [Coeff -> Int] /\ operand2 \in [Coeff -> Int]
  BY ProductSetting
<1>4. q \in Nat \ {0} /\ q \in Int /\ R \in Int
  <2> HIDE DEF q
  <2> QED
    BY <1>3, SuitableModulus
<1>5. SlotRoot(i, q) \in Nat
  <2> HIDE DEF q
  <2> QED
    BY <1>3, SlotRootNatural
<1>6. ASSUME NEW y, NEW z \in [Coeff -> Int], Transforming(y, z, LogN)
      PROVE  (y[i] - R * Value(z, SlotRoot(i, q), q)) % q = 0
  <2> DEFINE r == SlotRoot(i, q)
             e == Evaluation(z, r, q)
             v == Value(z, r, q)
             u == y[i]
  <2>1. u \in Int /\ e \in Int /\ Cong(u, R * e, q)
    BY <1>6, SlotsHold
  <2>2. v \in Int /\ Cong(e, v, q)
    <3> HIDE DEF q
    <3> QED
      BY <1>3, <1>5, ValueIsEvaluation
  <2> HIDE DEF q, r, e, v, u
  <2>3. Cong(R * e, R * v, q) /\ R * e \in Int /\ R * v \in Int
    <3>1. R * e \in Int /\ R * v \in Int
      BY <1>4, <2>1, <2>2
    <3>2. Cong(R, R, q)
      BY <1>4, CongRules
    <3> QED
      BY <1>4, <2>1, <2>2, <3>1, <3>2, CongProduct
  <2>4. Cong(u, R * v, q)
    BY <1>4, <2>1, <2>3, CongTransitive
  <2>5. (u - R * v) % q = 0
    <3> DEFINE t == R * v
    <3>1. t \in Int /\ Cong(u, t, q)
      BY <2>3, <2>4
    <3> HIDE DEF t
    <3>2. (u - t) % q = 0
      BY <1>4, <2>1, <3>1, Divisible
    <3> QED
      BY <3>2 DEF t
  <2> QED
    BY <2>5 DEF u, v, r
<1> QED
  BY <1>2, <1>3, <1>6

(* The result is congruent to the exact product. *)
LEMMA InvProduct ==
    ASSUME ProductInv, \A q \in Prime : Tolerant(q)
    PROVE  ProductCorrect
<1> DEFINE q == parameter.q
           z == NegacyclicProduct(operand1, operand2)
<1>1. SUFFICES ASSUME kernel = "done", NEW i \in Coeff
               PROVE  (product[i] - z[i]) % q = 0
  BY DEF ProductCorrect
<1>2. product \in [Coeff -> 0 .. q] /\ Cong(product[i], z[i], q)
  BY <1>1 DEF ProductInv, Returned
<1>3. Suitable(q) /\ z \in [Coeff -> Int]
  BY ProductSetting
<1> HIDE DEF q, z
<1>4. q \in Nat \ {0}
  BY <1>3, SuitableModulus
<1>5. product[i] \in 0 .. q /\ z[i] \in Int
  BY <1>2, <1>3
<1>6. product[i] \in Int
  BY <1>4, <1>5
<1> QED
  BY <1>2, <1>4, <1>5, <1>6, Divisible

-----------------------------------------------------------------------------
(***************************************************************************)
(* Values between the kernels stay in the range that the guards left out   *)
(* on the way, in montgomery/compound.cpp and operation/ntt.cpp, count on: *)
(* below 2q, and what negative operands add to that stays within a quarter *)
(* of q, however many stages there are.                                    *)
(***************************************************************************)
THEOREM ProductTypesHold ==
    ASSUME \A q \in Prime : Tolerant(q)
    PROVE  ProductSpec => []ProductTypeOK
<1>1. ProductSpec => []ProductInv
  BY ProductAlways
<1>2. ProductInv => ProductTypeOK
  BY InvTypes
<1> QED
  BY <1>1, <1>2, PTL

(***************************************************************************)
(* After the stages of ntt, slot i holds the Montgomery form of the        *)
(* operand's value at the root with exponent 2 rev(i) + 1, for all         *)
(* transform lengths, primes and operands: the order that rotations of     *)
(* texts in NTT form permute.                                              *)
(***************************************************************************)
THEOREM AlwaysEvaluatesAtRoots ==
    ASSUME \A q \in Prime : Tolerant(q)
    PROVE  ProductSpec => []EvaluatesAtRoots
<1>1. ProductSpec => []ProductInv
  BY ProductAlways
<1>2. ProductInv => EvaluatesAtRoots
  BY InvSlots
<1> QED
  BY <1>1, <1>2, PTL

(***************************************************************************)
(* Transforming, multiplying slots and transforming back (to_ntt_form_,    *)
(* multiply, to_intt_form_) is multiplication modulo X^N + 1 and q, for    *)
(* all transform lengths, primes and operands.                             *)
(***************************************************************************)
THEOREM ProductAlwaysCorrect ==
    ASSUME \A q \in Prime : Tolerant(q)
    PROVE  ProductSpec => []ProductCorrect
<1>1. ProductSpec => []ProductInv
  BY ProductAlways
<1>2. ProductInv => ProductCorrect
  BY InvProduct
<1> QED
  BY <1>1, <1>2, PTL
=============================================================================
