-------------------------- MODULE KeySwitchProofs ---------------------------
(***************************************************************************)
(* What rns_to_mrs computes, for all moduli, partitions and residues: the  *)
(* digits in the mixed radix of a partition are those of one integer, with *)
(* the residues of the ciphertext and of the size of the partition; what   *)
(* mod_up makes of them is that integer modulo every prime; each partition *)
(* meets its own part of the key; what a key decrypts to; what the         *)
(* products of the partitions with the key add up to; and what the         *)
(* division by the special primes leaves of it.                            *)
(***************************************************************************)
EXTENDS ArithmeticProofs, KeySwitch

-----------------------------------------------------------------------------
(***************************************************************************)
(* The digits of one coefficient.  q and k are the moduli of a partition   *)
(* with their constants, w the weights of the digits, r the residues, and  *)
(* a[t][j] what the polynomial of digit j holds after round t.             *)
(***************************************************************************)
Basis(count, q, k, w) ==
    /\ count \in 1 .. 16
    /\ \A j \in 0 .. count - 1 :
         /\ q[j] \in Nat \ {0, 1} /\ Valid(q[j], k[j]) /\ Coprime(R, q[j])
         /\ \A i \in 0 .. count - 1 : i # j => Coprime(q[i], q[j])
    /\ w[0] = 1
    /\ \A t \in 0 .. count - 1 : w[t + 1] = w[t] * q[t]

Rounds(count, q, k, w, r, a) ==
    /\ \A j \in 0 .. count - 1 : a[0][j] = r[0]
    /\ \A t \in 1 .. count - 1 :
         /\ a[t][t] = mont_sub_enter_reduce_2q_to_q(r[t], a[t - 1][t],
              modulus_multiply(modulus_invert(w[t] % q[t], q[t]), R, q[t]),
              q[t], k[t])
         /\ \A j \in 0 .. t - 1 : a[t][j] = a[t - 1][j]
         /\ \A j \in t + 1 .. count - 1 :
              a[t][j] = mont_enter_add_reduce_2q_to_q(a[t][t], a[t - 1][j],
                modulus_multiply(w[t] % q[j], R, q[j]), q[j], k[j])

(* The weight of a digit is a multiple of the moduli before it and prime   *)
(* to those from its own on.                                               *)
LEMMA WeightFacts ==
    ASSUME NEW count, NEW q, NEW k, NEW w, Basis(count, q, k, w)
    PROVE  /\ count \in Nat /\ count \in Int
           /\ \A j \in 0 .. count - 1 : q[j] \in Nat \ {0, 1} /\ q[j] \in Int
           /\ \A t \in 0 .. count :
                /\ w[t] \in Nat \ {0} /\ w[t] \in Int
                /\ \A j \in 0 .. count - 1 :
                     /\ t =< j => Coprime(w[t], q[j])
                     /\ j < t => Cong(w[t], 0, q[j])
<1> DEFINE P(t) == /\ w[t] \in Nat \ {0} /\ w[t] \in Int
                   /\ \A j \in 0 .. count - 1 :
                        /\ t =< j => Coprime(w[t], q[j])
                        /\ j < t => Cong(w[t], 0, q[j])
           S == {t \in 0 .. count : P(t)}
<1>1. /\ count \in Nat /\ count \in Int
      /\ \A j \in 0 .. count - 1 : q[j] \in Nat \ {0, 1} /\ q[j] \in Int
  BY DEF Basis
<1>2. 0 \in S
  <2>1. w[0] = 1 /\ 0 \in 0 .. count
    BY <1>1 DEF Basis
  <2>2. \A j \in 0 .. count - 1 : Coprime(w[0], q[j]) /\ ~(j < 0)
    BY <1>1, <2>1, CoprimeOne
  <2> QED
    BY <2>1, <2>2
<1>3. ASSUME NEW t \in 0 .. count, t + 1 =< count, t \in S
      PROVE  t + 1 \in S
  <2>1. t \in 0 .. count - 1 /\ t + 1 \in 0 .. count /\ P(t)
    BY <1>1, <1>3
  <2>2. w[t + 1] = w[t] * q[t] /\ w[t] \in Nat \ {0} /\ q[t] \in Nat \ {0, 1}
        /\ w[t] \in Int /\ q[t] \in Int
    BY <1>1, <2>1 DEF Basis
  <2>3. w[t + 1] \in Nat \ {0} /\ w[t + 1] \in Int
    <3> DEFINE u == w[t]
               v == q[t]
    <3>1. u \in Nat \ {0} /\ v \in Nat \ {0, 1}
      BY <2>2
    <3> HIDE DEF u, v
    <3>2. u * v \in Nat \ {0}
      BY <3>1
    <3> QED
      BY <2>2, <3>2 DEF u, v
  <2>4. ASSUME NEW j \in 0 .. count - 1, t + 1 =< j
        PROVE  Coprime(w[t + 1], q[j])
    <3>1. Coprime(w[t], q[j]) /\ Coprime(q[t], q[j]) /\ q[j] \in Int
      BY <1>1, <2>1, <2>4 DEF Basis
    <3> QED
      BY <2>2, <3>1, CoprimeProduct
  <2>5. ASSUME NEW j \in 0 .. count - 1, j < t + 1
        PROVE  Cong(w[t + 1], 0, q[j])
    <3>0. q[j] \in Int
      BY <1>1
    <3>1. CASE j < t
      <4>1. Cong(w[t], 0, q[j])
        BY <2>1, <3>1
      <4> DEFINE u == w[t]
                 v == q[t]
                 p == q[j]
                 zero == 0
      <4>2. u \in Int /\ v \in Int /\ p \in Int /\ zero \in Int /\ Cong(u, zero, p)
        BY <2>2, <3>0, <4>1
      <4>3. zero * v = 0
        BY <4>2
      <4> HIDE DEF u, v, p, zero
      <4>4. Cong(u * v, zero * v, p)
        BY <4>2, CongProduct
      <4> QED
        BY <2>2, <4>3, <4>4 DEF u, v, p
    <3>2. CASE j = t
      <4>1. w[t + 1] = 0 + q[j] * w[t]
        BY <2>2, <3>2
      <4> QED
        BY <2>2, <4>1 DEF Cong
    <3> QED
      BY <1>1, <2>5, <3>1, <3>2
  <2>6. P(t + 1)
    BY <2>3, <2>4, <2>5
  <2> QED
    BY <2>1, <2>6
<1> HIDE DEF S
<1>4. /\ 0 \in Int
      /\ \A t \in 0 .. count : t + 1 =< count /\ t \in S => t + 1 \in S
  BY <1>3
<1>5. \A t \in 0 .. count : t \in S
  BY <1>1, <1>2, <1>4, Upward, Zenon
<1> QED
  BY <1>1, <1>5 DEF S

-----------------------------------------------------------------------------
(* The difference of two residues divided by w.  The subtrahend is anything *)
(* that fits, a residue of another modulus or a sum of carries.            *)
LEMMA Quotient ==
    ASSUME NEW q \in Nat \ {0, 1}, NEW k, Valid(q, k), Coprime(R, q),
           NEW r \in 1 - q .. 2 * q - 1, NEW s \in Int, - R =< 2 * s, 2 * s < R,
           NEW w \in Int, Coprime(w, q)
    PROVE  LET d == mont_sub_enter(r, s,
                 modulus_multiply(modulus_invert(w % q, q), R, q), q, k)
           IN  /\ d \in Int /\ - q =< 2 * d /\ d < 2 * q
               /\ Cong(s + d * w, r, q)
<1> DEFINE e == modulus_invert(w % q, q)
           c == modulus_multiply(e, R, q)
           z == guard(r + 2 * q - s, 2 * q)
           v == mont_mult_scalar(z, c, q, k)
<1>0. R \in Nat \ {0} /\ R \in Int /\ q \in Int /\ 4 * q < R
  BY RAssumption DEF Valid
<1>1. e \in 0 .. q - 1 /\ e \in Int /\ Cong(w * e, 1, q)
  BY InverseFound
<1>2. c \in 0 .. q - 1 /\ c \in Int
  <2>1. c \in 0 .. q - 1
    BY ScaleRange
  <2> HIDE DEF c
  <2> QED
    BY <1>0, <2>1
<1>3. Cong(c, e * R, q)
  <2> HIDE DEF e
  <2>1. e * R \in Int /\ ~(e * R < 0)
    BY <1>0, <1>1
  <2>2. c = (e * R) % q
    BY <2>1 DEF modulus_multiply
  <2> HIDE DEF c
  <2> QED
    BY <2>1, <2>2, RemainderFacts
<1>4. r \in Int /\ 1 - q =< r /\ r =< 2 * q - 1
  BY <1>0
<1>5. z \in Int /\ - R =< 2 * z /\ z =< R - 1 /\ Cong(z, r + 2 * q - s, q)
  <2>1. r + 2 * q - s \in Int
    BY <1>0, <1>4
  <2>2. z \in Int /\ Cong(z, r + 2 * q - s, q)
    BY <1>0, <2>1, GuardCong
  <2>3. z = IF r + 2 * q - s < 2 * q THEN r + 2 * q - s ELSE r + 2 * q - s - 2 * q
    BY <1>0, <1>4 DEF guard
  <2> HIDE DEF z
  <2> QED
    BY <1>0, <1>4, <2>2, <2>3
<1> HIDE DEF e, c, z
<1>6. v \in Int /\ Cong(v, z * e, q)
  <2>1. - (2 * R) =< z /\ z =< 2 * R /\ - q =< c /\ c =< q
    BY <1>0, <1>2, <1>5
  <2> QED
    BY <1>0, <1>1, <1>2, <1>3, <1>5, <2>1, MontMultCong
<1>7. - q =< 2 * v /\ v < 2 * q
  <2>1. - (R * R) =< z * c /\ z * c =< R * R
    <3>1. - (2 * R) =< z /\ z =< 2 * R /\ - q =< c /\ c =< q
      BY <1>0, <1>2, <1>5
    <3> QED
      BY <1>0, <1>2, <1>5, <3>1, ProductFits
  <2>2. PICK n \in 0 .. R - 1 : R * v = z * c + n * q
    BY <1>2, <1>5, <2>1, MontMultExact
  <2>3. n * q \in Int /\ 0 =< n * q /\ n * q =< (R - 1) * q
    BY <1>0
  <2>4. z * c \in Int /\ z * c =< (R - 1) * q
    <3>1. CASE z < 0
      <4>1. z * c =< 0 /\ (R - 1) * q >= 0 /\ z * c \in Int
        BY <1>0, <1>2, <1>5, <3>1
      <4> QED
        BY <1>0, <4>1
    <3>2. CASE z >= 0
      <4>1. z * c =< (R - 1) * c
        BY <1>0, <1>2, <1>5, Monotone
      <4>2. (R - 1) * c =< (R - 1) * q
        <5>1. c =< q /\ R - 1 \in Nat
          BY <1>0, <1>2
        <5>2. c * (R - 1) =< q * (R - 1)
          BY <1>0, <1>2, <5>1, Monotone
        <5> QED
          BY <1>0, <1>2, <5>1, <5>2, Distribute
      <4> QED
        BY <1>0, <1>2, <1>5, <4>1, <4>2
    <3> QED
      BY <1>5, <3>1, <3>2
  <2>5. - (R * q) =< 2 * (z * c)
    <3>1. - R * c =< (2 * z) * c
      BY <1>0, <1>2, <1>5, Monotone
    <3>2. R * c =< R * q
      <4>1. c =< q /\ R \in Nat
        BY <1>0, <1>2
      <4>2. c * R =< q * R
        BY <1>0, <1>2, <4>1, Monotone
      <4> QED
        BY <1>0, <1>2, <4>2, Distribute
    <3>3. (2 * z) * c = 2 * (z * c) /\ - R * c = - (R * c) /\ R * c \in Int /\ R * q \in Int
      BY <1>0, <1>2, <1>5
    <3> QED
      BY <1>0, <2>4, <3>1, <3>2, <3>3
  <2>6. R * v < R * (2 * q)
    <3>1. (R - 1) * q = R * q - q /\ R * (2 * q) = 2 * (R * q) /\ R * q \in Int
      BY <1>0
    <3> QED
      BY <1>0, <2>2, <2>3, <2>4, <3>1
  <2>7. v < 2 * q
    BY <1>0, <1>6, <2>6, Cancel
  <2>8. R * (- q - 1) < R * (2 * v)
    <3>1. R * (- q - 1) = - (R * q) - R /\ R * (2 * v) = 2 * (R * v) /\ R * q \in Int /\ R * v \in Int
      BY <1>0, <1>6
    <3> QED
      BY <1>0, <2>2, <2>3, <2>4, <2>5, <3>1
  <2>9. - q - 1 < 2 * v
    <3>1. - q - 1 \in Int /\ 2 * v \in Int
      BY <1>0, <1>6
    <3> QED
      BY <1>0, <2>8, <3>1, Cancel
  <2> QED
    BY <1>0, <1>6, <2>7, <2>9
<1> HIDE DEF v
<1>9. v = mont_sub_enter(r, s, modulus_multiply(modulus_invert(w % q, q), R, q), q, k)
  BY DEF v, z, c, e, mont_sub_enter
<1>10. Cong(s + v * w, r, q)
  <2> DEFINE g == r + 2 * q - s
             ze == z * e
             ge == g * e
             gew == ge * w
             dw == v * w
             we == w * e
             gwe == g * we
  <2>1. /\ g \in Int /\ ze \in Int /\ ge \in Int /\ gew \in Int /\ dw \in Int /\ we \in Int
        /\ gwe \in Int /\ gew = gwe
    <3>1. g \in Int
      BY <1>0, <1>4
    <3> HIDE DEF g
    <3> QED
      BY <1>1, <1>5, <1>6, <3>1
  <2>2. Cong(z, g, q) /\ Cong(v, ze, q) /\ Cong(we, 1, q)
    BY <1>1, <1>5, <1>6
  <2> HIDE DEF g
  <2>3. Cong(ze, ge, q)
    BY <1>0, <1>1, <1>5, <2>1, <2>2, CongProduct
  <2>3a. Cong(gwe, g * 1, q)
    <3> DEFINE one == 1
    <3>1. one \in Int /\ we \in Int /\ g \in Int /\ Cong(we, one, q)
      BY <2>1, <2>2
    <3> HIDE DEF we, one
    <3>2. Cong(g * we, g * one, q)
      BY <1>0, <3>1, CongProduct
    <3> QED
      BY <3>2 DEF one
  <2> HIDE DEF ze, we
  <2>4. Cong(v, ge, q)
    BY <1>0, <1>6, <2>1, <2>2, <2>3, CongTransitive
  <2> HIDE DEF ge
  <2>6. Cong(dw, gew, q)
    BY <1>0, <1>6, <2>1, <2>4, CongProduct
  <2>7. Cong(gwe, g, q)
    BY <2>1, <2>3a
  <2>8. Cong(dw, g, q)
    <3>1. Cong(gew, g, q)
      BY <2>1, <2>7, Zenon
    <3> HIDE DEF gew, gwe, dw
    <3> QED
      BY <1>0, <2>1, <2>6, <3>1, CongTransitive
  <2>9. Cong(s + dw, s + g, q)
    <3> HIDE DEF dw
    <3>1. Cong(s, s, q)
      BY <1>0, CongRules
    <3> QED
      BY <1>0, <2>1, <2>8, <3>1, CongSum
  <2>10. s + g = r + q * 2 /\ s + g \in Int
    BY <1>0, <1>4 DEF g
  <2>11. Cong(s + g, r, q)
    BY <1>0, <2>10 DEF Cong
  <2>12. s + dw \in Int /\ r \in Int
    BY <1>4, <2>1
  <2> HIDE DEF dw
  <2>13. Cong(s + dw, r, q)
    BY <1>0, <2>9, <2>10, <2>11, <2>12, CongTransitive
  <2> QED
    BY <2>13 DEF dw
<1> QED
  BY <1>6, <1>7, <1>9, <1>10

(* A new digit.  The subtrahend is any sum of carries that fits.           *)
LEMMA NewDigit ==
    ASSUME NEW q \in Nat \ {0, 1}, NEW k, Valid(q, k), Coprime(R, q),
           NEW r \in Residue(q), NEW s \in Int, - R =< 2 * s, 2 * s < R,
           NEW w \in Int, Coprime(w, q)
    PROVE  LET d == mont_sub_enter_reduce_2q_to_q(r, s,
                 modulus_multiply(modulus_invert(w % q, q), R, q), q, k)
           IN  d \in - (q \div 2) .. q - 1 /\ Cong(s + d * w, r, q)
<1> DEFINE c == modulus_multiply(modulus_invert(w % q, q), R, q)
           v == mont_sub_enter(r, s, c, q, k)
           d == guard(v, q)
<1>1. q \in Int /\ r \in Int /\ r \in 1 - q .. 2 * q - 1
      /\ q \div 2 \in Int /\ 2 * (q \div 2) =< q /\ q =< 2 * (q \div 2) + 1
  <2>1. q \div 4 \in Int /\ 4 * (q \div 4) =< q /\ 0 =< q \div 4
    OBVIOUS
  <2> QED
    BY <2>1 DEF Residue
<1>2. v \in Int /\ - q =< 2 * v /\ v < 2 * q /\ Cong(s + v * w, r, q)
  BY <1>1, Quotient
<1> HIDE DEF v
<1>3. d \in Int /\ Cong(d, v, q) /\ d \in - (q \div 2) .. q - 1
  <2>1. d \in Int /\ Cong(d, v, q)
    BY <1>1, <1>2, GuardCong
  <2>2. d = IF v < q THEN v ELSE v - q
    BY DEF guard
  <2> HIDE DEF d
  <2> QED
    BY <1>1, <1>2, <2>1, <2>2
<1>4. d = mont_sub_enter_reduce_2q_to_q(r, s, c, q, k)
  BY DEF d, v, mont_sub_enter_reduce_2q_to_q
<1> HIDE DEF d
<1> DEFINE dw == d * w
           vw == v * w
           sd == s + dw
           sv == s + vw
<1>5. dw \in Int /\ vw \in Int /\ sd \in Int /\ sv \in Int /\ Cong(sv, r, q)
  BY <1>2, <1>3
<1>6. Cong(dw, vw, q) /\ Cong(s, s, q)
  BY <1>1, <1>2, <1>3, CongProduct, CongRules
<1> HIDE DEF dw, vw
<1>7. Cong(sd, sv, q)
  BY <1>1, <1>5, <1>6, CongSum
<1> HIDE DEF sd, sv
<1>8. Cong(sd, r, q)
  BY <1>1, <1>5, <1>7, CongTransitive
<1> QED
  BY <1>3, <1>4, <1>8 DEF sd, dw, c

(* A digit carried into a later polynomial: never above half the word, and *)
(* lower by a 32nd of it at most.                                          *)
LEMMA CarriedDigit ==
    ASSUME NEW q \in Nat \ {0, 1}, NEW k, Valid(q, k), Coprime(R, q),
           NEW d \in Int, - R =< 8 * d, 4 * d =< R, NEW s \in Int, 2 * s < R,
           NEW w \in Int
    PROVE  LET z == mont_enter_add_reduce_2q_to_q(d, s,
                 modulus_multiply(w % q, R, q), q, k)
           IN  /\ z \in Int /\ 2 * z < R
               /\ 0 =< z \/ 32 * s - R =< 32 * z
               /\ Cong(z, s + d * w, q)
<1> DEFINE e == w % q
           c == modulus_multiply(e, R, q)
           v == mont_mult_scalar(d, c, q, k)
           u == guard(v + s, 2 * q)
           z == guard(u, q)
<1>0. R \in Nat \ {0} /\ R \in Int /\ q \in Int /\ 4 * q < R
  BY RAssumption DEF Valid
<1>1. e \in 0 .. q - 1 /\ e \in Int /\ Cong(e, w, q)
  BY RemainderFacts
<1>2. c \in 0 .. q - 1 /\ c \in Int /\ Cong(c, e * R, q)
  <2> HIDE DEF e
  <2>1. e * R \in Int /\ ~(e * R < 0)
    BY <1>0, <1>1
  <2>2. c = (e * R) % q
    BY <2>1 DEF modulus_multiply
  <2> HIDE DEF c
  <2> QED
    BY <2>1, <2>2, RemainderFacts
<1> HIDE DEF e, c
<1>3. v \in Int /\ Cong(v, d * e, q)
  <2>1. - (2 * R) =< d /\ d =< 2 * R /\ - q =< c /\ c =< q
    BY <1>0, <1>2
  <2> QED
    BY <1>0, <1>1, <1>2, <2>1, MontMultCong
<1>4. - (2 * q) =< 16 * v /\ 16 * v =< 20 * q
  <2> DEFINE two == 2
             four == 4
  <2>1. two \in 0 .. 64 /\ four \in 0 .. 64 /\ - (two * R) =< 16 * d /\ 16 * d =< four * R
        /\ - q =< c /\ c =< q /\ (c >= 0 \/ two = four)
    BY <1>0, <1>2
  <2> HIDE DEF two, four
  <2>2. - (two * q) =< 16 * v /\ 16 * v =< (four + 16) * q
    BY <1>2, <2>1, MontMultRange
  <2> QED
    BY <2>2 DEF two, four
<1> HIDE DEF v
<1>5. u \in Int /\ Cong(u, v + s, q) /\ u = IF v + s < 2 * q THEN v + s ELSE (v + s) - 2 * q
  <2>1. ASSUME NEW n \in Int
        PROVE  /\ guard(n, 2 * q) \in Int /\ Cong(guard(n, 2 * q), n, q)
               /\ guard(n, 2 * q) = IF n < 2 * q THEN n ELSE n - 2 * q
    BY <1>0, GuardCong DEF guard
  <2>2. v + s \in Int
    BY <1>3
  <2>3. u \in Int
    BY <2>1, <2>2
  <2>4. Cong(u, v + s, q)
    BY <2>1, <2>2
  <2>5. u = IF v + s < 2 * q THEN v + s ELSE (v + s) - 2 * q
    BY Zenon DEF u, guard
  <2> QED
    BY <2>3, <2>4, <2>5
<1> HIDE DEF u
<1>6. z \in Int /\ Cong(z, u, q) /\ z = IF u < q THEN u ELSE u - q
  BY <1>0, <1>5, GuardCong DEF guard
<1> HIDE DEF z
<1>7. 2 * z < R /\ (0 =< z \/ 32 * s - R =< 32 * z)
  BY <1>0, <1>3, <1>4, <1>5, <1>6
<1>8. Cong(z, s + d * w, q)
  <2> DEFINE de == d * e
             dw == d * w
  <2>1. de \in Int /\ dw \in Int /\ Cong(v, de, q)
    BY <1>1, <1>3
  <2>2. Cong(de, dw, q)
    BY <1>0, <1>1, CongProduct
  <2> HIDE DEF de, dw
  <2>3. Cong(v, dw, q)
    BY <1>0, <1>3, <2>1, <2>2, CongTransitive
  <2>4. Cong(s, s, q)
    BY <1>0, CongRules
  <2>5. Cong(v + s, dw + s, q) /\ v + s \in Int /\ dw + s \in Int
    BY <1>0, <1>3, <2>1, <2>3, <2>4, CongSum
  <2>6. Cong(z, v + s, q)
    BY <1>0, <1>5, <1>6, <2>5, CongTransitive
  <2>7. Cong(z, dw + s, q)
    BY <1>0, <1>6, <2>5, <2>6, CongTransitive
  <2>8. dw + s = s + dw
    BY <2>1
  <2> QED
    BY <2>7, <2>8 DEF dw
<1>9. z = mont_enter_add_reduce_2q_to_q(d, s, modulus_multiply(w % q, R, q), q, k)
  BY DEF z, u, v, c, e, mont_enter_add_reduce_2q_to_q, mont_enter_add
<1> QED
  BY <1>6, <1>7, <1>8, <1>9

-----------------------------------------------------------------------------
(* The integer of the digits that are finished after round t.              *)
DigitTerm(a, w, count) == [s \in 0 .. count - 1 |-> a[s][s] * w[s]]

SoFar(a, w, t) == Total(DigitTerm(a, w, t + 1), t + 1)

SmallDigit(d) == d \in Int /\ - R =< 8 * d /\ 2 * d =< R

Finished(count, q, w, r, a, t) ==
    /\ \A j \in 0 .. t : a[t][j] = a[j][j] /\ SmallDigit(a[j][j])
    /\ SoFar(a, w, t) \in Int
    /\ - w[t + 1] =< SoFar(a, w, t)
    /\ SoFar(a, w, t) =< w[t + 1] + q[0] - 1
    /\ \A j \in 0 .. t : Cong(SoFar(a, w, t), r[j], q[j])

Pending(count, q, w, r, a, t) ==
    \A j \in t + 1 .. count - 1 :
      /\ a[t][j] \in Int /\ 2 * a[t][j] < R
      /\ - ((2 + t) * R) =< 32 * a[t][j]
      /\ Cong(a[t][j], SoFar(a, w, t), q[j])

Residual(count, q, r) == \A j \in 0 .. count - 1 : r[j] \in Residue(q[j])

(* One more finished digit adds its term.                                  *)
LEMMA SoFarStep ==
    ASSUME NEW a, NEW w, NEW t \in Nat,
           \A s \in 0 .. t + 1 : a[s][s] \in Int /\ w[s] \in Int
    PROVE  /\ SoFar(a, w, t) \in Int
           /\ SoFar(a, w, t + 1) = SoFar(a, w, t) + a[t + 1][t + 1] * w[t + 1]
<1> DEFINE f == DigitTerm(a, w, t + 1)
           g == DigitTerm(a, w, (t + 1) + 1)
           n == t + 1
           m == n + 1
<1>1. n \in Nat /\ m \in Nat /\ n \in 0 .. m - 1 /\ n \in 0 .. m
  OBVIOUS
<1>2. \A i \in 0 .. n - 1 : f[i] = a[i][i] * w[i] /\ f[i] \in Int
  BY DEF DigitTerm
<1>3. \A i \in 0 .. m - 1 : g[i] = a[i][i] * w[i] /\ g[i] \in Int
  BY DEF DigitTerm
<1>4. \A i \in 0 .. n - 1 : f[i] = g[i]
  BY <1>2, <1>3
<1>5. Summands(f, n) /\ Summands(g, m)
  BY <1>2, <1>3 DEF Summands
<1> HIDE DEF f, g, m
<1>6. Total(f, n) = Total(g, n) /\ Summands(g, n)
  BY <1>1, <1>4, <1>5, TotalSame
<1>7. Total(g, n) \in Int /\ Total(g, n + 1) = Total(g, n) + g[n]
  BY <1>1, <1>5, TotalStep
<1>8. g[n] = a[n][n] * w[n]
  BY <1>1, <1>3
<1> QED
  BY <1>6, <1>7, <1>8 DEF SoFar, f, g, m

LEMMA RoundZero ==
    ASSUME NEW count, NEW q, NEW k, NEW w, NEW r, NEW a,
           Basis(count, q, k, w), Rounds(count, q, k, w, r, a), Residual(count, q, r)
    PROVE  Finished(count, q, w, r, a, 0) /\ Pending(count, q, w, r, a, 0)
<1>1. /\ count \in Nat /\ 0 \in 0 .. count - 1 /\ 0 \in 0 .. count /\ 1 \in 0 .. count /\ count >= 1
  BY DEF Basis
<1>2. q[0] \in Nat \ {0, 1} /\ q[0] \in Int /\ 4 * q[0] < R /\ R \in Nat
  BY <1>1, RAssumption DEF Basis, Valid
<1>3. w[0] = 1 /\ w[0 + 1] = w[0] * q[0]
  BY <1>1 DEF Basis
<1>4. r[0] \in Int /\ - q[0] =< 4 * r[0] /\ r[0] =< 2 * q[0] - 1
  <2> DEFINE p == q[0]
             v == r[0]
  <2>1. v \in Residue(p) /\ p \in Nat \ {0, 1}
    BY <1>1, <1>2 DEF Residual
  <2> HIDE DEF p, v
  <2>2. p \div 4 \in Int /\ 4 * (p \div 4) =< p
    BY <2>1
  <2>3. v \in Int /\ - p =< 4 * v /\ v =< 2 * p - 1
    BY <2>1, <2>2 DEF Residue
  <2> QED
    BY <2>3 DEF p, v
<1>5. \A j \in 0 .. count - 1 : a[0][j] = r[0]
  BY DEF Rounds
<1>6. SoFar(a, w, 0) = r[0]
  <2> DEFINE f == DigitTerm(a, w, 0 + 1)
  <2>1. f[0] = a[0][0] * w[0]
    BY DEF DigitTerm
  <2>2. f[0] = r[0]
    BY <1>1, <1>3, <1>4, <1>5, <2>1
  <2> HIDE DEF f
  <2>3. Total(f, 1) = r[0]
    BY <1>4, <2>2, TotalOne
  <2> QED
    BY <2>3 DEF SoFar, f
<1>7. w[0 + 1] = q[0]
  BY <1>2, <1>3
<1>8. Cong(r[0], r[0], q[0])
  BY <1>2, <1>4, CongRules
<1>9. Finished(count, q, w, r, a, 0)
  <2>1. \A j \in 0 .. 0 : j = 0
    OBVIOUS
  <2> QED
    BY <1>1, <1>2, <1>4, <1>5, <1>6, <1>7, <1>8, <2>1 DEF Finished, SmallDigit
<1>10. Pending(count, q, w, r, a, 0)
  <2> SUFFICES ASSUME NEW j \in 0 + 1 .. count - 1
               PROVE  /\ a[0][j] \in Int /\ 2 * a[0][j] < R
                      /\ - ((2 + 0) * R) =< 32 * a[0][j]
                      /\ Cong(a[0][j], SoFar(a, w, 0), q[j])
    BY DEF Pending
  <2>1. a[0][j] = r[0] /\ q[j] \in Int
    BY <1>1, <1>5 DEF Basis
  <2>2. Cong(r[0], r[0], q[j])
    BY <1>4, <2>1, CongRules
  <2> QED
    BY <1>2, <1>4, <1>6, <2>1, <2>2
<1> QED
  BY <1>9, <1>10

(* The digit of a round, and the integer it completes.                     *)
LEMMA RoundFinished ==
    ASSUME NEW count, NEW q, NEW k, NEW w, NEW r, NEW a,
           Basis(count, q, k, w), Rounds(count, q, k, w, r, a), Residual(count, q, r),
           NEW t \in Nat, t + 1 =< count - 1,
           Finished(count, q, w, r, a, t), Pending(count, q, w, r, a, t)
    PROVE  /\ a[t + 1][t + 1] \in Int
           /\ - R =< 8 * a[t + 1][t + 1] /\ 4 * a[t + 1][t + 1] =< R
           /\ w[t + 1] \in Int /\ SoFar(a, w, t) \in Int /\ SoFar(a, w, t + 1) \in Int
           /\ SoFar(a, w, t + 1) = SoFar(a, w, t) + a[t + 1][t + 1] * w[t + 1]
           /\ Finished(count, q, w, r, a, t + 1)
<1> DEFINE n == t + 1
           p == q[n]
           s == a[t][n]
           d == a[n][n]
           u == w[n]
           V == SoFar(a, w, t)
<1>1. /\ count \in Nat /\ count \in Int /\ count =< 16 /\ n \in Nat /\ n \in 1 .. count - 1
      /\ n \in 0 .. count - 1 /\ n \in 0 .. count /\ n + 1 \in 0 .. count /\ n - 1 = t
      /\ n \in t + 1 .. count - 1 /\ t =< 14
  BY DEF Basis
<1>2. /\ p \in Nat \ {0, 1} /\ p \in Int /\ Valid(p, k[n]) /\ Coprime(R, p) /\ 4 * p < R
      /\ u \in Nat \ {0} /\ u \in Int /\ Coprime(u, p) /\ w[n + 1] = u * p
      /\ R \in Nat /\ R \in Int
  <2>1. p \in Nat \ {0, 1} /\ Valid(p, k[n]) /\ Coprime(R, p) /\ w[n + 1] = u * p
    BY <1>1 DEF Basis
  <2>2. u \in Nat \ {0} /\ Coprime(u, p)
    BY <1>1, WeightFacts
  <2> QED
    BY <2>1, <2>2, RAssumption DEF Valid
<1>3. s \in Int /\ - R =< 2 * s /\ 2 * s < R /\ Cong(s, V, p)
  <2>1. s \in Int /\ 2 * s < R /\ - ((2 + t) * R) =< 32 * s /\ Cong(s, V, p)
    BY <1>1 DEF Pending
  <2>2. (2 + t) * R =< 16 * R
    BY <1>1, <1>2, Monotone
  <2> QED
    BY <1>1, <1>2, <2>1, <2>2
<1>4. r[n] \in Residue(p) /\ r[n] \in Int
  BY <1>1, <1>2 DEF Residual, Residue
<1>5. d = mont_sub_enter_reduce_2q_to_q(r[n], s,
            modulus_multiply(modulus_invert(u % p, p), R, p), p, k[n])
  BY <1>1 DEF Rounds
<1>6. V \in Int /\ - u =< V /\ V =< u + q[0] - 1 /\ q[0] \in Int
  BY <1>1 DEF Finished, Basis
<1>7. d \in - (p \div 2) .. p - 1 /\ Cong(s + d * u, r[n], p)
  <2> DEFINE v == r[n]
             kn == k[n]
  <2> HIDE DEF p, s, u, d, v, kn
  <2>1. v \in Residue(p) /\ Valid(p, kn)
    BY <1>2, <1>4 DEF v, kn
  <2>2. LET e == mont_sub_enter_reduce_2q_to_q(v, s,
                 modulus_multiply(modulus_invert(u % p, p), R, p), p, kn)
           IN  e \in - (p \div 2) .. p - 1 /\ Cong(s + e * u, v, p)
    BY <1>2, <1>3, <2>1, NewDigit
  <2> QED
    BY <1>5, <2>2 DEF v, kn
<1> HIDE DEF p, s, d, u, V
<1>8. d \in Int /\ - p =< 2 * d /\ d =< p - 1 /\ p \div 2 \in Int /\ 2 * (p \div 2) =< p
      /\ - (p \div 2) =< d /\ 1 + (p \div 2) =< p
  BY <1>2, <1>7
<1>9. \A i \in 0 .. n : a[i][i] \in Int /\ w[i] \in Int
  <2> TAKE i \in 0 .. n
  <2>1. w[i] \in Int
    BY <1>1, WeightFacts
  <2>2. i \in 0 .. t \/ i = n
    OBVIOUS
  <2> QED
    BY <1>8, <2>1, <2>2 DEF Finished, SmallDigit, d
<1>10. SoFar(a, w, n) = V + d * u
  BY <1>9, SoFarStep DEF V, d, u
<1> DEFINE du == d * u
           W == SoFar(a, w, n)
<1>11. du \in Int /\ W = V + du /\ W \in Int
  BY <1>2, <1>6, <1>8, <1>10
<1>12. - w[n + 1] =< W /\ W =< w[n + 1] + q[0] - 1
  <2>1. u * p \in Int /\ p * u = u * p /\ (p - 1) * u = u * p - u
    BY <1>2
  <2>2. du =< (p - 1) * u
    BY <1>2, <1>8, Monotone
  <2>3. (0 - (p \div 2)) * u =< du
    BY <1>2, <1>8, Monotone
  <2>4. (1 + (p \div 2)) * u =< p * u
    BY <1>2, <1>8, Monotone
  <2>5. (1 + (p \div 2)) * u = u + (p \div 2) * u /\ (0 - (p \div 2)) * u = - ((p \div 2) * u)
        /\ (p \div 2) * u \in Int
    BY <1>2, <1>8
  <2> HIDE DEF du, W
  <2> QED
    BY <1>2, <1>6, <1>11, <2>1, <2>2, <2>3, <2>4, <2>5
<1>13. \A j \in 0 .. n : Cong(W, r[j], q[j])
  <2> HIDE DEF W
  <2> SUFFICES ASSUME NEW j \in 0 .. n
               PROVE  Cong(W, r[j], q[j])
    OBVIOUS
  <2>1. CASE j = n
    <3>1. Cong(du, du, p)
      BY <1>2, <1>11, CongRules
    <3>2. Cong(V, s, p)
      BY <1>2, <1>3, <1>6, CongRules
    <3> HIDE DEF du
    <3>3. Cong(V + du, s + du, p)
      BY <1>2, <1>3, <1>6, <1>11, <3>1, <3>2, CongSum
    <3>4. Cong(s + du, r[n], p)
      BY <1>7 DEF du
    <3>5. V + du \in Int /\ s + du \in Int
      BY <1>3, <1>6, <1>11
    <3>6. Cong(V + du, r[n], p)
      BY <1>2, <1>4, <3>3, <3>4, <3>5, CongTransitive
    <3> QED
      BY <1>11, <2>1, <3>6 DEF p
  <2>2. CASE j # n
    <3> DEFINE pj == q[j]
               v == r[j]
    <3>1. /\ j \in 0 .. t /\ j \in 0 .. count - 1 /\ j < n
      BY <1>1, <2>2
    <3>2. Cong(V, v, pj) /\ pj \in Int /\ v \in Int
      <4>1. Cong(V, v, pj)
        BY <3>1 DEF Finished, V
      <4>2. pj \in Nat \ {0, 1} /\ v \in Residue(pj)
        BY <1>1, <3>1 DEF Residual, Basis
      <4> HIDE DEF v, pj
      <4>3. v \in Int
        BY <4>2 DEF Residue
      <4> QED
        BY <4>1, <4>2, <4>3
    <3>3. Cong(u, 0, pj)
      BY <1>1, <3>1, WeightFacts DEF u
    <3> HIDE DEF pj, v
    <3> DEFINE zero == 0
    <3>4. zero \in Int /\ Cong(u, zero, pj) /\ d * zero = zero
      BY <1>8, <3>3
    <3> HIDE DEF zero
    <3>5. Cong(d * u, d * zero, pj)
      BY <1>2, <1>8, <3>2, <3>4, CongProduct
    <3>6. Cong(du, zero, pj)
      BY <3>4, <3>5
    <3> HIDE DEF du
    <3>7. Cong(V + du, v + zero, pj)
      BY <1>6, <1>11, <3>2, <3>4, <3>6, CongSum
    <3>8. v + zero = v
      BY <3>2 DEF zero
    <3> QED
      BY <1>11, <3>7, <3>8 DEF v, pj
  <2> QED
    BY <2>1, <2>2
<1>14. \A j \in 0 .. n : a[n][j] = a[j][j] /\ SmallDigit(a[j][j])
  <2> TAKE j \in 0 .. n
  <2>1. CASE j = n
    <3>1. SmallDigit(d)
      BY <1>2, <1>8 DEF SmallDigit
    <3> QED
      BY <2>1, <3>1 DEF d
  <2>2. CASE j # n
    <3>1. j \in 0 .. t /\ j \in 0 .. n - 1
      BY <2>2
    <3>2. a[n][j] = a[n - 1][j]
      BY <1>1, <3>1 DEF Rounds
    <3>3. a[t][j] = a[j][j] /\ SmallDigit(a[j][j])
      BY <3>1 DEF Finished
    <3> QED
      BY <1>1, <3>2, <3>3
  <2> QED
    BY <2>1, <2>2
<1>15. Finished(count, q, w, r, a, n)
  BY <1>11, <1>12, <1>13, <1>14 DEF Finished
<1>16. - R =< 8 * d /\ 4 * d =< R
  BY <1>2, <1>8
<1> QED
  BY <1>2, <1>6, <1>8, <1>10, <1>11, <1>15, <1>16 DEF d, u, V

LEMMA RoundPending ==
    ASSUME NEW count, NEW q, NEW k, NEW w, NEW r, NEW a,
           Basis(count, q, k, w), Rounds(count, q, k, w, r, a), Residual(count, q, r),
           NEW t \in Nat, t + 1 =< count - 1,
           Finished(count, q, w, r, a, t), Pending(count, q, w, r, a, t)
    PROVE  Pending(count, q, w, r, a, t + 1)
<1> DEFINE n == t + 1
           d == a[n][n]
           u == w[n]
           V == SoFar(a, w, t)
           W == SoFar(a, w, n)
<1>1. /\ count \in Nat /\ n \in Nat /\ n \in 1 .. count - 1 /\ n - 1 = t
      /\ R \in Nat /\ R \in Int
  BY RAssumption DEF Basis
<1>2. /\ d \in Int /\ - R =< 8 * d /\ 4 * d =< R
      /\ u \in Int /\ V \in Int /\ W \in Int /\ W = V + d * u
  BY RoundFinished
<1> HIDE DEF d, u, V, W
<1> SUFFICES ASSUME NEW j \in n + 1 .. count - 1
             PROVE  /\ a[n][j] \in Int /\ 2 * a[n][j] < R
                    /\ - ((2 + n) * R) =< 32 * a[n][j]
                    /\ Cong(a[n][j], W, q[j])
  BY DEF Pending, W
<1> DEFINE p == q[j]
           kj == k[j]
           s == a[t][j]
           z == a[n][j]
<1>3. p \in Nat \ {0, 1} /\ p \in Int /\ Valid(p, kj) /\ Coprime(R, p)
  BY <1>1 DEF Basis
<1>4. s \in Int /\ 2 * s < R /\ - ((2 + t) * R) =< 32 * s /\ Cong(s, V, p)
  BY <1>1 DEF Pending, V
<1>5. z = mont_enter_add_reduce_2q_to_q(d, s, modulus_multiply(u % p, R, p), p, kj)
  BY <1>1 DEF Rounds, d, u
<1> HIDE DEF p, kj, s, z
<1>6. /\ z \in Int /\ 2 * z < R
      /\ 0 =< z \/ 32 * s - R =< 32 * z
      /\ Cong(z, s + d * u, p)
  <2>1. LET b == mont_enter_add_reduce_2q_to_q(d, s,
                 modulus_multiply(u % p, R, p), p, kj)
           IN  /\ b \in Int /\ 2 * b < R
               /\ 0 =< b \/ 32 * s - R =< 32 * b
               /\ Cong(b, s + d * u, p)
    BY <1>2, <1>3, <1>4, CarriedDigit
  <2> QED
    BY <1>5, <2>1
<1>7. - ((2 + n) * R) =< 32 * z
  <2>1. (2 + n) * R = (2 + t) * R + R /\ (2 + t) * R \in Nat
    BY <1>1
  <2> QED
    BY <1>1, <1>4, <1>6, <2>1
<1>8. Cong(z, W, p)
  <2> DEFINE du == d * u
  <2>1. du \in Int /\ Cong(du, du, p)
    BY <1>2, <1>3, CongRules
  <2>2. Cong(z, s + du, p) /\ W = V + du
    BY <1>2, <1>6
  <2> HIDE DEF du
  <2>3. Cong(s + du, V + du, p)
    BY <1>2, <1>3, <1>4, <2>1, CongSum
  <2>4. s + du \in Int /\ V + du \in Int
    BY <1>2, <1>4, <2>1
  <2>5. Cong(z, V + du, p)
    BY <1>3, <1>6, <2>2, <2>3, <2>4, CongTransitive
  <2> QED
    BY <2>2, <2>5
<1> QED
  BY <1>6, <1>7, <1>8 DEF p, z

(***************************************************************************)
(* After the last round, the digits are those of one integer with all      *)
(* residues, in the range of the partition.                                *)
(***************************************************************************)
LEMMA RoundsRepresent ==
    ASSUME NEW count, NEW q, NEW k, NEW w, NEW r, NEW a,
           Basis(count, q, k, w), Rounds(count, q, k, w, r, a), Residual(count, q, r)
    PROVE  Finished(count, q, w, r, a, count - 1)
<1> DEFINE last == count - 1
           S == {t \in 0 .. last : /\ Finished(count, q, w, r, a, t)
                                   /\ Pending(count, q, w, r, a, t)}
<1>1. last \in Nat /\ last \in Int /\ 0 \in 0 .. last /\ last \in 0 .. last
  BY DEF Basis
<1>2. 0 \in S
  BY <1>1, RoundZero
<1>3. ASSUME NEW t \in 0 .. last, t + 1 =< last, t \in S
      PROVE  t + 1 \in S
  <2>1. t \in Nat /\ t + 1 =< count - 1 /\ t + 1 \in 0 .. last
    BY <1>1, <1>3
  <2>2. Finished(count, q, w, r, a, t) /\ Pending(count, q, w, r, a, t)
    BY <1>3
  <2>3. Finished(count, q, w, r, a, t + 1)
    BY <2>1, <2>2, RoundFinished
  <2>4. Pending(count, q, w, r, a, t + 1)
    BY <2>1, <2>2, RoundPending
  <2> QED
    BY <2>1, <2>3, <2>4
<1> HIDE DEF S
<1>4. /\ 0 \in Int
      /\ \A t \in 0 .. last : t + 1 =< last /\ t \in S => t + 1 \in S
  BY <1>3
<1> HIDE DEF last
<1>5. \A t \in 0 .. last : t \in S
  BY <1>1, <1>2, <1>4, Upward, Zenon
<1>6. last \in S
  BY <1>1, <1>5
<1> QED
  BY <1>6 DEF S, last

-----------------------------------------------------------------------------
(***************************************************************************)
(* The moduli of a level and their constants.                              *)
(***************************************************************************)
ModuliIds == 0 .. TopChainCount - 1

LEMMA Counts ==
    /\ SpecialPrimeCount \in Nat \ {0} /\ SpecialPrimeCount =< 16
    /\ TopChainCount \in Nat \ {0}
    /\ Len(AllModuli) = TopChainCount + SpecialPrimeCount
    /\ \A m \in ModuliIds :
         /\ get_chain_count(m) \in Nat \ {0}
         /\ get_prime_count(m) = get_chain_count(m) + SpecialPrimeCount
<1>1. SpecialPrimeCount \in Nat \ {0} /\ SpecialPrimeCount =< 16
  BY SpecialPrimeAssumption
<1>2. Len(AllModuli) \in Nat
  BY AllModuliAssumption
<1>3. TopChainCount \in Nat \ {0} /\ Len(AllModuli) = TopChainCount + SpecialPrimeCount
  BY <1>1, <1>2, AllModuliAssumption DEF TopChainCount
<1> QED
  BY <1>1, <1>3 DEF ModuliIds, get_chain_count, get_prime_count

(* Congruent numbers are both prime to the modulus, or none is.            *)
LEMMA CoprimeAgain ==
    ASSUME NEW q \in Nat \ {0, 1}, NEW a \in Int, NEW b \in Int,
           Cong(a, b, q), Coprime(a, q)
    PROVE  Coprime(b, q)
<1>1. PICK h \in Int, z \in Int : a * h = 1 + q * z
  BY DEF Coprime
<1>2. PICK w \in Int : a = b + q * w
  BY DEF Cong
<1>3. b * h = 1 + q * (z - w * h)
  BY <1>1, <1>2
<1>4. z - w * h \in Int
  BY <1>1, <1>2
<1> QED
  BY <1>1, <1>3, <1>4 DEF Coprime

LEMMA PrimeSuitable ==
    ASSUME NEW m \in ModuliIds, NEW chain \in Primes(m)
    PROVE  LET n == m + chain + 1
               q == get_modulus(m, chain)
           IN  /\ n \in DOMAIN AllModuli /\ q = AllModuli[n]
               /\ Suitable(q)
               /\ Parameter(m, chain) = CKKSDerivedParameters(q)
               /\ \A j \in DOMAIN AllModuli \ {n} : AllModuli[j] \in Nat /\ AllModuli[j] % q # 0
<1> DEFINE q == get_modulus(m, chain)
           n == m + chain + 1
<1>1. n \in 1 .. Len(AllModuli)
  BY Counts DEF ModuliIds, Primes, get_prime_count
<1>2. DOMAIN AllModuli = 1 .. Len(AllModuli)
      /\ \A i \in 1 .. Len(AllModuli) : AllModuli[i] \in Nat
  BY AllModuliAssumption
<1>3. n \in DOMAIN AllModuli /\ q = AllModuli[n]
  BY <1>1, <1>2 DEF get_modulus
<1>4. /\ Suitable(AllModuli[n])
      /\ \A j \in DOMAIN AllModuli \ {n} : AllModuli[j] % AllModuli[n] # 0
  BY <1>3, AllModuliAssumption, Zenon
<1>5. Parameter(m, chain) = CKKSDerivedParameters(q)
  <2>1. q \in {AllModuli[i] : i \in DOMAIN AllModuli}
    BY <1>3
  <2> QED
    BY <2>1, Zenon DEF Parameter, Derived, q
<1> QED
  BY <1>2, <1>3, <1>4, <1>5

LEMMA PrimeFacts ==
    ASSUME NEW m \in ModuliIds, NEW chain \in Primes(m)
    PROVE  LET q == get_modulus(m, chain)
           IN  /\ q \in Nat \ {0, 1} /\ 4 * q < R
               /\ Coprime(R, q)
               /\ Parameter(m, chain).q = q /\ Valid(q, Parameter(m, chain).k)
               /\ Parameter(m, chain).r_squared = r_squared(q)
               /\ \A other \in Primes(m) :
                    other # chain => Coprime(get_modulus(m, other), q)
<1> DEFINE q == get_modulus(m, chain)
           n == m + chain + 1
<1>1. /\ n \in DOMAIN AllModuli /\ q = AllModuli[n]
      /\ Suitable(q)
      /\ Parameter(m, chain) = CKKSDerivedParameters(q)
      /\ \A j \in DOMAIN AllModuli \ {n} : AllModuli[j] \in Nat /\ AllModuli[j] % q # 0
  BY PrimeSuitable
<1>2. \A c \in Primes(m) : m + c + 1 \in DOMAIN AllModuli /\ get_modulus(m, c) = AllModuli[m + c + 1]
  BY PrimeSuitable
<1>3. /\ q \in Nat \ {0, 1} /\ Coprime(R, q)
      /\ Valid(q, calculate_k(q))
  BY <1>1, SuitableModulus
<1>4. 4 * q < R
  BY <1>1 DEF Suitable
<1> HIDE DEF q
<1>5. ASSUME NEW other \in Primes(m), other # chain
      PROVE  Coprime(get_modulus(m, other), q)
  <2> DEFINE j == m + other + 1
             p == get_modulus(m, other)
  <2>0. m \in Int /\ chain \in Int /\ other \in Int
    BY DEF ModuliIds, Primes
  <2>1. j \in DOMAIN AllModuli /\ p = AllModuli[j] /\ j # n
    BY <1>2, <1>5, <2>0
  <2> HIDE DEF j, p, n
  <2>2. p \in Nat /\ p % q # 0
    BY <1>1, <2>1, Zenon
  <2>3. /\ p \in Int /\ p % q \in 0 .. q - 1 /\ p % q \in Int
        /\ Cong(p % q, p, q)
    <3>1. p \in Int /\ q \in Nat \ {0, 1}
      BY <1>3, <2>2
    <3> QED
      BY <3>1, RemainderFacts, Zenon
  <2> DEFINE r == p % q
  <2>4. r \in 1 .. q - 1 /\ r \in Int /\ Cong(r, p, q)
    <3>1. r # 0 /\ r \in 0 .. q - 1 /\ r \in Int /\ Cong(r, p, q)
      BY <2>2, <2>3
    <3> HIDE DEF r
    <3> QED
      BY <1>3, <3>1
  <2> HIDE DEF r
  <2>5. Coprime(r, q)
    BY <1>1, <2>4, ResidueCoprime
  <2>6. Coprime(p, q)
    BY <1>3, <2>3, <2>4, <2>5, CoprimeAgain
  <2> QED
    BY <2>6 DEF p
<1>6. /\ Parameter(m, chain).q = q /\ Parameter(m, chain).k = calculate_k(q)
      /\ Parameter(m, chain).r_squared = r_squared(q)
  BY <1>1 DEF CKKSDerivedParameters
<1> QED
  BY <1>3, <1>4, <1>5, <1>6 DEF q

-----------------------------------------------------------------------------
(***************************************************************************)
(* Partitions.                                                             *)
(***************************************************************************)
PartitionOf(p, m) ==
    /\ p.start \in Nat /\ p.stop \in Nat
    /\ p.start < p.stop /\ p.stop =< get_chain_count(m)
    /\ p.stop - p.start =< SpecialPrimeCount

(* Enough partitions for all chains, but no empty one.                     *)
LEMMA PartitionCount ==
    ASSUME NEW m \in ModuliIds
    PROVE  LET c == get_partition_count(m)
               L == get_chain_count(m)
           IN  /\ c \in Nat \ {0}
               /\ L =< c * SpecialPrimeCount
               /\ (c - 1) * SpecialPrimeCount < L
<1> DEFINE S == SpecialPrimeCount
           L == get_chain_count(m)
           a == L + S - 1
           c == a \div S
           b == a % S
<1>1. S \in Nat \ {0} /\ L \in Nat \ {0} /\ a \in Nat
  BY Counts
<1> HIDE DEF S, L
<1>2. c \in Int /\ b \in 0 .. S - 1 /\ a = (S * c) + b /\ a = L + S - 1
  <2> HIDE DEF a
  <2>1. a \in Int
    BY <1>1
  <2>2. c \in Int /\ b \in 0 .. S - 1 /\ a = (S * c) + b
    BY <1>1, <2>1, DivMod
  <2> QED
    BY <2>2 DEF a
<1>3. get_partition_count(m) = c
  BY DEF get_partition_count, c, a, S, L
<1> HIDE DEF a, b, c
<1>4. S * c = c * S /\ (c - 1) * S = c * S - S /\ c * S \in Int
  BY <1>1, <1>2
<1>5. L =< c * S /\ (c - 1) * S < L
  BY <1>1, <1>2, <1>4
<1>6. c > 0
  <2>1. CASE c =< 0
    <3> DEFINE zero == 0
    <3>1. c =< zero /\ zero \in Int /\ S \in Nat
      BY <1>1, <2>1
    <3> HIDE DEF zero
    <3>2. c * S =< zero * S
      BY <1>2, <3>1, Monotone
    <3>3. zero * S = 0
      BY <1>1 DEF zero
    <3> QED
      BY <1>1, <1>4, <1>5, <3>2, <3>3
  <2> QED
    BY <1>2, <2>1
<1> QED
  BY <1>2, <1>3, <1>5, <1>6 DEF S, L

(* Where a partition starts, counted from the last chain.                  *)
LEMMA PartitionBounds ==
    ASSUME NEW m \in ModuliIds, NEW key_m, NEW i \in 0 .. get_partition_count(m) - 1
    PROVE  LET c == get_partition_count(m)
               L == get_chain_count(m)
               S == SpecialPrimeCount
               p == get_partitions(m, key_m)[i]
           IN  /\ (c - i) * S \in Int /\ (c - i - 1) * S \in Nat
               /\ (c - i) * S = (c - i - 1) * S + S
               /\ (c - i - 1) * S < L
               /\ i > 0 => (c - i) * S < L
               /\ p.start = (IF L - (c - i) * S < 0 THEN 0 ELSE L - (c - i) * S)
               /\ p.stop = L - (c - i - 1) * S
               /\ p.partition_index = get_partition_count(key_m) - c + i
               /\ PartitionOf(p, m)
<1> DEFINE c == get_partition_count(m)
           L == get_chain_count(m)
           S == SpecialPrimeCount
           p == get_partitions(m, key_m)[i]
           u == (c - i) * S
           v == (c - i - 1) * S
<1>1. /\ c \in Nat \ {0} /\ L \in Nat \ {0} /\ S \in Nat \ {0} /\ i \in 0 .. c - 1
      /\ (c - 1) * S < L
  BY Counts, PartitionCount
<1>2. /\ p.start = (IF L - u < 0 THEN 0 ELSE L - u)
      /\ p.stop = L - u + S
      /\ p.partition_index = get_partition_count(key_m) - c + i
  BY DEF get_partitions
<1> HIDE DEF c, L, S, p
<1>3. u \in Int /\ v \in Nat /\ u = v + S
  <2> DEFINE n == c - i - 1
  <2>1. n \in Nat /\ c - i = n + 1
    BY <1>1
  <2> HIDE DEF n
  <2>2. n * S \in Nat /\ (n + 1) * S = n * S + S
    BY <1>1, <2>1
  <2> QED
    BY <1>1, <2>1, <2>2 DEF n
<1>4. v < L
  <2>1. c - i - 1 =< c - 1 /\ c - i - 1 \in Int /\ c - 1 \in Int
    BY <1>1
  <2>2. v =< (c - 1) * S
    BY <1>1, <2>1, Monotone
  <2> QED
    BY <1>1, <1>3, <2>2
<1>5. ASSUME i > 0
      PROVE  u < L
  <2>1. c - i =< c - 1 /\ c - i \in Int /\ c - 1 \in Int
    BY <1>1, <1>5
  <2>2. u =< (c - 1) * S
    BY <1>1, <2>1, Monotone
  <2> QED
    BY <1>1, <1>3, <2>2
<1> HIDE DEF u, v
<1>6. p.stop = L - v
  BY <1>1, <1>2, <1>3
<1>7. PartitionOf(p, m)
  BY <1>1, <1>2, <1>3, <1>4, <1>6 DEF PartitionOf, L, S
<1> QED
  BY <1>2, <1>3, <1>4, <1>5, <1>6, <1>7 DEF u, v, c, L, S, p

(* Counted from the last chain, every SpecialPrimeCount chains make up a   *)
(* partition.                                                              *)
LEMMA PartitionMembers ==
    ASSUME NEW m \in ModuliIds, NEW key_m, NEW i \in 0 .. get_partition_count(m) - 1,
           NEW chain \in TextChains(m)
    PROVE  LET p == get_partitions(m, key_m)[i]
               n == (get_chain_count(m) - chain - 1) \div SpecialPrimeCount
           IN  chain \in p.start .. p.stop - 1 <=> i = get_partition_count(m) - 1 - n
<1> DEFINE c == get_partition_count(m)
           L == get_chain_count(m)
           S == SpecialPrimeCount
           p == get_partitions(m, key_m)[i]
           d == L - chain - 1
           n == d \div S
           b == d % S
           e == c - i - 1
           u == (c - i) * S
           v == e * S
<1>1. /\ c \in Nat \ {0} /\ L \in Nat \ {0} /\ S \in Nat \ {0} /\ i \in 0 .. c - 1
      /\ chain \in 0 .. L - 1
  BY Counts, PartitionCount DEF TextChains
<1>2. /\ u \in Int /\ v \in Nat /\ u = v + S
      /\ p.start = (IF L - u < 0 THEN 0 ELSE L - u)
      /\ p.stop = L - v
  BY PartitionBounds
<1> HIDE DEF c, L, S, p
<1>3. d \in Nat /\ e \in Nat
  BY <1>1
<1>4. n \in Int /\ b \in 0 .. S - 1 /\ d = (S * n) + b
  <2> HIDE DEF d
  <2> QED
    BY <1>1, <1>3, DivMod
<1>5. chain \in p.start .. p.stop - 1 <=> v =< d /\ d < v + S
  <2> HIDE DEF u, v
  <2> QED
    BY <1>1, <1>2 DEF d
<1> HIDE DEF d, n, b, e, u
<1>6. n = e => v =< d /\ d < v + S
  <2>1. S * e = e * S /\ e * S \in Int
    BY <1>1, <1>3
  <2> QED
    BY <1>1, <1>3, <1>4, <2>1
<1>7. v =< d /\ d < v + S => n = e
  <2> SUFFICES ASSUME v =< d, d < v + S
               PROVE  n = e
    OBVIOUS
  <2> DEFINE g == d - v
  <2>1. v = S * e /\ v \in Int
    BY <1>1, <1>3
  <2>2. g \in 0 .. S - 1 /\ d = (S * e) + g
    BY <1>1, <1>3, <2>1
  <2> HIDE DEF g, v
  <2>3. S \in Nat \ {0} /\ e \in Int
    BY <1>1, <1>3
  <2>4. ((S * e) + g) \div S = e
    <3> HIDE DEF S
    <3> QED
      BY <2>2, <2>3, DivModUnique
  <2> QED
    BY <2>2, <2>4 DEF n
<1>8. n = e <=> i = c - 1 - n
  BY <1>1, <1>3, <1>4 DEF e
<1> QED
  BY <1>5, <1>6, <1>7, <1>8 DEF c, L, S, p, d, n

(* No chain is left out, and none is in two partitions.                    *)
LEMMA ChainInOnePartition ==
    ASSUME NEW m \in ModuliIds, NEW key_m, NEW chain \in TextChains(m)
    PROVE  LET partitions == get_partitions(m, key_m)
               holds(i) == chain \in partitions[i].start .. partitions[i].stop - 1
           IN  \E i \in 0 .. get_partition_count(m) - 1 :
                 /\ holds(i)
                 /\ \A j \in 0 .. get_partition_count(m) - 1 : holds(j) => j = i
<1> DEFINE c == get_partition_count(m)
           L == get_chain_count(m)
           S == SpecialPrimeCount
           d == L - chain - 1
           n == d \div S
           b == d % S
           i == c - 1 - n
<1>1. /\ c \in Nat \ {0} /\ L \in Nat \ {0} /\ S \in Nat \ {0} /\ L =< c * S
      /\ chain \in 0 .. L - 1
  BY Counts, PartitionCount DEF TextChains
<1>2. \A j \in 0 .. c - 1 :
        chain \in get_partitions(m, key_m)[j].start .. get_partitions(m, key_m)[j].stop - 1
          <=> j = i
  BY PartitionMembers
<1> HIDE DEF c, L, S
<1>3. d \in Nat /\ d < c * S
  BY <1>1
<1> HIDE DEF d
<1>4. n \in Int /\ b \in 0 .. S - 1 /\ d = (S * n) + b
  BY <1>1, <1>3, DivMod
<1> HIDE DEF n, b
<1>5. n \in 0 .. c - 1
  <2>1. S * n =< d /\ S * n \in Int /\ d < S * n + S /\ S * (n + 1) = S * n + S
    BY <1>1, <1>3, <1>4
  <2>2. S * n < S * c /\ n \in Int
    BY <1>1, <1>3, <1>4, <2>1
  <2>3. n < c
    BY <1>1, <2>2, Cancel
  <2>4. S * (-1) < S * n
    BY <1>1, <1>3, <2>1
  <2>5. -1 < n
    <3> DEFINE z == -1
    <3>1. z \in Int /\ S * z < S * n
      BY <2>4
    <3> HIDE DEF z
    <3>2. z < n
      BY <1>1, <1>4, <3>1, Cancel
    <3> QED
      BY <3>2 DEF z
  <2> QED
    BY <1>1, <1>4, <2>3, <2>5
<1>6. i \in 0 .. c - 1
  BY <1>1, <1>5
<1> HIDE DEF i
<1> QED
  BY <1>2, <1>6 DEF c

(***************************************************************************)
(* get_partitions cuts the chains of a level in pieces: none is empty, all *)
(* but the first have as many chains as there are special primes and the   *)
(* first has no more, none goes beyond the chains of the level, and every  *)
(* chain is in one of them and in no other.                                *)
(***************************************************************************)
THEOREM PartitionsCover ==
    ASSUME NEW m \in ModuliIds, NEW key_m
    PROVE  LET partitions == get_partitions(m, key_m)
               indices == 0 .. get_partition_count(m) - 1
               chains(i) == partitions[i].start .. partitions[i].stop - 1
           IN  /\ \A i \in indices :
                    /\ Size(partitions[i]) \in 1 .. SpecialPrimeCount
                    /\ i > 0 => Size(partitions[i]) = SpecialPrimeCount
                    /\ chains(i) \subseteq TextChains(m)
               /\ \A chain \in TextChains(m) :
                    \E i \in indices :
                      /\ chain \in chains(i)
                      /\ \A j \in indices : chain \in chains(j) => j = i
<1> DEFINE partitions == get_partitions(m, key_m)
           indices == 0 .. get_partition_count(m) - 1
<1>1. ASSUME NEW i \in indices
      PROVE  /\ Size(partitions[i]) \in 1 .. SpecialPrimeCount
             /\ i > 0 => Size(partitions[i]) = SpecialPrimeCount
             /\ partitions[i].start .. partitions[i].stop - 1
                  \subseteq TextChains(m)
  <2> DEFINE p == partitions[i]
             L == get_chain_count(m)
             S == SpecialPrimeCount
             u == (get_partition_count(m) - i) * S
             v == (get_partition_count(m) - i - 1) * S
  <2>1. /\ u \in Int /\ v \in Nat /\ u = v + S
        /\ i > 0 => u < L
        /\ p.start = (IF L - u < 0 THEN 0 ELSE L - u)
        /\ p.stop = L - v
        /\ PartitionOf(p, m)
    <3>1. i \in 0 .. get_partition_count(m) - 1
      OBVIOUS
    <3>2. u \in Int /\ v \in Nat /\ u = v + S
      BY <3>1, PartitionBounds
    <3>3. i > 0 => u < L
      BY <3>1, PartitionBounds
    <3>4. p.start = (IF L - u < 0 THEN 0 ELSE L - u)
      BY <3>1, PartitionBounds
    <3>5. p.stop = L - v /\ PartitionOf(p, m)
      BY <3>1, PartitionBounds
    <3> QED
      BY <3>2, <3>3, <3>4, <3>5, Zenon
  <2>2. L \in Nat \ {0} /\ S \in Nat \ {0}
    BY Counts
  <2> HIDE DEF p, u, v
  <2>3. Size(p) \in 1 .. S
    BY <2>1, <2>2 DEF PartitionOf, Size
  <2>4. i > 0 => Size(p) = S
    BY <2>1, <2>2 DEF Size
  <2>5. p.start .. p.stop - 1 \subseteq TextChains(m)
    BY <2>1, <2>2 DEF PartitionOf, TextChains
  <2> QED
    BY <2>3, <2>4, <2>5 DEF p
<1>2. \A chain \in TextChains(m) :
        \E i \in indices :
          /\ chain \in partitions[i].start .. partitions[i].stop - 1
          /\ \A j \in indices :
               chain \in partitions[j].start .. partitions[j].stop - 1 => j = i
  BY ChainInOnePartition
<1> QED
  BY <1>1, <1>2

(***************************************************************************)
(* partition_index: a partition of a ciphertext meets the part of the key  *)
(* that covers the same moduli, of those the two have in common, at every  *)
(* level the key covers.  It is in these chains that the part of the key   *)
(* holds the secret times the special primes.                              *)
(***************************************************************************)
THEOREM PartitionsAgree ==
    ASSUME NEW key_m \in ModuliIds, NEW m \in ModuliIds, key_m =< m,
           NEW i \in 0 .. get_partition_count(m) - 1
    PROVE  LET part == get_partitions(m, key_m)[i]
               key_part == get_partitions(key_m, key_m)[part.partition_index]
           IN  /\ part.partition_index \in 0 .. get_partition_count(key_m) - 1
               /\ \A chain \in Primes(m) :
                    /\ get_modulus(key_m, m - key_m + chain) = get_modulus(m, chain)
                    /\ chain \in part.start .. part.stop - 1
                         <=> m - key_m + chain \in key_part.start .. key_part.stop - 1
<1> DEFINE c == get_partition_count(m)
           L == get_chain_count(m)
           ck == get_partition_count(key_m)
           Lk == get_chain_count(key_m)
           S == SpecialPrimeCount
           part == get_partitions(m, key_m)[i]
           pi == part.partition_index
           key_part == get_partitions(key_m, key_m)[pi]
<1>1. /\ c \in Nat \ {0} /\ L \in Nat \ {0} /\ S \in Nat \ {0} /\ (c - 1) * S < L
      /\ ck \in Nat \ {0} /\ Lk \in Nat \ {0} /\ Lk =< ck * S
      /\ i \in 0 .. c - 1 /\ m \in Int /\ key_m \in Int /\ m \in Nat /\ key_m \in Nat
  BY Counts, PartitionCount DEF ModuliIds
<1>2. Lk - L = m - key_m
  BY <1>1, Counts DEF get_chain_count
<1>3. pi = ck - c + i /\ PartitionOf(part, m)
  BY PartitionBounds
<1>4. pi \in 0 .. ck - 1
  <2> HIDE DEF c, L, ck, Lk, S, pi
  <2>1. c - 1 \in Int /\ (c - 1) * S = S * (c - 1) /\ ck * S = S * ck
        /\ S * (c - 1) \in Int /\ S * ck \in Int
    BY <1>1
  <2>2. S * (c - 1) < S * ck
    BY <1>1, <1>2, <2>1
  <2>3. c - 1 < ck
    BY <1>1, <2>1, <2>2, Cancel
  <2> QED
    BY <1>1, <1>3, <2>3
<1>5. PartitionOf(key_part, key_m)
  BY <1>4, PartitionBounds
<1>6. ASSUME NEW chain \in Primes(m)
      PROVE  /\ get_modulus(key_m, m - key_m + chain) = get_modulus(m, chain)
             /\ chain \in part.start .. part.stop - 1
                  <=> m - key_m + chain \in key_part.start .. key_part.stop - 1
  <2> DEFINE other == m - key_m + chain
  <2>0. chain \in Nat
    BY Counts DEF Primes
  <2>1. other \in Nat /\ key_m + other + 1 = m + chain + 1
    BY <1>1, <2>0
  <2>2. get_modulus(key_m, other) = get_modulus(m, chain)
    BY <2>1 DEF get_modulus
  <2>3. CASE chain \in TextChains(m)
    <3> DEFINE d == L - chain - 1
               dk == Lk - other - 1
    <3>1. other \in TextChains(key_m)
      BY <1>1, <1>2, <2>0, <2>1, <2>3 DEF TextChains
    <3>2. chain \in part.start .. part.stop - 1 <=> i = c - 1 - (d \div S)
      BY <2>3, PartitionMembers
    <3> HIDE DEF other
    <3>3. other \in key_part.start .. key_part.stop - 1 <=> pi = ck - 1 - (dk \div S)
      <4> HIDE DEF pi
      <4> QED
        BY <1>4, <3>1, PartitionMembers
    <3>4. dk = d /\ d \in Int
      BY <1>1, <1>2, <2>0 DEF other
    <3> HIDE DEF d, dk, c, ck, pi, part, key_part
    <3> DEFINE n == d \div S
    <3>5. n \in Int /\ dk \div S = n
      BY <1>1, <3>4, DivMod
    <3>6. i = c - 1 - n <=> pi = ck - 1 - (dk \div S)
      <4> HIDE DEF n, S
      <4> QED
        BY <1>1, <1>3, <3>5
    <3> QED
      BY <2>2, <3>2, <3>3, <3>6 DEF other
  <2>4. CASE chain \notin TextChains(m)
    <3> HIDE DEF c, ck, pi, part, key_part, Lk, L
    <3>1. chain >= L
      BY <1>1, <2>0, <2>4 DEF TextChains, L
    <3>2. other >= Lk
      BY <1>1, <1>2, <2>0, <3>1
    <3>3. part.stop \in Nat /\ part.stop =< L
      BY <1>3 DEF PartitionOf, L
    <3>4. key_part.stop \in Nat /\ key_part.stop =< Lk
      BY <1>5 DEF PartitionOf, Lk
    <3>5. chain \notin part.start .. part.stop - 1
      BY <1>1, <2>0, <3>1, <3>3
    <3>6. other \notin key_part.start .. key_part.stop - 1
      BY <1>1, <2>1, <3>2, <3>4
    <3> QED
      BY <2>2, <3>5, <3>6
  <2> QED
    BY <2>3, <2>4
<1> QED
  BY <1>4, <1>6

(***************************************************************************)
(* The moduli of a partition are a basis for the digits of its integer.    *)
(***************************************************************************)
PartModuli(p, m) == [j \in 0 .. Size(p) - 1 |-> get_modulus(m, p.start + j)]

PartConstants(p, m) == [j \in 0 .. Size(p) - 1 |-> Parameter(m, p.start + j).k]

PartWeights(p, m) == [t \in 0 .. Size(p) |-> q_product(p, m, t)]

LEMMA PartitionChains ==
    ASSUME NEW m \in ModuliIds, NEW p, PartitionOf(p, m)
    PROVE  /\ Size(p) \in 1 .. 16 /\ Size(p) \in Nat /\ p.start \in Nat /\ p.stop = p.start + Size(p)
           /\ \A j \in 0 .. Size(p) - 1 :
                p.start + j \in TextChains(m) /\ p.start + j \in Primes(m)
<1>1. /\ p.start \in Nat /\ p.stop \in Nat /\ p.start < p.stop /\ p.stop =< get_chain_count(m)
      /\ p.stop - p.start =< SpecialPrimeCount
  BY DEF PartitionOf
<1>2. /\ get_chain_count(m) \in Nat /\ get_prime_count(m) \in Nat
      /\ get_chain_count(m) =< get_prime_count(m) /\ SpecialPrimeCount =< 16
      /\ SpecialPrimeCount \in Nat
  BY Counts
<1> QED
  BY <1>1, <1>2 DEF Size, TextChains, Primes

(* The recursion of q_product, up to a number of moduli.                   *)
IntegerModuli(p, m, count) == \A n \in 1 .. count : get_modulus(m, p.start + n - 1) \in Int

ProductsTo(f, p, m, count) ==
    /\ f \in [0 .. count -> Int]
    /\ f[0] = 1 /\ f[count] = q_product(p, m, count)
    /\ \A n \in 1 .. count : f[n] = f[n - 1] * get_modulus(m, p.start + n - 1)

LEMMA ProductUnfold ==
    ASSUME NEW m, NEW p, NEW count \in Nat, IntegerModuli(p, m, count)
    PROVE  \E f : ProductsTo(f, p, m, count)
<1> DEFINE q(n) == get_modulus(m, p.start + n - 1)
           step == [e \in Int \X (1 .. count) |-> e[1] * q(e[2])]
           first == 1
<1>0. count \in Nat
  OBVIOUS
<1>1. \A n \in 1 .. count : q(n) \in Int
  BY DEF IntegerModuli
<1> HIDE DEF q
<1>2. step \in [Int \X (1 .. count) -> Int] /\ first \in Int
  <2>1. ASSUME NEW e \in Int \X (1 .. count)
        PROVE  step[e] \in Int
    BY <1>1
  <2> QED
    BY <2>1
<1>3. PICK f \in [0 .. count -> Int] :
        f[0] = first /\ \A n \in 1 .. count : f[n] = step[<<f[n - 1], n>>]
  <2> HIDE DEF step, first
  <2>1. Solvable(count, first, step)
    BY <1>0, <1>2, RecursionSolvable
  <2> QED
    BY <2>1 DEF Solvable
<1>4. \A n \in 1 .. count : f[n] = f[n - 1] * q(n)
  <2> TAKE n \in 1 .. count
  <2>0. n - 1 \in 0 .. count
    BY <1>0
  <2>1. f[n - 1] \in Int /\ f[n] = step[<<f[n - 1], n>>]
    BY <1>3, <2>0
  <2> QED
    BY <2>1
<1> DEFINE Products(g) == g = [n \in 0 .. count |-> IF n = 0 THEN 1 ELSE g[n - 1] * q(n)]
<1>5. Products(f)
  <2>1. ASSUME NEW n \in 0 .. count
        PROVE  f[n] = IF n = 0 THEN 1 ELSE f[n - 1] * q(n)
    <3>1. n = 0 \/ n \in 1 .. count
      BY <1>0
    <3> QED
      BY <1>3, <1>4, <3>1
  <2> QED
    BY <1>3, <2>1
<1> DEFINE products == CHOOSE g : Products(g)
<1>6. Products(products)
  <2> HIDE DEF Products
  <2> QED
    BY <1>5
<1>7. q_product(p, m, count) = products[count]
  BY DEF q_product, q
<1> HIDE DEF products
<1>8. \A n \in 0 .. count : products[n] = IF n = 0 THEN 1 ELSE products[n - 1] * q(n)
  BY <1>6, Zenon
<1>9. \A n \in 0 .. count : f[n] = products[n]
  <2> DEFINE S == {n \in 0 .. count : f[n] = products[n]}
  <2>1. 0 \in S
    BY <1>0, <1>3, <1>8
  <2>2. ASSUME NEW n \in 0 .. count, n + 1 =< count, n \in S
        PROVE  n + 1 \in S
    <3>1. n + 1 \in 1 .. count /\ (n + 1) - 1 = n /\ n + 1 \in 0 .. count /\ n + 1 # 0
      BY <1>0, <2>2
    <3> QED
      BY <1>4, <1>8, <2>2, <3>1
  <2> HIDE DEF S
  <2>3. /\ 0 \in Int /\ count \in Int
        /\ \A n \in 0 .. count : n + 1 =< count /\ n \in S => n + 1 \in S
    BY <1>0, <2>2
  <2>4. \A n \in 0 .. count : n \in S
    BY <2>1, <2>3, Upward, Zenon
  <2> QED
    BY <2>4 DEF S
<1>10. f[count] = q_product(p, m, count) /\ f[0] = 1
  BY <1>0, <1>3, <1>7, <1>9
<1> QED
  BY <1>3, <1>4, <1>10 DEF q, ProductsTo

(* The weight grows by one modulus at a time.                              *)
LEMMA WeightStep ==
    ASSUME NEW m \in ModuliIds, NEW p, PartitionOf(p, m)
    PROVE  /\ q_product(p, m, 0) = 1
           /\ \A t \in 0 .. Size(p) - 1 :
                q_product(p, m, t + 1) = q_product(p, m, t) * get_modulus(m, p.start + t)
<1>0. Size(p) \in Nat /\ p.start \in Nat
      /\ \A n \in 1 .. Size(p) : get_modulus(m, p.start + n - 1) \in Int
  <2>1. Size(p) \in Nat /\ p.start \in Nat
    BY PartitionChains
  <2>2. ASSUME NEW n \in 1 .. Size(p)
        PROVE  get_modulus(m, p.start + n - 1) \in Int
    <3>1. n - 1 \in 0 .. Size(p) - 1
      BY <2>1
    <3>2. p.start + (n - 1) \in Primes(m) /\ p.start + (n - 1) = p.start + n - 1
      BY <2>1, <3>1, PartitionChains
    <3> QED
      BY <3>2, PrimeFacts
  <2> QED
    BY <2>1, <2>2
<1>1. q_product(p, m, 0) = 1
  <2> DEFINE zero == 0
  <2>0. zero \in Nat /\ IntegerModuli(p, m, zero)
    BY DEF IntegerModuli
  <2> HIDE DEF zero
  <2>1. PICK f : ProductsTo(f, p, m, zero)
    BY <2>0, ProductUnfold, Zenon
  <2> QED
    BY <2>1 DEF zero, ProductsTo
<1>2. ASSUME NEW t \in 0 .. Size(p) - 1
      PROVE  q_product(p, m, t + 1) = q_product(p, m, t) * get_modulus(m, p.start + t)
  <2> DEFINE c == t + 1
  <2>1. t \in Nat /\ c \in Nat /\ t =< Size(p) /\ c =< Size(p)
    BY <1>0
  <2> HIDE DEF c
  <2>12. IntegerModuli(p, m, t) /\ IntegerModuli(p, m, c)
    <3>1. \A n : (n \in 1 .. t \/ n \in 1 .. c) => n \in 1 .. Size(p)
      BY <1>0, <2>1
    <3> QED
      BY <1>0, <3>1, Zenon DEF IntegerModuli
  <2>2. PICK f : ProductsTo(f, p, m, t)
    BY <2>1, <2>12, ProductUnfold, Zenon
  <2>3. PICK g : ProductsTo(g, p, m, c)
    BY <2>1, <2>12, ProductUnfold, Zenon
  <2> DEFINE S == {n \in 0 .. t : f[n] = g[n]}
  <2>4. 0 \in S
    BY <2>1, <2>2, <2>3 DEF ProductsTo
  <2>5. ASSUME NEW n \in 0 .. t, n + 1 =< t, n \in S
        PROVE  n + 1 \in S
    <3>1. n + 1 \in 1 .. t /\ n + 1 \in 1 .. c /\ (n + 1) - 1 = n /\ n + 1 \in 0 .. t
      BY <2>1, <2>5 DEF c
    <3> QED
      BY <2>2, <2>3, <2>5, <3>1 DEF ProductsTo
  <2> HIDE DEF S
  <2>6. /\ 0 \in Int /\ t \in Int
        /\ \A n \in 0 .. t : n + 1 =< t /\ n \in S => n + 1 \in S
    BY <2>1, <2>5
  <2>7. \A n \in 0 .. t : n \in S
    BY <2>4, <2>6, Upward, Zenon
  <2>8. f[t] = g[t]
    BY <2>1, <2>7 DEF S
  <2>9. c \in 1 .. c /\ c - 1 = t /\ p.start + c - 1 = p.start + t
    BY <1>0, <2>1 DEF c
  <2>10. g[c] = g[c - 1] * get_modulus(m, p.start + c - 1)
    BY <2>3, <2>9 DEF ProductsTo
  <2> QED
    BY <2>2, <2>3, <2>8, <2>9, <2>10 DEF c, ProductsTo
<1> QED
  BY <1>1, <1>2

LEMMA PartitionBasis ==
    ASSUME NEW m \in ModuliIds, NEW p, PartitionOf(p, m)
    PROVE  Basis(Size(p), PartModuli(p, m), PartConstants(p, m), PartWeights(p, m))
<1> DEFINE count == Size(p)
           q == PartModuli(p, m)
           k == PartConstants(p, m)
           w == PartWeights(p, m)
<1>1. count \in 1 .. 16 /\ count \in Nat /\ p.start \in Nat
  BY PartitionChains
<1>2. ASSUME NEW j \in 0 .. count - 1
      PROVE  /\ q[j] \in Nat \ {0, 1} /\ Valid(q[j], k[j]) /\ Coprime(R, q[j])
             /\ \A i \in 0 .. count - 1 : i # j => Coprime(q[i], q[j])
  <2> DEFINE chain == p.start + j
  <2>1. chain \in Primes(m)
    BY PartitionChains
  <2>2. q[j] = get_modulus(m, chain) /\ k[j] = Parameter(m, chain).k
    BY DEF PartModuli, PartConstants
  <2> HIDE DEF chain
  <2>3. q[j] \in Nat \ {0, 1} /\ Valid(q[j], k[j]) /\ Coprime(R, q[j])
    BY <2>1, <2>2, PrimeFacts
  <2>4. ASSUME NEW i \in 0 .. count - 1, i # j
        PROVE  Coprime(q[i], q[j])
    <3> DEFINE other == p.start + i
    <3>1. other \in Primes(m) /\ other # chain
      BY <1>1, <2>4, PartitionChains DEF chain
    <3>2. q[i] = get_modulus(m, other)
      BY DEF PartModuli
    <3> HIDE DEF other
    <3> QED
      BY <2>1, <2>2, <3>1, <3>2, PrimeFacts
  <2> QED
    BY <2>3, <2>4
<1>3. w[0] = 1
  <2>1. 0 \in 0 .. count
    BY <1>1
  <2> QED
    BY <2>1, WeightStep DEF PartWeights
<1>4. ASSUME NEW t \in 0 .. count - 1
      PROVE  w[t + 1] = w[t] * q[t]
  <2>1. t \in 0 .. count /\ t + 1 \in 0 .. count
    BY <1>1
  <2>2. q_product(p, m, t + 1) = q_product(p, m, t) * get_modulus(m, p.start + t)
    BY WeightStep
  <2>3. w[t + 1] = q_product(p, m, t + 1) /\ w[t] = q_product(p, m, t) /\ q[t] = get_modulus(m, p.start + t)
    BY <2>1 DEF PartWeights, PartModuli
  <2> QED
    BY <2>2, <2>3
<1> QED
  BY <1>1, <1>2, <1>3, <1>4 DEF Basis

-----------------------------------------------------------------------------
(***************************************************************************)
(* The rounds of rns_to_mrs.                                               *)
(***************************************************************************)
NextRound(digits, residual, p, m, t) ==
    LET digit == mrs_digit(residual, digits, p, m, t)
        with == [digits EXCEPT ![t] = digit]
    IN  [j \in 0 .. Size(p) - 1 |->
           IF j > t THEN add_digit(with, p, m, t, j) ELSE with[j]]

FirstRound(residual, p) == [j \in 0 .. Size(p) - 1 |-> residual[p.start]]

RoundsTo(f, last, residual, p, m) ==
    f = [t \in 0 .. last |-> IF t = 0 THEN FirstRound(residual, p)
                             ELSE NextRound(f[t - 1], residual, p, m, t)]

LEMMA RoundsExist ==
    ASSUME NEW m \in ModuliIds, NEW p, PartitionOf(p, m), NEW residual
    PROVE  /\ \E f : RoundsTo(f, Size(p) - 1, residual, p, m)
           /\ rns_to_mrs(residual, p, m)
                = (CHOOSE f : RoundsTo(f, Size(p) - 1, residual, p, m))[Size(p) - 1]
<1> DEFINE last == Size(p) - 1
           S == {n \in 0 .. last : \E f : RoundsTo(f, n, residual, p, m)}
<1>1. last \in Nat /\ 0 \in 0 .. last /\ last \in 0 .. last
  BY PartitionChains
<1>2. 0 \in S
  <2> DEFINE f == [t \in 0 .. 0 |-> FirstRound(residual, p)]
  <2>1. RoundsTo(f, 0, residual, p, m)
    BY DEF RoundsTo
  <2> HIDE DEF f
  <2> QED
    BY <1>1, <2>1
<1>3. ASSUME NEW n \in 0 .. last, n + 1 =< last, n \in S
      PROVE  n + 1 \in S
  <2>1. PICK f : RoundsTo(f, n, residual, p, m)
    BY <1>3
  <2> DEFINE g == [t \in 0 .. n + 1 |-> IF t = 0 THEN FirstRound(residual, p)
                                        ELSE NextRound(f[t - 1], residual, p, m, t)]
  <2>2. \A t \in 0 .. n : g[t] = f[t]
    <3> TAKE t \in 0 .. n
    <3>1. t \in 0 .. n + 1
      BY <1>1
    <3>2. f[t] = IF t = 0 THEN FirstRound(residual, p)
                 ELSE NextRound(f[t - 1], residual, p, m, t)
      BY <2>1, Zenon DEF RoundsTo
    <3>3. g[t] = IF t = 0 THEN FirstRound(residual, p)
                 ELSE NextRound(f[t - 1], residual, p, m, t)
      BY <3>1, Zenon
    <3> QED
      BY <3>2, <3>3, Zenon
  <2>3. ASSUME NEW t \in 0 .. n + 1
        PROVE  g[t] = IF t = 0 THEN FirstRound(residual, p)
                      ELSE NextRound(g[t - 1], residual, p, m, t)
    <3>1. CASE t = 0
      BY <3>1, Zenon
    <3>2. CASE t # 0
      <4>1. t - 1 \in 0 .. n
        BY <3>2
      <4>2. g[t - 1] = f[t - 1]
        BY <2>2, <4>1, Zenon
      <4> QED
        BY <3>2, <4>2, Zenon
    <3> QED
      BY <3>1, <3>2, Zenon
  <2>4. RoundsTo(g, n + 1, residual, p, m)
    <3>1. g = [t \in 0 .. n + 1 |-> g[t]]
      BY Zenon
    <3> HIDE DEF g
    <3> DEFINE h == [t \in 0 .. n + 1 |-> IF t = 0 THEN FirstRound(residual, p)
                      ELSE NextRound(g[t - 1], residual, p, m, t)]
    <3>2. h = [t \in 0 .. n + 1 |-> h[t]]
      BY Zenon
    <3>3. \A t \in 0 .. n + 1 : g[t] = h[t]
      BY <2>3, Zenon
    <3>4. g = h
      <4> HIDE DEF h
      <4> QED
        BY <3>1, <3>2, <3>3
    <3> QED
      BY <3>4, Zenon DEF RoundsTo
  <2> HIDE DEF g
  <2>5. n + 1 \in 0 .. last
    BY <1>1, <1>3
  <2> QED
    BY <2>4, <2>5
<1> HIDE DEF S
<1>4. /\ 0 \in Int /\ last \in Int
      /\ \A n \in 0 .. last : n + 1 =< last /\ n \in S => n + 1 \in S
  BY <1>1, <1>3
<1> HIDE DEF last
<1>5. \A n \in 0 .. last : n \in S
  BY <1>2, <1>4, Upward, Zenon
<1>6. \E f : RoundsTo(f, last, residual, p, m)
  BY <1>1, <1>5 DEF S
<1>7. rns_to_mrs(residual, p, m) = (CHOOSE f : RoundsTo(f, last, residual, p, m))[last]
  BY Zenon DEF rns_to_mrs, RoundsTo, FirstRound, NextRound, last
<1> QED
  BY <1>6, <1>7 DEF last

LEMMA RoundsUnfold ==
    ASSUME NEW m \in ModuliIds, NEW p, PartitionOf(p, m), NEW residual
    PROVE  \E f :
             /\ f[0] = FirstRound(residual, p)
             /\ \A t \in 1 .. Size(p) - 1 : f[t] = NextRound(f[t - 1], residual, p, m, t)
             /\ rns_to_mrs(residual, p, m) = f[Size(p) - 1]
<1> DEFINE last == Size(p) - 1
           f == CHOOSE g : RoundsTo(g, last, residual, p, m)
<1>1. last \in Nat /\ 0 \in 0 .. last
  BY PartitionChains
<1>2. RoundsTo(f, last, residual, p, m)
  BY RoundsExist
<1>3. rns_to_mrs(residual, p, m) = f[last]
  BY RoundsExist
<1> HIDE DEF f, last
<1>4. \A t \in 0 .. last : f[t] = IF t = 0 THEN FirstRound(residual, p)
                                  ELSE NextRound(f[t - 1], residual, p, m, t)
  BY <1>2, Zenon DEF RoundsTo
<1>5. f[0] = FirstRound(residual, p)
  BY <1>1, <1>4
<1>6. ASSUME NEW t \in 1 .. last
      PROVE  f[t] = NextRound(f[t - 1], residual, p, m, t)
  <2>1. t \in 0 .. last /\ t # 0
    BY <1>1
  <2> QED
    BY <1>4, <2>1, Zenon
<1> QED
  BY <1>3, <1>5, <1>6 DEF last

-----------------------------------------------------------------------------
(***************************************************************************)
(* The digits of one coefficient are those of RoundsRepresent.             *)
(***************************************************************************)
ResidualPart(p, residual, i) == [j \in 0 .. Size(p) - 1 |-> residual[p.start + j][i]]

AtCoeff(f, i, p) == [t \in 0 .. Size(p) - 1 |-> [j \in 0 .. Size(p) - 1 |-> f[t][j][i]]]

LEMMA PartitionRounds ==
    ASSUME NEW m \in ModuliIds, NEW p, PartitionOf(p, m), NEW residual, NEW i \in Coeff, NEW f,
           f[0] = FirstRound(residual, p),
           \A t \in 1 .. Size(p) - 1 : f[t] = NextRound(f[t - 1], residual, p, m, t)
    PROVE  Rounds(Size(p), PartModuli(p, m), PartConstants(p, m), PartWeights(p, m),
                  ResidualPart(p, residual, i), AtCoeff(f, i, p))
<1> DEFINE count == Size(p)
           q == PartModuli(p, m)
           k == PartConstants(p, m)
           w == PartWeights(p, m)
           r == ResidualPart(p, residual, i)
           a == AtCoeff(f, i, p)
<1>1. count \in Nat /\ count >= 1 /\ p.start \in Nat /\ p.start + 0 = p.start /\ 0 \in 0 .. count - 1
  BY PartitionChains
<1>2. \A t, j \in 0 .. count - 1 : a[t][j] = f[t][j][i]
  BY DEF AtCoeff
<1>3. \A j \in 0 .. count - 1 : /\ q[j] = get_modulus(m, p.start + j)
                                /\ k[j] = Parameter(m, p.start + j).k
                                /\ r[j] = residual[p.start + j][i]
  BY DEF PartModuli, PartConstants, ResidualPart
<1>4. \A t \in 0 .. count - 1 : w[t] = q_product(p, m, t)
  <2> TAKE t \in 0 .. count - 1
  <2>1. t \in 0 .. count
    BY <1>1
  <2> QED
    BY <2>1 DEF PartWeights
<1>5. ASSUME NEW j \in 0 .. count - 1
      PROVE  a[0][j] = r[0]
  <2>1. f[0][j] = residual[p.start]
    BY DEF FirstRound
  <2> HIDE DEF a, r
  <2>2. a[0][j] = f[0][j][i] /\ r[0] = residual[p.start][i]
    BY <1>1, <1>2, <1>3
  <2> QED
    BY <2>1, <2>2
<1>6. \A t \in 0 .. count - 1 : DOMAIN f[t] = 0 .. count - 1
  <2> TAKE t \in 0 .. count - 1
  <2>1. CASE t = 0
    BY <2>1 DEF FirstRound
  <2>2. CASE t # 0
    <3>1. t \in 1 .. count - 1
      BY <2>2
    <3>2. f[t] = NextRound(f[t - 1], residual, p, m, t)
      BY <3>1
    <3> QED
      BY <3>2 DEF NextRound
  <2> QED
    BY <2>1, <2>2
<1> HIDE DEF q, k, w, r, a
<1>7. ASSUME NEW t \in 1 .. count - 1
      PROVE  /\ a[t][t] = mont_sub_enter_reduce_2q_to_q(r[t], a[t - 1][t],
                  modulus_multiply(modulus_invert(w[t] % q[t], q[t]), R, q[t]),
                  q[t], k[t])
             /\ \A j \in 0 .. t - 1 : a[t][j] = a[t - 1][j]
             /\ \A j \in t + 1 .. count - 1 :
                  a[t][j] = mont_enter_add_reduce_2q_to_q(a[t][t], a[t - 1][j],
                    modulus_multiply(w[t] % q[j], R, q[j]), q[j], k[j])
  <2> DEFINE before == f[t - 1]
             digit == mrs_digit(residual, before, p, m, t)
             with == [before EXCEPT ![t] = digit]
  <2>1. t \in 0 .. count - 1 /\ t - 1 \in 0 .. count - 1 /\ DOMAIN before = 0 .. count - 1
    BY <1>1, <1>6
  <2>2. f[t] = NextRound(before, residual, p, m, t)
    OBVIOUS
  <2>3. \A j \in 0 .. count - 1 :
          f[t][j] = IF j > t THEN add_digit(with, p, m, t, j) ELSE with[j]
    <3> HIDE DEF before
    <3> QED
      BY <2>2, Zenon DEF NextRound
  <2> HIDE DEF before
  <2>4. with[t] = digit /\ \A j \in 0 .. count - 1 : j # t => with[j] = before[j]
    <3> HIDE DEF digit
    <3> QED
      BY <2>1
  <2> HIDE DEF with
  <2>5. digit[i] = mont_sub_enter_reduce_2q_to_q(r[t], a[t - 1][t],
                  modulus_multiply(modulus_invert(w[t] % q[t], q[t]), R, q[t]),
                  q[t], k[t])
    <3>1. digit[i] = mont_sub_enter_reduce_2q_to_q(residual[p.start + t][i], before[t][i],
                  modulus_multiply(modulus_invert(
                    q_product(p, m, t) % get_modulus(m, p.start + t),
                    get_modulus(m, p.start + t)), R, get_modulus(m, p.start + t)),
                  get_modulus(m, p.start + t), Parameter(m, p.start + t).k)
      BY DEF mrs_digit
    <3>2. /\ r[t] = residual[p.start + t][i] /\ a[t - 1][t] = before[t][i]
          /\ w[t] = q_product(p, m, t) /\ q[t] = get_modulus(m, p.start + t)
          /\ k[t] = Parameter(m, p.start + t).k
      BY <1>2, <1>3, <1>4, <2>1 DEF before
    <3> QED
      BY <3>1, <3>2, Zenon
  <2> HIDE DEF digit
  <2>6. a[t][t] = digit[i]
    <3>1. ~(t > t)
      BY <2>1
    <3>2. f[t][t] = with[t]
      BY <2>1, <2>3, <3>1, Zenon
    <3> QED
      BY <1>2, <2>1, <2>4, <3>2
  <2>7. ASSUME NEW j \in 0 .. t - 1
        PROVE  a[t][j] = a[t - 1][j]
    <3>1. j \in 0 .. count - 1 /\ ~(j > t) /\ j # t
      BY <1>1, <2>1
    <3>2. f[t][j] = with[j]
      BY <2>3, <3>1, Zenon
    <3>3. with[j] = before[j]
      BY <2>4, <3>1
    <3>4. a[t][j] = f[t][j][i] /\ a[t - 1][j] = f[t - 1][j][i]
      BY <1>2, <2>1, <3>1
    <3> QED
      BY <3>2, <3>3, <3>4 DEF before
  <2>8. ASSUME NEW j \in t + 1 .. count - 1
        PROVE  a[t][j] = mont_enter_add_reduce_2q_to_q(a[t][t], a[t - 1][j],
                    modulus_multiply(w[t] % q[j], R, q[j]), q[j], k[j])
    <3>1. j \in 0 .. count - 1 /\ j > t /\ j # t
      BY <2>1
    <3>2. f[t][j] = add_digit(with, p, m, t, j)
      BY <2>3, <3>1, Zenon
    <3>3. with[j] = before[j]
      BY <2>4, <3>1
    <3>4. f[t][j][i] = mont_enter_add_reduce_2q_to_q(with[t][i], with[j][i],
              modulus_multiply(q_product(p, m, t) % get_modulus(m, p.start + j), R,
                               get_modulus(m, p.start + j)),
              get_modulus(m, p.start + j), Parameter(m, p.start + j).k)
      BY <3>2 DEF add_digit
    <3>5. /\ a[t][j] = f[t][j][i] /\ a[t - 1][j] = before[j][i] /\ a[t][t] = with[t][i]
          /\ w[t] = q_product(p, m, t) /\ q[j] = get_modulus(m, p.start + j)
          /\ k[j] = Parameter(m, p.start + j).k
      BY <1>2, <1>3, <1>4, <2>1, <2>4, <2>6, <3>1 DEF before
    <3> QED
      BY <3>3, <3>4, <3>5, Zenon
  <2> QED
    BY <2>5, <2>6, <2>7, <2>8
<1> QED
  BY <1>5, <1>7 DEF Rounds, q, k, w, r, a

-----------------------------------------------------------------------------
(***************************************************************************)
(* A polynomial of a ciphertext, and what rns_to_mrs makes of it.          *)
(***************************************************************************)
StoredPolynomial(residual, m) ==
    \A chain \in TextChains(m) :
      residual[chain] \in [Coeff -> Residue(get_modulus(m, chain))]

MixedValue(digits, p, m, i) ==
    Total([t \in 0 .. Size(p) - 1 |-> digits[t][i] * q_product(p, m, t)], Size(p))

LEMMA MixedRadix ==
    ASSUME NEW m \in ModuliIds, NEW p, PartitionOf(p, m),
           NEW residual, StoredPolynomial(residual, m), NEW i \in Coeff
    PROVE  LET v == MixedValue(rns_to_mrs(residual, p, m), p, m, i)
               span == q_product(p, m, Size(p))
               first == get_modulus(m, p.start)
           IN  /\ v \in - span .. span + first - 1
               /\ \A chain \in p.start .. p.stop - 1 :
                    (v - residual[chain][i]) % get_modulus(m, chain) = 0
               /\ \A t \in 0 .. Size(p) - 1 : SmallDigit(rns_to_mrs(residual, p, m)[t][i])
<1> DEFINE count == Size(p)
           q == PartModuli(p, m)
           k == PartConstants(p, m)
           w == PartWeights(p, m)
           r == ResidualPart(p, residual, i)
           digits == rns_to_mrs(residual, p, m)
           v == MixedValue(digits, p, m, i)
<1>1. /\ count \in Nat /\ count >= 1 /\ p.start \in Nat /\ p.start + 0 = p.start
      /\ p.stop = p.start + count /\ (count - 1) + 1 = count
      /\ 0 \in 0 .. count - 1 /\ count - 1 \in 0 .. count - 1 /\ count \in 0 .. count
  BY PartitionChains
<1>2. PICK f :
        /\ f[0] = FirstRound(residual, p)
        /\ \A t \in 1 .. Size(p) - 1 : f[t] = NextRound(f[t - 1], residual, p, m, t)
        /\ rns_to_mrs(residual, p, m) = f[Size(p) - 1]
  BY RoundsUnfold
<1> DEFINE a == AtCoeff(f, i, p)
<1>3. Rounds(count, q, k, w, r, a)
  BY <1>2, PartitionRounds
<1>4. Basis(count, q, k, w)
  BY PartitionBasis
<1>5. \A j \in 0 .. count - 1 : /\ q[j] = get_modulus(m, p.start + j)
                                /\ r[j] = residual[p.start + j][i]
  BY DEF PartModuli, ResidualPart
<1>6. \A t \in 0 .. count : w[t] = q_product(p, m, t)
  BY DEF PartWeights
<1>7. \A t \in 0 .. count - 1 : a[count - 1][t] = digits[t][i]
  <2>1. \A t \in 0 .. count - 1 : a[count - 1][t] = f[count - 1][t][i]
    BY <1>1 DEF AtCoeff
  <2> QED
    BY <1>2, <2>1
<1> HIDE DEF q, k, w, r, a, digits
<1>8. Residual(count, q, r)
  <2> SUFFICES ASSUME NEW j \in 0 .. count - 1
               PROVE  r[j] \in Residue(q[j])
    BY DEF Residual
  <2>1. p.start + j \in TextChains(m)
    BY PartitionChains
  <2>2. residual[p.start + j] \in [Coeff -> Residue(get_modulus(m, p.start + j))]
    BY <2>1 DEF StoredPolynomial
  <2> QED
    BY <1>5, <2>2
<1>9. Finished(count, q, w, r, a, count - 1)
  BY <1>3, <1>4, <1>8, RoundsRepresent
<1>10. \A t \in 0 .. count : w[t] \in Int
  BY <1>4, WeightFacts
<1>11. SoFar(a, w, count - 1) = v
  <2> DEFINE g == DigitTerm(a, w, count)
             h == [t \in 0 .. count - 1 |-> digits[t][i] * q_product(p, m, t)]
  <2>1. \A t \in 0 .. count - 1 : g[t] = a[t][t] * w[t] /\ h[t] = digits[t][i] * q_product(p, m, t)
    BY DEF DigitTerm
  <2>2. ASSUME NEW t \in 0 .. count - 1
        PROVE  g[t] \in Int /\ g[t] = h[t]
    <3>1. t \in 0 .. count
      BY <1>1
    <3>2. w[t] = q_product(p, m, t) /\ w[t] \in Int
      BY <1>6, <1>10, <3>1
    <3>3. a[t][t] = digits[t][i] /\ a[t][t] \in Int
      BY <1>7, <1>9 DEF Finished, SmallDigit
    <3> HIDE DEF g, h
    <3> QED
      BY <2>1, <3>2, <3>3
  <2> HIDE DEF g, h
  <2>3. Summands(g, count)
    BY <2>2 DEF Summands
  <2>4. Total(g, count) = Total(h, count)
    BY <1>1, <2>2, <2>3, TotalSame
  <2>5. SoFar(a, w, count - 1) = Total(g, count)
    BY <1>1 DEF SoFar, g
  <2>6. v = Total(h, count)
    BY DEF MixedValue, h
  <2> QED
    BY <2>4, <2>5, <2>6
<1> HIDE DEF v
<1>12. /\ v \in Int /\ - w[count] =< v /\ v =< w[count] + q[0] - 1
       /\ \A j \in 0 .. count - 1 : Cong(v, r[j], q[j])
  BY <1>1, <1>9, <1>11 DEF Finished
<1> DEFINE span == q_product(p, m, Size(p))
           first == get_modulus(m, p.start)
<1>13. v \in - span .. span + first - 1
  <2>1. w[count] = span /\ span \in Int /\ q[0] = first
    BY <1>1, <1>5, <1>6, <1>10
  <2>2. first \in Int
    BY <1>1, <2>1, <1>4 DEF Basis
  <2> HIDE DEF span, first
  <2> QED
    BY <1>12, <2>1, <2>2
<1>14. ASSUME NEW chain \in p.start .. p.stop - 1
       PROVE  (v - residual[chain][i]) % get_modulus(m, chain) = 0
  <2> DEFINE j == chain - p.start
             n == get_modulus(m, chain)
             s == residual[chain][i]
  <2>1. j \in 0 .. count - 1 /\ p.start + j = chain
    BY <1>1
  <2>2. q[j] = n /\ r[j] = s
    BY <1>5, <2>1
  <2>3. Cong(v, s, n)
    BY <1>12, <2>1, <2>2
  <2>4. n \in Nat \ {0, 1} /\ s \in Residue(n)
    BY <1>4, <1>8, <2>1, <2>2 DEF Basis, Residual
  <2> HIDE DEF j, n, s
  <2>5. s \in Int
    BY <2>4 DEF Residue
  <2>6. PICK z \in Int : v = s + n * z
    BY <2>3 DEF Cong
  <2>7. v - s = (n * z) + 0 /\ 0 \in 0 .. n - 1
    BY <1>12, <2>4, <2>5, <2>6
  <2>8. ((n * z) + 0) % n = 0
    <3> DEFINE zero == 0
    <3>1. zero \in 0 .. n - 1 /\ n \in Nat \ {0}
      BY <2>4
    <3> HIDE DEF zero
    <3>2. ((n * z) + zero) % n = zero
      BY <2>6, <3>1, DivModUnique
    <3> QED
      BY <3>2 DEF zero
  <2>9. (v - s) % n = 0
    BY <2>7, <2>8
  <2> QED
    BY <2>9 DEF n, s
<1>15. \A t \in 0 .. count - 1 : SmallDigit(digits[t][i])
  BY <1>7, <1>9 DEF Finished
<1> QED
  BY <1>13, <1>14, <1>15 DEF v, digits

-----------------------------------------------------------------------------
(***************************************************************************)
(* mod_up: the digits back to an integer, modulo any prime.                *)
(***************************************************************************)
(* What a digit adds, in Montgomery form, and what it does to the range.   *)
LEMMA LiftedDigit ==
    ASSUME NEW q \in Nat \ {0, 1}, NEW k, Valid(q, k), Coprime(R, q),
           NEW d, SmallDigit(d), NEW w \in Int, NEW s \in Int
    PROVE  LET c == modulus_multiply(w % q, r_squared(q), q)
               z == mont_enter_add(d, s, c, q, k)
           IN  /\ z \in Int
               /\ Cong(z, s + (d * w) * R, q)
               /\ s < 2 * q => z < 2 * q
               /\ 0 =< z \/ 16 * s - 2 * q =< 16 * z
<1> DEFINE e == w % q
           g == r_squared(q)
           c == modulus_multiply(e, g, q)
           v == mont_mult_scalar(d, c, q, k)
           z == guard(v + s, 2 * q)
<1>0. /\ R \in Nat \ {0} /\ R \in Int /\ q \in Int /\ 4 * q < R
      /\ d \in Int /\ - R =< 8 * d /\ 2 * d =< R
  BY RAssumption DEF Valid, SmallDigit
<1>1. e \in 0 .. q - 1 /\ e \in Int /\ Cong(e, w, q)
  BY RemainderFacts
<1>2. g \in 0 .. q - 1 /\ g \in Int /\ Cong(g, R * R, q)
  <2>1. R * R \in Int /\ ~(R * R < 0)
    BY <1>0
  <2>2. g = (R * R) % q
    BY <2>1 DEF r_squared, modulus_multiply
  <2> HIDE DEF g
  <2> QED
    BY <2>1, <2>2, RemainderFacts
<1> HIDE DEF e, g
<1>3. c \in 0 .. q - 1 /\ c \in Int /\ Cong(c, e * g, q)
  <2>1. e * g \in Int /\ ~(e * g < 0)
    BY <1>1, <1>2
  <2>2. c = (e * g) % q
    BY <2>1 DEF modulus_multiply
  <2> HIDE DEF c
  <2> QED
    BY <2>1, <2>2, RemainderFacts
<1> HIDE DEF c
<1> DEFINE wr == w * R
<1>4. wr \in Int /\ Cong(c, wr * R, q)
  <2> DEFINE eg == e * g
             rr == R * R
             wrr == w * rr
  <2>1. rr \in Int /\ eg \in Int /\ wrr \in Int /\ wr \in Int
    BY <1>0, <1>1, <1>2
  <2>2. wrr = wr * R
    BY <1>0
  <2>3. Cong(g, rr, q) /\ Cong(c, eg, q)
    BY <1>2, <1>3
  <2> HIDE DEF rr
  <2>4. Cong(eg, wrr, q)
    BY <1>0, <1>1, <1>2, <2>1, <2>3, CongProducts
  <2> HIDE DEF eg, wrr, wr
  <2>5. Cong(c, wrr, q)
    BY <1>0, <1>3, <2>1, <2>3, <2>4, CongTransitive
  <2> QED
    BY <2>1, <2>2, <2>5
<1> HIDE DEF wr
<1>5. v \in Int /\ Cong(v, d * wr, q)
  <2>1. - (2 * R) =< d /\ d =< 2 * R /\ - q =< c /\ c =< q
    BY <1>0, <1>3
  <2> QED
    BY <1>0, <1>3, <1>4, <2>1, MontMultCong
<1>6. - (2 * q) =< 16 * v /\ 16 * v =< 24 * q
  <2> DEFINE two == 2
             eight == 8
  <2>1. two \in 0 .. 64 /\ eight \in 0 .. 64 /\ - (two * R) =< 16 * d /\ 16 * d =< eight * R
        /\ - q =< c /\ c =< q /\ (c >= 0 \/ two = eight)
    BY <1>0, <1>3
  <2> HIDE DEF two, eight
  <2>2. - (two * q) =< 16 * v /\ 16 * v =< (eight + 16) * q
    BY <1>0, <1>3, <2>1, MontMultRange
  <2> QED
    BY <2>2 DEF two, eight
<1> HIDE DEF v
<1>7. /\ v + s \in Int /\ z \in Int /\ Cong(z, v + s, q)
      /\ z = IF v + s < 2 * q THEN v + s ELSE (v + s) - 2 * q
  <2> DEFINE vs == v + s
  <2>1. vs \in Int
    BY <1>5
  <2> HIDE DEF vs
  <2>2. /\ guard(vs, 2 * q) \in Int /\ Cong(guard(vs, 2 * q), vs, q)
        /\ guard(vs, 2 * q) = IF vs < 2 * q THEN vs ELSE vs - 2 * q
    BY <1>0, <2>1, GuardCong DEF guard
  <2> QED
    BY <2>1, <2>2 DEF vs
<1> HIDE DEF z
<1>8. (s < 2 * q => z < 2 * q) /\ (0 =< z \/ 16 * s - 2 * q =< 16 * z)
  BY <1>0, <1>5, <1>6, <1>7
<1>9. Cong(z, s + (d * w) * R, q)
  <2> DEFINE dwr == d * wr
             vs == v + s
             sd == s + dwr
  <2>1. dwr \in Int /\ dwr = (d * w) * R /\ Cong(v, dwr, q) /\ vs \in Int /\ sd \in Int
        /\ Cong(z, vs, q)
    BY <1>0, <1>4, <1>5, <1>7 DEF wr
  <2>2. Cong(s, s, q)
    BY <1>0, CongRules
  <2> HIDE DEF dwr
  <2>3. Cong(v + s, dwr + s, q)
    BY <1>0, <1>5, <2>1, <2>2, CongSum
  <2>4. vs = v + s /\ dwr + s = sd
    BY <2>1
  <2>5. Cong(vs, sd, q)
    BY <2>3, <2>4
  <2> HIDE DEF vs, sd
  <2>6. Cong(z, sd, q)
    BY <1>0, <1>7, <2>1, <2>5, CongTransitive
  <2> QED
    BY <2>1, <2>6 DEF sd
<1>10. z = mont_enter_add(d, s, modulus_multiply(w % q, r_squared(q), q), q, k)
  BY DEF z, v, c, e, g, mont_enter_add
<1> QED
  BY <1>7, <1>8, <1>9, <1>10

(* The first digit, whose weight is 1.                                     *)
LEMMA FirstLifted ==
    ASSUME NEW q \in Nat \ {0, 1}, NEW k, Valid(q, k), Coprime(R, q),
           NEW d, SmallDigit(d)
    PROVE  LET z == mont_mult_scalar(d, r_squared(q), q, k)
           IN  z \in Int /\ Cong(z, d * R, q) /\ z < 2 * q /\ - (2 * q) =< 16 * z
<1> DEFINE g == r_squared(q)
           z == mont_mult_scalar(d, g, q, k)
<1>0. /\ R \in Nat \ {0} /\ R \in Int /\ q \in Int /\ 4 * q < R
      /\ d \in Int /\ - R =< 8 * d /\ 2 * d =< R
  BY RAssumption DEF Valid, SmallDigit
<1>1. g \in 0 .. q - 1 /\ g \in Int /\ Cong(g, R * R, q)
  <2>1. R * R \in Int /\ ~(R * R < 0)
    BY <1>0
  <2>2. g = (R * R) % q
    BY <2>1 DEF r_squared, modulus_multiply
  <2> HIDE DEF g
  <2> QED
    BY <2>1, <2>2, RemainderFacts
<1> HIDE DEF g
<1>2. z \in Int /\ Cong(z, d * R, q)
  <2>1. - (2 * R) =< d /\ d =< 2 * R /\ - q =< g /\ g =< q
    BY <1>0, <1>1
  <2> QED
    BY <1>0, <1>1, <2>1, MontMultCong
<1>3. - (2 * q) =< 16 * z /\ 16 * z =< 24 * q
  <2> DEFINE two == 2
             eight == 8
  <2>1. two \in 0 .. 64 /\ eight \in 0 .. 64 /\ - (two * R) =< 16 * d /\ 16 * d =< eight * R
        /\ - q =< g /\ g =< q /\ (g >= 0 \/ two = eight)
    BY <1>0, <1>1
  <2> HIDE DEF two, eight
  <2>2. - (two * q) =< 16 * z /\ 16 * z =< (eight + 16) * q
    BY <1>0, <1>1, <2>1, MontMultRange
  <2> QED
    BY <2>2 DEF two, eight
<1> HIDE DEF z
<1>4. z < 2 * q
  BY <1>0, <1>2, <1>3
<1> QED
  BY <1>2, <1>3, <1>4 DEF z, g

(* All digits, one after the other.                                        *)
DigitsLifted(count, q, k, w, d, u) ==
    /\ u[0] = mont_mult_scalar(d[0], r_squared(q), q, k)
    /\ \A t \in 1 .. count - 1 :
         u[t] = mont_enter_add(d[t], u[t - 1],
                  modulus_multiply(w[t] % q, r_squared(q), q), q, k)

LEMMA LiftedSum ==
    ASSUME NEW count \in 1 .. 16, NEW q \in Nat \ {0, 1}, NEW k, Valid(q, k), Coprime(R, q),
           NEW w, w[0] = 1, NEW d, NEW u, DigitsLifted(count, q, k, w, d, u),
           \A t \in 0 .. count - 1 : w[t] \in Int /\ SmallDigit(d[t]),
           NEW term, \A t \in 0 .. count - 1 : term[t] = d[t] * w[t]
    PROVE  /\ u[count - 1] \in - (2 * q) .. 2 * q - 1
           /\ Cong(u[count - 1], Total(term, count) * R, q)
<1> DEFINE last == count - 1
           Sum(t) == Total(term, t + 1)
           P(t) == /\ u[t] \in Int /\ u[t] < 2 * q /\ - ((2 * q) * (t + 1)) =< 16 * u[t]
                   /\ Cong(u[t], Sum(t) * R, q)
           S == {t \in 0 .. last : P(t)}
<1>1. /\ last \in Nat /\ last \in Int /\ 0 \in 0 .. last /\ last \in 0 .. last
      /\ count \in Nat /\ last + 1 = count /\ last =< 15 /\ 0 \in 0 .. count - 1
      /\ q \in Int /\ R \in Int /\ 0 \in 0 .. count
  BY RAssumption
<1>2. \A t \in 0 .. count - 1 : term[t] \in Int /\ d[t] \in Int
  BY DEF SmallDigit
<1>3. /\ Total(term, 0) = 0
      /\ \A n \in 0 .. count : Total(term, n) \in Int
      /\ \A n \in 0 .. count - 1 : Total(term, n + 1) = Total(term, n) + term[n]
  <2>1. Summands(term, count)
    BY <1>2 DEF Summands
  <2> QED
    BY <1>1, <2>1, TotalStep
<1>4. 0 \in S
  <2> DEFINE a == d[0]
             z == u[0]
  <2>1. SmallDigit(a) /\ z = mont_mult_scalar(a, r_squared(q), q, k)
    BY <1>1 DEF DigitsLifted
  <2> HIDE DEF a, z
  <2>2. z \in Int /\ Cong(z, a * R, q) /\ z < 2 * q /\ - (2 * q) =< 16 * z
    BY <2>1, FirstLifted
  <2>3. a \in Int /\ term[0] = a * 1
    BY <1>1, <2>1 DEF SmallDigit, a
  <2>4. Sum(0) = a
    BY <1>1, <1>3, <2>3
  <2> QED
    BY <1>1, <2>2, <2>4 DEF z
<1>5. ASSUME NEW t \in 0 .. last, t + 1 =< last, t \in S
      PROVE  t + 1 \in S
  <2> DEFINE n == t + 1
             a == d[n]
             b == w[n]
             s == u[t]
             z == u[n]
             V == Sum(t)
             W == Sum(n)
  <2>1. /\ n \in 1 .. count - 1 /\ n \in 0 .. count - 1 /\ n \in 0 .. last /\ n - 1 = t
        /\ n \in 0 .. count /\ n + 1 \in 0 .. count /\ n \in Int /\ t \in Int
    BY <1>1, <1>5
  <2>2. SmallDigit(a) /\ b \in Int /\ a \in Int /\ term[n] = a * b
    BY <1>2, <2>1
  <2>3. z = mont_enter_add(a, s, modulus_multiply(b % q, r_squared(q), q), q, k)
    BY <2>1 DEF DigitsLifted
  <2>4. /\ s \in Int /\ s < 2 * q /\ - ((2 * q) * n) =< 16 * s /\ Cong(s, V * R, q)
    BY <1>5
  <2>5. V \in Int /\ W \in Int /\ W = V + a * b
    BY <1>3, <2>1, <2>2
  <2> HIDE DEF n, a, b, s, z, V, W
  <2>6. /\ z \in Int /\ Cong(z, s + (a * b) * R, q) /\ (s < 2 * q => z < 2 * q)
        /\ 0 =< z \/ 16 * s - 2 * q =< 16 * z
    BY <2>2, <2>3, <2>4, LiftedDigit
  <2>7. - ((2 * q) * (n + 1)) =< 16 * z
    <3> DEFINE qn == (2 * q) * n
    <3>1. qn \in Int /\ (2 * q) * (n + 1) = qn + 2 * q /\ qn >= 0
      BY <1>1, <2>1
    <3> HIDE DEF qn
    <3>2. - qn =< 16 * s
      BY <2>4 DEF qn
    <3> QED
      BY <1>1, <2>4, <2>6, <3>1, <3>2
  <2>8. Cong(z, W * R, q)
    <3> DEFINE ab == (a * b) * R
               vr == V * R
               wr == W * R
               sab == s + ab
    <3>1. ab \in Int /\ vr \in Int /\ wr \in Int /\ sab \in Int /\ wr = vr + ab
          /\ Cong(z, sab, q) /\ Cong(s, vr, q)
      <4>1. (V + a * b) * R = V * R + (a * b) * R /\ a * b \in Int
        BY <1>1, <2>2, <2>5
      <4> QED
        BY <1>1, <2>2, <2>4, <2>5, <2>6, <4>1
    <3>2. sab = s + ab
      OBVIOUS
    <3> HIDE DEF ab, vr, wr, sab
    <3>3. Cong(ab, ab, q)
      BY <1>1, <3>1, CongRules
    <3>4. Cong(s + ab, vr + ab, q)
      BY <1>1, <2>4, <3>1, <3>3, CongSum
    <3>5. Cong(sab, wr, q)
      BY <3>1, <3>2, <3>4
    <3>6. Cong(z, wr, q)
      BY <1>1, <2>6, <3>1, <3>5, CongTransitive
    <3> QED
      BY <3>6 DEF wr
  <2> QED
    BY <2>1, <2>4, <2>6, <2>7, <2>8 DEF n, s, z, W
<1> HIDE DEF S
<1>6. /\ 0 \in Int
      /\ \A t \in 0 .. last : t + 1 =< last /\ t \in S => t + 1 \in S
  BY <1>5
<1> HIDE DEF last
<1>7. \A t \in 0 .. last : t \in S
  BY <1>1, <1>4, <1>6, Upward, Zenon
<1>8. P(last)
  <2>1. last \in S
    BY <1>1, <1>7
  <2> QED
    BY <2>1 DEF S
<1>9. - (2 * q) =< u[last]
  <2>1. (2 * q) * (last + 1) =< 16 * (2 * q)
    BY <1>1
  <2> QED
    BY <1>1, <1>8, <2>1
<1>10. Sum(last) = Total(term, count)
  BY <1>1
<1> QED
  BY <1>1, <1>8, <1>9, <1>10 DEF last

LEMMA ProductNatural ==
    ASSUME NEW m \in ModuliIds, NEW p, PartitionOf(p, m), NEW t \in 0 .. Size(p)
    PROVE  q_product(p, m, t) \in Int
<1>1. PartWeights(p, m)[t] \in Int
  BY PartitionBasis, WeightFacts
<1> QED
  BY <1>1 DEF PartWeights

(* The recursion of mod_up, at one coefficient of one chain.               *)
LiftAt(digits, p, m, chain, i) ==
    LET d == Parameter(m, chain)
        weight(t) == modulus_multiply(
          q_product(p, m, t) % d.q, d.r_squared, d.q)
        upto[t \in 0 .. Size(p) - 1] ==
          IF t = 0
            THEN mont_mult_scalar(digits[0][i], d.r_squared, d.q, d.k)
            ELSE mont_enter_add(digits[t][i], upto[t - 1], weight(t), d.q, d.k)
    IN  upto[Size(p) - 1]

LEMMA ModUpChain ==
    ASSUME NEW digits, NEW p, NEW m, NEW chain \in Primes(m)
    PROVE  mod_up(digits, p, m)[chain]
             = ntt([i \in Coeff |-> LiftAt(digits, p, m, chain, i)], Parameter(m, chain))
BY DEF mod_up, LiftAt

LEMMA LiftUnfold ==
    ASSUME NEW m \in ModuliIds, NEW p, PartitionOf(p, m), NEW digits, NEW i,
           NEW chain \in Primes(m),
           \A t \in 0 .. Size(p) - 1 : SmallDigit(digits[t][i])
    PROVE  LET d == Parameter(m, chain)
               last == Size(p) - 1
           IN  \E u \in [0 .. last -> Int] :
                 /\ u[0] = mont_mult_scalar(digits[0][i], d.r_squared, d.q, d.k)
                 /\ \A t \in 1 .. last :
                      u[t] = mont_enter_add(digits[t][i], u[t - 1],
                               modulus_multiply(q_product(p, m, t) % d.q, d.r_squared, d.q),
                               d.q, d.k)
                 /\ u[last] = LiftAt(digits, p, m, chain, i)
<1> DEFINE d == Parameter(m, chain)
           last == Size(p) - 1
           q == d.q
           weight(t) == modulus_multiply(q_product(p, m, t) % d.q, d.r_squared, d.q)
           add(t, v) == mont_enter_add(digits[t][i], v, weight(t), d.q, d.k)
           step == [e \in Int \X (1 .. last) |-> add(e[2], e[1])]
           first == mont_mult_scalar(digits[0][i], d.r_squared, d.q, d.k)
<1>1. /\ Size(p) \in 1 .. 16 /\ last \in Nat /\ 0 \in 0 .. Size(p) - 1
      /\ \A t \in 1 .. last : t \in 0 .. Size(p) - 1 /\ t \in 0 .. Size(p)
  BY PartitionChains
<1>2. /\ q \in Nat \ {0, 1} /\ Valid(q, d.k) /\ Coprime(R, q) /\ d.r_squared = r_squared(q)
  BY PrimeFacts
<1>3. first \in Int
  <2> DEFINE a == digits[0][i]
  <2>1. SmallDigit(a)
    BY <1>1
  <2> HIDE DEF a, d
  <2>2. mont_mult_scalar(a, r_squared(d.q), d.q, d.k) \in Int
    BY <1>2, <2>1, FirstLifted
  <2> QED
    BY <1>2, <2>2 DEF a
<1>4. \A t \in 1 .. last, v \in Int : add(t, v) \in Int
  <2> TAKE t \in 1 .. last, v \in Int
  <2> DEFINE a == digits[t][i]
             w == q_product(p, m, t)
  <2>1. SmallDigit(a)
    BY <1>1
  <2>2. w \in Int
    BY <1>1, ProductNatural
  <2> HIDE DEF a, w, d
  <2>3. mont_enter_add(a, v, modulus_multiply(w % d.q, r_squared(d.q), d.q), d.q, d.k) \in Int
    BY <1>2, <2>1, <2>2, LiftedDigit
  <2> QED
    BY <1>2, <2>3 DEF a, w
<1> HIDE DEF add, first
<1>5. step \in [Int \X (1 .. last) -> Int]
  <2>1. ASSUME NEW e \in Int \X (1 .. last)
        PROVE  step[e] \in Int
    BY <1>4
  <2> QED
    BY <2>1
<1>6. PICK f \in [0 .. last -> Int] :
        f[0] = first /\ \A n \in 1 .. last : f[n] = step[<<f[n - 1], n>>]
  <2> HIDE DEF step, last
  <2>1. Solvable(last, first, step)
    BY <1>1, <1>3, <1>5, RecursionSolvable
  <2> QED
    BY <2>1 DEF Solvable
<1>7. \A n \in 1 .. last : f[n] = add(n, f[n - 1])
  <2> TAKE n \in 1 .. last
  <2>0. n - 1 \in 0 .. last
    BY <1>1
  <2>1. f[n - 1] \in Int /\ f[n] = step[<<f[n - 1], n>>]
    BY <1>6, <2>0
  <2> QED
    BY <2>1
<1> DEFINE Sums(g) == g = [n \in 0 .. last |-> IF n = 0 THEN first ELSE add(n, g[n - 1])]
<1>8. Sums(f)
  <2>1. ASSUME NEW n \in 0 .. last
        PROVE  f[n] = IF n = 0 THEN first ELSE add(n, f[n - 1])
    <3>1. n = 0 \/ n \in 1 .. last
      BY <1>1
    <3> QED
      BY <1>6, <1>7, <3>1
  <2> QED
    BY <1>6, <2>1
<1> DEFINE sums == CHOOSE g : Sums(g)
<1>9. Sums(sums)
  <2> HIDE DEF Sums
  <2> QED
    BY <1>8
<1>10. LiftAt(digits, p, m, chain, i) = sums[last]
  BY DEF LiftAt, add, first
<1> HIDE DEF sums
<1>11. \A n \in 0 .. last : sums[n] = IF n = 0 THEN first ELSE add(n, sums[n - 1])
  BY <1>9, Zenon
<1>12. \A n \in 0 .. last : f[n] = sums[n]
  <2> DEFINE S == {n \in 0 .. last : f[n] = sums[n]}
  <2>1. 0 \in S
    BY <1>1, <1>6, <1>11
  <2>2. ASSUME NEW n \in 0 .. last, n + 1 =< last, n \in S
        PROVE  n + 1 \in S
    <3>1. n + 1 \in 1 .. last /\ (n + 1) - 1 = n /\ n + 1 \in 0 .. last /\ n + 1 # 0
      BY <1>1, <2>2
    <3> QED
      BY <1>7, <1>11, <2>2, <3>1
  <2> HIDE DEF S
  <2>3. /\ 0 \in Int /\ last \in Int
        /\ \A n \in 0 .. last : n + 1 =< last /\ n \in S => n + 1 \in S
    BY <1>1, <2>2
  <2>4. \A n \in 0 .. last : n \in S
    BY <2>1, <2>3, Upward, Zenon
  <2> QED
    BY <2>4 DEF S
<1>13. f[last] = LiftAt(digits, p, m, chain, i)
  BY <1>1, <1>10, <1>12
<1> QED
  BY <1>6, <1>7, <1>13 DEF add, first

(***************************************************************************)
(* mod_up after rns_to_mrs: one integer polynomial, which has the residues *)
(* of the ciphertext in the chains of the partition, in Montgomery form    *)
(* and transformed, modulo every prime.                                    *)
(***************************************************************************)
Lifted(lift, residual, p, m) ==
    \E v \in [Coeff -> Int] :
      /\ \A i \in Coeff :
           /\ v[i] \in - q_product(p, m, Size(p))
                       .. q_product(p, m, Size(p)) + get_modulus(m, p.start) - 1
           /\ \A chain \in p.start .. p.stop - 1 :
                (v[i] - residual[chain][i]) % get_modulus(m, chain) = 0
      /\ \A chain \in Primes(m) :
           LET q == get_modulus(m, chain)
           IN  \E z \in [Coeff -> - (2 * q) .. 2 * q - 1] :
                 /\ lift[chain] = ntt(z, Parameter(m, chain))
                 /\ \A i \in Coeff : (z[i] - v[i] * R) % q = 0

LEMMA LiftValue ==
    ASSUME NEW m \in ModuliIds, NEW p, PartitionOf(p, m), NEW digits, NEW i,
           NEW chain \in Primes(m),
           \A t \in 0 .. Size(p) - 1 : SmallDigit(digits[t][i])
    PROVE  LET q == get_modulus(m, chain)
               z == LiftAt(digits, p, m, chain, i)
           IN  /\ z \in - (2 * q) .. 2 * q - 1
               /\ MixedValue(digits, p, m, i) \in Int
               /\ (z - MixedValue(digits, p, m, i) * R) % q = 0
<1> DEFINE q == get_modulus(m, chain)
           k == Parameter(m, chain).k
           z == LiftAt(digits, p, m, chain, i)
           v == MixedValue(digits, p, m, i)
           count == Size(p)
           w == PartWeights(p, m)
           d == [t \in 0 .. count - 1 |-> digits[t][i]]
           term == [t \in 0 .. count - 1 |-> digits[t][i] * q_product(p, m, t)]
<1>1. /\ count \in 1 .. 16 /\ 0 \in 0 .. count - 1 /\ count \in Nat
      /\ \A t \in 0 .. count - 1 : t \in 0 .. count
      /\ \A t \in 1 .. count - 1 : t \in 0 .. count - 1
  BY PartitionChains
<1>2. /\ q \in Nat \ {0, 1} /\ Valid(q, k) /\ Coprime(R, q)
      /\ Parameter(m, chain).r_squared = r_squared(q) /\ Parameter(m, chain).q = q
  BY PrimeFacts
<1>3. PICK u \in [0 .. count - 1 -> Int] :
        /\ u[0] = mont_mult_scalar(digits[0][i], r_squared(q), q, k)
        /\ \A t \in 1 .. count - 1 :
             u[t] = mont_enter_add(digits[t][i], u[t - 1],
                      modulus_multiply(q_product(p, m, t) % q, r_squared(q), q), q, k)
        /\ u[count - 1] = z
  <2> HIDE DEF q, z, count
  <2>1. \E u \in [0 .. Size(p) - 1 -> Int] :
          /\ u[0] = mont_mult_scalar(digits[0][i], Parameter(m, chain).r_squared,
                                     Parameter(m, chain).q, Parameter(m, chain).k)
          /\ \A t \in 1 .. Size(p) - 1 :
               u[t] = mont_enter_add(digits[t][i], u[t - 1],
                        modulus_multiply(q_product(p, m, t) % Parameter(m, chain).q,
                          Parameter(m, chain).r_squared, Parameter(m, chain).q),
                        Parameter(m, chain).q, Parameter(m, chain).k)
          /\ u[Size(p) - 1] = LiftAt(digits, p, m, chain, i)
    BY LiftUnfold
  <2> QED
    BY <1>2, <2>1 DEF z, count
<1>4. \A t \in 0 .. count - 1 : /\ w[t] = q_product(p, m, t) /\ w[t] \in Int
                                /\ d[t] = digits[t][i] /\ SmallDigit(d[t])
                                /\ term[t] = d[t] * w[t]
  <2> TAKE t \in 0 .. count - 1
  <2>1. w[t] = q_product(p, m, t)
    BY <1>1 DEF PartWeights
  <2>2. q_product(p, m, t) \in Int
    BY <1>1, ProductNatural
  <2> HIDE DEF w
  <2> QED
    BY <2>1, <2>2
<1>5. w[0] = 1
  BY PartitionBasis DEF Basis
<1>6. DigitsLifted(count, q, k, w, d, u)
  <2> HIDE DEF q, k, w, d, count
  <2> QED
    BY <1>1, <1>3, <1>4 DEF DigitsLifted
<1>7. v = Total(term, count)
  BY DEF MixedValue
<1> HIDE DEF q, k, z, v, w, d, term, count
<1>8. /\ u[count - 1] \in - (2 * q) .. 2 * q - 1
      /\ Cong(u[count - 1], Total(term, count) * R, q)
  <2>1. /\ count \in 1 .. 16 /\ q \in Nat \ {0, 1} /\ Valid(q, k) /\ Coprime(R, q)
        /\ \A t \in 0 .. count - 1 : w[t] \in Int /\ SmallDigit(d[t])
        /\ \A t \in 0 .. count - 1 : term[t] = d[t] * w[t]
    BY <1>1, <1>2, <1>4
  <2> QED
    BY <1>5, <1>6, <2>1, LiftedSum, Zenon
<1>9. v \in Int
  <2>1. Summands(term, count)
    BY <1>4 DEF Summands, SmallDigit
  <2>2. count \in 0 .. count
    BY <1>1
  <2> QED
    BY <1>1, <1>7, <2>1, <2>2, TotalStep
<1>10. (z - v * R) % q = 0
  <2> DEFINE vr == v * R
  <2>1. /\ vr \in Int /\ q \in Int /\ q \in Nat \ {0} /\ z \in Int /\ Cong(z, vr, q)
    BY <1>2, <1>3, <1>7, <1>8, <1>9, RAssumption
  <2> HIDE DEF vr
  <2>2. PICK g \in Int : z = vr + q * g
    BY <2>1 DEF Cong
  <2> DEFINE zero == 0
  <2>3. zero \in 0 .. q - 1 /\ z - vr = (q * g) + zero
    BY <2>1, <2>2
  <2> HIDE DEF zero
  <2>4. ((q * g) + zero) % q = zero
    BY <2>1, <2>2, <2>3, DivModUnique
  <2> QED
    BY <2>3, <2>4 DEF zero, vr
<1> QED
  BY <1>3, <1>8, <1>9, <1>10 DEF q, z, v

LEMMA LiftRepresents ==
    ASSUME NEW m \in ModuliIds, NEW p, PartitionOf(p, m),
           NEW residual, StoredPolynomial(residual, m)
    PROVE  Lifted(mod_up(rns_to_mrs(residual, p, m), p, m), residual, p, m)
<1> DEFINE digits == rns_to_mrs(residual, p, m)
           lift == mod_up(digits, p, m)
           v == [i \in Coeff |-> MixedValue(digits, p, m, i)]
           span == q_product(p, m, Size(p))
           first == get_modulus(m, p.start)
<1>1. \A i \in Coeff :
        /\ MixedValue(digits, p, m, i) \in - span .. span + first - 1
        /\ \A chain \in p.start .. p.stop - 1 :
             (MixedValue(digits, p, m, i) - residual[chain][i]) % get_modulus(m, chain) = 0
        /\ \A t \in 0 .. Size(p) - 1 : SmallDigit(digits[t][i])
  BY MixedRadix
<1> HIDE DEF digits
<1>2. \A chain \in Primes(m), i \in Coeff :
        LET q == get_modulus(m, chain)
            z == LiftAt(digits, p, m, chain, i)
        IN  /\ z \in - (2 * q) .. 2 * q - 1
            /\ MixedValue(digits, p, m, i) \in Int
            /\ (z - MixedValue(digits, p, m, i) * R) % q = 0
  BY <1>1, LiftValue
<1>3. v \in [Coeff -> Int]
  <2>1. 0 \in Primes(m)
    BY Counts DEF Primes
  <2> QED
    BY <1>2, <2>1
<1>4. \A i \in Coeff :
        /\ v[i] \in - span .. span + first - 1
        /\ \A chain \in p.start .. p.stop - 1 :
             (v[i] - residual[chain][i]) % get_modulus(m, chain) = 0
  BY <1>1
<1>5. ASSUME NEW chain \in Primes(m)
      PROVE  LET q == get_modulus(m, chain)
             IN  \E z \in [Coeff -> - (2 * q) .. 2 * q - 1] :
                   /\ lift[chain] = ntt(z, Parameter(m, chain))
                   /\ \A i \in Coeff : (z[i] - v[i] * R) % q = 0
  <2> DEFINE q == get_modulus(m, chain)
             z == [i \in Coeff |-> LiftAt(digits, p, m, chain, i)]
  <2>1. lift[chain] = ntt(z, Parameter(m, chain))
    BY ModUpChain
  <2> HIDE DEF lift
  <2>2. z \in [Coeff -> - (2 * q) .. 2 * q - 1]
    BY <1>2
  <2>3. \A i \in Coeff : (z[i] - v[i] * R) % q = 0
    BY <1>2
  <2> HIDE DEF z, v
  <2> QED
    BY <2>1, <2>2, <2>3
<1> HIDE DEF v, lift
<1>6. Lifted(lift, residual, p, m)
  BY <1>3, <1>4, <1>5, Zenon DEF Lifted
<1> QED
  BY <1>6 DEF lift, digits

-----------------------------------------------------------------------------
(***************************************************************************)
(* A ciphertext arrives with residues in the range of Residue: each of its *)
(* polynomials has a least and a greatest representative of every residue. *)
(***************************************************************************)
LEMMA Extremes ==
    ASSUME NEW q \in Nat \ {0, 1}, NEW v \in Int, NEW up \in BOOLEAN
    PROVE  (CHOOSE r \in Residues(v, q) :
              \A s \in Residues(v, q) : IF up THEN s =< r ELSE r =< s) \in Residue(q)
<1> DEFINE Best(r) == r \in Residues(v, q)
                      /\ \A s \in Residues(v, q) : IF up THEN s =< r ELSE r =< s
<1>0. q \div 4 \in Int /\ 0 =< q \div 4 /\ q \div 4 =< q
  OBVIOUS
<1>1. v % q \in Residues(v, q)
  <2>1. v % q \in 0 .. q - 1 /\ v % q \in Int
    BY RemainderFacts
  <2>2. (v % q) % q = v % q
    <3> DEFINE z == 0
               b == v % q
    <3>1. z \in Int /\ b \in 0 .. q - 1
      BY <2>1
    <3> HIDE DEF z, b
    <3>2. ((q * z) + b) % q = b
      BY <3>1, DivModUnique
    <3>3. (q * z) + b = b
      BY <3>1 DEF z
    <3> QED
      BY <3>2, <3>3 DEF b
  <2>3. v % q \in Residue(q)
    BY <1>0, <2>1 DEF Residue
  <2> QED
    BY <2>2, <2>3 DEF Residues
<1>2. \A r \in Residues(v, q) : r \in Int /\ - (q \div 4) =< r /\ r =< 2 * q - 1
  BY <1>0 DEF Residues, Residue
<1>3. \E r : Best(r)
  <2>1. CASE up
    <3> DEFINE S == {2 * q - 1 - r : r \in Residues(v, q)}
    <3>1. S \in SUBSET Nat /\ S # {}
      BY <1>1, <1>2
    <3>2. PICK n \in S : \A k \in S : n =< k
      <4> HIDE DEF S
      <4> QED
        BY <3>1, LeastOfNaturals
    <3>3. PICK r \in Residues(v, q) : n = 2 * q - 1 - r
      OBVIOUS
    <3>4. \A s \in Residues(v, q) : s =< r
      <4> TAKE s \in Residues(v, q)
      <4>1. 2 * q - 1 - s \in S
        OBVIOUS
      <4>2. n =< 2 * q - 1 - s
        BY <3>2, <4>1
      <4> QED
        BY <1>2, <3>3, <4>2
    <3> QED
      BY <2>1, <3>4
  <2>2. CASE ~up
    <3> DEFINE S == {r + (q \div 4) : r \in Residues(v, q)}
    <3>1. S \in SUBSET Nat /\ S # {}
      BY <1>0, <1>1, <1>2
    <3>2. PICK n \in S : \A k \in S : n =< k
      <4> HIDE DEF S
      <4> QED
        BY <3>1, LeastOfNaturals
    <3>3. PICK r \in Residues(v, q) : n = r + (q \div 4)
      OBVIOUS
    <3>4. \A s \in Residues(v, q) : r =< s
      <4> TAKE s \in Residues(v, q)
      <4>1. s + (q \div 4) \in S
        OBVIOUS
      <4>2. n =< s + (q \div 4)
        BY <3>2, <4>1
      <4> QED
        BY <1>0, <1>2, <3>3, <4>2
    <3> QED
      BY <2>2, <3>4
  <2> QED
    BY <2>1, <2>2
<1> DEFINE chosen == CHOOSE r \in Residues(v, q) :
              \A s \in Residues(v, q) : IF up THEN s =< r ELSE r =< s
<1>4. chosen \in Residues(v, q)
  BY <1>3
<1> HIDE DEF chosen
<1>5. chosen \in Residue(q)
  BY <1>4 DEF Residues
<1> QED
  BY <1>5 DEF chosen

LEMMA RepresentStored ==
    ASSUME NEW m \in ModuliIds, NEW poly \in TextPolynomial,
           NEW high \in [TextChains(m) -> BOOLEAN]
    PROVE  StoredPolynomial(Represent(poly, m, high), m)
<1>1. poly \in [Coeff -> Int]
  BY TextPolynomialAssumption
<1> SUFFICES ASSUME NEW chain \in TextChains(m)
             PROVE  Represent(poly, m, high)[chain]
                      \in [Coeff -> Residue(get_modulus(m, chain))]
  BY DEF StoredPolynomial
<1> DEFINE q == get_modulus(m, chain)
           up == high[chain]
<1>2. chain \in Primes(m)
  BY Counts DEF TextChains, Primes
<1>3. q \in Nat \ {0, 1} /\ up \in BOOLEAN
  BY <1>2, PrimeFacts
<1>4. Represent(poly, m, high)[chain] =
        [i \in Coeff |->
              CHOOSE r \in Residues(poly[i], q) :
                \A s \in Residues(poly[i], q) :
                  IF up THEN s =< r ELSE r =< s]
  BY Zenon DEF Represent
<1> HIDE DEF q, up
<1>5. ASSUME NEW i \in Coeff
      PROVE  (CHOOSE r \in Residues(poly[i], q) :
                \A s \in Residues(poly[i], q) :
                  IF up THEN s =< r ELSE r =< s) \in Residue(q)
  <2> DEFINE v == poly[i]
  <2>1. v \in Int
    BY <1>1
  <2> HIDE DEF v
  <2>2. (CHOOSE r \in Residues(v, q) :
              \A s \in Residues(v, q) : IF up THEN s =< r ELSE r =< s) \in Residue(q)
    BY <1>3, <2>1, Extremes
  <2> QED
    BY <2>2, Zenon DEF v
<1>6. Represent(poly, m, high)[chain] \in [Coeff -> Residue(q)]
  BY <1>4, <1>5, Zenon
<1> QED
  BY <1>6 DEF q

-----------------------------------------------------------------------------
(***************************************************************************)
(* What the digits of a state need: the polynomial as it arrived, a        *)
(* partition that exists, and the digits as rns_to_mrs left them.          *)
(***************************************************************************)
SwitchInv ==
    /\ pc \notin {"key", "start"} =>
         level \in ModuliIds /\ StoredPolynomial(ciphertext[2], level)
    /\ pc \in {"decompose", "mod_up", "multiply"} =>
         index \in 0 .. get_partition_count(level) - 1
    /\ pc = "mod_up" => mrs = rns_to_mrs(ciphertext[2], Partitions[index], level)

LEMMA InvDigits == SwitchInv => DigitsRepresent
<1> SUFFICES ASSUME SwitchInv, pc = "mod_up", NEW i \in Coeff
             PROVE  LET partition == Partitions[index]
                        weight(t) == q_product(partition, level, t)
                        value == Total([t \in 0 .. Size(partition) - 1 |->
                                          mrs[t][i] * weight(t)], Size(partition))
                        span == weight(Size(partition))
                        first == get_modulus(level, partition.start)
                    IN  /\ value \in - span .. span + first - 1
                        /\ \A chain \in partition.start .. partition.stop - 1 :
                             (value - ciphertext[2][chain][i])
                               % get_modulus(level, chain) = 0
  BY DEF DigitsRepresent
<1> DEFINE p == Partitions[index]
           residual == ciphertext[2]
<1>1. /\ level \in ModuliIds /\ StoredPolynomial(residual, level)
      /\ index \in 0 .. get_partition_count(level) - 1
      /\ mrs = rns_to_mrs(residual, p, level)
  BY DEF SwitchInv
<1>2. PartitionOf(p, level)
  BY <1>1, PartitionBounds DEF Partitions
<1> HIDE DEF p, residual
<1>3. LET v == MixedValue(rns_to_mrs(residual, p, level), p, level, i)
          span == q_product(p, level, Size(p))
          first == get_modulus(level, p.start)
      IN  /\ v \in - span .. span + first - 1
          /\ \A chain \in p.start .. p.stop - 1 :
               (v - residual[chain][i]) % get_modulus(level, chain) = 0
  BY <1>1, <1>2, MixedRadix
<1> QED
  BY <1>1, <1>3 DEF MixedValue, p, residual

LEMMA InitInv == SwitchInit => SwitchInv
  BY DEF SwitchInit, SwitchInv

LEMMA NextInv == SwitchInv /\ [SwitchNext]_switchVars => SwitchInv'
<1> SUFFICES ASSUME SwitchInv, [SwitchNext]_switchVars
             PROVE  SwitchInv'
  OBVIOUS
<1>1. CASE UNCHANGED switchVars
  BY <1>1 DEF switchVars, SwitchInv, Partitions
<1>2. ASSUME NEW from, NEW to, NEW m, NEW seed, NEW errors, CreateKey(from, to, m, seed, errors)
      PROVE  SwitchInv'
  BY <1>2 DEF CreateKey, SwitchInv
<1>3. ASSUME NEW how, NEW m \in ModuliIds, NEW b, NEW a \in TextPolynomial,
             NEW high \in [TextChains(m) -> BOOLEAN], Start(how, m, b, a, high)
      PROVE  SwitchInv'
  <2>1. pc' = "decompose" /\ level' = m /\ index' = 0
        /\ ciphertext' = <<Represent(b, m, high), Represent(a, m, high)>>
    BY <1>3 DEF Start
  <2>2. ciphertext'[2] = Represent(a, m, high)
    BY <2>1
  <2>3. StoredPolynomial(ciphertext'[2], level')
    BY <2>1, <2>2, RepresentStored
  <2>4. 0 \in 0 .. get_partition_count(m) - 1
    BY PartitionCount
  <2> QED
    BY <2>1, <2>3, <2>4 DEF SwitchInv
<1>4. ASSUME pc \notin {"key", "start"}, UNCHANGED <<level, ciphertext, index>>,
             pc' \in {"mod_up"}, pc \in {"decompose"},
             mrs' = rns_to_mrs(ciphertext[2], Partitions[index], level), UNCHANGED key
      PROVE  SwitchInv'
  BY <1>4 DEF SwitchInv, Partitions
<1>5. ASSUME pc \in {"decompose", "mod_up", "multiply"}, UNCHANGED <<level, ciphertext>>,
             \/ UNCHANGED index
             \/ More /\ index' = index + 1
             \/ index' = 0,
             pc' # "mod_up"
      PROVE  SwitchInv'
  <2>1. level \in ModuliIds /\ StoredPolynomial(ciphertext[2], level)
        /\ index \in 0 .. get_partition_count(level) - 1
    BY <1>5 DEF SwitchInv
  <2>2. get_partition_count(level) \in Nat \ {0}
    BY <2>1, PartitionCount
  <2>3. index' \in 0 .. get_partition_count(level) - 1
    BY <1>5, <2>1, <2>2 DEF More
  <2> QED
    BY <1>5, <2>1, <2>3 DEF SwitchInv
<1>6. ASSUME pc \notin {"key", "start"}, UNCHANGED <<level, ciphertext>>,
             pc' \notin {"decompose", "mod_up", "multiply"}
      PROVE  SwitchInv'
  BY <1>6 DEF SwitchInv
<1>7. CASE RnsToMrs
  BY <1>4, <1>7 DEF RnsToMrs
<1>8. CASE ModUp
  <2>1. pc = "mod_up" /\ UNCHANGED <<level, ciphertext>>
    BY <1>8 DEF ModUp
  <2>2. /\ \/ UNCHANGED index
           \/ More /\ index' = index + 1
           \/ index' = 0
        /\ pc' \in {"multiply", "decompose"}
    BY <1>8 DEF ModUp
  <2> QED
    BY <1>5, <2>1, <2>2
<1>9. CASE ModUpSingle
  BY <1>5, <1>9 DEF ModUpSingle
<1>10. CASE MultiplyKeys
  <2>1. pc = "multiply" /\ UNCHANGED <<level, ciphertext>>
    BY <1>10 DEF MultiplyKeys
  <2>2. /\ \/ More /\ index' = index + 1
           \/ index' = 0
        /\ pc' # "mod_up"
    BY <1>10 DEF MultiplyKeys
  <2> QED
    BY <1>5, <2>1, <2>2
<1>11. CASE AddFirst
  BY <1>6, <1>11 DEF AddFirst
<1>12. CASE ToIntt
  BY <1>6, <1>12 DEF ToIntt
<1>13. CASE DivideSpecial
  <2>1. pc = "special" /\ UNCHANGED <<level, ciphertext>> /\ pc' \in {"special", "unsigned"}
    BY <1>13 DEF DivideSpecial
  <2> QED
    BY <1>6, <2>1
<1>14. CASE MakeUnsigned
  <2>1. pc = "unsigned" /\ UNCHANGED <<level, ciphertext>> /\ pc' \in {"add", "done"}
    BY <1>14 DEF MakeUnsigned
  <2> QED
    BY <1>6, <2>1
<1>15. CASE AddToFirst
  BY <1>6, <1>15 DEF AddToFirst
<1>16. CASE Return
  BY <1>16 DEF Return, SwitchInv
<1>17. CASE SwitchNext
  BY <1>2, <1>3, <1>7, <1>8, <1>9, <1>10, <1>11, <1>12, <1>13, <1>14, <1>15, <1>16, <1>17
     DEF SwitchNext, ModuliIds
<1> QED
  BY <1>1, <1>17

(***************************************************************************)
(* The digits of a partition, at every level, for all moduli and for       *)
(* ciphertexts with any residues that other operations leave: they are     *)
(* those of one integer, of the size of the partition.                     *)
(***************************************************************************)
THEOREM DigitsAlwaysRepresent == SwitchSpec => []DigitsRepresent
<1>1. SwitchInit => SwitchInv
  BY InitInv
<1>2. SwitchInv /\ [SwitchNext]_switchVars => SwitchInv'
  BY NextInv
<1>3. SwitchInv => DigitsRepresent
  BY InvDigits
<1> QED
  BY <1>1, <1>2, <1>3, PTL DEF SwitchSpec

-----------------------------------------------------------------------------
(***************************************************************************)
(* The part of a key that a partition meets.  A key exists from its        *)
(* creation on and has one part for each partition of its own level, and   *)
(* no ciphertext is above that level.                                      *)
(***************************************************************************)
KeyMade ==
    /\ key.moduli_id \in ModuliIds
    /\ DOMAIN key.b = 0 .. get_partition_count(key.moduli_id) - 1
    /\ DOMAIN key.a = 0 .. get_partition_count(key.moduli_id) - 1

KeyInv ==
    /\ pc # "key" => KeyMade
    /\ pc \notin {"key", "start"} => key.moduli_id =< level

LEMMA KeyCreated ==
    ASSUME NEW from, NEW to, NEW m, NEW seed, NEW errors
    PROVE  LET made == create_key_switching_key(from, to, m, seed, errors)
           IN  /\ made.moduli_id = m
               /\ DOMAIN made.b = 0 .. get_partition_count(m) - 1
               /\ DOMAIN made.a = 0 .. get_partition_count(m) - 1
<1>1. DOMAIN get_partitions(m, m) = 0 .. get_partition_count(m) - 1
  BY Zenon DEF get_partitions
<1> QED
  BY <1>1, Zenon DEF create_key_switching_key

LEMMA InvParts == SwitchInv /\ KeyInv => PartsMeet
<1> SUFFICES ASSUME SwitchInv, KeyInv, pc \in {"decompose", "mod_up", "multiply"}
             PROVE  LET part == Partitions[index]
                        key_part == get_partitions(key.moduli_id, key.moduli_id)
                                      [part.partition_index]
                        offset == level - key.moduli_id
                    IN  /\ part.partition_index \in DOMAIN key.b \cap DOMAIN key.a
                        /\ \A chain \in Primes(level) :
                             /\ offset + chain \in Primes(key.moduli_id)
                             /\ chain \in part.start .. part.stop - 1
                                  <=> offset + chain
                                        \in key_part.start .. key_part.stop - 1
  BY DEF PartsMeet
<1> DEFINE k == key.moduli_id
<1>1. /\ level \in ModuliIds
      /\ index \in 0 .. get_partition_count(level) - 1
  BY DEF SwitchInv
<1>2. /\ k \in ModuliIds /\ k =< level
      /\ DOMAIN key.b = 0 .. get_partition_count(k) - 1
      /\ DOMAIN key.a = 0 .. get_partition_count(k) - 1
  BY DEF KeyInv, KeyMade
<1>3. LET part == get_partitions(level, k)[index]
          key_part == get_partitions(k, k)[part.partition_index]
      IN  /\ part.partition_index \in 0 .. get_partition_count(k) - 1
          /\ \A chain \in Primes(level) :
               chain \in part.start .. part.stop - 1
                 <=> level - k + chain \in key_part.start .. key_part.stop - 1
  BY <1>1, <1>2, PartitionsAgree
<1>4. \A chain \in Primes(level) : level - k + chain \in Primes(k)
  <2> HIDE DEF k
  <2>1. /\ level \in Int /\ k \in Int /\ k =< level
        /\ TopChainCount \in Int /\ SpecialPrimeCount \in Int
    BY <1>1, <1>2, Counts DEF ModuliIds
  <2> QED
    BY <2>1 DEF Primes, get_prime_count
<1> QED
  BY <1>2, <1>3, <1>4 DEF Partitions

LEMMA InitKey == SwitchInit => KeyInv
  BY DEF SwitchInit, KeyInv

LEMMA NextKey == KeyInv /\ [SwitchNext]_switchVars => KeyInv'
<1> SUFFICES ASSUME KeyInv, [SwitchNext]_switchVars
             PROVE  KeyInv'
  OBVIOUS
<1>1. CASE UNCHANGED switchVars
  BY <1>1 DEF switchVars, KeyInv, KeyMade
<1>2. ASSUME NEW from, NEW to, NEW m \in ModuliIds, NEW seed, NEW errors,
             CreateKey(from, to, m, seed, errors)
      PROVE  KeyInv'
  <2>1. /\ pc' = "start"
        /\ key' = create_key_switching_key(from, to, m, seed, errors)
    BY <1>2 DEF CreateKey
  <2>2. /\ key'.moduli_id = m
        /\ DOMAIN key'.b = 0 .. get_partition_count(m) - 1
        /\ DOMAIN key'.a = 0 .. get_partition_count(m) - 1
    BY <2>1, KeyCreated
  <2> QED
    BY <2>1, <2>2 DEF KeyInv, KeyMade
<1>3. ASSUME NEW how, NEW m, NEW b, NEW a, NEW high, Start(how, m, b, a, high)
      PROVE  KeyInv'
  BY <1>3 DEF Start, KeyInv, KeyMade
<1>4. ASSUME pc \notin {"key", "start"}, UNCHANGED <<key, level>>
      PROVE  KeyInv'
  BY <1>4 DEF KeyInv, KeyMade
<1>5. CASE RnsToMrs
  BY <1>4, <1>5 DEF RnsToMrs
<1>6. CASE ModUp
  BY <1>4, <1>6 DEF ModUp
<1>7. CASE ModUpSingle
  BY <1>4, <1>7 DEF ModUpSingle
<1>8. CASE MultiplyKeys
  BY <1>4, <1>8 DEF MultiplyKeys
<1>9. CASE AddFirst
  BY <1>4, <1>9 DEF AddFirst
<1>10. CASE ToIntt
  BY <1>4, <1>10 DEF ToIntt
<1>11. CASE DivideSpecial
  BY <1>4, <1>11 DEF DivideSpecial
<1>12. CASE MakeUnsigned
  BY <1>4, <1>12 DEF MakeUnsigned
<1>13. CASE AddToFirst
  BY <1>4, <1>13 DEF AddToFirst
<1>14. CASE Return
  BY <1>14 DEF Return, KeyInv, KeyMade
<1>15. CASE SwitchNext
  BY <1>2, <1>3, <1>5, <1>6, <1>7, <1>8, <1>9, <1>10, <1>11, <1>12, <1>13, <1>14, <1>15
     DEF SwitchNext, ModuliIds
<1> QED
  BY <1>1, <1>15

(***************************************************************************)
(* Keys made at any level serve every level below it: each partition finds *)
(* its part of the key, which covers all its moduli and carries the secret *)
(* in the chains of the partition and in no other.                         *)
(***************************************************************************)
THEOREM PartsAlwaysMeet == SwitchSpec => []PartsMeet
<1>1. SwitchInit => SwitchInv /\ KeyInv
  BY InitInv, InitKey
<1>2. SwitchInv /\ [SwitchNext]_switchVars => SwitchInv'
  BY NextInv
<1>3. KeyInv /\ [SwitchNext]_switchVars => KeyInv'
  BY NextKey
<1>4. SwitchInv /\ KeyInv => PartsMeet
  BY InvParts
<1> QED
  BY <1>1, <1>2, <1>3, <1>4, PTL DEF SwitchSpec

-----------------------------------------------------------------------------
(***************************************************************************)
(* The lifted partitions.  decompose makes all of them before the first    *)
(* product, the other loop one before each: index says how many there are. *)
(***************************************************************************)
LiftsRepresent ==
    pc = "multiply" =>
      /\ index \in DOMAIN extended
      /\ Lifted(extended[index], ciphertext[2], Partitions[index], level)

LiftOf(residual, m, key_m, n) ==
    mod_up(rns_to_mrs(residual, get_partitions(m, key_m)[n], m), get_partitions(m, key_m)[n], m)

Lifts(lifted, residual, m, key_m, count) ==
    /\ DOMAIN lifted = 0 .. count - 1
    /\ \A n \in 0 .. count - 1 : lifted[n] = LiftOf(residual, m, key_m, n)

LiftedCount ==
    IF pc \in {"decompose", "mod_up"}
      THEN index
      ELSE IF mode = "switch" THEN index + 1 ELSE get_partition_count(level)

LiftInv ==
    /\ pc \in {"key", "start"} => extended = <<>>
    /\ pc \in {"decompose", "mod_up", "multiply"} =>
         Lifts(extended, ciphertext[2], level, key.moduli_id, LiftedCount)

LEMMA SingleDigit ==
    ASSUME NEW m \in ModuliIds, NEW p, PartitionOf(p, m), NEW residual, SpecialPrimeCount = 1
    PROVE  rns_to_mrs(residual, p, m) = [t \in {0} |-> residual[p.start]]
<1>1. Size(p) = 1
  BY Counts DEF PartitionOf, Size
<1>2. PICK f : /\ f[0] = FirstRound(residual, p)
               /\ rns_to_mrs(residual, p, m) = f[Size(p) - 1]
  BY RoundsUnfold
<1>3. rns_to_mrs(residual, p, m) = FirstRound(residual, p)
  BY <1>1, <1>2
<1>4. 0 .. Size(p) - 1 = {0}
  BY <1>1
<1> QED
  BY <1>3, <1>4, Zenon DEF FirstRound

(* One more partition is lifted.                                           *)
LEMMA OneMoreLift ==
    ASSUME NEW lifted, NEW residual, NEW m, NEW key_m, NEW n \in Nat,
           Lifts(lifted, residual, m, key_m, n),
           NEW more,
           more = [j \in DOMAIN lifted \cup {n} |->
                     IF j = n THEN LiftOf(residual, m, key_m, n) ELSE lifted[j]]
    PROVE  Lifts(more, residual, m, key_m, n + 1)
<1> DEFINE L(j) == LiftOf(residual, m, key_m, j)
<1>1. DOMAIN lifted = 0 .. n - 1 /\ \A j \in 0 .. n - 1 : lifted[j] = L(j)
  BY DEF Lifts
<1>2. (0 .. n - 1) \cup {n} = 0 .. (n + 1) - 1
  OBVIOUS
<1> HIDE DEF L
<1>3. more = [j \in 0 .. (n + 1) - 1 |-> IF j = n THEN L(n) ELSE lifted[j]]
  BY <1>1, <1>2, Zenon DEF L
<1>4. ASSUME NEW j \in 0 .. (n + 1) - 1
      PROVE  more[j] = L(j)
  <2>1. CASE j = n
    BY <1>3, <2>1, Zenon
  <2>2. CASE j # n
    <3>1. j \in 0 .. n - 1
      BY <2>2
    <3> QED
      BY <1>1, <1>3, <2>2, <3>1, Zenon
  <2> QED
    BY <2>1, <2>2
<1>5. DOMAIN more = 0 .. (n + 1) - 1
  BY <1>3, Zenon
<1> QED
  BY <1>4, <1>5, Zenon DEF Lifts, L

LEMMA InitLifts == SwitchInit => LiftInv
  BY DEF SwitchInit, LiftInv

LEMMA InvLifts == SwitchInv /\ LiftInv => LiftsRepresent
<1> SUFFICES ASSUME SwitchInv, LiftInv, pc = "multiply"
             PROVE  /\ index \in DOMAIN extended
                    /\ Lifted(extended[index], ciphertext[2], Partitions[index], level)
  BY DEF LiftsRepresent
<1>1. /\ level \in ModuliIds /\ StoredPolynomial(ciphertext[2], level)
      /\ index \in 0 .. get_partition_count(level) - 1
  BY DEF SwitchInv
<1>2. get_partition_count(level) \in Nat /\ index \in Nat
  BY <1>1, PartitionCount
<1>3. index \in 0 .. LiftedCount - 1
  BY <1>1, <1>2 DEF LiftedCount
<1>4. index \in DOMAIN extended
      /\ extended[index] = LiftOf(ciphertext[2], level, key.moduli_id, index)
  BY <1>3, Zenon DEF LiftInv, Lifts
<1>5. PartitionOf(Partitions[index], level)
  BY <1>1, PartitionBounds DEF Partitions
<1>6. extended[index] = mod_up(rns_to_mrs(ciphertext[2], Partitions[index], level),
                               Partitions[index], level)
  BY <1>4, Zenon DEF LiftOf, Partitions
<1> QED
  BY <1>1, <1>4, <1>5, <1>6, LiftRepresents

LEMMA NextLifts == SwitchInv /\ LiftInv /\ [SwitchNext]_switchVars => LiftInv'
<1> SUFFICES ASSUME SwitchInv, LiftInv, [SwitchNext]_switchVars
             PROVE  LiftInv'
  OBVIOUS
<1> DEFINE L(n) == Lifts(extended, ciphertext[2], level, key.moduli_id, n)
           M(n) == Lifts(extended', ciphertext[2], level, key.moduli_id, n)
           count == get_partition_count(level)
<1>0. pc \in {"decompose", "mod_up", "multiply"} =>
        /\ level \in ModuliIds /\ index \in Nat /\ count \in Nat
        /\ index \in 0 .. count - 1
        /\ PartitionOf(Partitions[index], level)
        /\ L(LiftedCount)
  BY PartitionCount, PartitionBounds DEF SwitchInv, LiftInv, Partitions
<1>1. CASE UNCHANGED switchVars
  BY <1>1, Zenon DEF switchVars, LiftInv, LiftedCount
<1>2. ASSUME NEW from, NEW to, NEW m, NEW seed, NEW errors, CreateKey(from, to, m, seed, errors)
      PROVE  LiftInv'
  BY <1>2 DEF CreateKey, LiftInv
<1>3. ASSUME NEW how, NEW m, NEW b, NEW a, NEW high, Start(how, m, b, a, high)
      PROVE  LiftInv'
  <2>1. pc' = "decompose" /\ index' = 0 /\ extended' = <<>>
    BY <1>3 DEF Start, LiftInv
  <2>2. LiftedCount' = 0
    BY <2>1 DEF LiftedCount
  <2>3. Lifts(extended', ciphertext'[2], level', key'.moduli_id, 0)
    BY <2>1 DEF Lifts
  <2> QED
    BY <2>1, <2>2, <2>3 DEF LiftInv
<1>4. ASSUME pc' \notin {"key", "start", "decompose", "mod_up", "multiply"}
      PROVE  LiftInv'
  BY <1>4 DEF LiftInv
<1>5. ASSUME UNCHANGED <<key, level, ciphertext>>, pc' \notin {"key", "start"},
             M(LiftedCount')
      PROVE  LiftInv'
  BY <1>5, Zenon DEF LiftInv
<1>6. CASE RnsToMrs
  <2>1. /\ pc = "decompose" /\ pc' = "mod_up"
        /\ UNCHANGED <<key, level, ciphertext, index, extended>>
    BY <1>6 DEF RnsToMrs
  <2>2. LiftedCount' = LiftedCount
    BY <2>1 DEF LiftedCount
  <2>3. M(LiftedCount')
    BY <1>0, <2>1, <2>2
  <2> QED
    BY <1>5, <2>1, <2>3
<1>7. ASSUME pc \in {"decompose", "mod_up"}, UNCHANGED <<key, mode, level, ciphertext>>,
             extended' = WithLift(index, LiftOf(ciphertext[2], level, key.moduli_id, index)),
             \/ mode = "switch" /\ pc' = "multiply" /\ UNCHANGED index
             \/ mode # "switch" /\ More /\ pc' = "decompose" /\ index' = index + 1
             \/ mode # "switch" /\ ~More /\ pc' = "multiply" /\ index' = 0
      PROVE  LiftInv'
  <2>1. LiftedCount = index
    BY <1>7 DEF LiftedCount
  <2>2. Lifts(extended, ciphertext[2], level, key.moduli_id, index) /\ index \in Nat
    BY <1>0, <1>7, <2>1
  <2>3. M(index + 1)
    BY <1>7, <2>2, OneMoreLift DEF WithLift
  <2>4. LiftedCount' = index + 1
    <3>1. ~More => index + 1 = count
      BY <1>0, <1>7 DEF More
    <3>2. get_partition_count(level') = get_partition_count(level)
      BY <1>7
    <3> QED
      BY <1>7, <3>1, <3>2 DEF LiftedCount
  <2>5. M(LiftedCount')
    BY <2>3, <2>4
  <2> QED
    BY <1>5, <1>7, <2>5
<1>8. CASE ModUp
  <2>1. /\ pc = "mod_up" /\ UNCHANGED <<key, mode, level, ciphertext>>
        /\ extended' = WithLift(index, mod_up(mrs, Partitions[index], level))
        /\ \/ mode = "switch" /\ pc' = "multiply" /\ UNCHANGED index
           \/ mode # "switch" /\ More /\ pc' = "decompose" /\ index' = index + 1
           \/ mode # "switch" /\ ~More /\ pc' = "multiply" /\ index' = 0
    BY <1>8 DEF ModUp
  <2>2. mrs = rns_to_mrs(ciphertext[2], Partitions[index], level)
    BY <2>1 DEF SwitchInv
  <2>3. extended' = WithLift(index, LiftOf(ciphertext[2], level, key.moduli_id, index))
    BY <2>1, <2>2, Zenon DEF LiftOf, Partitions
  <2> QED
    BY <1>7, <2>1, <2>3
<1>9. CASE ModUpSingle
  <2>1. /\ pc = "decompose" /\ mode = "switch" /\ pc' = "multiply"
        /\ UNCHANGED <<key, mode, level, ciphertext, index>>
        /\ extended' = WithLift(index,
             mod_up([t \in {0} |-> ciphertext[2][Partitions[index].start]],
                    Partitions[index], level))
        /\ SpecialPrimeCount = 1
    BY <1>9 DEF ModUpSingle
  <2>2. rns_to_mrs(ciphertext[2], Partitions[index], level)
          = [t \in {0} |-> ciphertext[2][Partitions[index].start]]
    BY <1>0, <2>1, SingleDigit
  <2>3. extended' = WithLift(index, LiftOf(ciphertext[2], level, key.moduli_id, index))
    BY <2>1, <2>2, Zenon DEF LiftOf, Partitions
  <2> QED
    BY <1>7, <2>1, <2>3
<1>10. CASE MultiplyKeys
  <2>1. CASE More
    <3>1. /\ pc = "multiply" /\ UNCHANGED <<key, mode, level, ciphertext, extended>>
          /\ index' = index + 1 /\ pc' = IF mode = "switch" THEN "decompose" ELSE "multiply"
      BY <1>10, <2>1 DEF MultiplyKeys
    <3>2. LiftedCount' = LiftedCount
      <4>1. get_partition_count(level') = get_partition_count(level)
        BY <3>1
      <4> QED
        BY <3>1, <4>1 DEF LiftedCount
    <3>3. M(LiftedCount')
      BY <1>0, <3>1, <3>2
    <3> QED
      BY <1>5, <3>1, <3>3
  <2>2. CASE ~More
    BY <1>4, <1>10, <2>2 DEF MultiplyKeys
  <2> QED
    BY <2>1, <2>2
<1>11. CASE AddFirst
  BY <1>4, <1>11 DEF AddFirst
<1>12. CASE ToIntt
  BY <1>4, <1>12 DEF ToIntt
<1>13. CASE DivideSpecial
  <2>1. pc' \in {"special", "unsigned"}
    BY <1>13 DEF DivideSpecial
  <2> QED
    BY <1>4, <2>1
<1>14. CASE MakeUnsigned
  <2>1. pc' \in {"add", "done"}
    BY <1>14 DEF MakeUnsigned
  <2> QED
    BY <1>4, <2>1
<1>15. CASE AddToFirst
  BY <1>4, <1>15 DEF AddToFirst
<1>16. CASE Return
  BY <1>16 DEF Return, LiftInv
<1>17. CASE SwitchNext
  BY <1>2, <1>3, <1>6, <1>8, <1>9, <1>10, <1>11, <1>12, <1>13, <1>14, <1>15, <1>16, <1>17
     DEF SwitchNext
<1> QED
  BY <1>1, <1>17

(***************************************************************************)
(* What is multiplied with a part of the key, in both ways to switch keys, *)
(* is the partition of the ciphertext it belongs to: one integer           *)
(* polynomial with the residues of the ciphertext in the chains of the     *)
(* partition, the same one modulo every prime, transformed by ntt.         *)
(***************************************************************************)
THEOREM LiftsAlwaysRepresent == SwitchSpec => []LiftsRepresent
<1>1. SwitchInit => SwitchInv /\ LiftInv
  BY InitInv, InitLifts
<1>2. SwitchInv /\ [SwitchNext]_switchVars => SwitchInv'
  BY NextInv
<1>3. SwitchInv /\ LiftInv /\ [SwitchNext]_switchVars => LiftInv'
  BY NextLifts
<1>4. SwitchInv /\ LiftInv => LiftsRepresent
  BY InvLifts
<1> QED
  BY <1>1, <1>2, <1>3, <1>4, PTL DEF SwitchSpec

-----------------------------------------------------------------------------
(***************************************************************************)
(* The transform as a whole: its stages, from the definition of ntt.       *)
(***************************************************************************)
StagesTo(f, last, z, d) ==
    f = [log \in -1 .. last |-> IF log = -1 THEN z ELSE ntt_stage(f[log - 1], log, d)]

LEMMA StagesExist ==
    ASSUME NEW z, NEW d
    PROVE  \E f : StagesTo(f, LogN - 1, z, d)
<1> DEFINE last == LogN - 1
           S == {n \in -1 .. last : \E f : StagesTo(f, n, z, d)}
<1>1. last \in Int /\ -1 \in -1 .. last /\ last \in -1 .. last
  BY LogNAssumption
<1>2. -1 \in S
  <2> DEFINE f == [log \in -1 .. -1 |-> z]
  <2>1. StagesTo(f, -1, z, d)
    BY DEF StagesTo
  <2> HIDE DEF f
  <2> QED
    BY <1>1, <2>1
<1>3. ASSUME NEW n \in -1 .. last, n + 1 =< last, n \in S
      PROVE  n + 1 \in S
  <2>1. PICK f : StagesTo(f, n, z, d)
    BY <1>3
  <2> DEFINE g == [log \in -1 .. n + 1 |-> IF log = -1 THEN z
                                           ELSE ntt_stage(f[log - 1], log, d)]
  <2>2. \A t \in -1 .. n : g[t] = f[t]
    <3> TAKE t \in -1 .. n
    <3>1. t \in -1 .. n + 1
      BY <1>1
    <3>2. f[t] = IF t = -1 THEN z ELSE ntt_stage(f[t - 1], t, d)
      BY <2>1, Zenon DEF StagesTo
    <3>3. g[t] = IF t = -1 THEN z ELSE ntt_stage(f[t - 1], t, d)
      BY <3>1, Zenon
    <3> QED
      BY <3>2, <3>3, Zenon
  <2>3. ASSUME NEW t \in -1 .. n + 1
        PROVE  g[t] = IF t = -1 THEN z ELSE ntt_stage(g[t - 1], t, d)
    <3>1. CASE t = -1
      BY <3>1, Zenon
    <3>2. CASE t # -1
      <4>1. t - 1 \in -1 .. n
        BY <3>2
      <4>2. g[t - 1] = f[t - 1]
        BY <2>2, <4>1, Zenon
      <4> QED
        BY <3>2, <4>2, Zenon
    <3> QED
      BY <3>1, <3>2, Zenon
  <2>4. StagesTo(g, n + 1, z, d)
    <3>1. g = [t \in -1 .. n + 1 |-> g[t]]
      BY Zenon
    <3> HIDE DEF g
    <3> DEFINE h == [t \in -1 .. n + 1 |-> IF t = -1 THEN z ELSE ntt_stage(g[t - 1], t, d)]
    <3>2. h = [t \in -1 .. n + 1 |-> h[t]]
      BY Zenon
    <3>3. \A t \in -1 .. n + 1 : g[t] = h[t]
      BY <2>3, Zenon
    <3>4. g = h
      <4> HIDE DEF h
      <4> QED
        BY <3>1, <3>2, <3>3
    <3> QED
      BY <3>4, Zenon DEF StagesTo
  <2> HIDE DEF g
  <2>5. n + 1 \in -1 .. last
    BY <1>1, <1>3
  <2> QED
    BY <2>4, <2>5
<1> HIDE DEF S
<1>4. /\ -1 \in Int /\ last \in Int
      /\ \A n \in -1 .. last : n + 1 =< last /\ n \in S => n + 1 \in S
  BY <1>1, <1>3
<1> HIDE DEF last
<1>5. \A n \in -1 .. last : n \in S
  BY <1>2, <1>4, Upward, Zenon
<1>6. \E f : StagesTo(f, last, z, d)
  BY <1>1, <1>5 DEF S
<1> QED
  BY <1>6 DEF last

LEMMA NttUnfold ==
    ASSUME NEW z, NEW d
    PROVE  \E f : /\ f[-1] = z
                  /\ \A log \in 0 .. LogN - 1 : f[log] = ntt_stage(f[log - 1], log, d)
                  /\ ntt(z, d) = f[LogN - 1]
<1> DEFINE last == LogN - 1
           f == CHOOSE g : StagesTo(g, last, z, d)
<1>1. last \in Int /\ -1 \in -1 .. last
  BY LogNAssumption
<1>2. StagesTo(f, last, z, d)
  BY StagesExist
<1>3. ntt(z, d) = f[last]
  BY Zenon DEF ntt, StagesTo
<1> HIDE DEF f, last
<1>4. \A log \in -1 .. last : f[log] = IF log = -1 THEN z ELSE ntt_stage(f[log - 1], log, d)
  BY <1>2, Zenon DEF StagesTo
<1>5. f[-1] = z
  BY <1>1, <1>4
<1>6. ASSUME NEW log \in 0 .. last
      PROVE  f[log] = ntt_stage(f[log - 1], log, d)
  <2>1. log \in -1 .. last /\ log # -1
    BY <1>1
  <2> QED
    BY <1>4, <2>1, Zenon
<1> QED
  BY <1>3, <1>5, <1>6 DEF last

(***************************************************************************)
(* Slot i of a transform is the value of the polynomial at the root of     *)
(* slot i, times the factor that the coefficients had.                     *)
(***************************************************************************)
LEMMA NttTransforms ==
    ASSUME NEW q, Suitable(q), NEW z \in [Coeff -> Int], NEW c \in Int,
           NEW u \in [Coeff -> Int], Within(u, 0, 2 * q - 1), StandsFor(u, c, q, z, 0)
    PROVE  LET w == ntt(u, CKKSDerivedParameters(q))
           IN  /\ w \in [Coeff -> Int] /\ Within(w, 0, 2 * q - 1)
               /\ \A i \in Coeff : Cong(w[i], c * Evaluation(z, SlotRoot(i, q), q), q)
<1> DEFINE d == CKKSDerivedParameters(q)
<1>1. PICK f : /\ f[-1] = u
               /\ \A log \in 0 .. LogN - 1 : f[log] = ntt_stage(f[log - 1], log, d)
               /\ ntt(u, d) = f[LogN - 1]
  BY NttUnfold
<1> DEFINE Good(s) == /\ f[s - 1] \in [Coeff -> Int]
                      /\ Within(f[s - 1], 0, 2 * q - 1)
                      /\ StandsFor(f[s - 1], c, q, z, s)
           S == {s \in 0 .. LogN : Good(s)}
<1>2. q \in Nat \ {0, 1} /\ LogN \in Nat
  BY SuitableModulus, LogNAssumption
<1>3. 0 \in S
  <2>1. 0 - 1 = -1 /\ 0 \in 0 .. LogN
    BY <1>2
  <2>2. Good(0)
    BY <1>1, <2>1
  <2> HIDE DEF Good
  <2> QED
    BY <2>1, <2>2
<1>4. ASSUME NEW s \in 0 .. LogN, s + 1 =< LogN, s \in S
      PROVE  s + 1 \in S
  <2>1. s \in 0 .. LogN - 1 /\ (s + 1) - 1 = s /\ s + 1 \in 0 .. LogN
    BY <1>2, <1>4
  <2>2. Good(s)
    BY <1>4
  <2> DEFINE v == f[s - 1]
  <2>3. f[s] = ntt_stage(v, s, d)
    BY <1>1, <2>1
  <2>4. 0 \in Nat /\ 0 =< q /\ 2 * q - 1 + 0 = 2 * q - 1 /\ 2 * 0 = 0
    BY <1>2
  <2>5. Within(v, 0, 2 * q - 1 + 0) /\ StandsFor(v, c, q, z, s)
    BY <2>2, <2>4
  <2> HIDE DEF v
  <2>6. LET x0 == ntt_stage(v, s, CKKSDerivedParameters(q))
        IN  /\ Within(x0, 2 * 0, 2 * q - 1 + 2 * 0)
            /\ StandsFor(x0, c, q, z, s + 1)
            /\ x0 \in [Coeff -> Int]
    BY <2>1, <2>4, <2>5, NttStageFolds, Zenon
  <2>7. Within(f[s], 0, 2 * q - 1) /\ StandsFor(f[s], c, q, z, s + 1) /\ f[s] \in [Coeff -> Int]
    BY <2>3, <2>4, <2>6
  <2>8. Good(s + 1)
    BY <2>1, <2>7
  <2> HIDE DEF Good
  <2> QED
    BY <2>1, <2>8
<1> HIDE DEF S
<1>5. /\ 0 \in Int /\ LogN \in Int /\ LogN \in 0 .. LogN
      /\ \A s \in 0 .. LogN : s + 1 =< LogN /\ s \in S => s + 1 \in S
  BY <1>2, <1>4
<1>6. \A s \in 0 .. LogN : s \in S
  BY <1>3, <1>5, Upward, Zenon
<1>7. Good(LogN)
  BY <1>5, <1>6 DEF S
<1> DEFINE w == ntt(u, d)
<1>8. w \in [Coeff -> Int] /\ Within(w, 0, 2 * q - 1) /\ StandsFor(w, c, q, z, LogN)
  BY <1>1, <1>7
<1> HIDE DEF w
<1>9. ASSUME NEW i \in Coeff
      PROVE  Cong(w[i], c * Evaluation(z, SlotRoot(i, q), q), q)
  <2>1. FoldAt(q, z, LogN, i) = Evaluation(z, SlotRoot(i, q), q)
    BY FoldAtEnds
  <2>2. Cong(w[i], c * FoldAt(q, z, LogN, i), q)
    BY <1>8 DEF StandsFor
  <2> QED
    BY <2>1, <2>2
<1> QED
  BY <1>8, <1>9 DEF w, d

-----------------------------------------------------------------------------
(***************************************************************************)
(* Small polynomials, copied to a prime and transformed.                   *)
(***************************************************************************)
At(poly, i, q) == Evaluation(poly, SlotRoot(i, q), q)

LEMMA AtInteger ==
    ASSUME NEW q, Suitable(q), NEW poly \in [Coeff -> Int], NEW i \in Coeff
    PROVE  At(poly, i, q) \in Int
<1>1. SlotRoot(i, q) \in Nat
  BY SlotRootNatural
<1> QED
  BY <1>1, ValueIsEvaluation DEF At

LEMMA AtCong ==
    ASSUME NEW q, Suitable(q), NEW z \in [Coeff -> Int], NEW poly \in [Coeff -> Int],
           \A j \in Coeff : Cong(z[j], poly[j], q), NEW i \in Coeff
    PROVE  Cong(At(z, i, q), At(poly, i, q), q)
<1> DEFINE r == SlotRoot(i, q)
           f == [j \in Coeff |-> z[j] * modulus_power(r, j, q)]
           g == [j \in Coeff |-> poly[j] * modulus_power(r, j, q)]
<1>1. r \in Nat /\ q \in Nat \ {0, 1} /\ N \in Nat /\ Coeff = 0 .. N - 1
  BY SlotRootNatural, SuitableModulus, CoeffCount DEF Coeff
<1> HIDE DEF r
<1>2. ASSUME NEW j \in Coeff
      PROVE  /\ f[j] \in Int /\ g[j] \in Int /\ Cong(f[j], g[j], q)
  <2> DEFINE p == modulus_power(r, j, q)
  <2>1. p \in Int
    <3>1. j \in Nat
      BY <1>1
    <3> QED
      BY <1>1, <3>1, PowerStep
  <2>2. z[j] \in Int /\ poly[j] \in Int /\ q \in Int /\ Cong(z[j], poly[j], q)
    BY <1>1
  <2>3. f[j] = z[j] * p /\ g[j] = poly[j] * p
    OBVIOUS
  <2> HIDE DEF p
  <2>4. Cong(z[j] * p, poly[j] * p, q)
    BY <2>1, <2>2, CongProduct
  <2> QED
    BY <2>1, <2>2, <2>3, <2>4
<1> HIDE DEF f, g
<1>3. /\ q \in Int /\ N \in Nat
      /\ Summands(f, N) /\ Summands(g, N) /\ \A j \in 0 .. N - 1 : Cong(f[j], g[j], q)
  BY <1>1, <1>2 DEF Summands
<1>4. Cong(Total(f, N), Total(g, N), q)
  BY <1>3, TotalCong, Zenon
<1>5. At(z, i, q) = Total(f, N) /\ At(poly, i, q) = Total(g, N)
  BY Zenon DEF At, Evaluation, f, g, r
<1> QED
  BY <1>4, <1>5

LEMMA TileTransforms ==
    ASSUME NEW m \in ModuliIds, NEW chain \in Primes(m), NEW poly, Small(poly)
    PROVE  LET q == get_modulus(m, chain)
               w == tile(poly, m, chain)
           IN  /\ w \in [Coeff -> Int] /\ Within(w, 0, 2 * q - 1)
               /\ \A i \in Coeff : /\ At(poly, i, q) \in Int
                                    /\ Cong(w[i], R * At(poly, i, q), q)
<1> DEFINE q == get_modulus(m, chain)
           d == CKKSDerivedParameters(q)
           z == [i \in Coeff |-> make_unsigned_reduce_2q_to_q(poly[i], q)]
           u == [i \in Coeff |-> mont_mult_scalar(z[i], d.r_squared, d.q, d.k)]
           w == ntt(u, d)
<1>1. /\ Suitable(q) /\ Parameter(m, chain) = d
      /\ m + chain + 1 \in DOMAIN AllModuli /\ q = AllModuli[m + chain + 1]
  BY PrimeSuitable
<1>2. q \in Nat \ {0, 1} /\ R \in Int
  BY <1>1, SuitableModulus
<1>3. poly \in [Coeff -> - q .. q]
  BY <1>1, Zenon DEF Small
<1>4. tile(poly, m, chain) = w
  BY <1>1 DEF tile, to_ntt
<1> HIDE DEF q
<1>5. ASSUME NEW i \in Coeff
      PROVE  /\ poly[i] \in Int /\ z[i] \in Int /\ 0 =< z[i] /\ z[i] =< 2 * q - 1
             /\ Cong(z[i], poly[i], q)
  <2>1. poly[i] \in - q .. q
    BY <1>3
  <2> DEFINE v == poly[i]
  <2>2. v \in Int /\ - q =< v /\ v =< q /\ z[i] = make_unsigned_reduce_2q_to_q(v, q)
    BY <1>2, <2>1
  <2> HIDE DEF v
  <2>3. \/ z[i] = v /\ 0 =< v
        \/ z[i] = v + q /\ v < 0
        \/ z[i] = v - q /\ v = q
    BY <1>2, <2>2 DEF make_unsigned_reduce_2q_to_q, guard
  <2>4. z[i] \in Int /\ 0 =< z[i] /\ z[i] =< 2 * q - 1
    BY <1>2, <2>2, <2>3
  <2>5. \E e \in Int : z[i] = v + q * e
    <3>1. CASE z[i] = v
      <4>1. z[i] = v + q * 0
        BY <1>2, <2>2, <3>1
      <4> QED
        BY <4>1
    <3>2. CASE z[i] = v + q
      <4>1. z[i] = v + q * 1
        BY <1>2, <2>2, <3>2
      <4> QED
        BY <4>1
    <3>3. CASE z[i] = v - q
      <4>1. z[i] = v + q * (-1)
        BY <1>2, <2>2, <3>3
      <4> QED
        BY <4>1
    <3> QED
      BY <2>3, <3>1, <3>2, <3>3
  <2> QED
    BY <2>2, <2>4, <2>5 DEF Cong, v
<1>6. /\ z \in [Coeff -> Int] /\ poly \in [Coeff -> Int]
      /\ \A i \in Coeff : z[i] \in Int /\ 0 =< z[i] /\ z[i] =< 2 * q - 1 /\ Cong(z[i], poly[i], q)
  <2>1. \A i \in Coeff : z[i] \in Int
    BY <1>5
  <2>2. z \in [Coeff -> Int]
    BY <2>1
  <2>3. poly \in [Coeff -> Int]
    BY <1>3, <1>2
  <2> QED
    BY <1>5, <2>2, <2>3
<1>7. z \in Lazy(q) /\ Slack(0, q)
  <2>1. z = [i \in Coeff |-> z[i]]
    OBVIOUS
  <2> HIDE DEF z
  <2>2. q \div 4 \in Nat
    BY <1>2
  <2>3. \A i \in Coeff : z[i] \in - (q \div 4) .. 2 * q - 1
    BY <1>2, <1>6, <2>2
  <2> QED
    BY <2>1, <2>3 DEF Lazy, Slack
<1> HIDE DEF z
<1>8. u \in [Coeff -> Int] /\ Within(u, 0, 2 * q - 1 + 0) /\ StandsFor(u, R, q, z, 0)
  <2>1. \A i \in Coeff : z[i] >= 0 \/ (0 = q \div (8 * N) /\ 8 * q =< R /\ (2 * N) * q =< R)
    BY <1>6
  <2> QED
    BY <1>1, <1>7, <2>1, EnteredText
<1> HIDE DEF u
<1>9. 2 * q - 1 + 0 = 2 * q - 1
  BY <1>2
<1>10. /\ w \in [Coeff -> Int] /\ Within(w, 0, 2 * q - 1)
       /\ \A i \in Coeff : Cong(w[i], R * Evaluation(z, SlotRoot(i, q), q), q)
  BY <1>1, <1>2, <1>6, <1>8, <1>9, NttTransforms
<1> HIDE DEF w
<1>11. ASSUME NEW i \in Coeff
       PROVE  At(poly, i, q) \in Int /\ Cong(w[i], R * At(poly, i, q), q)
  <2> DEFINE e == At(z, i, q)
             f == At(poly, i, q)
  <2>1. e \in Int /\ f \in Int /\ w[i] \in Int
    BY <1>1, <1>6, <1>10, AtInteger
  <2>2. Cong(e, f, q)
    BY <1>1, <1>6, AtCong
  <2>3. Cong(w[i], R * e, q)
    BY <1>10 DEF At
  <2> HIDE DEF e, f
  <2>4. q \in Int /\ R * e \in Int /\ R * f \in Int
    BY <1>2, <2>1
  <2>5. Cong(R * e, R * f, q)
    BY <1>2, <2>1, <2>2, <2>4, CongProduct
  <2>6. Cong(w[i], R * f, q)
    BY <2>1, <2>3, <2>4, <2>5, CongTransitive
  <2> QED
    BY <2>1, <2>6 DEF f
<1> QED
  BY <1>4, <1>10, <1>11 DEF q

-----------------------------------------------------------------------------
(***************************************************************************)
(* The special primes, which follow the last chain, and their product.     *)
(***************************************************************************)
SpecialPrimes == [start |-> TopChainCount, stop |-> Len(AllModuli), partition_index |-> 0]

SpecialProduct == q_product(SpecialPrimes, 0, SpecialPrimeCount)

LEMMA SpecialModuli ==
    ASSUME NEW m \in ModuliIds
    PROVE  /\ SpecialPrimeCount \in Nat \ {0}
           /\ \A n \in 1 .. SpecialPrimeCount :
                /\ get_modulus(m, get_chain_count(m) + n - 1) \in Nat
                /\ get_modulus(m, get_chain_count(m) + n - 1)
                     = get_modulus(0, SpecialPrimes.start + n - 1)
<1>1. /\ SpecialPrimeCount \in Nat \ {0} /\ TopChainCount \in Nat \ {0}
      /\ Len(AllModuli) = TopChainCount + SpecialPrimeCount
      /\ get_chain_count(m) = TopChainCount - m
      /\ m \in Nat /\ m < TopChainCount
  BY Counts DEF get_chain_count, ModuliIds
<1>2. DOMAIN AllModuli = 1 .. Len(AllModuli)
      /\ \A i \in 1 .. Len(AllModuli) : AllModuli[i] \in Nat
  BY AllModuliAssumption
<1>3. ASSUME NEW n \in 1 .. SpecialPrimeCount
      PROVE  /\ m + (get_chain_count(m) + n - 1) + 1 = TopChainCount + n
             /\ 0 + (SpecialPrimes.start + n - 1) + 1 = TopChainCount + n
             /\ TopChainCount + n \in 1 .. Len(AllModuli)
  BY <1>1 DEF SpecialPrimes
<1>4. ASSUME NEW n \in 1 .. SpecialPrimeCount
      PROVE  /\ get_modulus(m, get_chain_count(m) + n - 1) = AllModuli[TopChainCount + n]
             /\ get_modulus(0, SpecialPrimes.start + n - 1) = AllModuli[TopChainCount + n]
  BY <1>3, Zenon DEF get_modulus
<1> QED
  BY <1>1, <1>2, <1>3, <1>4

LEMMA MultiplyResidue ==
    ASSUME NEW q \in Nat \ {0, 1}, NEW a \in Int, NEW b \in Int
    PROVE  /\ modulus_multiply(a, b, q) \in Int
           /\ a >= 0 /\ b >= 0 => /\ modulus_multiply(a, b, q) \in 0 .. q - 1
                                 /\ Cong(modulus_multiply(a, b, q), a * b, q)
<1> DEFINE c == a * b
<1>1. c \in Int /\ - c \in Int /\ (a >= 0 /\ b >= 0 => c >= 0)
  BY SMT
<1>2. modulus_multiply(a, b, q) = IF c < 0 THEN - ((- c) % q) ELSE c % q
  BY DEF modulus_multiply
<1> HIDE DEF c
<1>3. (- c) % q \in Int /\ c % q \in 0 .. q - 1 /\ c % q \in Int /\ Cong(c % q, c, q)
  BY <1>1, RemainderFacts
<1>4. modulus_multiply(a, b, q) \in Int
  BY <1>1, <1>2, <1>3
<1>5. a >= 0 /\ b >= 0 => modulus_multiply(a, b, q) = c % q
  BY <1>1, <1>2
<1> QED
  BY <1>3, <1>4, <1>5 DEF c

(***************************************************************************)
(* What keys and texts are scaled with: the product of the special primes, *)
(* in Montgomery form.                                                     *)
(***************************************************************************)
LEMMA SpecialScale ==
    ASSUME NEW m \in ModuliIds, NEW chain \in Primes(m)
    PROVE  LET q == get_modulus(m, chain)
               r == p_product_mult_r(m, chain)
           IN  /\ SpecialProduct \in Int
               /\ r \in 0 .. q - 1 /\ Cong(r, R * SpecialProduct, q)
<1> DEFINE q == get_modulus(m, chain)
           S == SpecialPrimeCount
           p(n) == get_modulus(m, get_chain_count(m) + n - 1)
           step == [e \in Int \X (1 .. S) |-> modulus_multiply(e[1], p(e[2]), q)]
           first == R
<1>1. /\ q \in Nat \ {0, 1} /\ R \in Nat \ {0} /\ S \in Nat \ {0}
      /\ \A n \in 1 .. S : p(n) \in Nat /\ p(n) = get_modulus(0, SpecialPrimes.start + n - 1)
  BY PrimeFacts, RAssumption, SpecialModuli
<1>2. PICK g : ProductsTo(g, SpecialPrimes, 0, S)
  <2>1. S \in Nat /\ IntegerModuli(SpecialPrimes, 0, S)
    <3>1. \A n \in 1 .. S : get_modulus(0, SpecialPrimes.start + n - 1) \in Nat
      BY <1>1, Zenon
    <3>2. \A n : n \in Nat => n \in Int
      OBVIOUS
    <3> QED
      BY <1>1, <3>1, <3>2, Zenon DEF IntegerModuli
  <2> HIDE DEF S
  <2> QED
    BY <2>1, ProductUnfold, Zenon
<1>3. /\ g \in [0 .. S -> Int] /\ g[0] = 1 /\ g[S] = SpecialProduct
      /\ \A n \in 1 .. S : g[n] = g[n - 1] * p(n)
  BY <1>1, <1>2, Zenon DEF ProductsTo, SpecialProduct
<1> DEFINE Scaled(h) == h = [n \in 0 .. S |-> IF n = 0 THEN R
                                            ELSE modulus_multiply(h[n - 1], p(n), q)]
<1> HIDE DEF p, q, S
<1>4. step \in [Int \X (1 .. S) -> Int] /\ first \in Int
  <2>1. ASSUME NEW e \in Int \X (1 .. S)
        PROVE  step[e] \in Int
    <3>1. e[1] \in Int /\ p(e[2]) \in Int
      BY <1>1
    <3> QED
      BY <1>1, <3>1, MultiplyResidue
  <2> QED
    BY <1>1, <2>1
<1>5. PICK f \in [0 .. S -> Int] :
        f[0] = first /\ \A n \in 1 .. S : f[n] = step[<<f[n - 1], n>>]
  <2> HIDE DEF step, first
  <2>1. Solvable(S, first, step)
    BY <1>1, <1>4, RecursionSolvable
  <2> QED
    BY <2>1 DEF Solvable
<1>6. \A n \in 1 .. S : f[n] = modulus_multiply(f[n - 1], p(n), q)
  <2> TAKE n \in 1 .. S
  <2>0. n - 1 \in 0 .. S
    BY <1>1
  <2>1. f[n - 1] \in Int /\ f[n] = step[<<f[n - 1], n>>]
    BY <1>5, <2>0
  <2> QED
    BY <2>1
<1>7. Scaled(f)
  <2>1. ASSUME NEW n \in 0 .. S
        PROVE  f[n] = IF n = 0 THEN R ELSE modulus_multiply(f[n - 1], p(n), q)
    <3>1. n = 0 \/ n \in 1 .. S
      BY <1>1
    <3> QED
      BY <1>5, <1>6, <3>1
  <2> QED
    BY <1>5, <2>1
<1> DEFINE scale == CHOOSE h : Scaled(h)
<1>8. Scaled(scale)
  <2> HIDE DEF Scaled
  <2> QED
    BY <1>7
<1>9. p_product_mult_r(m, chain) = scale[S]
  BY DEF p_product_mult_r, p, q, S
<1> HIDE DEF scale
<1>10. \A n \in 0 .. S : scale[n] = IF n = 0 THEN R ELSE modulus_multiply(scale[n - 1], p(n), q)
  BY <1>8, Zenon
<1> DEFINE Good(n) == /\ scale[n] \in Nat /\ g[n] \in Int /\ Cong(scale[n], R * g[n], q)
                      /\ n > 0 => scale[n] \in 0 .. q - 1
           T == {n \in 0 .. S : Good(n)}
<1>11. 0 \in T
  <2>1. 0 \in 0 .. S /\ scale[0] = R /\ g[0] = 1 /\ R * g[0] = R /\ R \in Int /\ q \in Int
    BY <1>1, <1>3, <1>10
  <2>2. Cong(R, R, q)
    BY <2>1, CongRules
  <2> QED
    BY <1>1, <2>1, <2>2
<1>12. ASSUME NEW n \in 0 .. S, n + 1 =< S, n \in T
       PROVE  n + 1 \in T
  <2>1. n + 1 \in 1 .. S /\ n + 1 \in 0 .. S /\ n + 1 # 0 /\ (n + 1) - 1 = n
    BY <1>1, <1>12
  <2> DEFINE a == scale[n]
             b == p(n + 1)
             c == scale[n + 1]
             e == g[n]
             h == g[n + 1]
  <2>2. /\ a \in Nat /\ a \in Int /\ a >= 0 /\ e \in Int /\ Cong(a, R * e, q)
        /\ b \in Nat /\ b \in Int /\ b >= 0
        /\ c = modulus_multiply(a, b, q) /\ h = e * b
        /\ q \in Int /\ R \in Int
    <3>1. a \in Nat /\ e \in Int /\ Cong(a, R * e, q)
      BY <1>12
    <3>2. b \in Nat
      BY <1>1, <2>1
    <3>3. c = modulus_multiply(a, b, q)
      BY <1>10, <2>1
    <3>4. h = e * b
      <4>1. g[n + 1] = g[(n + 1) - 1] * p(n + 1)
        BY <1>3, <2>1
      <4> QED
        BY <2>1, <4>1
    <3> HIDE DEF a, b, c, e, h
    <3> QED
      BY <1>1, <3>1, <3>2, <3>3, <3>4
  <2> HIDE DEF a, b, c, e, h
  <2>3. c \in 0 .. q - 1 /\ Cong(c, a * b, q)
    BY <1>1, <2>2, MultiplyResidue
  <2>4. R * e \in Int /\ (R * e) * b = R * (e * b) /\ a * b \in Int /\ (R * e) * b \in Int
        /\ h \in Int /\ c \in Int /\ c \in Nat
    <3>1. R * e \in Int /\ a * b \in Int /\ e * b \in Int
      BY <2>2
    <3>2. (R * e) * b = R * (e * b) /\ (R * e) * b \in Int
      BY <2>2, <3>1
    <3>3. c \in Nat /\ c \in Int
      BY <1>1, <2>3
    <3> QED
      BY <2>2, <3>1, <3>2, <3>3
  <2>5. Cong(a * b, (R * e) * b, q)
    BY <2>2, <2>4, CongProduct
  <2>6. Cong(c, (R * e) * b, q)
    BY <2>2, <2>3, <2>4, <2>5, CongTransitive
  <2>7. Cong(c, R * h, q)
    BY <2>2, <2>4, <2>6
  <2> QED
    BY <2>1, <2>3, <2>4, <2>7 DEF c, h
<1> HIDE DEF T
<1>13. /\ 0 \in Int /\ S \in Int /\ S \in 0 .. S /\ S > 0
       /\ \A n \in 0 .. S : n + 1 =< S /\ n \in T => n + 1 \in T
  BY <1>1, <1>12
<1>14. \A n \in 0 .. S : n \in T
  BY <1>11, <1>13, Upward, Zenon
<1>15. Good(S)
  BY <1>13, <1>14 DEF T
<1> QED
  BY <1>3, <1>9, <1>13, <1>15 DEF q

-----------------------------------------------------------------------------
(***************************************************************************)
(* One value of a key.                                                     *)
(***************************************************************************)

(* A product with a Montgomery value.                                      *)
LEMMA MontMultForm ==
    ASSUME NEW q, Suitable(q), NEW k, Valid(q, k),
           NEW u \in 0 .. 2 * q - 1, NEW z \in 0 .. 2 * q - 1,
           NEW e \in Int, Cong(z, R * e, q)
    PROVE  LET w == mont_mult_scalar(u, z, q, k)
           IN  w \in 0 .. 2 * q - 1 /\ Cong(w, u * e, q)
<1> DEFINE w == mont_mult_scalar(u, z, q, k)
<1>1. /\ q \in Nat \ {0, 1} /\ q \in Int /\ R \in Nat \ {0} /\ R \in Int
      /\ Coprime(R, q) /\ 4 * q < R
  BY SuitableModulus DEF Suitable
<1>2. w \in 0 .. 2 * q - 1
  BY MontMultLazy
<1>3. u \in Int /\ z \in Int /\ 0 =< u /\ 0 =< z /\ 2 * u =< R /\ 2 * z =< R
  BY <1>1
<1>4. 0 =< u * z /\ u * z =< R * R /\ - (R * R) =< u * z /\ u * z \in Int
  <2>1. 0 =< u * z /\ u * z =< u * R
    BY <1>1, <1>3
  <2>2. u * R =< R * R
    BY <1>1, <1>3
  <2>3. 0 =< R * R /\ R * R \in Int /\ u * z \in Int /\ u * R \in Int
    BY <1>1, <1>3
  <2> QED
    BY <2>1, <2>2, <2>3
<1>5. PICK s \in 0 .. R - 1 : R * w = u * z + s * q
  BY <1>3, <1>4, MontMultExact
<1> HIDE DEF w
<1>6. R * w \in Int /\ R * e \in Int /\ u * e \in Int /\ u * (R * e) = R * (u * e)
      /\ u * (R * e) \in Int /\ R * (u * e) \in Int /\ w \in Int
  BY <1>1, <1>2, <1>3
<1>7. Cong(R * w, u * z, q)
  <2>1. R * w = u * z + q * s /\ s \in Int
    BY <1>1, <1>4, <1>5
  <2> QED
    BY <2>1 DEF Cong
<1>8. Cong(u * z, u * (R * e), q)
  BY <1>1, <1>3, <1>6, CongProduct
<1>9. Cong(R * w, R * (u * e), q)
  BY <1>1, <1>4, <1>6, <1>7, <1>8, CongTransitive
<1>10. Cong(w, u * e, q)
  BY <1>1, <1>6, <1>9, CoprimeCancel
<1> QED
  BY <1>2, <1>10 DEF w

LEMMA ReducedSum ==
    ASSUME NEW q \in Nat \ {0, 1}, NEW u \in 0 .. 2 * q - 1, NEW z \in 0 .. 2 * q - 1
    PROVE  /\ mont_add_reduce_2q_to_q(u, z, q) \in 0 .. q - 1
           /\ mont_sub_reduce_2q_to_q(u, z, q) \in 0 .. q - 1
BY DEF mont_add_reduce_2q_to_q, mont_sub_reduce_2q_to_q, guard

LEMMA TransformedParameter ==
    ASSUME NEW m \in ModuliIds, NEW chain \in Primes(m)
    PROVE  LET q == get_modulus(m, chain)
               d == Parameter(m, chain)
           IN  /\ Suitable(q) /\ q \in Nat \ {0, 1} /\ q \in Int
               /\ d.q = q /\ Valid(q, d.k)
BY PrimeSuitable, PrimeFacts

(* e - a s, where e and s are transforms: the key without its message.     *)
LEMMA Masked ==
    ASSUME NEW m \in ModuliIds, NEW chain \in Primes(m), NEW i \in Coeff,
           NEW to, Small(to), NEW error, Small(error),
           NEW a \in 0 .. get_modulus(m, chain) - 1
    PROVE  LET q == get_modulus(m, chain)
               d == Parameter(m, chain)
               b == mont_sub_reduce_2q_to_q(tile(error, m, chain)[i],
                      mont_mult_scalar(a, tile(to, m, chain)[i], d.q, d.k), d.q)
           IN  b \in 0 .. q - 1 /\ Cong(b, R * At(error, i, q) - a * At(to, i, q), q)
<1> DEFINE q == get_modulus(m, chain)
           d == Parameter(m, chain)
           k == d.k
           e == tile(error, m, chain)[i]
           t == tile(to, m, chain)[i]
           v == At(error, i, q)
           s == At(to, i, q)
           w == mont_mult_scalar(a, t, q, k)
           b == mont_sub_reduce_2q_to_q(e, w, q)
<1>1. Suitable(q) /\ q \in Nat \ {0, 1} /\ q \in Int /\ d.q = q /\ Valid(q, k) /\ R \in Int
  BY TransformedParameter, RAssumption
<1>2. /\ e \in 0 .. 2 * q - 1 /\ v \in Int /\ Cong(e, R * v, q)
      /\ t \in 0 .. 2 * q - 1 /\ s \in Int /\ Cong(t, R * s, q)
  <2>1. /\ Within(tile(error, m, chain), 0, 2 * q - 1) /\ v \in Int /\ Cong(e, R * v, q)
        /\ Within(tile(to, m, chain), 0, 2 * q - 1) /\ s \in Int /\ Cong(t, R * s, q)
    BY TileTransforms
  <2>2. e \in Int /\ - 0 =< e /\ e =< 2 * q - 1 /\ t \in Int /\ - 0 =< t /\ t =< 2 * q - 1
    BY <2>1, Zenon DEF Within
  <2> HIDE DEF e, t, q
  <2>3. e \in 0 .. 2 * q - 1 /\ t \in 0 .. 2 * q - 1
    BY <1>1, <2>2
  <2> QED
    BY <2>1, <2>3
<1>3. a \in 0 .. q - 1
  OBVIOUS
<1> HIDE DEF q, k, e, t, v, s
<1>4. a \in 0 .. 2 * q - 1 /\ a \in Int
  BY <1>1, <1>3
<1>5. w \in 0 .. 2 * q - 1 /\ Cong(w, a * s, q)
  BY <1>1, <1>2, <1>4, MontMultForm
<1>6. b \in 0 .. q - 1
  BY <1>1, <1>2, <1>5, ReducedSum
<1> HIDE DEF w
<1>7. Cong(b, R * v - a * s, q)
  <2>1. e \in Int /\ w \in Int /\ R * v \in Int /\ a * s \in Int
    BY <1>1, <1>2, <1>4, <1>5
  <2> QED
    BY <1>1, <1>2, <1>5, <2>1, AddCong
<1> QED
  BY <1>1, <1>6, <1>7 DEF b, w, q, k, e, t, v, s

(* The message of a key: the product of the special primes times s.        *)
LEMMA KeyMessage ==
    ASSUME NEW m \in ModuliIds, NEW chain \in Primes(m), NEW i \in Coeff,
           NEW from, Small(from)
    PROVE  LET q == get_modulus(m, chain)
               d == Parameter(m, chain)
               w == mont_mult_scalar(tile(from, m, chain)[i], p_product_mult_r(m, chain),
                                     d.q, d.k)
           IN  /\ SpecialProduct \in Int /\ At(from, i, q) \in Int
               /\ w \in 0 .. 2 * q - 1
               /\ Cong(w, R * (SpecialProduct * At(from, i, q)), q)
<1> DEFINE q == get_modulus(m, chain)
           d == Parameter(m, chain)
           k == d.k
           t == tile(from, m, chain)[i]
           s == At(from, i, q)
           P == SpecialProduct
           r == p_product_mult_r(m, chain)
           w == mont_mult_scalar(t, r, q, k)
<1>1. Suitable(q) /\ q \in Nat \ {0, 1} /\ q \in Int /\ d.q = q /\ Valid(q, k) /\ R \in Int
  BY TransformedParameter, RAssumption
<1>2. t \in 0 .. 2 * q - 1 /\ s \in Int /\ Cong(t, R * s, q)
  <2>1. Within(tile(from, m, chain), 0, 2 * q - 1) /\ s \in Int /\ Cong(t, R * s, q)
    BY TileTransforms
  <2>2. t \in Int /\ - 0 =< t /\ t =< 2 * q - 1
    BY <2>1, Zenon DEF Within
  <2> HIDE DEF t, q
  <2>3. t \in 0 .. 2 * q - 1
    BY <1>1, <2>2
  <2> QED
    BY <2>1, <2>3
<1>3. P \in Int /\ r \in 0 .. q - 1 /\ Cong(r, R * P, q)
  BY SpecialScale
<1> HIDE DEF q, k, t, s, P, r
<1>4. r \in 0 .. 2 * q - 1
  BY <1>1, <1>3
<1>5. w \in 0 .. 2 * q - 1 /\ Cong(w, t * P, q)
  BY <1>1, <1>2, <1>3, <1>4, MontMultForm
<1> HIDE DEF w
<1>6. /\ t \in Int /\ w \in Int /\ R * s \in Int /\ t * P \in Int /\ (R * s) * P \in Int
      /\ (R * s) * P = R * (P * s)
  BY <1>1, <1>2, <1>3, <1>5
<1>7. Cong(t * P, (R * s) * P, q)
  BY <1>1, <1>2, <1>3, <1>6, CongProduct
<1>8. Cong(w, (R * s) * P, q)
  BY <1>1, <1>5, <1>6, <1>7, CongTransitive
<1>9. Cong(w, R * (P * s), q)
  BY <1>6, <1>8
<1> QED
  BY <1>1, <1>2, <1>3, <1>5, <1>9 DEF w, q, k, t, s, P, r

(***************************************************************************)
(* create_key_switching_key: every part p of a key has an error polynomial *)
(* such that, at each prime and root, what the second secret decrypts from *)
(* the part is that error, plus the first secret times the special primes  *)
(* in the chains of partition p and nothing in the others, all of it in    *)
(* Montgomery form; and its values are reduced.                            *)
(***************************************************************************)
Decrypts(b, a, to, error, message, i, q) ==
    /\ b \in 0 .. q - 1 /\ a \in 0 .. q - 1
    /\ (b + a * At(to, i, q) - R * (At(error, i, q) + message)) % q = 0

MessageOf(from, m, p, chain, i) ==
    LET part == get_partitions(m, m)[p]
    IN  IF chain \in part.start .. part.stop - 1
          THEN SpecialProduct * At(from, i, get_modulus(m, chain))
          ELSE 0

PartDecrypts(made, p, from, to, error) ==
    \A chain \in Primes(made.moduli_id), i \in Coeff :
      Decrypts(made.b[p][chain][i], made.a[p][chain][i], to, error,
               MessageOf(from, made.moduli_id, p, chain, i), i,
               get_modulus(made.moduli_id, chain))

KeyDecrypts ==
    pc # "key" =>
      \A p \in 0 .. get_partition_count(key.moduli_id) - 1 :
        \E error \in Error : PartDecrypts(key, p, secrets[1], secrets[2], error)

LEMMA KeyValues ==
    ASSUME NEW from, NEW to, NEW m, NEW seed, NEW errors,
           NEW p \in 0 .. get_partition_count(m) - 1, NEW chain \in Primes(m), NEW i \in Coeff
    PROVE  LET made == create_key_switching_key(from, to, m, seed, errors)
               part == get_partitions(m, m)[p]
               d == Parameter(m, chain)
               a == Uniform(seed + p, i, get_modulus(m, chain))
               masked == mont_sub_reduce_2q_to_q(tile(errors[p], m, chain)[i],
                           mont_mult_scalar(a, tile(to, m, chain)[i], d.q, d.k), d.q)
               message == mont_mult_scalar(tile(from, m, chain)[i],
                            p_product_mult_r(m, chain), d.q, d.k)
           IN  /\ made.moduli_id = m
               /\ made.a[p][chain][i] = a
               /\ made.b[p][chain][i]
                    = IF chain \in part.start .. part.stop - 1
                        THEN mont_add_reduce_2q_to_q(message, masked, get_modulus(m, chain))
                        ELSE masked
<1>1. DOMAIN get_partitions(m, m) = 0 .. get_partition_count(m) - 1
  BY Zenon DEF get_partitions
<1> QED
  BY <1>1, Zenon DEF create_key_switching_key

(* From the congruences of its summands, what a part decrypts to.          *)
LEMMA PartSum ==
    ASSUME NEW q \in Nat \ {0, 1}, NEW b \in 0 .. q - 1, NEW a \in 0 .. q - 1,
           NEW to, NEW error, NEW i, At(to, i, q) \in Int, At(error, i, q) \in Int,
           NEW message \in Int,
           Cong(b, (R * At(error, i, q) - a * At(to, i, q)) + R * message, q)
    PROVE  Decrypts(b, a, to, error, message, i, q)
<1> DEFINE v == At(error, i, q)
           s == At(to, i, q)
           sum == b + a * s - R * (v + message)
<1>1. q \in Int /\ b \in Int /\ a \in Int /\ v \in Int /\ s \in Int /\ R \in Int
  BY RAssumption
<1> HIDE DEF v, s
<1>2. PICK e \in Int : b = ((R * v - a * s) + R * message) + q * e
  BY DEF Cong, v, s
<1>3. sum = q * e
  <2>1. /\ R * v \in Int /\ a * s \in Int /\ R * message \in Int /\ q * e \in Int
        /\ R * (v + message) = R * v + R * message
    BY <1>1, <1>2
  <2> QED
    BY <1>1, <1>2, <2>1
<1>4. sum % q = 0
  <2>1. 0 \in 0 .. q - 1 /\ sum = (q * e) + 0 /\ q \in Nat \ {0}
    BY <1>1, <1>2, <1>3
  <2> HIDE DEF sum
  <2> QED
    BY <1>2, <2>1, DivModUnique
<1> QED
  BY <1>4 DEF Decrypts, sum, v, s

LEMMA UniformRange ==
    ASSUME NEW q \in Nat \ {0, 1}, NEW seed \in Nat, NEW p \in Nat, NEW i \in Coeff
    PROVE  Uniform(seed + p, i, q) \in 0 .. q - 1
<1> DEFINE v == (seed + p) * (i + q)
<1>1. i \in Nat
  BY CoeffCount DEF Coeff
<1>2. seed + p \in Nat /\ i + q \in Nat
  BY <1>1
<1>3. v \in Int
  BY <1>2
<1> HIDE DEF v
<1>4. v % q \in 0 .. q - 1
  BY <1>3, RemainderFacts
<1> QED
  BY <1>4 DEF v, Uniform

LEMMA CreatedPart ==
    ASSUME NEW m \in ModuliIds, NEW from, Small(from), NEW to, Small(to),
           NEW seed \in Nat, NEW errors, NEW p \in 0 .. get_partition_count(m) - 1,
           Small(errors[p])
    PROVE  PartDecrypts(create_key_switching_key(from, to, m, seed, errors), p, from, to,
                        errors[p])
<1> DEFINE made == create_key_switching_key(from, to, m, seed, errors)
           part == get_partitions(m, m)[p]
           error == errors[p]
<1>1. made.moduli_id = m
  BY DEF create_key_switching_key
<1>2. p \in Nat
  BY PartitionCount
<1>3. ASSUME NEW chain \in Primes(m), NEW i \in Coeff
      PROVE  Decrypts(made.b[p][chain][i], made.a[p][chain][i], to, error,
                      MessageOf(from, m, p, chain, i), i, get_modulus(m, chain))
  <2> DEFINE q == get_modulus(m, chain)
             d == Parameter(m, chain)
             a == Uniform(seed + p, i, q)
             masked == mont_sub_reduce_2q_to_q(tile(error, m, chain)[i],
                         mont_mult_scalar(a, tile(to, m, chain)[i], d.q, d.k), d.q)
             message == mont_mult_scalar(tile(from, m, chain)[i],
                          p_product_mult_r(m, chain), d.q, d.k)
             b == made.b[p][chain][i]
             inside == chain \in part.start .. part.stop - 1
             v == At(error, i, q)
             s == At(to, i, q)
             f == SpecialProduct * At(from, i, q)
  <2>1. /\ made.a[p][chain][i] = a
        /\ b = IF inside THEN mont_add_reduce_2q_to_q(message, masked, q) ELSE masked
    BY KeyValues
  <2>2. Suitable(q) /\ q \in Nat \ {0, 1} /\ q \in Int /\ R \in Int
    BY TransformedParameter, RAssumption
  <2>3. a \in 0 .. q - 1
    <3> HIDE DEF q
    <3> QED
      BY <1>2, <2>2, UniformRange
  <2>4. masked \in 0 .. q - 1 /\ Cong(masked, R * v - a * s, q)
    <3> HIDE DEF a
    <3> QED
      BY <2>3, Masked
  <2>5. /\ SpecialProduct \in Int /\ At(from, i, q) \in Int
        /\ message \in 0 .. 2 * q - 1 /\ Cong(message, R * f, q)
    BY KeyMessage
  <2>6. v \in Int /\ s \in Int
    BY TileTransforms
  <2>7. f \in Int
    BY <2>5
  <2>8. MessageOf(from, m, p, chain, i) = IF inside THEN f ELSE 0
    BY DEF MessageOf
  <2> HIDE DEF made, part, error, q, d, a, masked, message, b, inside, f
  <2>9. a \in Int /\ masked \in Int /\ message \in Int /\ masked \in 0 .. 2 * q - 1
    BY <2>2, <2>3, <2>4, <2>5
  <2>10. b \in 0 .. q - 1
    <3>1. mont_add_reduce_2q_to_q(message, masked, q) \in 0 .. q - 1
      BY <2>2, <2>5, <2>9, ReducedSum
    <3> QED
      BY <2>1, <2>4, <3>1
  <2> HIDE DEF v, s
  <2> DEFINE w == R * v - a * s
  <2>11. w \in Int /\ R * f \in Int
    BY <2>2, <2>6, <2>7, <2>9
  <2>12. CASE inside
    <3>1. b = mont_add_reduce_2q_to_q(message, masked, q)
      BY <2>1, <2>12
    <3>2. Cong(masked, w, q)
      BY <2>4
    <3> HIDE DEF w
    <3>3. Cong(b, R * f + w, q)
      BY <2>2, <2>5, <2>9, <2>11, <3>1, <3>2, AddCong
    <3>4. R * f + w = w + R * f
      BY <2>11
    <3>5. Cong(b, (R * v - a * s) + R * f, q)
      BY <3>3, <3>4 DEF w
    <3>6. Decrypts(b, a, to, error, f, i, q)
      BY <2>2, <2>3, <2>6, <2>7, <2>10, <3>5, PartSum DEF v, s
    <3> QED
      BY <2>1, <2>8, <2>12, <3>6 DEF b, q
  <2>13. CASE ~inside
    <3>1. Cong(b, w, q)
      BY <2>1, <2>4, <2>13
    <3>2. w + R * 0 = w
      BY <2>2, <2>11
    <3>3. Cong(b, (R * v - a * s) + R * 0, q)
      BY <3>1, <3>2
    <3> DEFINE zero == 0
    <3>4. zero \in Int /\ Cong(b, (R * v - a * s) + R * zero, q)
      BY <3>3
    <3> HIDE DEF zero
    <3>5. Decrypts(b, a, to, error, zero, i, q)
      BY <2>2, <2>3, <2>6, <2>10, <3>4, PartSum DEF v, s
    <3>6. Decrypts(b, a, to, error, 0, i, q)
      BY <3>5 DEF zero
    <3> QED
      BY <2>1, <2>8, <2>13, <3>6 DEF b, q
  <2> QED
    BY <2>12, <2>13
<1> QED
  BY <1>1, <1>3 DEF PartDecrypts

LEMMA KeyIsSound ==
    ASSUME NEW from \in Secret, NEW to \in Secret, NEW m \in ModuliIds,
           NEW seed \in UniformSeed,
           NEW errors \in [0 .. get_partition_count(m) - 1 -> Error],
           CreateKey(from, to, m, seed, errors)
    PROVE  KeyDecrypts'
<1>1. secrets' = <<from, to>> /\ key' = create_key_switching_key(from, to, m, seed, errors)
  BY DEF CreateKey
<1>2. key'.moduli_id = m
  BY <1>1 DEF create_key_switching_key
<1>3. secrets'[1] = from /\ secrets'[2] = to
  BY <1>1
<1>4. seed \in Nat /\ Small(from) /\ Small(to) /\ \A error \in Error : Small(error)
  BY SamplerAssumption, Zenon
<1>5. ASSUME NEW p \in 0 .. get_partition_count(m) - 1
      PROVE  \E error \in Error : PartDecrypts(key', p, from, to, error)
  <2>1. errors[p] \in Error
    OBVIOUS
  <2>2. PartDecrypts(create_key_switching_key(from, to, m, seed, errors), p, from, to, errors[p])
    BY <1>4, <2>1, CreatedPart
  <2> QED
    BY <1>1, <2>1, <2>2, Zenon
<1> QED
  BY <1>2, <1>3, <1>5, Zenon DEF KeyDecrypts

LEMMA NextKeyDecrypts == KeyDecrypts /\ [SwitchNext]_switchVars => KeyDecrypts'
<1> SUFFICES ASSUME KeyDecrypts, [SwitchNext]_switchVars
             PROVE  KeyDecrypts'
  OBVIOUS
<1>1. CASE UNCHANGED switchVars
  <2>1. pc' = pc /\ secrets' = secrets /\ key' = key
    BY <1>1 DEF switchVars
  <2> QED
    BY <2>1, Zenon DEF KeyDecrypts
<1>2. ASSUME NEW from \in Secret, NEW to \in Secret, NEW m \in 0 .. TopChainCount - 1,
             NEW seed \in UniformSeed,
             NEW errors \in [0 .. get_partition_count(m) - 1 -> Error],
             CreateKey(from, to, m, seed, errors)
      PROVE  KeyDecrypts'
  BY <1>2, KeyIsSound DEF ModuliIds
<1>3. ASSUME pc # "key", UNCHANGED <<secrets, key>>
      PROVE  KeyDecrypts'
  BY <1>3, Zenon DEF KeyDecrypts
<1>4. ASSUME NEW how, NEW m, NEW b, NEW a, NEW high, Start(how, m, b, a, high)
      PROVE  KeyDecrypts'
  BY <1>3, <1>4 DEF Start
<1>5. CASE RnsToMrs
  BY <1>3, <1>5 DEF RnsToMrs
<1>6. CASE ModUp
  BY <1>3, <1>6 DEF ModUp
<1>7. CASE ModUpSingle
  BY <1>3, <1>7 DEF ModUpSingle
<1>8. CASE MultiplyKeys
  BY <1>3, <1>8 DEF MultiplyKeys
<1>9. CASE AddFirst
  BY <1>3, <1>9 DEF AddFirst
<1>10. CASE ToIntt
  BY <1>3, <1>10 DEF ToIntt
<1>11. CASE DivideSpecial
  BY <1>3, <1>11 DEF DivideSpecial
<1>12. CASE MakeUnsigned
  BY <1>3, <1>12 DEF MakeUnsigned
<1>13. CASE AddToFirst
  BY <1>3, <1>13 DEF AddToFirst
<1>14. CASE Return
  BY <1>3, <1>14 DEF Return
<1>15. CASE SwitchNext
  BY <1>2, <1>4, <1>5, <1>6, <1>7, <1>8, <1>9, <1>10, <1>11, <1>12, <1>13, <1>14, <1>15, Zenon
     DEF SwitchNext
<1> QED
  BY <1>1, <1>15

(***************************************************************************)
(* A key, of any secrets and at any level: create_key_switching_key makes  *)
(* parts that the second secret decrypts to a small error of their own and *)
(* the first secret, times the special primes, in the chains of just one   *)
(* partition.  With PartsAlwaysMeet this is the partition it meets.        *)
(***************************************************************************)
THEOREM KeysAlwaysDecrypt == SwitchSpec => []KeyDecrypts
<1>1. SwitchInit => KeyDecrypts
  BY DEF SwitchInit, KeyDecrypts
<1>2. KeyDecrypts /\ [SwitchNext]_switchVars => KeyDecrypts'
  BY NextKeyDecrypts
<1> QED
  BY <1>1, <1>2, PTL DEF SwitchSpec

-----------------------------------------------------------------------------
(***************************************************************************)
(* The products of the lifted partitions with the key, added up.  What the *)
(* second secret decrypts from the sum of the first partitions is the sum  *)
(* of their lifts, each times what its part of the key decrypts to: lifts  *)
(* are in Montgomery form, so this is R times the errors, weighted by the  *)
(* integers of the partitions, plus the special primes times the one of    *)
(* the partition that the chain is in, times the first secret.             *)
(***************************************************************************)
PartError(made, p, from, to) == CHOOSE error \in Error : PartDecrypts(made, p, from, to, error)

PartValue(m, made, from, to, p, chain, i) ==
    LET part == get_partitions(m, made.moduli_id)[p]
        q == get_modulus(m, chain)
        message == IF chain \in part.start .. part.stop - 1
                     THEN SpecialProduct * At(from, i, q)
                     ELSE 0
    IN  At(PartError(made, part.partition_index, from, to), i, q) + message

SumTerm(residual, m, made, from, to, chain, i) ==
    [p \in 0 .. get_partition_count(m) - 1 |->
       LiftOf(residual, m, made.moduli_id, p)[chain][i]
         * PartValue(m, made, from, to, p, chain, i)]

SumDecrypts(sums, residual, m, made, from, to, count) ==
    \A chain \in Primes(m), i \in Coeff :
      LET b == sums[1][chain][i]
          a == sums[2][chain][i]
          q == get_modulus(m, chain)
      IN  /\ b \in Int /\ a \in Int
          /\ Summands(SumTerm(residual, m, made, from, to, chain, i), count)
          /\ Cong(b + a * At(to, i, q),
                  Total(SumTerm(residual, m, made, from, to, chain, i), count), q)

(* How many partitions have been multiplied and added up in x.             *)
ProductCount ==
    IF mode = "switch"
      THEN IF pc = "mod_down" THEN get_partition_count(level)
           ELSE IF pc \in {"decompose", "mod_up", "multiply"} THEN index
           ELSE 0
      ELSE IF pc = "add_b" THEN get_partition_count(level)
           ELSE IF pc = "multiply" THEN index
           ELSE 0

ProductsDecrypt ==
    ProductCount > 0 =>
      SumDecrypts(x, ciphertext[2], level, key, secrets[1], secrets[2], ProductCount)

LEMMA PartValueFound ==
    ASSUME NEW made, made.moduli_id \in ModuliIds, NEW m \in ModuliIds, made.moduli_id =< m,
           NEW from, Small(from), NEW to, Small(to),
           NEW p \in 0 .. get_partition_count(m) - 1,
           \A n \in 0 .. get_partition_count(made.moduli_id) - 1 :
             \E error \in Error : PartDecrypts(made, n, from, to, error),
           NEW chain \in Primes(m), NEW i \in Coeff
    PROVE  LET n == get_partitions(m, made.moduli_id)[p].partition_index
               c == m - made.moduli_id + chain
               q == get_modulus(m, chain)
               b == made.b[n][c][i]
               a == made.a[n][c][i]
               v == PartValue(m, made, from, to, p, chain, i)
           IN  /\ b \in 0 .. q - 1 /\ a \in 0 .. q - 1
               /\ v \in Int /\ At(to, i, q) \in Int
               /\ Cong(b + a * At(to, i, q), R * v, q)
<1> DEFINE k == made.moduli_id
           part == get_partitions(m, k)[p]
           n == part.partition_index
           c == m - k + chain
           q == get_modulus(m, chain)
           b == made.b[n][c][i]
           a == made.a[n][c][i]
           key_part == get_partitions(k, k)[n]
           error == PartError(made, n, from, to)
           inside == chain \in part.start .. part.stop - 1
           message == IF inside THEN SpecialProduct * At(from, i, q) ELSE 0
           v == PartValue(m, made, from, to, p, chain, i)
<1>1. /\ n \in 0 .. get_partition_count(k) - 1
      /\ get_modulus(k, c) = q
      /\ inside <=> c \in key_part.start .. key_part.stop - 1
  BY PartitionsAgree
<1>2. c \in Primes(k)
  <2>1. /\ m \in Int /\ k \in Int /\ k =< m /\ chain \in Int
        /\ TopChainCount \in Int /\ SpecialPrimeCount \in Int
    BY Counts DEF ModuliIds, Primes
  <2> QED
    BY <2>1 DEF Primes, get_prime_count
<1>3. error \in Error /\ PartDecrypts(made, n, from, to, error)
  BY <1>1, Zenon DEF PartError
<1>4. MessageOf(from, k, n, c, i) = message
  BY <1>1, Zenon DEF MessageOf
<1>5. v = At(error, i, q) + message
  BY Zenon DEF PartValue
<1>6. Decrypts(b, a, to, error, message, i, q)
  BY <1>1, <1>2, <1>3, <1>4, Zenon DEF PartDecrypts
<1>7. /\ Suitable(q) /\ q \in Nat \ {0, 1} /\ q \in Int /\ R \in Int
  BY TransformedParameter, RAssumption
<1>8. At(error, i, q) \in Int /\ At(to, i, q) \in Int /\ At(from, i, q) \in Int
  <2>1. Small(error)
    BY <1>3, SamplerAssumption, Zenon
  <2> HIDE DEF error
  <2> QED
    BY <2>1, TileTransforms
<1>9. SpecialProduct \in Int
  BY SpecialScale
<1> HIDE DEF q, a, b, error, v
<1>10. message \in Int
  <2>1. SpecialProduct * At(from, i, q) \in Int
    BY <1>8, <1>9
  <2> QED
    BY <2>1
<1> HIDE DEF message
<1> DEFINE s == At(to, i, q)
           e == At(error, i, q)
           d == b + a * s - R * (e + message)
<1>11. b \in 0 .. q - 1 /\ a \in 0 .. q - 1 /\ d % q = 0
  BY <1>6 DEF Decrypts
<1>12. s \in Int /\ e \in Int
  BY <1>8
<1> HIDE DEF s, e
<1>13. v \in Int /\ v = e + message
  BY <1>5, <1>10, <1>12 DEF e
<1>14. a * s \in Int /\ b + a * s \in Int /\ R * v \in Int /\ d = (b + a * s) - R * v /\ d \in Int
  <2>1. a \in Int /\ b \in Int
    BY <1>7, <1>11
  <2>2. a * s \in Int /\ R * v \in Int
    BY <1>7, <1>12, <1>13, <2>1
  <2> QED
    BY <1>13, <2>1, <2>2
<1> HIDE DEF d
<1>15. Cong(b + a * s, R * v, q)
  <2>1. q \in Nat \ {0} /\ Cong(d, 0, q)
    <3>1. q \in Nat \ {0}
      BY <1>7
    <3> QED
      BY <1>11, <1>14, <3>1, CongRemainder
  <2>2. PICK w \in Int : d = 0 + q * w
    BY <2>1 DEF Cong
  <2>3. q * w \in Int
    BY <1>7, <2>2
  <2>4. b + a * s = R * v + q * w
    BY <1>14, <2>2, <2>3
  <2> QED
    BY <2>2, <2>4 DEF Cong
<1> QED
  BY <1>8, <1>11, <1>13, <1>15 DEF s, b, a, q, v

(* Every value is a multiple of R: that is how a key is read.              *)
LEMMA FormExists ==
    ASSUME NEW q \in Int, Coprime(R, q), R \in Int, NEW c \in Int
    PROVE  \E e \in Int : Cong(c, e * R, q)
<1>1. PICK h, z \in Int : R * h = 1 + q * z
  BY DEF Coprime
<1>2. h * c \in Int /\ - (z * c) \in Int /\ (h * c) * R \in Int
  BY <1>1
<1>3. (h * c) * R = c + q * (z * c)
  <2>1. (h * c) * R = (R * h) * c
    BY <1>1
  <2>2. (1 + q * z) * c = c + q * (z * c)
    BY <1>1
  <2> QED
    BY <1>1, <2>1, <2>2
<1>4. q * (z * c) \in Int /\ q * (- (z * c)) = - (q * (z * c))
  BY <1>1
<1>5. c = (h * c) * R + q * (- (z * c))
  BY <1>2, <1>3, <1>4
<1> QED
  BY <1>2, <1>5 DEF Cong

(* The product of a lift with both values of a part of the key.            *)
LEMMA ProductForm ==
    ASSUME NEW q \in Nat \ {0, 1}, NEW k, Valid(q, k), Coprime(R, q),
           NEW t \in Int, - (2 * R) =< t, t =< 2 * R,
           NEW b \in 0 .. q - 1, NEW a \in 0 .. q - 1, NEW s \in Int, NEW v \in Int,
           Cong(b + a * s, R * v, q)
    PROVE  LET f == mont_mult_scalar(t, b, q, k)
               g == mont_mult_scalar(t, a, q, k)
           IN  /\ f \in Int /\ g \in Int
               /\ Cong(f + g * s, t * v, q)
<1> DEFINE f == mont_mult_scalar(t, b, q, k)
           g == mont_mult_scalar(t, a, q, k)
<1>1. R \in Int /\ q \in Int /\ b \in Int /\ a \in Int /\ - q =< b /\ b =< q /\ - q =< a /\ a =< q
  BY RAssumption
<1>2. PICK e \in Int : Cong(b, e * R, q)
  BY <1>1, FormExists
<1>3. PICK h \in Int : Cong(a, h * R, q)
  BY <1>1, FormExists
<1>4. f \in Int /\ Cong(f, t * e, q)
  BY <1>1, <1>2, MontMultCong
<1>5. g \in Int /\ Cong(g, t * h, q)
  BY <1>1, <1>3, MontMultCong
<1> HIDE DEF f, g
<1> DEFINE hs == h * s
           w == e + hs
           er == e * R
           hr == h * R
           hrs == hr * s
           rw == R * w
           rv == R * v
           as == a * s
<1>6. /\ hs \in Int /\ w \in Int /\ er \in Int /\ hr \in Int /\ hrs \in Int /\ rw \in Int
      /\ rv \in Int /\ as \in Int /\ rw = er + hrs
  <2>1. hs \in Int /\ w \in Int /\ er \in Int /\ hr \in Int /\ as \in Int /\ rv \in Int
    BY <1>1, <1>2, <1>3
  <2>2. hrs \in Int /\ hrs = R * hs
    BY <1>1, <1>3
  <2>3. rw \in Int /\ rw = R * e + R * hs
    BY <1>1, <1>2, <2>1
  <2> QED
    BY <1>1, <1>2, <2>1, <2>2, <2>3
<1>7. Cong(as, hrs, q)
  <2> HIDE DEF hr
  <2>1. Cong(a, hr, q)
    BY <1>3 DEF hr
  <2> QED
    BY <1>1, <1>6, <2>1, CongProduct
<1>8. Cong(b, er, q) /\ Cong(b + as, rv, q)
  BY <1>2
<1> HIDE DEF er, hr, hrs, rw, rv, as
<1>9. Cong(b + as, rw, q)
  BY <1>1, <1>6, <1>7, <1>8, CongSum
<1>10. Cong(rw, b + as, q) /\ b + as \in Int
  <2> DEFINE sum == b + as
  <2>1. sum \in Int
    BY <1>1, <1>6
  <2>3. Cong(sum, rw, q)
    BY <1>9, Zenon
  <2> HIDE DEF sum
  <2>2. Cong(rw, sum, q)
    BY <1>1, <1>6, <2>1, <2>3, CongRules
  <2> QED
    BY <2>1, <2>2, Zenon DEF sum
<1>11. Cong(rw, rv, q)
  BY <1>1, <1>6, <1>8, <1>10, CongTransitive
<1>12. Cong(w, v, q)
  <2> HIDE DEF w
  <2>1. Cong(R * w, R * v, q)
    BY <1>11 DEF rw, rv
  <2> QED
    BY <1>1, <1>6, <2>1, CoprimeCancel
<1> DEFINE gs == g * s
           te == t * e
           ths == (t * h) * s
           tw == t * w
           tv == t * v
<1>13. gs \in Int /\ te \in Int /\ ths \in Int /\ tw \in Int /\ tv \in Int /\ tw = te + ths
  <2>1. gs \in Int /\ te \in Int /\ tv \in Int /\ tw \in Int
    BY <1>2, <1>5, <1>6
  <2>2. ths \in Int /\ ths = t * hs
    BY <1>3
  <2>3. tw = t * e + t * hs
    BY <1>2, <1>6
  <2> QED
    BY <2>1, <2>2, <2>3
<1>14. Cong(gs, ths, q)
  <2> DEFINE th == t * h
  <2>1. th \in Int /\ Cong(g, th, q)
    BY <1>3, <1>5
  <2> HIDE DEF th
  <2>2. Cong(g * s, th * s, q)
    BY <1>1, <1>5, <2>1, CongProduct
  <2> QED
    BY <2>2 DEF th
<1>15. Cong(f, te, q) /\ Cong(tw, tv, q)
  <2> HIDE DEF w
  <2>1. Cong(t * w, t * v, q)
    BY <1>1, <1>6, <1>12, CongProduct
  <2> QED
    BY <1>4, <2>1
<1> HIDE DEF gs, te, ths, tw, tv
<1>16. Cong(f + gs, tw, q)
  BY <1>1, <1>4, <1>13, <1>14, <1>15, CongSum
<1>17. f + gs \in Int
  BY <1>4, <1>13
<1>18. Cong(f + gs, tv, q)
  BY <1>1, <1>13, <1>15, <1>16, <1>17, CongTransitive
<1> QED
  BY <1>4, <1>5, <1>18 DEF f, g, gs, tv

(* One more product: the sums are reduced once by 2q and once by q.        *)
AddProduct(p, s, q) == guard(guard(p + s, 2 * q), q)

LEMMA AddProductCong ==
    ASSUME NEW q \in Int, NEW p \in Int, NEW s \in Int
    PROVE  AddProduct(p, s, q) \in Int /\ Cong(AddProduct(p, s, q), p + s, q)
<1> DEFINE z == p + s
           h == guard(z, 2 * q)
           w == guard(h, q)
<1>1. z \in Int
  OBVIOUS
<1> HIDE DEF z
<1>2. h \in Int /\ Cong(h, z, q)
  BY <1>1, GuardCong
<1> HIDE DEF h
<1>3. w \in Int /\ Cong(w, h, q)
  BY <1>2, GuardCong
<1> HIDE DEF w
<1>4. Cong(w, z, q)
  BY <1>1, <1>2, <1>3, CongTransitive
<1> QED
  BY <1>3, <1>4 DEF w, h, z, AddProduct

LEMMA SumsForm ==
    ASSUME NEW q \in Int, NEW s \in Int, NEW f \in Int, NEW g \in Int, NEW t \in Int,
           Cong(f + g * s, t, q), NEW b \in Int, NEW a \in Int, NEW u \in Int,
           Cong(b + a * s, u, q)
    PROVE  LET c == AddProduct(f, b, q)
               d == AddProduct(g, a, q)
           IN  /\ c \in Int /\ d \in Int
               /\ Cong(c + d * s, u + t, q)
<1> DEFINE c == AddProduct(f, b, q)
           d == AddProduct(g, a, q)
<1>1. c \in Int /\ d \in Int /\ Cong(c, f + b, q) /\ Cong(d, g + a, q)
  BY AddProductCong
<1> HIDE DEF c, d
<1> DEFINE fb == f + b
           ga == g + a
           gas == ga * s
           ds == d * s
           gs == g * s
           as == a * s
           fg == f + gs
           ba == b + as
           ut == u + t
<1>2. /\ fb \in Int /\ ga \in Int /\ gas \in Int /\ ds \in Int /\ gs \in Int /\ as \in Int
      /\ fg \in Int /\ ba \in Int /\ ut \in Int /\ gas = gs + as
  BY <1>1
<1>3. fb + gas = ba + fg /\ fb + gas \in Int /\ c + ds \in Int
  BY <1>1, <1>2
<1>4. Cong(c, fb, q) /\ Cong(d, ga, q) /\ Cong(fg, t, q) /\ Cong(ba, u, q)
  BY <1>1
<1> HIDE DEF ga
<1>5. Cong(ds, gas, q)
  BY <1>1, <1>2, <1>4, CongProduct
<1> HIDE DEF fb, gas, ds, gs, as, fg, ba
<1>6. Cong(c + ds, fb + gas, q)
  BY <1>1, <1>2, <1>4, <1>5, CongSum
<1>7. Cong(ba + fg, u + t, q)
  BY <1>2, <1>4, CongSum
<1>8. Cong(fb + gas, ut, q)
  BY <1>3, <1>7
<1> HIDE DEF ut
<1>9. Cong(c + ds, ut, q)
  BY <1>2, <1>3, <1>6, <1>8, CongTransitive
<1> QED
  BY <1>1, <1>9 DEF c, d, ds, ut

(* What the sums need of a state: secrets of the sampler, and that only a  *)
(* rotation adds the first polynomial before the division.                 *)
SumInv ==
    /\ pc # "key" => secrets[1] \in Secret /\ secrets[2] \in Secret
    /\ pc = "add_b" => mode # "switch"
    /\ ProductsDecrypt

(* The operands of a product.                                              *)
LEMMA Operands ==
    ASSUME SwitchInv, LiftInv, KeyInv, KeyDecrypts, SwitchTypeOK, SumInv, pc = "multiply",
           NEW chain \in Primes(level), NEW i \in Coeff
    PROVE  LET q == get_modulus(level, chain)
               k == Parameter(level, chain).k
               t == extended[index][chain][i]
               b == KeyView(key.b, Partitions[index], level, chain)[i]
               a == KeyView(key.a, Partitions[index], level, chain)[i]
               v == PartValue(level, key, secrets[1], secrets[2], index, chain, i)
               s == At(secrets[2], i, q)
               f == mont_mult_scalar(t, b, q, k)
               g == mont_mult_scalar(t, a, q, k)
           IN  /\ q \in Nat \ {0, 1} /\ Parameter(level, chain).q = q
               /\ s \in Int /\ f \in Int /\ g \in Int /\ t * v \in Int
               /\ SumTerm(ciphertext[2], level, key, secrets[1], secrets[2], chain, i)[index]
                    = t * v
               /\ Cong(f + g * s, t * v, q)
<1> DEFINE q == get_modulus(level, chain)
           k == Parameter(level, chain).k
           t == extended[index][chain][i]
           b == KeyView(key.b, Partitions[index], level, chain)[i]
           a == KeyView(key.a, Partitions[index], level, chain)[i]
           v == PartValue(level, key, secrets[1], secrets[2], index, chain, i)
           s == At(secrets[2], i, q)
<1>1. /\ level \in ModuliIds /\ index \in 0 .. get_partition_count(level) - 1
      /\ get_partition_count(level) \in Nat /\ index \in Nat
  BY PartitionCount DEF SwitchInv
<1>2. key.moduli_id \in ModuliIds /\ key.moduli_id =< level
  BY DEF KeyInv, KeyMade
<1>3. Small(secrets[1]) /\ Small(secrets[2])
  BY SamplerAssumption, Zenon DEF SumInv
<1>4. \A n \in 0 .. get_partition_count(key.moduli_id) - 1 :
        \E error \in Error : PartDecrypts(key, n, secrets[1], secrets[2], error)
  BY Zenon DEF KeyDecrypts
<1>5. Suitable(q) /\ q \in Nat \ {0, 1} /\ Parameter(level, chain).q = q /\ Valid(q, k)
  BY <1>1, TransformedParameter
<1>6. index \in DOMAIN extended
      /\ t = LiftOf(ciphertext[2], level, key.moduli_id, index)[chain][i]
  <2>1. index \in 0 .. LiftedCount - 1
    BY <1>1 DEF LiftedCount
  <2> QED
    BY <2>1, Zenon DEF LiftInv, Lifts
<1>7. t \in 1 - q .. 2 * q - 1
  BY <1>6 DEF SwitchTypeOK, Divided
<1>8. /\ b \in 0 .. q - 1 /\ a \in 0 .. q - 1 /\ v \in Int /\ s \in Int
      /\ Cong(b + a * s, R * v, q)
  <2>1. LET n == get_partitions(level, key.moduli_id)[index].partition_index
            c == level - key.moduli_id + chain
        IN  /\ key.b[n][c][i] \in 0 .. q - 1 /\ key.a[n][c][i] \in 0 .. q - 1
            /\ v \in Int /\ s \in Int
            /\ Cong(key.b[n][c][i] + key.a[n][c][i] * s, R * v, q)
    BY <1>1, <1>2, <1>3, <1>4, PartValueFound
  <2> QED
    BY <2>1, Zenon DEF KeyView, Partitions
<1>9. SumTerm(ciphertext[2], level, key, secrets[1], secrets[2], chain, i)[index] = t * v
  BY <1>1, <1>6, Zenon DEF SumTerm
<1> HIDE DEF q, k, t, b, a, v, s
<1>10. /\ Coprime(R, q) /\ t \in Int /\ - (2 * R) =< t /\ t =< 2 * R /\ t * v \in Int
  <2>1. R \in Nat \ {0} /\ Coprime(R, q) /\ 4 * q < R
    BY <1>5, SuitableModulus DEF Suitable
  <2>2. t \in Int /\ - (2 * R) =< t /\ t =< 2 * R
    BY <1>5, <1>7, <2>1
  <2> QED
    BY <1>8, <2>1, <2>2
<1>11. LET f == mont_mult_scalar(t, b, q, k)
           g == mont_mult_scalar(t, a, q, k)
       IN  /\ f \in Int /\ g \in Int
           /\ Cong(f + g * s, t * v, q)
  BY <1>5, <1>8, <1>10, ProductForm
<1> QED
  BY <1>5, <1>8, <1>9, <1>10, <1>11 DEF q, k, t, b, a, v, s

(* One more partition is multiplied and added.                             *)
LEMMA OneMoreProduct ==
    ASSUME SwitchInv, LiftInv, KeyInv, KeyDecrypts, SwitchTypeOK, SumInv, MultiplyKeys
    PROVE  SumDecrypts(x', ciphertext[2], level, key, secrets[1], secrets[2], index + 1)
<1>1. /\ pc = "multiply" /\ level \in ModuliIds
      /\ index \in 0 .. get_partition_count(level) - 1 /\ index \in Nat /\ index + 1 \in Nat
  BY PartitionCount DEF SwitchInv, MultiplyKeys
<1>2. ASSUME NEW chain \in Primes(level), NEW i \in Coeff
      PROVE  LET c == x'[1][chain][i]
                 d == x'[2][chain][i]
                 q == get_modulus(level, chain)
                 term == SumTerm(ciphertext[2], level, key, secrets[1], secrets[2], chain, i)
             IN  /\ c \in Int /\ d \in Int
                 /\ Summands(term, index + 1)
                 /\ Cong(c + d * At(secrets[2], i, q), Total(term, index + 1), q)
  <2> DEFINE c == x'[1][chain][i]
             d == x'[2][chain][i]
             q == get_modulus(level, chain)
             k == Parameter(level, chain).k
             term == SumTerm(ciphertext[2], level, key, secrets[1], secrets[2], chain, i)
             s == At(secrets[2], i, q)
             f == mont_mult_scalar(extended[index][chain][i],
                    KeyView(key.b, Partitions[index], level, chain)[i], q, k)
             g == mont_mult_scalar(extended[index][chain][i],
                    KeyView(key.a, Partitions[index], level, chain)[i], q, k)
             b == x[1][chain][i]
             a == x[2][chain][i]
  <2>1. /\ q \in Nat \ {0, 1} /\ Parameter(level, chain).q = q
        /\ s \in Int /\ f \in Int /\ g \in Int /\ term[index] \in Int
        /\ Cong(f + g * s, term[index], q)
    BY <1>1, Operands
  <2>2. /\ c = IF index = 0 THEN f ELSE AddProduct(f, b, q)
        /\ d = IF index = 0 THEN g ELSE AddProduct(g, a, q)
    <3> DEFINE sums == IF index = 0 THEN <<<<>>, <<>>>> ELSE x
    <3>1. x' = <<MultiplyAdd(sums[1], key.b), MultiplyAdd(sums[2], key.a)>>
      BY DEF MultiplyKeys
    <3>2. x'[1] = MultiplyAdd(sums[1], key.b) /\ x'[2] = MultiplyAdd(sums[2], key.a)
      BY <3>1
    <3>3. index # 0 => sums[1] = x[1] /\ sums[2] = x[2]
      OBVIOUS
    <3> HIDE DEF sums
    <3>4. /\ MultiplyAdd(sums[1], key.b)[chain][i]
               = IF index = 0 THEN f ELSE AddProduct(f, sums[1][chain][i], q)
          /\ MultiplyAdd(sums[2], key.a)[chain][i]
               = IF index = 0 THEN g ELSE AddProduct(g, sums[2][chain][i], q)
      BY <2>1 DEF MultiplyAdd, AddProduct
    <3> QED
      BY <3>2, <3>3, <3>4
  <2>3. CASE index = 0
    <3>1. Summands(term, index + 1)
      BY <2>1, <2>3 DEF Summands
    <3>2. Total(term, index + 1) = term[index]
      <4> HIDE DEF term
      <4>1. Total(term, 0) = 0 /\ Total(term, 0 + 1) = Total(term, 0) + term[0]
        BY <1>1, <2>3, <3>1, TotalStep
      <4> QED
        BY <2>1, <2>3, <4>1
    <3> QED
      BY <2>1, <2>2, <2>3, <3>1, <3>2
  <2>4. CASE index # 0
    <3>1. /\ b \in Int /\ a \in Int /\ Summands(term, index)
          /\ Cong(b + a * s, Total(term, index), q)
      <4>1. ProductCount = index /\ index > 0
        BY <1>1, <2>4 DEF ProductCount
      <4>2. SumDecrypts(x, ciphertext[2], level, key, secrets[1], secrets[2], index)
        BY <4>1 DEF SumInv, ProductsDecrypt
      <4> QED
        BY <4>2, Zenon DEF SumDecrypts
    <3> HIDE DEF c, d, q, k, term, s, f, g, b, a
    <3>2. Summands(term, index + 1)
      <4>1. \A j \in 0 .. (index + 1) - 1 : j = index \/ j \in 0 .. index - 1
        BY <1>1
      <4> QED
        BY <2>1, <3>1, <4>1 DEF Summands
    <3>3. /\ Total(term, index) \in Int
          /\ Total(term, index + 1) = Total(term, index) + term[index]
      <4>1. index \in 0 .. index + 1 /\ index \in 0 .. (index + 1) - 1
        BY <1>1
      <4> QED
        BY <1>1, <3>2, <4>1, TotalStep
    <3> DEFINE t == term[index]
               u == Total(term, index)
    <3>4. /\ q \in Int /\ t \in Int /\ u \in Int /\ Cong(f + g * s, t, q)
          /\ Cong(b + a * s, u, q) /\ c = AddProduct(f, b, q) /\ d = AddProduct(g, a, q)
      BY <2>1, <2>2, <2>4, <3>1, <3>3
    <3> HIDE DEF t, u
    <3>5. c \in Int /\ d \in Int /\ Cong(c + d * s, u + t, q)
      BY <2>1, <3>1, <3>4, SumsForm
    <3>6. Cong(c + d * s, Total(term, index + 1), q)
      BY <3>3, <3>5 DEF t, u
    <3> QED
      BY <3>2, <3>5, <3>6 DEF c, d, q, term, s
  <2> QED
    BY <2>3, <2>4
<1> QED
  BY <1>2, Zenon DEF SumDecrypts

LEMMA InitSums == SwitchInit => SumInv
  BY DEF SwitchInit, SumInv, ProductsDecrypt, ProductCount

LEMMA NextSums ==
    SwitchInv /\ LiftInv /\ KeyInv /\ KeyDecrypts /\ SwitchTypeOK /\ SumInv
      /\ [SwitchNext]_switchVars => SumInv'
<1> SUFFICES ASSUME SwitchInv, LiftInv, KeyInv, KeyDecrypts, SwitchTypeOK, SumInv,
                    [SwitchNext]_switchVars
             PROVE  SumInv'
  OBVIOUS
<1> DEFINE Sums(n) ==
             SumDecrypts(x', ciphertext'[2], level', key', secrets'[1], secrets'[2], n)
<1>1. CASE UNCHANGED switchVars
  <2>1. UNCHANGED <<pc, secrets, key, mode, level, ciphertext, index, x>>
    BY <1>1 DEF switchVars
  <2> QED
    BY <2>1, Zenon DEF SumInv, ProductsDecrypt, ProductCount
(* Nothing has been added up yet, or the sums have been used.              *)
<1>2. ASSUME secrets'[1] \in Secret, secrets'[2] \in Secret,
             pc' = "add_b" => mode' # "switch", ProductCount' = 0
      PROVE  SumInv'
  <2>1. ~(ProductCount' > 0)
    BY <1>2
  <2> QED
    BY <1>2, <2>1, Zenon DEF SumInv, ProductsDecrypt
(* The sums stay as they are.                                              *)
<1>3. ASSUME pc # "key", UNCHANGED <<secrets, key, level, ciphertext, x>>,
             pc' # "add_b", ProductCount' = ProductCount
      PROVE  SumInv'
  BY <1>3, Zenon DEF SumInv, ProductsDecrypt
<1>4. ASSUME NEW from \in Secret, NEW to \in Secret, NEW m, NEW seed, NEW errors,
             CreateKey(from, to, m, seed, errors)
      PROVE  SumInv'
  <2>1. secrets' = <<from, to>> /\ pc' = "start"
    BY <1>4 DEF CreateKey
  <2>2. ProductCount' = 0
    BY <2>1 DEF ProductCount
  <2> QED
    BY <1>2, <2>1, <2>2
<1>5. ASSUME NEW how, NEW m, NEW b, NEW a, NEW high, Start(how, m, b, a, high)
      PROVE  SumInv'
  <2>1. pc = "start" /\ UNCHANGED secrets /\ pc' = "decompose" /\ index' = 0
    BY <1>5 DEF Start
  <2>2. ProductCount' = 0
    BY <2>1 DEF ProductCount
  <2>3. secrets'[1] \in Secret /\ secrets'[2] \in Secret
    BY <2>1 DEF SumInv
  <2> QED
    BY <1>2, <2>1, <2>2, <2>3
<1>6. CASE RnsToMrs
  <2>1. /\ pc = "decompose" /\ pc' = "mod_up"
        /\ UNCHANGED <<secrets, key, mode, level, ciphertext, index, x>>
    BY <1>6 DEF RnsToMrs
  <2>2. ProductCount' = ProductCount
    BY <2>1 DEF ProductCount
  <2> QED
    BY <1>3, <2>1, <2>2
<1>7. CASE ModUp
  <2>1. /\ pc = "mod_up" /\ UNCHANGED <<secrets, key, mode, level, ciphertext, x>>
        /\ \/ mode = "switch" /\ pc' = "multiply" /\ UNCHANGED index
           \/ mode # "switch" /\ pc' = "decompose"
           \/ mode # "switch" /\ pc' = "multiply" /\ index' = 0
    BY <1>7 DEF ModUp
  <2>2. ProductCount' = ProductCount /\ pc' # "add_b"
    BY <2>1 DEF ProductCount
  <2> QED
    BY <1>3, <2>1, <2>2
<1>8. CASE ModUpSingle
  <2>1. /\ pc = "decompose" /\ pc' = "multiply"
        /\ UNCHANGED <<secrets, key, mode, level, ciphertext, index, x>>
        /\ mode = "switch"
    BY <1>8 DEF ModUpSingle
  <2>2. ProductCount' = ProductCount
    BY <2>1 DEF ProductCount
  <2> QED
    BY <1>3, <2>1, <2>2
<1>9. CASE MultiplyKeys
  <2>1. /\ pc = "multiply" /\ UNCHANGED <<secrets, key, mode, level, ciphertext>>
        /\ \/ /\ More /\ index' = index + 1
              /\ pc' = IF mode = "switch" THEN "decompose" ELSE "multiply"
           \/ /\ ~More /\ index' = 0
              /\ pc' = IF mode = "switch" THEN "mod_down" ELSE "add_b"
    BY <1>9 DEF MultiplyKeys
  <2>2. /\ index \in 0 .. get_partition_count(level) - 1
        /\ get_partition_count(level) \in Nat
    BY <2>1, PartitionCount DEF SwitchInv
  <2>3. ~More => index + 1 = get_partition_count(level)
    BY <2>2 DEF More
  <2>4. get_partition_count(level') = get_partition_count(level)
    BY <2>1
  <2>5. ProductCount' = index + 1
    BY <2>1, <2>3, <2>4 DEF ProductCount
  <2>6. SumDecrypts(x', ciphertext[2], level, key, secrets[1], secrets[2], index + 1)
    BY <1>9, OneMoreProduct
  <2>7. Sums(ProductCount')
    BY <2>1, <2>5, <2>6
  <2>8. secrets'[1] \in Secret /\ secrets'[2] \in Secret /\ (pc' = "add_b" => mode' # "switch")
    BY <2>1 DEF SumInv
  <2> QED
    BY <2>7, <2>8, Zenon DEF SumInv, ProductsDecrypt
<1>10. ASSUME pc # "key", UNCHANGED secrets, pc' # "add_b", ProductCount' = 0
       PROVE  SumInv'
  <2>1. secrets'[1] \in Secret /\ secrets'[2] \in Secret
    BY <1>10 DEF SumInv
  <2> QED
    BY <1>2, <1>10, <2>1
<1>11. CASE AddFirst
  <2>1. pc = "add_b" /\ pc' = "mod_down" /\ UNCHANGED <<secrets, mode>>
    BY <1>11 DEF AddFirst
  <2>2. ProductCount' = 0
    BY <2>1 DEF ProductCount, SumInv
  <2> QED
    BY <1>10, <2>1, <2>2
<1>12. CASE ToIntt
  <2>1. pc = "mod_down" /\ pc' = "special" /\ UNCHANGED secrets
    BY <1>12 DEF ToIntt
  <2>2. ProductCount' = 0
    BY <2>1 DEF ProductCount
  <2> QED
    BY <1>10, <2>1, <2>2
<1>13. CASE DivideSpecial
  <2>1. pc = "special" /\ pc' \in {"special", "unsigned"} /\ UNCHANGED secrets
    BY <1>13 DEF DivideSpecial
  <2>2. ProductCount' = 0
    BY <2>1 DEF ProductCount
  <2> QED
    BY <1>10, <2>1, <2>2
<1>14. CASE MakeUnsigned
  <2>1. pc = "unsigned" /\ pc' \in {"add", "done"} /\ UNCHANGED secrets
    BY <1>14 DEF MakeUnsigned
  <2>2. ProductCount' = 0
    BY <2>1 DEF ProductCount
  <2> QED
    BY <1>10, <2>1, <2>2
<1>15. CASE AddToFirst
  <2>1. pc = "add" /\ pc' = "done" /\ UNCHANGED secrets
    BY <1>15 DEF AddToFirst
  <2>2. ProductCount' = 0
    BY <2>1 DEF ProductCount
  <2> QED
    BY <1>10, <2>1, <2>2
<1>16. CASE Return
  <2>1. pc = "done" /\ pc' = "start" /\ UNCHANGED secrets
    BY <1>16 DEF Return
  <2>2. ProductCount' = 0
    BY <2>1 DEF ProductCount
  <2> QED
    BY <1>10, <2>1, <2>2
<1>17. CASE SwitchNext
  BY <1>4, <1>5, <1>6, <1>7, <1>8, <1>9, <1>11, <1>12, <1>13, <1>14, <1>15, <1>16, <1>17, Zenon
     DEF SwitchNext
<1> QED
  BY <1>1, <1>17

(***************************************************************************)
(* Both ways to switch a key, one product at a time in the order of their  *)
(* loops: what the second secret decrypts from the sums is, at each prime  *)
(* and root, the sum of the lifted partitions, each times what its own     *)
(* part of the key decrypts to.  Lazy reduction, negative lifts and the    *)
(* wrap-around of the words lose nothing, as long as the values keep the   *)
(* ranges that the runs check.                                             *)
(***************************************************************************)
THEOREM ProductsAlwaysDecrypt == SwitchSpec /\ []SwitchTypeOK => []ProductsDecrypt
<1>1. SwitchInit => SwitchInv /\ LiftInv /\ KeyInv /\ KeyDecrypts /\ SumInv
  BY InitInv, InitLifts, InitKey, InitSums DEF SwitchInit, KeyDecrypts
<1>2. SwitchInv /\ [SwitchNext]_switchVars => SwitchInv'
  BY NextInv
<1>3. SwitchInv /\ LiftInv /\ [SwitchNext]_switchVars => LiftInv'
  BY NextLifts
<1>4. KeyInv /\ [SwitchNext]_switchVars => KeyInv'
  BY NextKey
<1>5. KeyDecrypts /\ [SwitchNext]_switchVars => KeyDecrypts'
  BY NextKeyDecrypts
<1>6. SwitchInv /\ LiftInv /\ KeyInv /\ KeyDecrypts /\ SwitchTypeOK /\ SumInv
        /\ [SwitchNext]_switchVars => SumInv'
  BY NextSums
<1>7. SumInv => ProductsDecrypt
  BY DEF SumInv
<1> QED
  BY <1>1, <1>2, <1>3, <1>4, <1>5, <1>6, <1>7, PTL DEF SwitchSpec

-----------------------------------------------------------------------------
(***************************************************************************)
(* mod_down: the special primes are divided out, the last one first.  One  *)
(* coefficient of all chains: what it is before and after a division.      *)
(***************************************************************************)
InDivided(v, q) == v \in 1 - q .. 2 * q - 1

Divides(before, after, m, last) ==
    \A chain \in 0 .. last - 1 :
      after[chain] = mont_sub_enter(before[chain], before[last],
                       p_inverse_mult_r(m, last, chain), get_modulus(m, chain),
                       Parameter(m, chain).k)

LEMMA OneDivision ==
    ASSUME NEW m \in ModuliIds,
           NEW last \in get_chain_count(m) .. get_prime_count(m) - 1,
           NEW before, NEW after, Divides(before, after, m, last),
           \A chain \in 0 .. last : InDivided(before[chain], get_modulus(m, chain))
    PROVE  LET p == get_modulus(m, last)
           IN  \A chain \in 0 .. last - 1 :
                 LET q == get_modulus(m, chain)
                 IN  /\ InDivided(after[chain], q)
                     /\ Cong(before[last] + after[chain] * p, before[chain], q)
<1> DEFINE p == get_modulus(m, last)
           s == before[last]
<1>0. get_chain_count(m) \in Nat \ {0} /\ get_prime_count(m) \in Nat
  BY Counts
<1>1. last \in Primes(m) /\ last \in Nat /\ p \in Nat \ {0, 1} /\ 4 * p < R /\ R \in Nat
  <2>1. last \in Primes(m) /\ last \in Nat
    BY <1>0 DEF Primes
  <2> QED
    BY <2>1, PrimeFacts, RAssumption
<1>2. InDivided(s, p)
  <2>1. last \in 0 .. last
    BY <1>1
  <2> QED
    BY <2>1
<1> HIDE DEF p, s
<1>3. s \in Int /\ - R =< 2 * s /\ 2 * s < R
  BY <1>1, <1>2 DEF InDivided
<1>4. ASSUME NEW chain \in 0 .. last - 1
      PROVE  LET q == get_modulus(m, chain)
             IN  /\ InDivided(after[chain], q)
                 /\ Cong(s + after[chain] * p, before[chain], q)
  <2> DEFINE q == get_modulus(m, chain)
             k == Parameter(m, chain).k
             r == before[chain]
             d == after[chain]
  <2>1. chain \in Primes(m) /\ chain # last /\ chain \in 0 .. last
    BY <1>0, <1>1 DEF Primes
  <2>2. q \in Nat \ {0, 1} /\ Valid(q, k) /\ Coprime(R, q) /\ Coprime(p, q)
    BY <1>1, <2>1, PrimeFacts DEF p
  <2>3. r \in 1 - q .. 2 * q - 1
    BY <2>1 DEF InDivided
  <2>4. d = mont_sub_enter(r, s, modulus_multiply(modulus_invert(p % q, q), R, q), q, k)
    BY Zenon DEF Divides, p_inverse_mult_r, p, s
  <2> HIDE DEF q, k, r, d
  <2>5. p \in Int
    BY <1>1
  <2>6. /\ d \in Int /\ - q =< 2 * d /\ d < 2 * q
        /\ Cong(s + d * p, r, q)
    BY <1>3, <2>2, <2>3, <2>4, <2>5, Quotient
  <2>7. d \in 1 - q .. 2 * q - 1
    BY <2>2, <2>6
  <2> QED
    BY <2>6, <2>7 DEF q, r, d, InDivided
<1> QED
  BY <1>4 DEF p, s

(* After n divisions: b is the product of the divisors, w what has been    *)
(* subtracted to make the values divisible, the same in all chains.        *)
DividedBy(first, now, m, n, b, w) ==
    /\ 1 - b =< w /\ w =< 3 * b - 3
    /\ \A chain \in 0 .. get_prime_count(m) - 1 - n :
         LET q == get_modulus(m, chain)
         IN  /\ InDivided(now[chain], q)
             /\ Cong(b * now[chain], first[chain] - w, q)
    /\ \A chain \in get_prime_count(m) - n .. get_prime_count(m) - 1 :
         LET q == get_modulus(m, chain)
         IN  Cong(w, first[chain], q) /\ Cong(b, 0, q)

(* The arithmetic of one more division, in a chain that stays.             *)
LEMMA StaysDivided ==
    ASSUME NEW q \in Int, NEW b \in Int, NEW w \in Int, NEW p \in Int, NEW s \in Int,
           NEW d \in Int, NEW r \in Int, NEW x0 \in Int,
           Cong(s + d * p, r, q), Cong(b * r, x0 - w, q)
    PROVE  Cong((b * p) * d, x0 - (w + b * s), q)
<1> DEFINE sd == s + d * p
           bs == b * s
           bsd == b * sd
           br == b * r
           v == x0 - w
           z == (b * p) * d
<1>1. sd \in Int /\ bs \in Int /\ bsd \in Int /\ br \in Int /\ v \in Int /\ z \in Int
  OBVIOUS
<1>2. bsd = bs + z
  <2>1. b * (s + d * p) = b * s + b * (d * p)
    OBVIOUS
  <2>2. b * (d * p) = (b * p) * d
    OBVIOUS
  <2> QED
    BY <2>1, <2>2
<1>3. Cong(sd, r, q) /\ Cong(br, v, q)
  OBVIOUS
<1> HIDE DEF sd
<1>4. Cong(bsd, br, q)
  BY <1>1, <1>3, CongProduct
<1> HIDE DEF bs, bsd, br, v, z
<1>5. Cong(bsd, v, q)
  BY <1>1, <1>3, <1>4, CongTransitive
<1>6. Cong(bs, bs, q)
  BY <1>1, CongRules
<1>7. Cong(bsd - bs, v - bs, q)
  BY <1>1, <1>5, <1>6, CongSum
<1>8. bsd - bs = z /\ v - bs = x0 - (w + bs)
  BY <1>1, <1>2 DEF v
<1>9. Cong(z, x0 - (w + bs), q)
  BY <1>7, <1>8
<1> QED
  BY <1>9 DEF z, bs

(* In the chain that is divided out, and in those that were before.        *)
LEMMA DividedOut ==
    ASSUME NEW q \in Int, NEW b \in Int, NEW w \in Int, NEW s \in Int, NEW x0 \in Int
    PROVE  /\ Cong(b * s, x0 - w, q) => Cong(w + b * s, x0, q)
           /\ Cong(w, x0, q) /\ Cong(b, 0, q) => Cong(w + b * s, x0, q)
<1> DEFINE bs == b * s
           sum == w + bs
<1>1. bs \in Int /\ sum \in Int
  OBVIOUS
<1>2. ASSUME Cong(bs, x0 - w, q)
      PROVE  Cong(sum, x0, q)
  <2> HIDE DEF bs
  <2>1. PICK e \in Int : bs = (x0 - w) + q * e
    BY <1>2 DEF Cong
  <2>2. q * e \in Int
    BY <2>1
  <2>3. sum = x0 + q * e
    BY <2>1, <2>2
  <2> QED
    BY <2>1, <2>3 DEF Cong
<1>3. ASSUME Cong(w, x0, q), Cong(b, 0, q)
      PROVE  Cong(sum, x0, q)
  <2>1. PICK e \in Int : w = x0 + q * e
    BY <1>3 DEF Cong
  <2>2. PICK h \in Int : b = 0 + q * h
    BY <1>3 DEF Cong
  <2>3. q * e \in Int /\ q * h \in Int /\ q * (h * s) \in Int /\ e + h * s \in Int
    BY <2>1, <2>2
  <2>4. bs = q * (h * s)
    <3>1. (q * h) * s = q * (h * s)
      BY <2>2
    <3>2. b = q * h
      BY <2>2, <2>3
    <3> QED
      BY <3>1, <3>2
  <2> DEFINE hs == h * s
  <2>5. q * (e + hs) = q * e + q * hs /\ hs \in Int /\ e + hs \in Int
    BY <2>1, <2>2
  <2> HIDE DEF bs, hs
  <2>6. sum = x0 + q * (e + hs)
    BY <2>1, <2>3, <2>4, <2>5 DEF hs
  <2> QED
    BY <2>5, <2>6 DEF Cong
<1> QED
  BY <1>2, <1>3

LEMMA SubtrahendBounds ==
    ASSUME NEW b \in Nat \ {0}, NEW p \in Nat \ {0, 1}, NEW s, InDivided(s, p),
           NEW w \in Int, 1 - b =< w, w =< 3 * b - 3
    PROVE  /\ b * p \in Nat \ {0} /\ w + b * s \in Int
           /\ 1 - b * p =< w + b * s /\ w + b * s =< 3 * (b * p) - 3
<1>1. s \in Int /\ 1 - p =< s /\ s =< 2 * p - 1
  BY DEF InDivided
<1> DEFINE bs == b * s
           bp == b * p
<1>2. (1 - p) * b =< bs /\ bs =< (2 * p - 1) * b
  <2>1. 1 - p \in Int /\ 2 * p - 1 \in Int /\ b \in Nat
    OBVIOUS
  <2>2. (1 - p) * b =< s * b /\ s * b =< (2 * p - 1) * b
    BY <1>1, <2>1, Monotone
  <2>3. s * b = bs
    BY <1>1
  <2> QED
    BY <2>2, <2>3
<1>3. (1 - p) * b = b - bp /\ (2 * p - 1) * b = 2 * bp - b
  OBVIOUS
<1>4. 2 * b =< bp /\ bp \in Nat \ {0}
  <2>1. 2 * b =< p * b
    BY Monotone
  <2>2. p * b = bp /\ bp \in Int
    OBVIOUS
  <2> HIDE DEF bp
  <2> QED
    BY <2>1, <2>2
<1>5. bs \in Int
  BY <1>1
<1> HIDE DEF bs, bp
<1>6. w + bs \in Int /\ 1 - bp =< w + bs /\ w + bs =< 3 * bp - 3
  BY <1>2, <1>3, <1>4, <1>5
<1> QED
  BY <1>4, <1>6 DEF bs, bp

LEMMA OneMoreDivision ==
    ASSUME NEW m \in ModuliIds, NEW n \in 0 .. SpecialPrimeCount - 1,
           NEW first, NEW now, NEW next, Divides(now, next, m, get_prime_count(m) - 1 - n),
           \A chain \in Primes(m) : InDivided(first[chain], get_modulus(m, chain)),
           NEW b \in Nat \ {0}, NEW w \in Int, DividedBy(first, now, m, n, b, w)
    PROVE  LET last == get_prime_count(m) - 1 - n
               p == get_modulus(m, last)
               s == now[last]
           IN  /\ b * p \in Nat \ {0} /\ w + b * s \in Int
               /\ DividedBy(first, next, m, n + 1, b * p, w + b * s)
<1> DEFINE count == get_prime_count(m)
           last == count - 1 - n
           p == get_modulus(m, last)
           s == now[last]
           bp == b * p
           sum == w + b * s
<1>1. /\ SpecialPrimeCount \in Nat /\ get_chain_count(m) \in Nat \ {0}
      /\ count = get_chain_count(m) + SpecialPrimeCount /\ n \in Nat /\ count \in Nat
  BY Counts
<1>2. /\ last \in get_chain_count(m) .. count - 1 /\ last \in Nat
      /\ last \in 0 .. count - 1 - n
      /\ count - 1 - (n + 1) = last - 1 /\ count - (n + 1) = last /\ count - n = last + 1
      /\ Primes(m) = 0 .. count - 1
  BY <1>1 DEF Primes
<1> HIDE DEF count
<1>3. last \in Int /\ 0 =< last /\ last =< count - 1 /\ count \in Int
  BY <1>1, <1>2
<1>4. \A chain \in Primes(m) : get_modulus(m, chain) \in Nat \ {0, 1}
  BY PrimeFacts
<1>5. p \in Nat \ {0, 1} /\ p \in Int
  <2>1. last \in Primes(m)
    BY <1>1, <1>2
  <2> HIDE DEF last
  <2> QED
    BY <1>4, <2>1
<1>6. /\ \A chain \in 0 .. last :
           LET q == get_modulus(m, chain)
           IN  InDivided(now[chain], q) /\ Cong(b * now[chain], first[chain] - w, q)
      /\ \A chain \in last + 1 .. count - 1 :
           LET q == get_modulus(m, chain)
           IN  Cong(w, first[chain], q) /\ Cong(b, 0, q)
      /\ 1 - b =< w /\ w =< 3 * b - 3
  BY <1>2, Zenon DEF DividedBy, count
<1>7. InDivided(s, p) /\ s \in Int
  <2>1. InDivided(s, p)
    BY <1>2, <1>6
  <2> HIDE DEF s, p
  <2> QED
    BY <1>5, <2>1 DEF InDivided
<1>8. /\ bp \in Nat \ {0} /\ sum \in Int
      /\ 1 - bp =< sum /\ sum =< 3 * bp - 3
  <2> HIDE DEF s, p
  <2> QED
    BY <1>5, <1>6, <1>7, SubtrahendBounds
<1>9. \A chain \in 0 .. last - 1 :
        LET q == get_modulus(m, chain)
        IN  InDivided(next[chain], q) /\ Cong(s + next[chain] * p, now[chain], q)
  <2>1. Divides(now, next, m, last)
    BY DEF count
  <2>2. \A chain \in 0 .. last : InDivided(now[chain], get_modulus(m, chain))
    BY <1>6
  <2>3. last \in get_chain_count(m) .. get_prime_count(m) - 1
    BY <1>2 DEF count
  <2> HIDE DEF last
  <2> QED
    BY <2>1, <2>2, <2>3, OneDivision DEF s, p
<1>10. ASSUME NEW chain \in 0 .. count - 1
      PROVE  get_modulus(m, chain) \in Int /\ first[chain] \in Int
  <2> DEFINE q == get_modulus(m, chain)
             x0 == first[chain]
  <2>1. q \in Nat \ {0, 1} /\ InDivided(x0, q)
    BY <1>2, <1>4
  <2> HIDE DEF q, x0
  <2>2. q \in Int /\ x0 \in Int
    BY <2>1 DEF InDivided
  <2> QED
    BY <2>2 DEF q, x0
<1> HIDE DEF p, s
<1>11. ASSUME NEW chain \in 0 .. last - 1
       PROVE  LET q == get_modulus(m, chain)
              IN  InDivided(next[chain], q) /\ Cong(bp * next[chain], first[chain] - sum, q)
  <2> DEFINE q == get_modulus(m, chain)
             x0 == first[chain]
             r == now[chain]
             d == next[chain]
  <2>1. chain \in 0 .. last /\ chain \in 0 .. count - 1
    <3> HIDE DEF last
    <3> QED
      BY <1>3
  <2>2. /\ InDivided(r, q) /\ Cong(b * r, x0 - w, q)
        /\ InDivided(d, q) /\ Cong(s + d * p, r, q)
        /\ q \in Int /\ x0 \in Int
    <3>1. InDivided(r, q) /\ Cong(b * r, x0 - w, q)
      BY <1>6, <2>1
    <3>2. InDivided(d, q) /\ Cong(s + d * p, r, q)
      BY <1>9
    <3>3. q \in Int /\ x0 \in Int
      BY <1>10, <2>1
    <3> QED
      BY <3>1, <3>2, <3>3
  <2> HIDE DEF q, x0, r, d
  <2>3. r \in Int /\ d \in Int /\ b \in Int
    BY <2>2 DEF InDivided
  <2>4. Cong((b * p) * d, x0 - (w + b * s), q)
    BY <1>5, <1>7, <2>2, <2>3, StaysDivided
  <2> QED
    BY <2>2, <2>4 DEF q, x0, d
<1>12. ASSUME NEW chain \in last .. count - 1
       PROVE  LET q == get_modulus(m, chain)
              IN  Cong(sum, first[chain], q) /\ Cong(bp, 0, q)
  <2> DEFINE q == get_modulus(m, chain)
             x0 == first[chain]
  <2>1. chain \in 0 .. count - 1
    <3> HIDE DEF last
    <3> QED
      BY <1>3
  <2>2. q \in Int /\ x0 \in Int /\ b \in Int
    BY <1>10, <2>1
  <2>3. CASE chain = last
    <3>1. Cong(b * s, x0 - w, q) /\ q = p
      BY <1>2, <1>6, <2>3 DEF s, p
    <3> HIDE DEF q, x0
    <3>2. Cong(w + b * s, x0, q)
      BY <1>7, <2>2, <3>1, DividedOut
    <3>3. bp = 0 + p * b /\ b \in Int
      BY <1>5
    <3> HIDE DEF bp
    <3>4. Cong(bp, 0, q)
      BY <3>1, <3>3 DEF Cong
    <3> QED
      BY <3>2, <3>4 DEF q, x0
  <2>4. CASE chain # last
    <3>1. chain \in last + 1 .. count - 1
      <4> HIDE DEF last
      <4> QED
        BY <1>3, <2>4
    <3>2. Cong(w, x0, q) /\ Cong(b, 0, q)
      BY <1>6, <3>1
    <3> HIDE DEF q, x0
    <3>3. Cong(w + b * s, x0, q)
      BY <1>7, <2>2, <3>2, DividedOut
    <3>4. Cong(bp, 0, q)
      <4> DEFINE zero == 0
      <4>1. zero \in Int /\ Cong(b, zero, q) /\ zero * p = zero
        BY <1>5, <3>2
      <4> HIDE DEF zero
      <4>2. Cong(b * p, zero * p, q)
        BY <1>5, <2>2, <4>1, CongProduct
      <4> QED
        BY <4>1, <4>2 DEF zero
    <3> QED
      BY <3>3, <3>4 DEF q, x0
  <2> QED
    BY <2>3, <2>4
<1> HIDE DEF last, bp, sum
<1>13. DividedBy(first, next, m, n + 1, bp, sum)
  <2>1. get_prime_count(m) - 1 - (n + 1) = last - 1 /\ get_prime_count(m) - (n + 1) = last
        /\ get_prime_count(m) = count
    BY <1>2 DEF count
  <2> QED
    BY <1>8, <1>11, <1>12, <2>1, Zenon DEF DividedBy
<1> QED
  BY <1>8, <1>13 DEF bp, sum, last, p, s, count

(* What is left to divide by: the products of the first special primes.    *)
SpecialProducts == CHOOSE g : ProductsTo(g, SpecialPrimes, 0, SpecialPrimeCount)

LEMMA SpecialProductsFound ==
    ASSUME NEW m \in ModuliIds
    PROVE  /\ SpecialProducts[0] = 1 /\ SpecialProducts[SpecialPrimeCount] = SpecialProduct
           /\ \A n \in 0 .. SpecialPrimeCount : SpecialProducts[n] \in Int
           /\ \A n \in 1 .. SpecialPrimeCount :
                LET p == get_modulus(m, get_chain_count(m) + n - 1)
                IN  p \in Nat /\ SpecialProducts[n] = SpecialProducts[n - 1] * p
<1> DEFINE S == SpecialPrimeCount
<1>1. S \in Nat
  BY Counts
<1>2. \A n \in 1 .. S :
        /\ get_modulus(m, get_chain_count(m) + n - 1) \in Nat
        /\ get_modulus(m, get_chain_count(m) + n - 1) = get_modulus(0, SpecialPrimes.start + n - 1)
  BY SpecialModuli
<1>3. IntegerModuli(SpecialPrimes, 0, S)
  <2>1. \A n \in 1 .. S : get_modulus(0, SpecialPrimes.start + n - 1) \in Nat
    BY <1>2, Zenon
  <2>2. \A n : n \in Nat => n \in Int
    OBVIOUS
  <2> QED
    BY <2>1, <2>2, Zenon DEF IntegerModuli
<1>4. ProductsTo(SpecialProducts, SpecialPrimes, 0, S)
  <2>1. \E g : ProductsTo(g, SpecialPrimes, 0, S)
    <3> HIDE DEF S
    <3> QED
      BY <1>1, <1>3, ProductUnfold, Zenon
  <2> QED
    BY <2>1, Zenon DEF SpecialProducts
<1>5. /\ SpecialProducts \in [0 .. S -> Int] /\ SpecialProducts[0] = 1
      /\ SpecialProducts[S] = SpecialProduct
      /\ \A n \in 1 .. S : SpecialProducts[n]
           = SpecialProducts[n - 1] * get_modulus(0, SpecialPrimes.start + n - 1)
  BY <1>4, Zenon DEF ProductsTo, SpecialProduct
<1> QED
  BY <1>2, <1>5

-----------------------------------------------------------------------------
(***************************************************************************)
(* The polynomials as they are before the first division, remembered.      *)
(***************************************************************************)
VARIABLE undivided

Remember == undivided' = IF ToIntt THEN x' ELSE undivided

Remembering == [][Remember]_<<undivided, switchVars>>

Column(polys, n, i) == [chain \in Primes(level) |-> polys[n][chain][i]]

Rounding(count) ==
    \A n \in 1 .. 2, i \in Coeff :
      /\ \A chain \in Primes(level) :
           InDivided(Column(undivided, n, i)[chain], get_modulus(level, chain))
      /\ \E b \in Nat \ {0}, w \in Int :
           /\ b * SpecialProducts[SpecialPrimeCount - count] = SpecialProduct
           /\ DividedBy(Column(undivided, n, i), Column(x, n, i), level, count, b, w)

RoundInv ==
    /\ pc \in {"add_b", "mod_down"} => index = 0
    /\ pc = "special" => index \in 0 .. SpecialPrimeCount - 1 /\ Rounding(index)
    /\ pc = "unsigned" => Rounding(SpecialPrimeCount)

DivisionsRound ==
    pc = "unsigned" =>
      \A n \in 1 .. 2, i \in Coeff :
        \E w \in 1 - SpecialProduct .. 3 * SpecialProduct - 3 :
          \A chain \in Primes(level) :
            LET q == get_modulus(level, chain)
                before == undivided[n][chain][i]
            IN  IF chain \in TextChains(level)
                  THEN Cong(SpecialProduct * x[n][chain][i], before - w, q)
                  ELSE Cong(w, before, q)

LEMMA InvRounds == SwitchTypeOK /\ RoundInv => DivisionsRound
<1> SUFFICES ASSUME SwitchTypeOK, RoundInv, pc = "unsigned", NEW n \in 1 .. 2, NEW i \in Coeff
             PROVE  \E w \in 1 - SpecialProduct .. 3 * SpecialProduct - 3 :
                      \A chain \in Primes(level) :
                        LET q == get_modulus(level, chain)
                            before == undivided[n][chain][i]
                        IN  IF chain \in TextChains(level)
                              THEN Cong(SpecialProduct * x[n][chain][i], before - w, q)
                              ELSE Cong(w, before, q)
  BY Zenon DEF DivisionsRound
<1> DEFINE S == SpecialPrimeCount
           P == SpecialProduct
           count == get_prime_count(level)
           f == Column(undivided, n, i)
           g == Column(x, n, i)
<1>1. level \in ModuliIds
  BY DEF SwitchTypeOK, ModuliIds
<1>2. PICK b \in Nat \ {0}, w \in Int :
        b * SpecialProducts[S - S] = P /\ DividedBy(f, g, level, S, b, w)
  BY DEF RoundInv, Rounding
<1>3. /\ S \in Nat \ {0} /\ get_chain_count(level) \in Nat \ {0}
      /\ count = get_chain_count(level) + S
  BY <1>1, Counts
<1>4. b = P
  <2>1. S - S = 0 /\ SpecialProducts[0] = 1
    BY <1>1, <1>3, SpecialProductsFound
  <2> HIDE DEF P, S
  <2>2. b * 1 = P
    BY <1>2, <2>1
  <2> QED
    BY <2>2
<1> HIDE DEF P, f, g
<1>5. /\ 1 - P =< w /\ w =< 3 * P - 3
      /\ \A chain \in 0 .. count - 1 - S :
           Cong(P * g[chain], f[chain] - w, get_modulus(level, chain))
      /\ \A chain \in count - S .. count - 1 : Cong(w, f[chain], get_modulus(level, chain))
  BY <1>2, <1>4, Zenon DEF DividedBy
<1>6. w \in 1 - P .. 3 * P - 3
  BY <1>4, <1>5
<1>7. ASSUME NEW chain \in Primes(level)
      PROVE  IF chain \in TextChains(level)
               THEN Cong(P * x[n][chain][i], undivided[n][chain][i] - w, get_modulus(level, chain))
               ELSE Cong(w, undivided[n][chain][i], get_modulus(level, chain))
  <2>1. f[chain] = undivided[n][chain][i] /\ g[chain] = x[n][chain][i]
    BY Zenon DEF Column, f, g
  <2>2. /\ chain \in TextChains(level) => chain \in 0 .. count - 1 - S
        /\ chain \notin TextChains(level) => chain \in count - S .. count - 1
    BY <1>3 DEF TextChains, Primes
  <2> QED
    BY <1>5, <2>1, <2>2, Zenon
<1> QED
  BY <1>6, <1>7, Zenon DEF P

LEMMA StartsUndivided ==
    ASSUME SwitchTypeOK, SwitchTypeOK', RoundInv, ToIntt, Remember
    PROVE  RoundInv'
<1>1. /\ pc = "mod_down" /\ pc' = "special" /\ index' = index /\ level' = level
      /\ undivided' = x'
  BY DEF ToIntt, Remember
<1>2. index' = 0 /\ level \in ModuliIds
  BY <1>1 DEF RoundInv, SwitchTypeOK, ModuliIds
<1> DEFINE S == SpecialPrimeCount
           count == get_prime_count(level)
<1>3. S \in Nat \ {0} /\ count \in Nat
  BY <1>2, Counts
<1>4. ASSUME NEW n \in 1 .. 2, NEW i \in Coeff
      PROVE  /\ \A chain \in Primes(level) :
                  InDivided(Column(undivided, n, i)'[chain], get_modulus(level, chain))
             /\ \E b \in Nat \ {0}, w \in Int :
                  /\ b * SpecialProducts[S - 0] = SpecialProduct
                  /\ DividedBy(Column(undivided, n, i)', Column(x, n, i)', level, 0, b, w)
  <2> DEFINE f == Column(x, n, i)'
  <2>1. Column(undivided, n, i)' = f
    BY <1>1 DEF Column
  <2>2. f = [chain \in Primes(level) |-> x'[n][chain][i]]
    BY <1>1 DEF Column
  <2> HIDE DEF f
  <2>3. ASSUME NEW chain \in Primes(level)
        PROVE  LET q == get_modulus(level, chain)
               IN  InDivided(f[chain], q) /\ Cong(1 * f[chain], f[chain] - 0, q)
    <3> DEFINE q == get_modulus(level, chain)
               v == f[chain]
    <3>1. n \in DOMAIN x' /\ chain \in DOMAIN x'[n]
      BY DEF ToIntt
    <3>2. x'[n][chain] \in Divided(q)
      BY <1>1, <3>1, Zenon DEF SwitchTypeOK
    <3>3. v \in 1 - q .. 2 * q - 1 /\ q \in Nat \ {0, 1}
      BY <1>2, <2>2, <3>2, PrimeFacts DEF Divided
    <3> HIDE DEF q, v
    <3>4. v \in Int /\ q \in Int /\ 1 * v = v /\ v - 0 = v
      BY <3>3
    <3>5. Cong(1 * v, v - 0, q)
      BY <3>4, CongRules
    <3> QED
      BY <3>3, <3>5 DEF q, v, InDivided
  <2>4. Primes(level) = 0 .. count - 1 - 0 /\ count - 0 .. count - 1 = {}
        /\ 1 - 1 =< 0 /\ 0 =< 3 * 1 - 3
    BY <1>3 DEF Primes
  <2>5. DividedBy(f, f, level, 0, 1, 0)
    BY <2>3, <2>4, Zenon DEF DividedBy
  <2>6. 1 * SpecialProducts[S - 0] = SpecialProduct
    <3>1. S - 0 = S /\ SpecialProducts[S] = SpecialProduct /\ SpecialProducts[S] \in Int
      <4>1. S \in 0 .. S
        BY <1>3
      <4> QED
        BY <1>2, <1>3, <4>1, SpecialProductsFound
    <3> HIDE DEF S
    <3> QED
      BY <3>1
  <2>7. 1 \in Nat \ {0} /\ 0 \in Int
    OBVIOUS
  <2> QED
    BY <2>1, <2>3, <2>5, <2>6, <2>7, Zenon DEF f
<1>5. Rounding(index)'
  BY <1>1, <1>2, <1>4 DEF Rounding
<1>6. index' \in 0 .. SpecialPrimeCount - 1
  BY <1>2, <1>3
<1> QED
  BY <1>1, <1>5, <1>6 DEF RoundInv

LEMMA DividesOnce ==
    ASSUME SwitchTypeOK, RoundInv, DivideSpecial, Remember, NEW CONSTANT done, done = index + 1
    PROVE  index \in 0 .. SpecialPrimeCount - 1 /\ Rounding(done)'
<1> DEFINE S == SpecialPrimeCount
           count == get_prime_count(level)
           last == count - 1 - index
           p == get_modulus(level, last)
<1>1. /\ pc = "special" /\ pc' \in {"special", "unsigned"} /\ level' = level
      /\ x' = [n \in 1 .. 2 |-> [chain \in 0 .. last - 1 |-> [i \in Coeff |->
                 mont_sub_enter(x[n][chain][i], x[n][last][i], p_inverse_mult_r(level, last, chain),
                   Parameter(level, chain).q, Parameter(level, chain).k)]]]
  BY DEF DivideSpecial
<1>2. index \in 0 .. S - 1 /\ Rounding(index) /\ level \in ModuliIds
  BY <1>1 DEF RoundInv, SwitchTypeOK, ModuliIds
<1>3. undivided' = undivided
  <2>1. ~ToIntt
    BY <1>1 DEF ToIntt
  <2> QED
    BY <2>1 DEF Remember
<1>4. /\ S \in Nat \ {0} /\ get_chain_count(level) \in Nat \ {0}
      /\ count = get_chain_count(level) + S
  BY <1>2, Counts
<1>5. /\ last \in Primes(level) /\ last \in Nat
      /\ S - index \in 1 .. S /\ (S - index) - 1 = S - (index + 1)
      /\ S - (index + 1) \in 0 .. S
      /\ get_chain_count(level) + (S - index) - 1 = last
      /\ \A chain \in 0 .. last - 1 : chain \in Primes(level)
  BY <1>2, <1>4 DEF Primes
<1>6. ASSUME NEW n \in 1 .. 2, NEW i \in Coeff
      PROVE  /\ \A chain \in Primes(level) :
                  InDivided(Column(undivided, n, i)'[chain], get_modulus(level, chain))
             /\ \E b \in Nat \ {0}, w \in Int :
                  /\ b * SpecialProducts[S - (index + 1)] = SpecialProduct
                  /\ DividedBy(Column(undivided, n, i)', Column(x, n, i)', level, index + 1, b, w)
  <2> DEFINE f == Column(undivided, n, i)
             g == Column(x, n, i)
             h == Column(x, n, i)'
             s == g[last]
  <2>1. PICK b \in Nat \ {0}, w \in Int :
          b * SpecialProducts[S - index] = SpecialProduct /\ DividedBy(f, g, level, index, b, w)
    BY <1>2 DEF Rounding
  <2>2. Column(undivided, n, i)' = f
    BY <1>1, <1>3 DEF Column
  <2>3. Divides(g, h, level, last)
    <3>1. ASSUME NEW chain \in 0 .. last - 1
          PROVE  h[chain] = mont_sub_enter(g[chain], g[last], p_inverse_mult_r(level, last, chain),
                              get_modulus(level, chain), Parameter(level, chain).k)
      <4>1. chain \in Primes(level) /\ last \in Primes(level)
        BY <1>5
      <4>2. g[chain] = x[n][chain][i] /\ g[last] = x[n][last][i]
        BY <4>1, Zenon DEF Column
      <4>3. h[chain] = x'[n][chain][i]
        BY <1>1, <4>1, Zenon DEF Column
      <4>4. Parameter(level, chain).q = get_modulus(level, chain)
        BY <1>2, <4>1, TransformedParameter
      <4> HIDE DEF g, h, last
      <4> QED
        BY <1>1, <4>2, <4>3, <4>4
    <3> QED
      BY <3>1, Zenon DEF Divides
  <2>4. \A chain \in Primes(level) : InDivided(f[chain], get_modulus(level, chain))
    BY <1>2 DEF Rounding
  <2>5. /\ b * p \in Nat \ {0} /\ w + b * s \in Int
        /\ DividedBy(f, h, level, index + 1, b * p, w + b * s)
    <3> HIDE DEF f, g, h
    <3>1. /\ index \in 0 .. SpecialPrimeCount - 1
          /\ Divides(g, h, level, get_prime_count(level) - 1 - index)
      BY <1>2, <2>3
    <3> QED
      BY <1>2, <2>1, <2>4, <3>1, OneMoreDivision, Zenon
  <2>6. (b * p) * SpecialProducts[S - (index + 1)] = SpecialProduct
    <3> DEFINE j == S - index
               e == SpecialProducts[S - (index + 1)]
    <3>1. SpecialProducts[j] = SpecialProducts[j - 1] * p /\ p \in Nat
      BY <1>2, <1>5, SpecialProductsFound
    <3>2. j - 1 = S - (index + 1) /\ e \in Int
      BY <1>2, <1>5, SpecialProductsFound
    <3>3. SpecialProducts[j] = e * p /\ p \in Int /\ b \in Int
      BY <3>1, <3>2
    <3>4. b * SpecialProducts[j] = SpecialProduct
      BY <2>1
    <3> HIDE DEF e, j, p
    <3>5. (b * p) * e = b * (e * p)
      BY <3>2, <3>3
    <3> QED
      BY <3>3, <3>4, <3>5 DEF e
  <2> HIDE DEF f, g, h, s, p
  <2> QED
    BY <2>2, <2>4, <2>5, <2>6, Zenon DEF h
<1> HIDE DEF S
<1>7. ASSUME NEW n \in 1 .. 2, NEW i \in Coeff
      PROVE  /\ \A chain \in Primes(level) :
                  InDivided(Column(undivided, n, i)'[chain], get_modulus(level, chain))
             /\ \E b \in Nat \ {0}, w \in Int :
                  /\ b * SpecialProducts[S - done] = SpecialProduct
                  /\ DividedBy(Column(undivided, n, i)', Column(x, n, i)', level, done, b, w)
  BY <1>6
<1>8. Rounding(done)'
  BY <1>1, <1>7 DEF Rounding, S
<1> QED
  BY <1>2, <1>8, Zenon DEF S

LEMMA DividesKeeps ==
    ASSUME SwitchTypeOK, RoundInv, DivideSpecial, Remember
    PROVE  RoundInv'
<1>1. \A done : done = index + 1 =>
        index \in 0 .. SpecialPrimeCount - 1 /\ Rounding(done)'
  BY DividesOnce
<1>2. SpecialPrimeCount \in Nat \ {0}
  BY Counts
<1>3. CASE index + 1 < SpecialPrimeCount
  <2>1. pc' = "special" /\ index' = index + 1
    BY <1>3 DEF DivideSpecial
  <2>2. index' \in 0 .. SpecialPrimeCount - 1
    BY <1>1, <1>2, <1>3, <2>1
  <2>3. Rounding(index)'
    BY <1>1, <2>1
  <2> QED
    BY <2>1, <2>2, <2>3, Zenon DEF RoundInv
<1>4. CASE ~(index + 1 < SpecialPrimeCount)
  <2>1. pc' = "unsigned"
    BY <1>4 DEF DivideSpecial
  <2>2. index + 1 = SpecialPrimeCount
    BY <1>1, <1>2, <1>4
  <2>3. Rounding(SpecialPrimeCount)'
    BY <1>1, <2>2
  <2> QED
    BY <2>1, <2>3, Zenon DEF RoundInv
<1> QED
  BY <1>3, <1>4

LEMMA NextRounds ==
    RoundInv /\ SwitchTypeOK /\ SwitchTypeOK' /\ [SwitchNext]_switchVars
      /\ [Remember]_<<undivided, switchVars>> => RoundInv'
<1> SUFFICES ASSUME RoundInv, SwitchTypeOK, SwitchTypeOK', [SwitchNext]_switchVars,
                    [Remember]_<<undivided, switchVars>>
             PROVE  RoundInv'
  OBVIOUS
<1>1. CASE UNCHANGED switchVars
  <2>1. UNCHANGED <<pc, level, index, x>>
    BY <1>1 DEF switchVars
  <2>2. undivided' = undivided
    <3>1. ~ToIntt
      BY <2>1 DEF ToIntt
    <3> QED
      BY <3>1 DEF Remember
  <2> QED
    BY <2>1, <2>2 DEF RoundInv, Rounding, Column
<1>2. ASSUME pc' \notin {"add_b", "mod_down", "special", "unsigned"}
      PROVE  RoundInv'
  BY <1>2 DEF RoundInv
<1>3. ASSUME pc' \in {"add_b", "mod_down"}, index' = 0
      PROVE  RoundInv'
  BY <1>3 DEF RoundInv
<1>4. ASSUME NEW from, NEW to, NEW m, NEW seed, NEW errors, CreateKey(from, to, m, seed, errors)
      PROVE  RoundInv'
  BY <1>2, <1>4 DEF CreateKey
<1>5. ASSUME NEW how, NEW m, NEW b, NEW a, NEW high, Start(how, m, b, a, high)
      PROVE  RoundInv'
  BY <1>2, <1>5 DEF Start
<1>6. CASE RnsToMrs
  BY <1>2, <1>6 DEF RnsToMrs
<1>7. CASE ModUp
  <2>1. pc' \in {"decompose", "multiply"}
    BY <1>7 DEF ModUp
  <2> QED
    BY <1>2, <2>1
<1>8. CASE ModUpSingle
  BY <1>2, <1>8 DEF ModUpSingle
<1>9. CASE MultiplyKeys
  <2>1. pc' \in {"decompose", "multiply"} \/ (pc' \in {"add_b", "mod_down"} /\ index' = 0)
    BY <1>9 DEF MultiplyKeys
  <2> QED
    BY <1>2, <1>3, <2>1
<1>10. CASE AddFirst
  <2>1. pc' = "mod_down" /\ index' = index /\ pc = "add_b"
    BY <1>10 DEF AddFirst
  <2> QED
    BY <1>3, <2>1 DEF RoundInv
<1>11. Remember \/ UNCHANGED switchVars
  OBVIOUS
<1>12. CASE ToIntt
  BY <1>1, <1>11, <1>12, StartsUndivided
<1>13. CASE DivideSpecial
  BY <1>1, <1>11, <1>13, DividesKeeps
<1>14. CASE MakeUnsigned
  <2>1. pc' \in {"add", "done"}
    BY <1>14 DEF MakeUnsigned
  <2> QED
    BY <1>2, <2>1
<1>15. CASE AddToFirst
  BY <1>2, <1>15 DEF AddToFirst
<1>16. CASE Return
  BY <1>2, <1>16 DEF Return
<1>17. CASE SwitchNext
  BY <1>4, <1>5, <1>6, <1>7, <1>8, <1>9, <1>10, <1>12, <1>13, <1>14, <1>15, <1>16, <1>17, Zenon
     DEF SwitchNext
<1> QED
  BY <1>1, <1>17

(***************************************************************************)
(* mod_down divides by the product P of the special primes, as long as the *)
(* values keep the ranges that the runs check.  Before MakeUnsigned there  *)
(* is, for every coefficient, one integer w between 1 - P and 3P - 3 that  *)
(* has the residues of the undivided value in the special primes, and each *)
(* chain that is left holds a residue of (value - w) / P: dividing by the  *)
(* primes one by one, last to first, each time with the unreduced residue  *)
(* of a larger prime subtracted, is one division that rounds by less than  *)
(* 3, the same in all chains.                                              *)
(***************************************************************************)
THEOREM DivisionsAlwaysRound ==
    SwitchSpec /\ []SwitchTypeOK /\ Remembering => []DivisionsRound
<1>1. SwitchInit => RoundInv
  BY DEF SwitchInit, RoundInv
<1>2. RoundInv /\ SwitchTypeOK /\ SwitchTypeOK' /\ [SwitchNext]_switchVars
        /\ [Remember]_<<undivided, switchVars>> => RoundInv'
  BY NextRounds
<1>3. SwitchTypeOK /\ RoundInv => DivisionsRound
  BY InvRounds
<1> QED
  BY <1>1, <1>2, <1>3, PTL DEF SwitchSpec, Remembering
=============================================================================
