------------------------------ MODULE RingText ------------------------------
(***************************************************************************)
(* What the arithmetic on leveled texts promises, for one coefficient of   *)
(* one polynomial: a text is an integer modulo the product of the moduli   *)
(* of its level.  Operations are those of the ring; rescaling divides by   *)
(* the first modulus of the level and rounds.                              *)
(***************************************************************************)
EXTENDS Levels

CONSTANTS
    Message,      \* integers that are encoded in fresh texts
    Scalar,       \* integers that texts are multiplied with
    Rounding      \* bound on the error of a rounded quotient

ModuliId == 0 .. ChainCount - 1

Reduce(v, m) == v % Modulus(m)

(* The quotients of v by the first modulus of level m, rounded somehow. *)
Rounded(v, m) ==
    LET quotient == v \div Moduli[m + 1]
    IN  {Reduce(quotient + error, m + 1) : error \in 1 - Rounding .. Rounding}

-----------------------------------------------------------------------------
VARIABLES
    moduli_id,    \* level of the text
    value         \* the integer it stands for

vars == <<moduli_id, value>>

Init ==
    /\ moduli_id \in ModuliId
    /\ \E message \in Message : value = Reduce(message, moduli_id)

(* Operands: the text itself, a fresh text or one that has been rescaled. *)
Operand ==
    LET fresh(m) == {Reduce(message, m) : message \in Message}
    IN  {value} \cup fresh(moduli_id) \cup
          (IF moduli_id = 0 THEN {}
           ELSE UNION {Rounded(v, moduli_id - 1) : v \in fresh(moduli_id - 1)})

Becomes(v) ==
    /\ value' = Reduce(v, moduli_id)
    /\ UNCHANGED moduli_id

Negate == Becomes(- value)

Add == \E v \in Operand : Becomes(value + v)

Subtract == \E v \in Operand : Becomes(value - v) \/ Becomes(v - value)

Multiply == \E c \in Scalar : Becomes(value * c)

Rescale ==
    /\ moduli_id + 1 \in ModuliId
    /\ value' \in Rounded(value, moduli_id)
    /\ moduli_id' = moduli_id + 1

LevelDown ==
    \E m \in moduli_id + 1 .. ChainCount - 1, c \in Scalar :
       /\ \E w \in Rounded(Reduce(value * c, moduli_id), moduli_id) :
            value' = Reduce(w, m)
       /\ moduli_id' = m

LevelDownAfterRescale ==
    \E m \in moduli_id .. ChainCount - 1, c \in Scalar :
       /\ value' = Reduce(value * c, m)
       /\ moduli_id' = m

Next ==
    \/ Negate \/ Add \/ Subtract \/ Multiply
    \/ Rescale \/ LevelDown \/ LevelDownAfterRescale

Spec == Init /\ [][Next]_vars
=============================================================================
