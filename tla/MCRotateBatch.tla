--------------------------- MODULE MCRotateBatch ---------------------------
(* Requests for RotateBatch: those that the code serves, and those that     *)
(* show where it does not.                                                  *)
EXTENDS RotateBatch

Requests(n) == UNION {[1 .. m -> -1 .. SlotCount] : m \in 1 .. n}

OfTests == {<<7, 3, 1, 0>>, <<1, 1, 1, 1>>, <<1, 2, 3, 4, 5, 6, 7, 0>>}

RequestServed ==
    LET served == {r \in Requests(2) : SharesOnlyRequested(r)}
                  \cup {r \in [1 .. 3 -> {0, 1, 3, 5, 7}] : SharesOnlyRequested(r)}
                  \cup OfTests
    IN  [of \in Entry |->
            CASE of = "unit" -> {r \in served : IsNormalized(r)}
              [] of = "long" -> served
              [] of = "fixed" -> [1 .. 2 -> 0 .. SlotCount - 1]
              [] of = "chain" -> [1 .. 1 -> -1 .. SlotCount]]

(* Every request of two deltas, to a Ciphertext. *)
RequestAny ==
    [of \in Entry |-> IF of = "long" THEN [1 .. 2 -> 0 .. SlotCount - 1] ELSE {}]
=============================================================================
