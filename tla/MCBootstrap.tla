------------------------------ MODULE MCBootstrap ------------------------------
(* Every number of stages for small sizes, with each kind of key.           *)
EXTENDS Bootstrap

MCMessageNumber == 0 .. 2
MCOverflow == -1 .. 1

(* A call whose keys have the levels that are required, minus the shortage. *)
Call(key, N, n, stage_count, message, relinearization, conjugation, rotation) ==
    [key |-> key, N |-> N, n |-> n, stage_count |-> stage_count,
     relinearization |-> MaxLevel - 1 - stage_count - relinearization,
     conjugation |-> MaxLevel - 1 - stage_count - conjugation,
     rotation |-> MaxLevel - 1 - rotation,
     message |-> [k \in 0 .. 2 * n - 1 |-> IF message = "dense" THEN (k * k + 1) % 3
                                           ELSE IF k = 2 * n - 1 THEN 2 ELSE 0],
     overflow |-> [k \in 0 .. N - 1 |-> IF message = "dense" THEN (k % 3) - 1
                                        ELSE 1 - ((k \div 2) % 3)]]

Kept(key, N, n, stage_count) ==
    {Call(key, N, n, stage_count, message, 0, 0, 0) : message \in {"dense", "single"}}

(* Full and sparse texts, with partial sums of none, one and two rotations; *)
(* stages of even and of uneven radix, of one outer group and of several,   *)
(* some of which rotate by the same delta.                                  *)
Accepting ==
    UNION {Kept("rotation", 8, 2, 1), Kept("rotation", 8, 4, 1), Kept("rotation", 16, 4, 1),
           Kept("rotation", 32, 16, 1), Kept("rotation", 32, 16, 2),
           Kept("rotation", 64, 32, 2),
           Kept("medium", 8, 2, 1), Kept("medium", 16, 4, 1), Kept("medium", 16, 8, 1),
           Kept("medium", 32, 16, 1), Kept("medium", 32, 16, 2), Kept("medium", 32, 4, 1),
           Kept("medium", 64, 32, 1), Kept("medium", 64, 32, 2), Kept("medium", 128, 64, 2),
           Kept("large", 16, 8, 1), Kept("large", 32, 8, 1), Kept("large", 32, 16, 1),
           Kept("large", 64, 32, 1), Kept("large", 128, 64, 2)}

Refusing ==
    UNION {Kept("large", 8, 4, 1), Kept("large", 32, 16, 2), Kept("rotation", 8, 4, 2),
           Kept("medium", 16, 8, 2)}
      \cup {Call("medium", 8, 4, 1, "dense", 1, 0, 0),
            Call("medium", 8, 4, 1, "dense", 0, 1, 0),
            Call("rotation", 8, 4, 1, "dense", 0, 0, 1)}

MCRequest == Accepting \cup Refusing

(* What the proofs presume, and what they show of every stage. *)
ASSUME HypothesesHold == EngineSuffices
ASSUME StagesHold == StagesSound
=============================================================================
