------------------------------ MODULE MCEngine ------------------------------
(* An engine with one more level; all moduli differ from the scale.         *)
EXTENDS Engine, TLC

PrimeLogs == (0 :> 600) @@ (1 :> 401) @@ (2 :> 397) @@ (3 :> 398) @@ (4 :> 600)
=============================================================================
