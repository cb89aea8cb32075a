--------------------------- MODULE MCLeveledText ---------------------------
(* Moduli for LeveledText in the proportions of the presets: the first is  *)
(* much larger than the next one, and R is hardly more than four times as  *)
(* large.                                                                  *)
EXTENDS LeveledText

(* Rescaling 12209 leaves the residue -5 modulo 29, near the worst that    *)
(* the code admits, - 29 / 4.                                              *)
MCModuli == <<509, 29, 73>>

MCMessage == {-100, 12209}

(* 510 is 1, 17 and -1 modulo the three: the products with it differ from  *)
(* chain to chain and return after four.                                   *)
MCScalar == {-1, 510}
=============================================================================
