---------------------------- MODULE MCNttProduct ----------------------------
(* Operands for NttProduct: residues from - q / 4 to 2q - 1 as other        *)
(* operations leave them.                                                  *)
EXTENDS NttProduct

MCOperand1(q) ==
    LET Extreme == {- (q \div 4), 1, 2 * q - 1}
    IN  [Coeff -> Extreme]

MCOperand2(q) ==
    LET Sample == {0, 3, q, 2 * q - 1}
    IN  {z \in [Coeff -> Sample] : \E i \in Coeff : \A j \in Coeff \ {i} :
            z[j] \in {0, 2 * q - 1}}
=============================================================================
