-------------------------------- MODULE MCShell --------------------------------
(* Instances of Shell for TLC. *)
EXTENDS Shell, TLC

CONSTANTS c1, i1, i2

\* Two registers with two bits and one bit set: Idcode and Cor0 of ConfigLogicReg.
TwoRegs == {12, 9}

\* Two and three words, neither a divisor of the other.
AlignedBytes == i1 :> 8 @@ i2 :> 12
=============================================================================
