--------------------------- MODULE MCHbicapReadback ---------------------------
(* Instances of HbicapReadback for TLC. *)
EXTENDS HbicapReadback

CONSTANTS c1, c2

\* Two registers with two bits and one bit set: Idcode and Cor0 of ConfigLogicReg.
TwoRegs == {12, 9}
=============================================================================
