-------------------------- MODULE MCProgramUserImage --------------------------
(* Instances of ProgramUserImage for TLC. *)
EXTENDS ProgramUserImage, TLC

CONSTANTS c1, c2, i1, i2

\* Two and three words, neither a divisor of the other.
AlignedBytes == i1 :> 8 @@ i2 :> 12
\* The second image ends in half a word.
RaggedBytes == i1 :> 8 @@ i2 :> 10
=============================================================================
