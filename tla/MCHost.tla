---------------------------------- MODULE MCHost ----------------------------------
(* Instances of Host for TLC. *)
EXTENDS Host, TLC

CONSTANTS t1, t2

\* With a unit of 4 bytes: nothing, a whole unit, and more than one.
SmallSizes == {0, 4, 6}

\* Less than a period of 10, one, and more than two and than three.
ShortDurations == {5, 10, 25, 35}
=============================================================================
