----------------------------- MODULE MCCardInfo -----------------------------
(* Instances of CardInfo for TLC: items of each kind that differ in length and *)
(* value, and malformed ones for each error. *)
EXTENDS CardInfo

\* A revision, an empty name, a MAC address of either kind, and items of one byte.
SomeItems ==
  {[key |-> 34, value |-> [k \in 1 .. 17 |-> IF k % 3 = 0 THEN 58 ELSE 48]],
   [key |-> 38, value |-> <<49, 50>>], [key |-> 39, value |-> <<>>],
   [key |-> 75, value |-> <<4, 0, 10, 53, 5, 15, 216>>],
   [key |-> 42, value |-> <<80>>], [key |-> 43, value |-> <<12>>],
   [key |-> 80, value |-> <<2>>], [key |-> 41, value |-> <<0>>]}

\* No length, no terminator, too long, an unknown key, and an unknown cage.
SomeMalformed ==
  {<<33, 0>>, <<33, 2, 49, 255>>, <<42, 2, 80, 80>>, <<32, 1, 0>>, <<81, 1, 3>>}
=============================================================================
