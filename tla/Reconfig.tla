------------------------------- MODULE Reconfig -------------------------------
(***************************************************************************)
(* What the shell promises about reconfiguration of the user partition,    *)
(* whatever registers, FIFOs and retries lie underneath: the host reaches  *)
(* the partition only while it holds a complete image, and the image never *)
(* changes while the host can reach it.                                    *)
(***************************************************************************)
CONSTANTS
  Images,     \* the images that can be programmed
  NoImage     \* no image: the partition holds no complete one

VARIABLES
  loaded,     \* the image in the partition, or NoImage
  open        \* the host can reach the partition

vars == <<loaded, open>>

Init == loaded \in Images /\ open = TRUE

\* Some way into the partition is closed, the last one perhaps.
Close == open = TRUE /\ open' = FALSE /\ UNCHANGED loaded

\* Part of an image arrives: there is no complete image now.
Disturb == open = FALSE /\ loaded' = NoImage /\ UNCHANGED open

\* The last word of image i arrives behind all of its other words.
Complete(i) == open = FALSE /\ loaded' = i /\ UNCHANGED open

\* The partition may be opened only on a complete image.
Open == open = FALSE /\ loaded # NoImage /\ open' = TRUE /\ UNCHANGED loaded

Next == Close \/ Disturb \/ Open \/ \E i \in Images : Complete(i)

Spec == Init /\ [][Next]_vars
=============================================================================
