----------------------------- MODULE HbicapDevice -----------------------------
(***************************************************************************)
(* The HBICAP core as the comments and register descriptions of            *)
(* cores/hbicap.rs describe it and its driver uses it.  The core is one    *)
(* record:                                                                 *)
(*   size   words still to be moved between a FIFO and the ICAP            *)
(*   mode   what the core is doing; Status.Idle is set in mode "idle"      *)
(*   abort  the Abort bit of the Control register                          *)
(*   read   the Read bit of the Control register                           *)
(*   fifo   the write FIFO                                                 *)
(*   rfifo  the read FIFO                                                  *)
(***************************************************************************)
EXTENDS Naturals, Sequences

CONSTANT FifoDepth      \* words the write FIFO holds

ASSUME FifoDepthAssumption == FifoDepth \in Nat \ {0}

Modes == {"idle", "write", "read", "abort"}

HbicapType(Words, Values) ==
  [size : Nat, mode : Modes, abort : BOOLEAN, read : BOOLEAN,
   fifo : Seq(Words), rfifo : Seq(Values)]

HbicapReset == [size |-> 0, mode |-> "idle", abort |-> FALSE, read |-> FALSE,
                fifo |-> <<>>, rfifo |-> <<>>]

\* StatusRegBit::Idle.
Idle(hb) == hb.mode = "idle"

\* An idle core that has words to move and a size to move begins to move.
Kick(hb) ==
  IF hb.mode = "idle" /\ hb.size > 0 /\ hb.fifo # <<>>
  THEN [hb EXCEPT !.mode = "write"]
  ELSE hb

\* HbicapReg::Size: the number of words the next transfer is to move.
SetSize(hb, n) == Kick([hb EXCEPT !.size = n])

\* WriteFifoVacancy # 0.
HasVacancy(hb) == Len(hb.fifo) < FifoDepth

\* One word of an AXI write burst arrives in the write FIFO.
Push(hb, w) == Kick([hb EXCEPT !.fifo = Append(@, w)])

\* ControlRegBit::Abort: ends the operation and clears the FIFOs.
StartAbort == [HbicapReset EXCEPT !.mode = "abort", !.abort = TRUE]

\* The core moves the oldest word to the ICAP, and is done with the last one.
CanMove(hb) == hb.mode = "write" /\ hb.size > 0 /\ hb.fifo # <<>>

Move(hb) ==
  [hb EXCEPT !.size = @ - 1, !.mode = IF hb.size = 1 THEN "idle" ELSE "write",
             !.fifo = Tail(@)]

\* The abort completes: Done first, then hardware clears the Control bit.
CanFinishAbort(hb) == hb.mode = "abort"
FinishAbort(hb)    == Kick([hb EXCEPT !.mode = "idle"])

CanClearAbort(hb)  == hb.mode # "abort" /\ hb.abort
ClearAbort(hb)     == [hb EXCEPT !.abort = FALSE]

\* ControlRegBit::Read alone: an idle core begins to read `size` words, and the
\* Abort bit, written as 0 with it, is taken back.
StartRead(hb) ==
  [hb EXCEPT !.read = TRUE, !.abort = FALSE,
             !.mode = IF hb.mode = "idle" /\ hb.size > 0 THEN "read" ELSE @]

\* One word from the ICAP arrives in the read FIFO.
Fetch(hb, v) ==
  [hb EXCEPT !.size = @ - 1, !.mode = IF hb.size = 1 THEN "idle" ELSE "read",
             !.rfifo = Append(@, v)]

\* After the last one hardware clears the Read bit.
CanClearRead(hb) == hb.read /\ hb.mode # "read"
ClearRead(hb)    == [hb EXCEPT !.read = FALSE]
=============================================================================
