-------------------------- MODULE HbicapDevice_proofs --------------------------
(* Lemmas about the operators of HbicapDevice, for the drivers of the core. *)
EXTENDS HbicapDevice, SequenceTheorems, TLAPS

\* The operations of the HBICAP core keep its type.
LEMMA HbicapTyped ==
  ASSUME NEW W, NEW V, NEW h \in HbicapType(W, V)
  PROVE  /\ StartAbort \in HbicapType(W, V) /\ HbicapReset \in HbicapType(W, V)
         /\ \A n \in Nat : SetSize(h, n) \in HbicapType(W, V)
         /\ \A w \in W : Push(h, w) \in HbicapType(W, V)
         /\ CanMove(h) => Move(h) \in HbicapType(W, V) /\ Head(h.fifo) \in W
         /\ FinishAbort(h) \in HbicapType(W, V)
         /\ ClearAbort(h) \in HbicapType(W, V)
         /\ StartRead(h) \in HbicapType(W, V) /\ ClearRead(h) \in HbicapType(W, V)
         /\ \A v \in V : h.size > 0 => Fetch(h, v) \in HbicapType(W, V)
  <1>1. StartAbort \in HbicapType(W, V) /\ HbicapReset \in HbicapType(W, V)
    <2>1. HbicapReset \in HbicapType(W, V)
      BY EmptySeq DEF HbicapReset, HbicapType, Modes
    <2>2. QED
      BY <2>1 DEF StartAbort, HbicapType, Modes
  <1>2. ASSUME NEW g \in HbicapType(W, V) PROVE Kick(g) \in HbicapType(W, V)
    BY DEF Kick, HbicapType, Modes
  <1>3. \A n \in Nat : SetSize(h, n) \in HbicapType(W, V)
    <2>1. \A n \in Nat : [h EXCEPT !.size = n] \in HbicapType(W, V)
      BY DEF HbicapType
    <2>2. QED
      BY <1>2, <2>1 DEF SetSize
  <1>4. \A w \in W : Push(h, w) \in HbicapType(W, V)
    <2>1. \A w \in W : [h EXCEPT !.fifo = Append(@, w)] \in HbicapType(W, V)
      BY DEF HbicapType
    <2>2. QED
      BY <1>2, <2>1 DEF Push
  <1>5. CanMove(h) => Move(h) \in HbicapType(W, V) /\ Head(h.fifo) \in W
    <2>1. h.fifo # <<>> => Tail(h.fifo) \in Seq(W) /\ Head(h.fifo) \in W
      BY DEF HbicapType
    <2>2. ASSUME CanMove(h) PROVE h.size - 1 \in Nat /\ h.fifo # <<>>
      BY <2>2 DEF CanMove, HbicapType
    <2>3. QED
      BY <2>1, <2>2 DEF Move, HbicapType, Modes
  <1>6. FinishAbort(h) \in HbicapType(W, V)
    <2>1. [h EXCEPT !.mode = "idle"] \in HbicapType(W, V)
      BY DEF HbicapType, Modes
    <2>2. QED
      BY <1>2, <2>1 DEF FinishAbort
  <1>7. /\ ClearAbort(h) \in HbicapType(W, V) /\ ClearRead(h) \in HbicapType(W, V)
        /\ StartRead(h) \in HbicapType(W, V)
    BY DEF ClearAbort, ClearRead, StartRead, HbicapType, Modes
  <1>8. ASSUME NEW v \in V, h.size > 0 PROVE Fetch(h, v) \in HbicapType(W, V)
    <2>1. Append(h.rfifo, v) \in Seq(V) /\ h.size - 1 \in Nat
      BY <1>8 DEF HbicapType
    <2>2. QED
      BY <2>1 DEF Fetch, HbicapType, Modes
  <1>9. QED
    BY <1>1, <1>3, <1>4, <1>5, <1>6, <1>7, <1>8
=============================================================================
