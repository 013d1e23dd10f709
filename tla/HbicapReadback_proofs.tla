------------------------- MODULE HbicapReadback_proofs -------------------------
(***************************************************************************)
(* Theorems about HbicapReadback and their proofs.  Type correctness holds *)
(* for any number of processes.  That a readback returns the register it   *)
(* was asked for, and leaves the core and the port quiet, holds for one    *)
(* process at a time that aborts what a failed call may have left.         *)
(***************************************************************************)
EXTENDS HbicapReadback, HbicapDevice_proofs

-----------------------------------------------------------------------------
(* The words of the two streams, and what the port makes of them *)

\* The streams have nine and four words, and these are they.
LEMMA StreamWords ==
  ASSUME NEW r \in 0 .. 31
  PROVE  /\ Len(Opening(r)) = 9 /\ \A k \in 1 .. 9 : Opening(r)[k] \in Int
         /\ Opening(r)[1] = DUMMY_CMD /\ Opening(r)[2] = BUS_WIDTH_SYNC_CMD
         /\ Opening(r)[3] = BUS_WIDTH_DETECT_CMD /\ Opening(r)[4] = DUMMY_CMD
         /\ Opening(r)[5] = SYNC_CMD /\ Opening(r)[6] = Noop
         /\ Opening(r)[7] = Type1Packet(OpRead, r, 1)
         /\ Opening(r)[8] = Noop /\ Opening(r)[9] = Noop
         /\ Len(Closing) = 4 /\ \A k \in 1 .. 4 : Closing[k] \in Int
         /\ Closing[1] = Type1Packet(OpWrite, Cmd, 1) /\ Closing[2] = Desync
         /\ Closing[3] = Noop /\ Closing[4] = Noop
  <1>1. /\ DUMMY_CMD \in Int /\ BUS_WIDTH_SYNC_CMD \in Int /\ BUS_WIDTH_DETECT_CMD \in Int
        /\ SYNC_CMD \in Int /\ Desync \in Int
    BY DEF DUMMY_CMD, BUS_WIDTH_SYNC_CMD, BUS_WIDTH_DETECT_CMD, SYNC_CMD, Desync
  <1>2. Noop \in Int /\ Type1Packet(OpRead, r, 1) \in Int /\ Type1Packet(OpWrite, Cmd, 1) \in Int
    BY DEF Noop, Type1Packet, OpNoop, OpRead, OpWrite, Crc, Cmd, Bit11, Bit13, Bit27, Bit29
  <1>3. QED
    BY <1>1, <1>2 DEF Opening, Closing

\* A header comes apart into the fields it was put together from.
LEMMA Headers ==
  ASSUME NEW r \in 0 .. 31
  PROVE  /\ LET w == Type1Packet(OpRead, r, 1)
            IN IsType1(w) /\ CountOf(w) = 1 /\ OpOf(w) = OpRead /\ RegOf(w) = r
         /\ LET w == Type1Packet(OpWrite, Cmd, 1)
            IN IsType1(w) /\ CountOf(w) = 1 /\ OpOf(w) = OpWrite /\ RegOf(w) = Cmd
         /\ CountOf(Noop) = 0
         /\ \A w \in {DUMMY_CMD, BUS_WIDTH_SYNC_CMD, BUS_WIDTH_DETECT_CMD, SYNC_CMD} : ~IsType1(w)
         /\ Noop # SYNC_CMD
  BY DEF Type1Packet, IsType1, CountOf, OpOf, RegOf, Noop, OpNoop, OpRead, OpWrite, Crc, Cmd,
         DUMMY_CMD, BUS_WIDTH_SYNC_CMD, BUS_WIDTH_DETECT_CMD, SYNC_CMD,
         Bit11, Bit13, Bit27, Bit29, NoReg

-----------------------------------------------------------------------------
(* Type correctness *)

\* The types of TypeOK, on a core that carries words W: those of readbacks here,
\* those of images beside them in module Shell.
TypedIn(W) ==
  /\ ClientTypeOK
  /\ hb \in HbicapType(W, 0 .. NoReg)
  /\ icap \in Ports

\* Regs are codes that fit a header's field.
LEMMA RegsFit == Regs \subseteq 0 .. 31 /\ Regs \subseteq 0 .. NoReg
  BY RegsAssumption DEF NoReg

\* A word keeps the port's type.
LEMMA ReceivedTyped ==
  ASSUME NEW port \in Ports, NEW w \in Int
  PROVE  Received(port, w) \in Ports /\ IcapReset \in Ports
  <1>1. IcapReset \in Ports /\ \A v \in Int : RegOf(v) \in 0 .. NoReg
    <2>1. IcapReset \in Ports
      BY DEF IcapReset, Ports, NoReg
    <2>2. \A v \in Int : v \div 8192 \in Int
      BY SMTT(30)
    <2>3. \A q \in Int : q % NoReg \in 0 .. NoReg
      BY SMTT(30) DEF NoReg
    <2>4. \A v \in Int : RegOf(v) = (v \div 8192) % NoReg
      BY DEF RegOf, Bit13
    <2>5. ASSUME NEW v \in Int PROVE RegOf(v) \in 0 .. NoReg
      <3> DEFINE q == v \div 8192
      <3>1. q \in Int /\ RegOf(v) = q % NoReg
        BY <2>2, <2>4
      <3> HIDE DEF q
      <3>2. q % NoReg \in 0 .. NoReg
        BY <2>3, <3>1
      <3>3. QED
        BY <3>1, <3>2
    <2>6. QED
      BY <2>1, <2>5
  <1>2. /\ \A b \in BOOLEAN : [port EXCEPT !.sync = b] \in Ports
        /\ \A l \in {"header", "command"} : [port EXCEPT !.next = l] \in Ports
        /\ \A n \in 0 .. NoReg : [port EXCEPT !.reg = n] \in Ports
    BY DEF Ports
  <1>3. (w = SYNC_CMD) \in BOOLEAN
    OBVIOUS
  <1>4. QED
    BY <1>1, <1>2, <1>3 DEF Received

\* Every word of either stream is one that the write FIFO may hold.
LEMMA SentTyped ==
  ASSUME NEW r \in Regs
  PROVE  /\ \A k \in 1 .. Len(Opening(r)) : U32(Opening(r)[k]) \in U32s
         /\ \A k \in 1 .. Len(Closing) : U32(Closing[k]) \in U32s
         /\ Len(Opening(r)) \in Nat /\ Len(Closing) \in Nat
  <1>1. r \in 0 .. 31
    BY RegsFit
  <1>2. /\ Len(Opening(r)) = 9 /\ \A k \in 1 .. 9 : Opening(r)[k] \in Int
        /\ Len(Closing) = 4 /\ \A k \in 1 .. 4 : Closing[k] \in Int
    BY <1>1, StreamWords
  <1>3. \A n \in Int : U32(n) \in U32s
    BY DEF U32, U32s
  <1>4. QED
    BY <1>2, <1>3

\* A process goes on, or the call returns, somewhere it can be.
LEMMA ControlTyped ==
  ASSUME ClientTypeOK, NEW c \in Clients,
         \/ \E l \in Labels : Goto(c, l)
         \/ \E r \in Results : Return(c, r)
  PROVE  /\ pc' \in [Clients -> Labels]
         /\ sent' \in [Clients -> Nat]
         /\ result' \in [Clients -> Results]
         /\ clean' \in [Clients -> BOOLEAN]
  <1>1. CASE \E l \in Labels : Goto(c, l)
    BY <1>1 DEF ClientTypeOK, Goto
  <1>2. CASE \E r \in Results : Return(c, r)
    <2>1. "out" \in Labels
      BY DEF Labels
    <2>2. PICK r \in Results : Return(c, r)
      BY <1>2
    <2>3. (r \in {"ok", "value"} /\ (clean[c] \/ pc[c] = "ready")) \in BOOLEAN
      OBVIOUS
    <2>4. QED
      BY <2>1, <2>2, <2>3 DEF ClientTypeOK, Return
  <1>3. QED
    BY <1>1, <1>2

\* A register access keeps the types of the process that makes it.
LEMMA AccessTyped ==
  ASSUME ClientTypeOK, NEW c \in Clients, NEW at, NEW reply, NEW next \in Labels,
         Access(c, at, reply, next)
  PROVE  ClientTypeOK'
  BY ControlTyped DEF ClientTypeOK, Access, Results

\* What a process may do, whatever the outcome.
LEMMA ClientCases ==
  ASSUME NEW c \in Clients, Step(c) \/ Fault(c)
  PROVE  \/ \E reply \in Replies : Accesses(c, reply)
         \/ \E readOk \in BOOLEAN : Polls(c, readOk)
         \/ Transfers(c) \/ Stalls(c) \/ SendFails(c) \/ ReadFails(c) \/ Crash(c)
  BY DEF Step, Fault, Replies
\* A call begins somewhere it can be.
LEMMA BeginTyped ==
  ASSUME NEW W, U32s \subseteq W, TypedIn(W), NEW c \in Clients, Start(c)
  PROVE  TypedIn(W)'
  <1>1. PICK r \in Regs, l \in Labels : Begin(c, r, l)
    BY DEF Start, StartAborting, StartReset, StartWriteProgramming, StartReadback, Labels,
           AbortLabels, ResetLabels, ReadbackLabels, OpeningLabels, TypedIn, ClientTypeOK
  <1>2. NoReg \in 0 .. NoReg /\ "none" \in Results
    BY DEF NoReg, Results
  <1>3. QED
    BY <1>1, <1>2 DEF Begin, TypedIn, ClientTypeOK

\* No outcome of a poll takes the count of tries out of its range.
LEMMA PollsTyped ==
  ASSUME NEW W, U32s \subseteq W, TypedIn(W), NEW c \in Clients, NEW readOk \in BOOLEAN, Polls(c, readOk)
  PROVE  TypedIn(W)'
  <1> DEFINE Typed == /\ pc' \in [Clients -> Labels]
                      /\ sent' \in [Clients -> Nat]
                      /\ result' \in [Clients -> Results]
                      /\ clean' \in [Clients -> BOOLEAN]
  <1>1. /\ \A l \in Labels : Goto(c, l) => Typed
        /\ \A r \in Results : Return(c, r) => Typed
        /\ UNCHANGED <<pc, sent, result, clean>> => Typed
    BY ControlTyped DEF TypedIn, ClientTypeOK
  <1>2. /\ {"abort_debug", "ready", "read_size", "close_size"} \subseteq Labels
        /\ {"ok", "err", "value"} \subseteq Results
    BY DEF Labels, AbortLabels, ReadbackLabels, OpeningLabels, ClosingLabels, Results
  <1> HIDE DEF Typed
  <1>3. ASSUME NEW at, NEW hit, NEW onHit, onHit => Typed, PollTry(c, at, hit, onHit)
        PROVE  /\ Typed
               /\ tries' \in [Clients -> 0 .. PollTries - 1]
               /\ UNCHANGED <<reg, got, hb, icap>>
    <2>1. tries[c] \in 0 .. PollTries - 1 /\ 0 \in 0 .. PollTries - 1
      BY TriesAssumption DEF TypedIn, ClientTypeOK
    <2>2. tries[c] + 1 < PollTries => tries[c] + 1 \in 0 .. PollTries - 1
      BY <2>1, TriesAssumption
    <2>3. Typed
      BY <1>1, <1>2, <1>3 DEF PollTry
    <2>4. tries' \in [Clients -> 0 .. PollTries - 1]
      BY <1>3, <2>1, <2>2 DEF PollTry, TypedIn, ClientTypeOK
    <2>5. QED
      BY <1>3, <2>3, <2>4 DEF PollTry
  <1>4. /\ Typed
        /\ tries' \in [Clients -> 0 .. PollTries - 1]
        /\ UNCHANGED <<reg, got, hb, icap>>
    <2>1. CASE PollAborted(c, readOk)
      BY <1>1, <1>2, <1>3, <2>1 DEF PollAborted
    <2>2. CASE PollAbortCleared(c, readOk)
      BY <1>1, <1>2, <1>3, <2>2 DEF PollAbortCleared
    <2>3. CASE PollReady(c, readOk)
      BY <1>1, <1>2, <1>3, <2>3 DEF PollReady
    <2>4. CASE OpenDone(c, readOk)
      BY <1>1, <1>2, <1>3, <2>4 DEF OpenDone
    <2>5. CASE PollReadClear(c, readOk)
      BY <1>1, <1>2, <1>3, <2>5 DEF PollReadClear
    <2>6. CASE CloseDone(c, readOk)
      BY <1>1, <1>2, <1>3, <2>6 DEF CloseDone
    <2>7. QED
      BY <2>1, <2>2, <2>3, <2>4, <2>5, <2>6 DEF Polls
  <1>5. QED
    BY <1>4 DEF Typed, TypedIn, ClientTypeOK

\* Every register access keeps the types, whether it took effect or not.
LEMMA AccessesTyped ==
  ASSUME NEW W, U32s \subseteq W, TypedIn(W), NEW c \in Clients, NEW reply \in Replies, Accesses(c, reply)
  PROVE  TypedIn(W)'
  <1> DEFINE H == HbicapType(W, 0 .. NoReg)
  <1>1. /\ StartAbort \in H /\ HbicapReset \in H /\ StartRead(hb) \in H
        /\ \A n \in Nat : SetSize(hb, n) \in H
    BY HbicapTyped DEF TypedIn
  <1>2. reg[c] \in Regs /\ sent[c] \in Nat
    BY DEF TypedIn, ClientTypeOK
  <1>3. \A new \in H : Landed(reply, hb, new) \in H
    BY DEF Landed, TypedIn
  <1>4. /\ {"abort_poll", "abort_clear", "reset_write", "open_dma", "read_start",
            "read_dma", "close_dma"} \subseteq Labels
        /\ {"ok", "err", "crash"} \subseteq Results
    BY DEF Labels, AbortLabels, ResetLabels, ReadbackLabels, OpeningLabels, ReadLabels,
           ClosingLabels, Results
  <1>5. ASSUME NEW at, NEW n \in Nat, NEW next \in Labels, WriteSize(c, at, reply, n, next)
        PROVE  ClientTypeOK' /\ hb' \in H /\ icap' = icap
    BY <1>1, <1>3, <1>5, AccessTyped DEF WriteSize, TypedIn
  <1>6. /\ ClientTypeOK' /\ hb' \in H /\ icap' = icap
    <2>1. CASE Abort(c, reply)
      BY <1>1, <1>3, <1>4, <2>1, AccessTyped DEF Abort, TypedIn
    <2>2. CASE AbortDebug(c, reply)
      BY <1>4, <2>2, AccessTyped DEF AbortDebug, TypedIn
    <2>3. CASE ResetRead(c, reply)
      BY <1>4, <2>3, AccessTyped DEF ResetRead, TypedIn
    <2>4. CASE ResetWrite(c, reply)
      BY <1>1, <1>3, <1>4, <2>4, ControlTyped DEF ResetWrite, TypedIn, ClientTypeOK
    <2>5. CASE Announce(c, reply)
      <3> DEFINE left == ProgramWords - sent[c]
                 size == IF left < MaxBurst THEN left ELSE MaxBurst
      <3>1. CASE left <= 0 /\ Return(c, "crash") /\ UNCHANGED hb
        BY <1>4, <2>5, <3>1, ControlTyped DEF Announce, TypedIn, ClientTypeOK
      <3>2. CASE left > 0
        <4>1. size \in Nat
          BY <1>2, <3>2, BurstAssumption
        <4>2. hb' = Landed(reply, hb, SetSize(hb, size)) \/ hb' = hb
          BY <2>5 DEF Announce
        <4>3. hb' \in H /\ icap' = icap /\ UNCHANGED <<reg, got, tries>>
          BY <1>1, <1>3, <2>5, <4>1, <4>2 DEF Announce, TypedIn
        <4>4. \/ sent' = [sent EXCEPT ![c] = @ + size] /\ UNCHANGED <<pc, result, clean>>
              \/ Return(c, "err") \/ Return(c, "crash")
          BY <2>5 DEF Announce
        <4>5. CASE sent' = [sent EXCEPT ![c] = @ + size] /\ UNCHANGED <<pc, result, clean>>
          BY <1>2, <4>1, <4>3, <4>5 DEF TypedIn, ClientTypeOK
        <4>6. CASE Return(c, "err") \/ Return(c, "crash")
          BY <1>4, <4>3, <4>6, ControlTyped DEF TypedIn, ClientTypeOK
        <4>7. QED
          BY <4>3, <4>4, <4>5, <4>6
      <3>3. QED
        BY <2>5, <3>1, <3>2 DEF Announce
    <2>6. CASE OpenSize(c, reply)
      BY <1>2, <1>4, <1>5, <2>6, SentTyped DEF OpenSize
    <2>7. CASE ReadSize(c, reply)
      BY <1>4, <1>5, <2>7 DEF ReadSize
    <2>8. CASE ReadStart(c, reply)
      BY <1>1, <1>3, <1>4, <2>8, AccessTyped DEF ReadStart, TypedIn
    <2>9. CASE CloseSize(c, reply)
      BY <1>2, <1>4, <1>5, <2>9, SentTyped DEF CloseSize
    <2>10. QED
      BY <2>1, <2>2, <2>3, <2>4, <2>5, <2>6, <2>7, <2>8, <2>9 DEF Accesses
  <1>7. QED
    BY <1>6 DEF TypedIn

\* So does every transfer, whether the core answers it or not.
LEMMA TransfersTyped ==
  ASSUME NEW W, U32s \subseteq W, TypedIn(W), NEW c \in Clients,
         Transfers(c) \/ Stalls(c) \/ SendFails(c) \/ ReadFails(c) \/ Crash(c)
  PROVE  TypedIn(W)'
  <1> DEFINE H == HbicapType(W, 0 .. NoReg)
  <1>1. reg[c] \in Regs /\ sent[c] \in Nat
    BY DEF TypedIn, ClientTypeOK
  <1>2. {"open_done", "read_clear", "close_done"} \subseteq Labels /\ {"err", "crash"} \subseteq Results
    BY DEF Labels, ReadbackLabels, OpeningLabels, ReadLabels, ClosingLabels, Results
  <1>3. ASSUME NEW at, NEW words, \A k \in 1 .. Len(words) : U32(words[k]) \in U32s,
               Len(words) \in Nat, SendWord(c, at, words)
        PROVE  TypedIn(W)'
    <2>1. U32(words[sent[c] + 1]) \in U32s
      BY <1>1, <1>3 DEF SendWord
    <2>2. Push(hb, U32(words[sent[c] + 1])) \in H
      BY <2>1, HbicapTyped DEF TypedIn
    <2>3. QED
      BY <1>1, <1>3, <2>2 DEF SendWord, TypedIn, ClientTypeOK
  <1>4. ASSUME NEW at, NEW words, NEW next \in Labels, SendDone(c, at, words, next)
        PROVE  TypedIn(W)'
    BY <1>4 DEF SendDone, TypedIn, ClientTypeOK
  <1>5. \A r \in Results : Return(c, r) => /\ pc' \in [Clients -> Labels]
                                           /\ sent' \in [Clients -> Nat]
                                           /\ result' \in [Clients -> Results]
                                           /\ clean' \in [Clients -> BOOLEAN]
    BY ControlTyped DEF TypedIn
  <1>6. hb.rfifo # <<>> => Head(hb.rfifo) \in 0 .. NoReg /\ [hb EXCEPT !.rfifo = Tail(@)] \in H
    <2>1. hb.rfifo \in Seq(0 .. NoReg)
      BY DEF TypedIn, HbicapType
    <2>2. hb.rfifo # <<>> => Head(hb.rfifo) \in 0 .. NoReg /\ Tail(hb.rfifo) \in Seq(0 .. NoReg)
      BY <2>1, HeadTailProperties
    <2>3. \A q \in Seq(0 .. NoReg) : [hb EXCEPT !.rfifo = q] \in H
      BY DEF TypedIn, HbicapType
    <2>4. QED
      BY <2>2, <2>3
  <1>7. CASE OpenWord(c) \/ CloseWord(c)
    BY <1>1, <1>3, <1>7, SentTyped DEF OpenWord, CloseWord
  <1>8. CASE OpenSent(c) \/ CloseSent(c)
    BY <1>2, <1>4, <1>8 DEF OpenSent, CloseSent
  <1>9. CASE ReadWord(c)
    <2>1. Goto(c, "read_clear") => pc' \in [Clients -> Labels] /\ UNCHANGED <<sent, result, clean>>
      BY <1>2 DEF Goto, TypedIn, ClientTypeOK
    <2>2. QED
      BY <1>6, <1>9, <2>1 DEF ReadWord, TypedIn, ClientTypeOK
  <1>10. CASE Stalls(c) \/ SendFails(c) \/ ReadFails(c)
    BY <1>2, <1>5, <1>6, <1>10
       DEF Stalls, OpenStalls, CloseStalls, SendStalls, ReadStalls, SendFails, ReadFails,
           TypedIn, ClientTypeOK
  <1>11. CASE Crash(c)
    BY <1>2, <1>5, <1>11, TriesAssumption DEF Crash, TypedIn, ClientTypeOK
  <1>12. QED
    BY <1>7, <1>8, <1>9, <1>10, <1>11 DEF Transfers

\* A call and its steps keep the types, on any core that can carry its streams.
LEMMA CallTyped ==
  ASSUME NEW W, U32s \subseteq W, TypedIn(W), NEW c \in Clients,
         \/ Start(c)
         \/ \E reply \in Replies : Accesses(c, reply)
         \/ \E readOk \in BOOLEAN : Polls(c, readOk)
         \/ Transfers(c) \/ Stalls(c) \/ SendFails(c) \/ ReadFails(c) \/ Crash(c)
  PROVE  TypedIn(W)'
  BY BeginTyped, AccessesTyped, PollsTyped, TransfersTyped

\* On the core of this module that is the type invariant.
LEMMA TypeKept ==
  ASSUME TypeOK, NEW c \in Clients,
         \/ Start(c)
         \/ \E reply \in Replies : Accesses(c, reply)
         \/ \E readOk \in BOOLEAN : Polls(c, readOk)
         \/ Transfers(c) \/ Stalls(c) \/ SendFails(c) \/ ReadFails(c) \/ Crash(c)
  PROVE  TypeOK'
  <1>1. TypedIn(U32s)
    BY DEF TypeOK, TypedIn
  <1>2. TypedIn(U32s)'
    BY <1>1, CallTyped
  <1>3. QED
    BY <1>2 DEF TypeOK, TypedIn

\* The core and the port work on words and values of their types.
LEMMA DeviceTyped ==
  ASSUME TypeOK, Device
  PROVE  TypeOK'
  <1>1. \A w \in U32s : w.u32 \in Int
    BY DEF U32s
  <1>2. CASE IcapMove
    BY <1>1, <1>2, HbicapTyped, ReceivedTyped DEF IcapMove, client, TypeOK, ClientTypeOK
  <1>3. CASE IcapFetch
    <2>1. icap.reg \in 0 .. NoReg /\ [icap EXCEPT !.reg = NoReg] \in Ports
      <3>1. NoReg \in 0 .. NoReg
        BY DEF NoReg
      <3>2. QED
        BY <3>1 DEF TypeOK, Ports
    <2>2. Fetch(hb, icap.reg) \in HbicapType(U32s, 0 .. NoReg)
      BY <1>3, <2>1, HbicapTyped DEF IcapFetch, CanFetch, TypeOK
    <2>3. QED
      BY <1>3, <2>1, <2>2 DEF IcapFetch, client, TypeOK, ClientTypeOK
  <1>4. CASE ReadClears
    BY <1>4, HbicapTyped DEF ReadClears, client, TypeOK, ClientTypeOK
  <1>5. CASE AbortFinishes
    <2>1. IcapReset \in Ports
      BY DEF IcapReset, Ports, NoReg
    <2>2. icap' \in Ports
      BY <1>5, <2>1 DEF AbortFinishes, Aborted, TypeOK
    <2>3. QED
      BY <1>5, <2>2, HbicapTyped DEF AbortFinishes, client, TypeOK, ClientTypeOK
  <1>6. CASE AbortClears
    BY <1>6, HbicapTyped DEF AbortClears, client, TypeOK, ClientTypeOK
  <1>7. QED
    BY <1>2, <1>3, <1>4, <1>5, <1>6 DEF Device

\* The state in which the bitstream of the shell leaves the card.
LEMMA InitTyped == Init => TypeOK
  BY TriesAssumption, EmptySeq
     DEF Init, TypeOK, ClientTypeOK, Labels, Results, HbicapReset, HbicapType, Modes,
         IcapReset, Ports, NoReg

\* TypeOK is inductive: no order of accesses, polls, transfers, faults and
\* crashes of any number of processes takes a variable out of its type.
THEOREM TypeCorrect == Spec => []TypeOK
  <1>1. TypeOK /\ [Next]_vars => TypeOK'
    <2> SUFFICES ASSUME TypeOK, [Next]_vars PROVE TypeOK'
      OBVIOUS
    <2>1. CASE Device
      BY <2>1, DeviceTyped
    <2>2. ASSUME NEW c \in Clients, Start(c) \/ Step(c) \/ Fault(c) PROVE TypeOK'
      BY <2>2, ClientCases, TypeKept
    <2>3. CASE UNCHANGED vars
      BY <2>3 DEF vars, client, TypeOK, ClientTypeOK
    <2>4. QED
      BY <2>1, <2>2, <2>3 DEF Next
  <1>2. QED
    BY <1>1, InitTyped, PTL DEF Spec

-----------------------------------------------------------------------------
(* The inductive invariant, for one process that aborts first *)

\* One process at a time drives the core.  Nothing in the code enforces it.
OneReader == \A c, d \in Clients : c = d

\* A core with nothing to do and nothing left over.
Rests(h) == /\ h.mode = "idle" /\ ~h.read /\ ~h.abort
            /\ h.fifo = <<>> /\ h.rfifo = <<>>

\* Some of the words of a stream have moved, the next ones wait in the FIFO.
Flow(words, h) ==
  /\ h.size \in 0 .. Len(words)
  /\ Len(h.fifo) <= h.size
  /\ \A j \in 1 .. Len(h.fifo) : h.fifo[j] = U32(words[(Len(words) - h.size) + j])
  /\ h.mode \in {"idle", "write"}
  /\ h.mode = "write" => h.size > 0
  /\ h.mode = "idle" => h.fifo = <<>> /\ (h.size = 0 \/ h.size = Len(words))

\* A stream under way: s words of it sent, to a core that reads nothing.
Streams(words, s, h) ==
  /\ Flow(words, h)
  /\ s = (Len(words) - h.size) + Len(h.fifo)
  /\ h.rfifo = <<>> /\ ~h.read /\ ~h.abort

\* What the port has made of the first m words of the opening for register r,
\* whatever it had received before.
Opened(port, r, m) ==
  /\ m >= 1 => port.next = "header"
  /\ m >= 5 => port.sync
  /\ m >= 7 => port.reg = r

\* What it has made of the first m words of the closing.
Closed(port, m) ==
  /\ m = 0 => port.sync /\ port.next = "header"
  /\ m = 1 => port.sync /\ port.next = "command"
  /\ m >= 2 => port = IcapReset

\* The port has been asked for register r and not yet answered.
Asked(port, r) == port.sync /\ port.next = "header" /\ port.reg = r

PortSound == icap.next # "data" /\ (~icap.sync => icap.next = "header")

CleanRests(c) ==
  clean[c] /\ pc[c] \in {"out", "abort", "reset_read", "reset_write", "announce", "open_size"}
    => Rests(hb)

AbortEmpties(c) ==
  /\ pc[c] \in {"abort_poll", "abort_debug", "abort_clear", "ready"} =>
       /\ hb.mode \in {"idle", "abort"} /\ ~hb.read /\ hb.size = 0
       /\ hb.fifo = <<>> /\ hb.rfifo = <<>>
  /\ pc[c] = "ready" => ~hb.abort

Doubtless(c) == pc[c] \in ReadbackLabels \cup {"announce"} => clean[c]

Opens(c) ==
  /\ pc[c] \in {"out", "open_size", "close_size"} => sent[c] = 0
  /\ pc[c] = "open_dma" => Streams(Opening(reg[c]), sent[c], hb)
  /\ pc[c] = "open_done" => Streams(Opening(reg[c]), 9, hb) /\ sent[c] = 0
  /\ pc[c] \in {"open_dma", "open_done"} => Opened(icap, reg[c], 9 - hb.size)
  /\ pc[c] \in {"read_size", "read_start"} =>
       Rests(hb) /\ Asked(icap, reg[c]) /\ sent[c] = 0
  /\ pc[c] = "read_start" => hb.size = 1

Reads(c) ==
  /\ pc[c] = "read_dma" =>
       /\ hb.fifo = <<>> /\ ~hb.abort /\ sent[c] = 0
       /\ \/ hb.mode = "read" /\ hb.size = 1 /\ hb.rfifo = <<>> /\ Asked(icap, reg[c])
          \/ hb.mode = "idle" /\ hb.rfifo = <<reg[c]>> /\ Closed(icap, 0)
  /\ pc[c] = "read_clear" =>
       /\ hb.mode = "idle" /\ ~hb.abort /\ hb.fifo = <<>> /\ hb.rfifo = <<>>
       /\ Closed(icap, 0) /\ sent[c] = 0
  /\ pc[c] \in {"read_clear"} \cup ClosingLabels => got[c] = reg[c]

Closes(c) ==
  /\ pc[c] = "close_size" => Rests(hb) /\ Closed(icap, 0)
  /\ pc[c] = "close_dma" => Streams(Closing, sent[c], hb)
  /\ pc[c] = "close_done" => Streams(Closing, 4, hb) /\ sent[c] = 0
  /\ pc[c] \in {"close_dma", "close_done"} => Closed(icap, 4 - hb.size)

Values(c) ==
  result[c] = "value" =>
    pc[c] = "out" /\ clean[c] /\ got[c] = reg[c] /\ icap = IcapReset

IInv ==
  /\ TypeOK /\ PortSound
  /\ \A c \in Clients :
       /\ CleanRests(c) /\ AbortEmpties(c) /\ Doubtless(c)
       /\ Opens(c) /\ Reads(c) /\ Closes(c) /\ Values(c)

-----------------------------------------------------------------------------
(* Lemmas about the port and the FIFO *)

\* Each word of the opening takes the port one step on.
LEMMA PortOpens ==
  ASSUME NEW r \in 0 .. 31, NEW port \in Ports, NEW m \in 0 .. 8,
         port.next # "data", ~port.sync => port.next = "header",
         Opened(port, r, m)
  PROVE  LET q == Received(port, Opening(r)[m + 1])
         IN Opened(q, r, m + 1) /\ q.next # "data" /\ (~q.sync => q.next = "header")
  <1>1. m = 0 \/ m = 1 \/ m = 2 \/ m = 3 \/ m = 4 \/ m = 5 \/ m = 6 \/ m = 7 \/ m = 8
    OBVIOUS
  <1>2. /\ DUMMY_CMD # Desync /\ IcapReset.next = "header" /\ ~IcapReset.sync
        /\ Noop # SYNC_CMD /\ CountOf(Noop) # 1
    BY Headers DEF DUMMY_CMD, Desync, IcapReset
  <1>3. CASE m \in 0 .. 4
    <2>1. /\ Opening(r)[m + 1] \in {DUMMY_CMD, BUS_WIDTH_SYNC_CMD, BUS_WIDTH_DETECT_CMD, SYNC_CMD}
          /\ m = 0 => Opening(r)[m + 1] = DUMMY_CMD
          /\ m = 4 => Opening(r)[m + 1] = SYNC_CMD
      BY <1>3, StreamWords
    <2>2. ~IsType1(Opening(r)[m + 1])
      BY <2>1, Headers
    <2> DEFINE w == Opening(r)[m + 1]
    <2>3. CASE ~port.sync
      <3>1. Received(port, w) = [port EXCEPT !.sync = (w = SYNC_CMD)]
        BY <2>3 DEF Received
      <3>2. CASE w = SYNC_CMD
        <4>1. Received(port, w) = [port EXCEPT !.sync = TRUE]
          BY <3>1, <3>2
        <4>2. QED
          BY <1>3, <2>3, <4>1 DEF Opened, Ports
      <3>3. CASE w # SYNC_CMD
        <4>1. Received(port, w) = [port EXCEPT !.sync = FALSE]
          BY <3>1, <3>3
        <4>2. QED
          BY <1>3, <2>1, <2>3, <3>3, <4>1 DEF Opened, Ports
      <3>4. QED
        BY <3>2, <3>3
    <2>4. CASE port.sync /\ port.next = "command"
      <3>1. m = 0 /\ w = DUMMY_CMD
        BY <1>3, <2>1, <2>4 DEF Opened
      <3>2. Received(port, w) = [port EXCEPT !.next = "header"]
        BY <1>2, <2>4, <3>1 DEF Received
      <3>3. QED
        BY <2>4, <3>1, <3>2 DEF Opened, Ports
    <2>5. CASE port.sync /\ port.next # "command"
      <3>1. Received(port, w) = port
        BY <2>2, <2>5 DEF Received
      <3>2. QED
        BY <1>3, <2>5, <3>1 DEF Opened, Ports
    <2>6. QED
      BY <2>3, <2>4, <2>5
  <1>4. CASE m = 5 \/ m = 7 \/ m = 8
    <2>1. Opening(r)[m + 1] = Noop
      BY <1>4, StreamWords
    <2>2. port.sync /\ port.next = "header"
      BY <1>4 DEF Opened
    <2>3. Received(port, Noop) = port
      BY <1>2, <2>2 DEF Received
    <2>4. QED
      BY <1>4, <2>1, <2>2, <2>3 DEF Opened
  <1>5. CASE m = 6
    <2> DEFINE w == Type1Packet(OpRead, r, 1)
    <2>1. Opening(r)[m + 1] = w
      BY <1>5, StreamWords
    <2>2. port.sync /\ port.next = "header"
      BY <1>5 DEF Opened
    <2>3. IsType1(w) /\ CountOf(w) = 1 /\ OpOf(w) = OpRead /\ RegOf(w) = r
      BY Headers
    <2> HIDE DEF w
    <2>4. Received(port, w) = [port EXCEPT !.reg = r]
      BY <2>2, <2>3 DEF Received
    <2>5. QED
      BY <1>5, <2>1, <2>2, <2>4 DEF Opened, Ports
  <1>6. QED
    BY <1>1, <1>3, <1>4, <1>5

\* Each word of the closing takes the port one step on.
LEMMA PortCloses ==
  ASSUME NEW port \in Ports, NEW m \in 0 .. 3, Closed(port, m)
  PROVE  LET q == Received(port, Closing[m + 1])
         IN Closed(q, m + 1) /\ q.next # "data" /\ (~q.sync => q.next = "header")
  <1>1. /\ Closing[1] = Type1Packet(OpWrite, Cmd, 1) /\ Closing[2] = Desync
        /\ Closing[3] = Noop /\ Closing[4] = Noop
    BY StreamWords
  <1>2. LET w == Type1Packet(OpWrite, Cmd, 1)
        IN IsType1(w) /\ CountOf(w) = 1 /\ OpOf(w) = OpWrite /\ RegOf(w) = Cmd
    BY Headers
  <1>3. Noop # SYNC_CMD /\ OpWrite # OpRead
    BY Headers DEF OpWrite, OpRead
  <1>4. CASE m = 0
    <2>1. Received(port, Closing[m + 1]) = [port EXCEPT !.next = "command"]
      BY <1>1, <1>2, <1>3, <1>4 DEF Received, Closed
    <2>2. QED
      BY <1>4, <2>1 DEF Closed, Ports
  <1>5. CASE m = 1
    BY <1>1, <1>5 DEF Received, Closed, Ports, IcapReset
  <1>6. CASE m = 2 \/ m = 3
    <2>1. port = IcapReset /\ Closing[m + 1] = Noop
      BY <1>1, <1>6 DEF Closed
    <2>2. Received(port, Noop) = [IcapReset EXCEPT !.sync = FALSE]
      <3>1. ~port.sync /\ port.next = "header"
        BY <2>1 DEF IcapReset
      <3>2. Received(port, Noop) = [port EXCEPT !.sync = (Noop = SYNC_CMD)]
        BY <3>1 DEF Received
      <3>3. QED
        BY <1>3, <2>1, <3>2
    <2>3. Received(port, Noop) = IcapReset
      BY <2>2 DEF IcapReset
    <2>4. m + 1 >= 2
      BY <1>6
    <2>5. IcapReset.next = "header" /\ ~IcapReset.sync
      BY DEF IcapReset
    <2>6. QED
      BY <2>1, <2>3, <2>4, <2>5 DEF Closed
  <1>7. QED
    BY <1>4, <1>5, <1>6

\* A stream begins on a core at rest, with its length in Size.
LEMMA FlowBegins ==
  ASSUME NEW h \in HbicapType(U32s, 0 .. NoReg), Rests(h), NEW words, Len(words) \in Nat \ {0}
  PROVE  Streams(words, 0, SetSize(h, Len(words)))
  <1>1. SetSize(h, Len(words)) = [h EXCEPT !.size = Len(words)]
    BY DEF SetSize, Kick, Rests, HbicapType
  <1>2. QED
    BY <1>1, EmptySeq DEF Rests, Streams, Flow, HbicapType

\* The next word of the stream goes to the end of the FIFO.
LEMMA FlowPushes ==
  ASSUME NEW h \in HbicapType(U32s, 0 .. NoReg), NEW words, Len(words) \in Nat,
         NEW s \in Nat, Streams(words, s, h), s < Len(words), U32(words[s + 1]) \in U32s
  PROVE  /\ Streams(words, s + 1, Push(h, U32(words[s + 1])))
         /\ Push(h, U32(words[s + 1])).size = h.size
  <1> DEFINE w == U32(words[s + 1])
             N == Len(words)
             n == Len(h.fifo)
             q == Append(h.fifo, w)
             g == [h EXCEPT !.fifo = q]
             k == Push(h, w)
  <1>1. /\ h.fifo \in Seq(U32s) /\ n \in Nat /\ N \in Nat /\ h.size \in 0 .. N
        /\ s = (N - h.size) + n /\ n < h.size
        /\ \A j \in 1 .. n : h.fifo[j] = U32(words[(N - h.size) + j])
        /\ h.mode = "idle" \/ h.mode = "write"
        /\ h.rfifo = <<>> /\ ~h.read /\ ~h.abort
    BY LenProperties DEF Streams, Flow, HbicapType
  <1>2. /\ q \in Seq(U32s) /\ q # <<>> /\ Len(q) = n + 1
        /\ \A j \in 1 .. n : q[j] = h.fifo[j]
        /\ q[n + 1] = w
    BY <1>1, AppendProperties
  <1>3. /\ k.mode = "write" /\ k.size = h.size /\ k.fifo = q
        /\ k.rfifo = <<>> /\ ~k.read /\ ~k.abort
    <2>1. /\ g \in HbicapType(U32s, 0 .. NoReg) /\ g.size = h.size /\ g.mode = h.mode
          /\ g.fifo = q /\ g.rfifo = h.rfifo /\ g.read = h.read /\ g.abort = h.abort
      BY <1>2 DEF HbicapType
    <2>2. k = IF g.mode = "idle" THEN [g EXCEPT !.mode = "write"] ELSE g
      BY <1>1, <1>2, <2>1 DEF Push, Kick
    <2>3. QED
      BY <1>1, <2>1, <2>2 DEF HbicapType
  <1> HIDE DEF n, q, k, N
  <1>4. ASSUME NEW j \in 1 .. n + 1 PROVE q[j] = U32(words[(N - h.size) + j])
    <2>1. CASE j \in 1 .. n
      BY <1>1, <1>2, <2>1
    <2>2. CASE j = n + 1
      <3>1. (N - h.size) + j = s + 1
        BY <1>1, <2>2
      <3>2. QED
        BY <1>2, <2>2, <3>1
    <2>3. QED
      BY <1>1, <2>1, <2>2
  <1>5. s + 1 = (N - h.size) + Len(q) /\ Len(q) <= h.size /\ h.size > 0
    BY <1>1, <1>2
  <1>6. QED
    BY <1>1, <1>2, <1>3, <1>4, <1>5 DEF Streams, Flow, N, k

\* The oldest word moves: it is the next one of the stream.
LEMMA FlowMoves ==
  ASSUME NEW h \in HbicapType(U32s, 0 .. NoReg), NEW words, Len(words) \in Nat,
         NEW s \in Nat, Streams(words, s, h), CanMove(h)
  PROVE  /\ Streams(words, s, Move(h))
         /\ Head(h.fifo) = U32(words[(Len(words) - h.size) + 1])
         /\ Move(h).size = h.size - 1
  <1> DEFINE N == Len(words)
             z == h.size
             m == N - z
             n == Len(h.fifo)
             q == Tail(h.fifo)
             k == Move(h)
  <1>1. /\ h.fifo \in Seq(U32s) /\ h.fifo # <<>> /\ n \in Nat \ {0} /\ N \in Nat
        /\ z \in 1 .. N /\ s = m + n /\ n <= z
        /\ \A j \in 1 .. n : h.fifo[j] = U32(words[m + j])
        /\ h.rfifo = <<>> /\ ~h.read /\ ~h.abort
    BY EmptySeq, LenProperties DEF Streams, Flow, CanMove, HbicapType
  <1>2. q \in Seq(U32s) /\ Len(q) = n - 1 /\ \A j \in 1 .. n - 1 : q[j] = h.fifo[j + 1]
    BY <1>1, HeadTailProperties
  <1>3. Head(h.fifo) = h.fifo[1] /\ 1 \in 1 .. n
    BY <1>1
  <1>4. /\ k.size = z - 1 /\ k.fifo = q
        /\ k.mode = IF z = 1 THEN "idle" ELSE "write"
        /\ k.rfifo = <<>> /\ ~k.read /\ ~k.abort
    BY <1>1 DEF Move, HbicapType
  <1>5. m \in 0 .. N - 1 /\ m + 1 = N - (z - 1)
    BY <1>1
  <1> HIDE DEF n, q, k, N, z, m
  <1>6. ASSUME NEW j \in 1 .. n - 1 PROVE q[j] = U32(words[(m + 1) + j])
    <2>1. j + 1 \in 1 .. n /\ m + (j + 1) = (m + 1) + j
      BY <1>1, <1>5
    <2>2. h.fifo[j + 1] = U32(words[m + (j + 1)])
      BY <1>1, <2>1
    <2>3. QED
      BY <1>2, <2>1, <2>2
  <1>7. /\ s = (m + 1) + Len(q) /\ Len(q) <= z - 1 /\ z - 1 \in 0 .. N
        /\ z = 1 => Len(q) = 0
        /\ z # 1 => z - 1 > 0
    BY <1>1, <1>2, <1>5
  <1>8. z = 1 => q = <<>>
    <2>1. \A r \in Seq(U32s) : Len(r) = 0 => r = <<>>
      BY EmptySeq
    <2>2. QED
      BY <1>2, <1>7, <2>1
  <1>9. Flow(words, k)
    <2>1. k.mode \in {"idle", "write"} /\ (k.mode = "write" => z # 1) /\ (k.mode = "idle" => z = 1)
      BY <1>4
    <2>2. \A j \in 1 .. Len(q) : q[j] = U32(words[(N - (z - 1)) + j])
      BY <1>2, <1>5, <1>6
    <2>3. z = 1 => z - 1 = 0
      OBVIOUS
    <2>4. QED
      BY <1>4, <1>7, <1>8, <2>1, <2>2, <2>3 DEF Flow, N
  <1>10. Streams(words, s, k)
    BY <1>4, <1>5, <1>7, <1>9 DEF Streams, N
  <1>11. QED
    BY <1>1, <1>3, <1>4, <1>10 DEF N, k, z, m

-----------------------------------------------------------------------------
(* The invariant is inductive *)

\* A call that fails or dies leaves the core in doubt, whatever state it is in.
LEMMA FailsKeep ==
  ASSUME OneReader, IInv, TypeOK', PortSound',
         NEW c \in Clients, NEW r \in {"err", "crash"}, Return(c, r)
  PROVE  IInv'
  <1>1. pc'[c] = "out" /\ result'[c] = r /\ sent'[c] = 0 /\ clean'[c] = FALSE
    BY DEF Return, IInv, TypeOK, ClientTypeOK
  <1>2. pc'[c] \notin ReadbackLabels /\ pc'[c] \notin ClosingLabels
    BY <1>1 DEF ReadbackLabels, OpeningLabels, ReadLabels, ClosingLabels
  <1>3. (/\ CleanRests(c) /\ AbortEmpties(c) /\ Doubtless(c)
         /\ Opens(c) /\ Reads(c) /\ Closes(c) /\ Values(c))'
    BY <1>1, <1>2 DEF CleanRests, AbortEmpties, Doubtless, Opens, Reads, Closes, Values
  <1>4. QED
    BY <1>3 DEF IInv, OneReader

\* What an access that succeeds does to the process that makes it.
LEMMA AccessOk ==
  ASSUME ClientTypeOK, NEW c \in Clients, NEW at, NEW next, Access(c, at, "ok", next)
  PROVE  /\ pc[c] = at /\ pc'[c] = next /\ sent'[c] = sent[c] /\ result'[c] = result[c]
         /\ clean'[c] = clean[c] /\ reg'[c] = reg[c] /\ got'[c] = got[c]
  BY DEF Access, Goto, ClientTypeOK

\* A Size without words to move leaves a core at rest.
LEMMA SizeRests ==
  ASSUME NEW h \in HbicapType(U32s, 0 .. NoReg), Rests(h), NEW n \in Nat
  PROVE  Rests(SetSize(h, n)) /\ SetSize(h, n).size = n
  BY DEF Rests, SetSize, Kick, HbicapType

\* The register accesses.  Each of them needs what the labels before it left.
LEMMA AccessesKeep ==
  ASSUME OneReader, AbortFirst, IInv,
         NEW c \in Clients, NEW reply \in Replies, Accesses(c, reply)
  PROVE  IInv'
  <1> DEFINE Parts == /\ CleanRests(c) /\ AbortEmpties(c) /\ Doubtless(c)
                      /\ Opens(c) /\ Reads(c) /\ Closes(c) /\ Values(c)
  <1>1. TypeOK' /\ TypeOK /\ ClientTypeOK /\ hb \in HbicapType(U32s, 0 .. NoReg)
    BY TypeKept DEF IInv, TypeOK
  <1>2. icap' = icap /\ PortSound'
    BY DEF Accesses, Abort, AbortDebug, ResetRead, ResetWrite, Announce, OpenSize, ReadSize,
           ReadStart, CloseSize, WriteSize, IInv, PortSound
  <1>3. CASE reply # "ok" \/ Return(c, "crash")
    <2>1. Return(c, "err") \/ Return(c, "crash")
      BY <1>3 DEF Accesses, Abort, AbortDebug, ResetRead, ResetWrite, Announce, OpenSize,
                  ReadSize, ReadStart, CloseSize, WriteSize, Access
    <2>2. QED
      BY <1>1, <1>2, <2>1, FailsKeep
  <1>4. Len(Opening(reg[c])) = 9 /\ Len(Closing) = 4 /\ reg[c] \in 0 .. 31
    <2>1. reg[c] \in 0 .. 31
      BY <1>1, RegsFit DEF ClientTypeOK
    <2>2. QED
      BY <2>1, StreamWords
  <1>5. ASSUME reply = "ok", ~Return(c, "crash") PROVE Parts'
    <2> USE DEF CleanRests, AbortEmpties, Doubtless, Opens, Reads, Closes, Values,
                ReadbackLabels, OpeningLabels, ReadLabels, ClosingLabels
    <2>1. /\ reg[c] \in 0 .. 31 /\ Landed("ok", hb, StartAbort) = StartAbort
          /\ \A new : Landed("ok", hb, new) = new
          /\ Parts
      BY <1>1, <1>4 DEF Landed, ClientTypeOK, IInv
    <2>2. CASE Abort(c, "ok")
      <3>1. /\ hb' = StartAbort /\ pc'[c] = "abort_poll" /\ pc[c] = "abort"
            /\ sent'[c] = sent[c] /\ result'[c] = result[c] /\ clean'[c] = clean[c]
        BY <1>1, <2>1, <2>2, AccessOk DEF Abort
      <3>2. /\ StartAbort.mode = "abort" /\ ~StartAbort.read /\ StartAbort.size = 0
            /\ StartAbort.fifo = <<>> /\ StartAbort.rfifo = <<>>
        BY DEF StartAbort, HbicapReset
      <3>3. QED
        BY <2>1, <3>1, <3>2
    <2>3. CASE AbortDebug(c, "ok")
      BY <1>1, <2>1, <2>3, AccessOk DEF AbortDebug
    <2>4. CASE ResetRead(c, "ok")
      BY <1>1, <2>1, <2>4, AccessOk DEF ResetRead
    <2>5. CASE ResetWrite(c, "ok")
      <3>1. /\ pc'[c] = "out" /\ result'[c] = "ok" /\ sent'[c] = 0 /\ hb' = HbicapReset
        BY <1>1, <2>1, <2>5 DEF ResetWrite, Return, ClientTypeOK
      <3>2. Rests(HbicapReset)
        BY DEF Rests, HbicapReset
      <3>3. QED
        BY <3>1, <3>2
    <2>6. CASE Announce(c, "ok")
      <3>1. PICK n \in Nat : hb' = SetSize(hb, n)
        <4>1. sent[c] \in Nat
          BY <1>1 DEF ClientTypeOK
        <4>2. QED
          BY <1>5, <2>1, <2>6, <4>1, BurstAssumption DEF Announce
      <3>2. /\ pc[c] = "announce" /\ pc'[c] = "announce"
            /\ result'[c] = result[c] /\ clean'[c] = clean[c]
        BY <1>5, <2>6 DEF Announce
      <3>3. Rests(hb')
        BY <1>1, <2>1, <3>1, <3>2, SizeRests
      <3>4. QED
        BY <2>1, <3>2, <3>3
    <2>7. CASE OpenSize(c, "ok")
      <3>1. /\ hb' = SetSize(hb, 9) /\ pc[c] = "open_size" /\ pc'[c] = "open_dma"
            /\ sent'[c] = sent[c] /\ result'[c] = result[c] /\ clean'[c] = clean[c]
            /\ reg'[c] = reg[c]
        BY <1>1, <1>4, <2>1, <2>7, AccessOk DEF OpenSize, WriteSize
      <3>2. Streams(Opening(reg[c]), 0, hb')
        <4>1. Rests(hb)
          BY <2>1, <3>1
        <4>2. Len(Opening(reg[c])) \in Nat \ {0}
          BY <1>4
        <4>3. Streams(Opening(reg[c]), 0, SetSize(hb, Len(Opening(reg[c]))))
          BY <1>1, <4>1, <4>2, FlowBegins
        <4>4. QED
          BY <1>4, <3>1, <4>3
      <3>3. hb'.size = 9
        BY <1>1, <2>1, <3>1, SizeRests
      <3>4. Opened(icap', reg'[c], 9 - hb'.size)
        BY <3>3 DEF Opened
      <3>5. QED
        BY <2>1, <3>1, <3>2, <3>4
    <2>8. CASE ReadSize(c, "ok")
      <3>1. /\ hb' = SetSize(hb, 1) /\ pc[c] = "read_size" /\ pc'[c] = "read_start"
            /\ sent'[c] = sent[c] /\ result'[c] = result[c] /\ clean'[c] = clean[c]
            /\ reg'[c] = reg[c]
        BY <1>1, <2>1, <2>8, AccessOk DEF ReadSize, WriteSize
      <3>2. Rests(hb') /\ hb'.size = 1
        BY <1>1, <2>1, <3>1, SizeRests
      <3>3. QED
        BY <1>2, <2>1, <3>1, <3>2
    <2>9. CASE ReadStart(c, "ok")
      <3>1. /\ hb' = StartRead(hb) /\ pc[c] = "read_start" /\ pc'[c] = "read_dma"
            /\ sent'[c] = sent[c] /\ result'[c] = result[c] /\ clean'[c] = clean[c]
            /\ reg'[c] = reg[c]
        BY <1>1, <2>1, <2>9, AccessOk DEF ReadStart
      <3>2. /\ hb'.mode = "read" /\ hb'.size = 1 /\ hb'.rfifo = <<>> /\ hb'.fifo = <<>>
            /\ ~hb'.abort
        BY <1>1, <2>1, <3>1 DEF StartRead, Rests, HbicapType
      <3>3. QED
        BY <1>2, <2>1, <3>1, <3>2
    <2>10. CASE CloseSize(c, "ok")
      <3>1. /\ hb' = SetSize(hb, 4) /\ pc[c] = "close_size" /\ pc'[c] = "close_dma"
            /\ sent'[c] = sent[c] /\ result'[c] = result[c] /\ clean'[c] = clean[c]
            /\ reg'[c] = reg[c] /\ got'[c] = got[c]
        BY <1>1, <1>4, <2>1, <2>10, AccessOk DEF CloseSize, WriteSize
      <3>2. Streams(Closing, 0, hb')
        <4>1. Rests(hb)
          BY <2>1, <3>1
        <4>2. Len(Closing) \in Nat \ {0}
          BY <1>4
        <4>3. Streams(Closing, 0, SetSize(hb, Len(Closing)))
          BY <1>1, <4>1, <4>2, FlowBegins
        <4>4. QED
          BY <1>4, <3>1, <4>3
      <3>3. hb'.size = 4 /\ Closed(icap', 0)
        BY <1>1, <1>2, <2>1, <3>1, SizeRests
      <3>4. QED
        BY <2>1, <3>1, <3>2, <3>3
    <2>11. QED
      BY <1>5, <2>2, <2>3, <2>4, <2>5, <2>6, <2>7, <2>8, <2>9, <2>10 DEF Accesses
  <1>6. QED
    BY <1>1, <1>2, <1>3, <1>5 DEF IInv, OneReader

\* A poll goes on only when the register shows what it waits for.
LEMMA PollsKeep ==
  ASSUME OneReader, AbortFirst, IInv,
         NEW c \in Clients, NEW readOk \in BOOLEAN, Polls(c, readOk)
  PROVE  IInv'
  <1> DEFINE Parts == /\ CleanRests(c) /\ AbortEmpties(c) /\ Doubtless(c)
                      /\ Opens(c) /\ Reads(c) /\ Closes(c) /\ Values(c)
             Same  == UNCHANGED <<reg, got, hb, icap>>
  <1>1. TypeOK' /\ TypeOK /\ ClientTypeOK /\ Parts /\ PortSound
    BY TypeKept DEF IInv, TypeOK
  <1>2. Same
    BY DEF Polls, PollAborted, PollAbortCleared, PollReady, OpenDone, PollReadClear, CloseDone, PollTry
  <1>3. PortSound'
    BY <1>1, <1>2 DEF PortSound
  <1>4. ASSUME UNCHANGED <<pc, sent, result, clean>> PROVE IInv'
    BY <1>1, <1>2, <1>3, <1>4
       DEF IInv, OneReader, CleanRests, AbortEmpties, Doubtless, Opens, Reads, Closes, Values
  <1>5. ASSUME Return(c, "err") PROVE IInv'
    BY <1>1, <1>3, <1>5, FailsKeep
  <1>6. ASSUME NEW l \in Labels, Goto(c, l)
        PROVE  pc'[c] = l /\ sent'[c] = sent[c] /\ result'[c] = result[c] /\ clean'[c] = clean[c]
    BY <1>1, <1>6 DEF Goto, ClientTypeOK
  <1>7. ASSUME NEW r \in Results, Return(c, r), r \in {"ok", "value"}
        PROVE  /\ pc'[c] = "out" /\ sent'[c] = 0 /\ result'[c] = r
               /\ clean'[c] = (clean[c] \/ pc[c] = "ready")
    BY <1>1, <1>7 DEF Return, ClientTypeOK
  <1>8. {"abort_debug", "ready", "read_size", "close_size"} \subseteq Labels
    BY DEF Labels, AbortLabels, ReadbackLabels, OpeningLabels, ClosingLabels
  <1>9. ASSUME Parts' PROVE IInv'
    BY <1>1, <1>3, <1>9 DEF IInv, OneReader
  <1> USE DEF CleanRests, AbortEmpties, Doubtless, Opens, Reads, Closes, Values,
              ReadbackLabels, OpeningLabels, ReadLabels, ClosingLabels, Idle, Results
  <1>10. CASE PollAborted(c, readOk)
    <2>1. CASE pc[c] = "abort_poll" /\ Goto(c, "abort_debug")
      BY <1>1, <1>2, <1>6, <1>8, <1>9, <2>1
    <2>2. QED
      BY <1>4, <1>5, <1>10, <2>1 DEF PollAborted, PollTry
  <1>11. CASE PollAbortCleared(c, readOk)
    <2>1. CASE pc[c] = "abort_clear" /\ ~hb.abort /\ Goto(c, "ready")
      BY <1>1, <1>2, <1>6, <1>8, <1>9, <2>1
    <2>2. QED
      BY <1>4, <1>5, <1>11, <2>1 DEF PollAbortCleared, PollTry
  <1>12. CASE PollReady(c, readOk)
    <2>1. CASE pc[c] = "ready" /\ Idle(hb) /\ Return(c, "ok")
      <3>1. Rests(hb')
        BY <1>1, <1>2, <2>1 DEF Rests
      <3>2. QED
        BY <1>1, <1>2, <1>7, <1>9, <2>1, <3>1
    <2>2. QED
      BY <1>4, <1>5, <1>12, <2>1 DEF PollReady, PollTry
  <1>13. CASE OpenDone(c, readOk)
    <2>1. CASE pc[c] = "open_done" /\ Idle(hb) /\ Goto(c, "read_size")
      <3>1. reg[c] \in 0 .. 31 /\ hb \in HbicapType(U32s, 0 .. NoReg)
        BY <1>1, RegsFit DEF ClientTypeOK, TypeOK
      <3>2. Streams(Opening(reg[c]), 9, hb) /\ Len(Opening(reg[c])) = 9
        BY <1>1, <2>1, <3>1, StreamWords
      <3>3. hb.size = 0 /\ Rests(hb)
        <4>1. hb.fifo = <<>> /\ Len(hb.fifo) = 0
          BY <2>1, <3>2 DEF Streams, Flow
        <4>2. hb.size \in Nat /\ 9 = (9 - hb.size) + 0
          BY <3>1, <3>2, <4>1 DEF Streams, HbicapType
        <4>3. QED
          BY <2>1, <3>2, <4>1, <4>2 DEF Streams, Rests
      <3>4. Asked(icap, reg[c])
        BY <1>1, <2>1, <3>3 DEF Opened, Asked
      <3>5. QED
        BY <1>1, <1>2, <1>6, <1>8, <1>9, <2>1, <3>3, <3>4
    <2>2. QED
      BY <1>4, <1>5, <1>13, <2>1 DEF OpenDone, PollTry
  <1>14. CASE PollReadClear(c, readOk)
    <2>1. CASE pc[c] = "read_clear" /\ ~hb.read /\ Goto(c, "close_size")
      <3>1. Rests(hb)
        BY <1>1, <2>1 DEF Rests
      <3>2. QED
        BY <1>1, <1>2, <1>6, <1>8, <1>9, <2>1, <3>1
    <2>2. QED
      BY <1>4, <1>5, <1>14, <2>1 DEF PollReadClear, PollTry
  <1>15. CASE CloseDone(c, readOk)
    <2>1. CASE pc[c] = "close_done" /\ Idle(hb) /\ Return(c, "value")
      <3>1. hb \in HbicapType(U32s, 0 .. NoReg) /\ Streams(Closing, 4, hb) /\ Len(Closing) = 4
        BY <1>1, <2>1, StreamWords DEF TypeOK
      <3>2. hb.size = 0 /\ Rests(hb)
        <4>1. hb.fifo = <<>> /\ Len(hb.fifo) = 0
          BY <2>1, <3>1 DEF Streams, Flow
        <4>2. hb.size \in Nat /\ 4 = (4 - hb.size) + 0
          BY <3>1, <4>1 DEF Streams, HbicapType
        <4>3. QED
          BY <2>1, <3>1, <4>1, <4>2 DEF Streams, Rests
      <3>3. icap = IcapReset
        BY <1>1, <2>1, <3>2 DEF Closed
      <3>4. QED
        BY <1>1, <1>2, <1>7, <1>9, <2>1, <3>2, <3>3
    <2>2. QED
      BY <1>4, <1>5, <1>15, <2>1 DEF CloseDone, PollTry
  <1>16. QED
    BY <1>10, <1>11, <1>12, <1>13, <1>14, <1>15 DEF Polls

\* A call begins on what the last one left; a readback only on a core at rest.
LEMMA BeginKeeps ==
  ASSUME OneReader, AbortFirst, IInv, NEW c \in Clients, Start(c)
  PROVE  IInv'
  <1> DEFINE Parts == /\ CleanRests(c) /\ AbortEmpties(c) /\ Doubtless(c)
                      /\ Opens(c) /\ Reads(c) /\ Closes(c) /\ Values(c)
  <1>1. TypeOK' /\ TypeOK /\ ClientTypeOK /\ Parts /\ PortSound
    BY TypeKept DEF IInv, TypeOK
  <1>2. PICK r \in Regs, l \in {"abort", "reset_read", "announce", "open_size"} :
          /\ Begin(c, r, l)
          /\ l \in {"announce", "open_size"} => clean[c]
    BY <1>1 DEF Start, StartAborting, StartReset, StartWriteProgramming, StartReadback, ClientTypeOK
  <1>3. /\ pc[c] = "out" /\ pc'[c] = l /\ result'[c] = "none"
        /\ UNCHANGED <<sent, clean, hb, icap>>
    BY <1>1, <1>2 DEF Begin, ClientTypeOK
  <1>4. Parts'
    BY <1>1, <1>2, <1>3
       DEF CleanRests, AbortEmpties, Doubtless, Opens, Reads, Closes, Values,
           ReadbackLabels, OpeningLabels, ReadLabels, ClosingLabels
  <1>5. QED
    BY <1>1, <1>3, <1>4 DEF IInv, OneReader, PortSound

\* The transfers deliver the words of their stream in order; the one word that
\* is read is the register's.
LEMMA TransfersKeep ==
  ASSUME OneReader, AbortFirst, IInv, NEW c \in Clients,
         Transfers(c) \/ Stalls(c) \/ SendFails(c) \/ ReadFails(c) \/ Crash(c)
  PROVE  IInv'
  <1> DEFINE Parts == /\ CleanRests(c) /\ AbortEmpties(c) /\ Doubtless(c)
                      /\ Opens(c) /\ Reads(c) /\ Closes(c) /\ Values(c)
  <1>1. /\ TypeOK' /\ TypeOK /\ ClientTypeOK /\ Parts /\ PortSound
        /\ hb \in HbicapType(U32s, 0 .. NoReg)
    BY TypeKept DEF IInv, TypeOK
  <1>2. UNCHANGED <<reg, icap>> /\ PortSound'
    BY <1>1 DEF Transfers, OpenWord, OpenSent, ReadWord, CloseWord, CloseSent, SendWord, SendDone,
                Stalls, OpenStalls, ReadStalls, CloseStalls, SendStalls, SendFails, ReadFails, Crash,
                PortSound
  <1>3. CASE Stalls(c) \/ SendFails(c) \/ ReadFails(c) \/ Crash(c)
    <2>1. Return(c, "err") \/ Return(c, "crash")
      BY <1>3 DEF Stalls, OpenStalls, ReadStalls, CloseStalls, SendStalls, SendFails, ReadFails, Crash
    <2>2. QED
      BY <1>1, <1>2, <2>1, FailsKeep
  <1>4. /\ reg[c] \in 0 .. 31 /\ sent[c] \in Nat /\ Len(Opening(reg[c])) = 9 /\ Len(Closing) = 4
        /\ \A k \in 1 .. 9 : U32(Opening(reg[c])[k]) \in U32s
        /\ \A k \in 1 .. 4 : U32(Closing[k]) \in U32s
    <2>1. reg[c] \in Regs /\ reg[c] \in 0 .. 31 /\ sent[c] \in Nat
      BY <1>1, RegsFit DEF ClientTypeOK
    <2>2. Len(Opening(reg[c])) = 9 /\ Len(Closing) = 4
      BY <2>1, StreamWords
    <2>3. QED
      BY <2>1, <2>2, SentTyped
  <1>5. ASSUME NEW at, NEW words, Len(words) \in Nat, SendWord(c, at, words),
               \A k \in 1 .. Len(words) : U32(words[k]) \in U32s,
               Streams(words, sent[c], hb)
        PROVE  /\ pc[c] = at /\ UNCHANGED <<pc, reg, got, result, clean>>
               /\ Streams(words, sent'[c], hb') /\ hb'.size = hb.size
    <2>1. sent[c] < Len(words) /\ sent'[c] = sent[c] + 1
          /\ hb' = Push(hb, U32(words[sent[c] + 1]))
      BY <1>1, <1>5 DEF SendWord, ClientTypeOK
    <2>2. U32(words[sent[c] + 1]) \in U32s
      <3>1. sent[c] \in Nat /\ Len(words) \in Nat /\ sent[c] < Len(words)
        BY <1>4, <1>5, <2>1
      <3>2. sent[c] + 1 \in 1 .. Len(words)
        BY <3>1
      <3>3. \A k \in 1 .. Len(words) : U32(words[k]) \in U32s
        BY <1>5
      <3>4. QED
        BY <3>2, <3>3
    <2>3. HasVacancy(hb) /\ UNCHANGED <<pc, reg, got, result, clean>> /\ pc[c] = at
      BY <1>5 DEF SendWord
    <2>4. /\ Streams(words, sent[c] + 1, Push(hb, U32(words[sent[c] + 1])))
          /\ Push(hb, U32(words[sent[c] + 1])).size = hb.size
      BY <1>1, <1>4, <1>5, <2>1, <2>2, <2>3, FlowPushes
    <2>5. QED
      BY <2>1, <2>3, <2>4
  <1>6. ASSUME NEW at, NEW words, NEW next, SendDone(c, at, words, next)
        PROVE  /\ pc[c] = at /\ pc'[c] = next /\ sent[c] = Len(words) /\ sent'[c] = 0
               /\ UNCHANGED <<reg, got, result, clean, hb>>
    BY <1>1, <1>6 DEF SendDone, ClientTypeOK
  <1>7. ASSUME Parts' PROVE IInv'
    BY <1>1, <1>2, <1>7 DEF IInv, OneReader
  <1> HIDE DEF Parts
  <1>8. CASE OpenWord(c)
    <2>1. Streams(Opening(reg[c]), sent[c], hb)
      BY <1>1, <1>8 DEF OpenWord, SendWord, Parts, Opens
    <2>2. /\ pc[c] = "open_dma" /\ UNCHANGED <<pc, reg, got, result, clean>>
          /\ Streams(Opening(reg[c]), sent'[c], hb') /\ hb'.size = hb.size
      <3> DEFINE words == Opening(reg[c])
      <3>1. /\ Len(words) \in Nat /\ SendWord(c, "open_dma", words)
            /\ \A k \in 1 .. Len(words) : U32(words[k]) \in U32s
            /\ Streams(words, sent[c], hb)
        BY <1>4, <1>8, <2>1 DEF OpenWord
      <3> HIDE DEF words
      <3>2. /\ pc[c] = "open_dma" /\ UNCHANGED <<pc, reg, got, result, clean>>
            /\ Streams(words, sent'[c], hb') /\ hb'.size = hb.size
        BY <1>5, <3>1
      <3>3. QED
        BY <3>2 DEF words
    <2>3. Parts'
      BY <1>1, <1>2, <2>2
         DEF Parts, CleanRests, AbortEmpties, Doubtless, Opens, Reads, Closes, Values,
             ReadbackLabels, OpeningLabels, ReadLabels, ClosingLabels
    <2>4. QED
      BY <1>7, <2>3
  <1>9. CASE CloseWord(c)
    <2>1. Streams(Closing, sent[c], hb)
      BY <1>1, <1>9 DEF CloseWord, SendWord, Parts, Closes
    <2>2. /\ pc[c] = "close_dma" /\ UNCHANGED <<pc, reg, got, result, clean>>
          /\ Streams(Closing, sent'[c], hb') /\ hb'.size = hb.size
      BY <1>4, <1>5, <1>9, <2>1 DEF CloseWord
    <2>3. Parts'
      BY <1>1, <1>2, <2>2
         DEF Parts, CleanRests, AbortEmpties, Doubtless, Opens, Reads, Closes, Values,
             ReadbackLabels, OpeningLabels, ReadLabels, ClosingLabels
    <2>4. QED
      BY <1>7, <2>3
  <1>10. CASE OpenSent(c)
    <2>1. /\ pc[c] = "open_dma" /\ pc'[c] = "open_done" /\ sent[c] = 9 /\ sent'[c] = 0
          /\ UNCHANGED <<reg, got, result, clean, hb>>
      BY <1>4, <1>6, <1>10 DEF OpenSent
    <2>2. Parts'
      BY <1>1, <1>2, <2>1
         DEF Parts, CleanRests, AbortEmpties, Doubtless, Opens, Reads, Closes, Values,
             ReadbackLabels, OpeningLabels, ReadLabels, ClosingLabels
    <2>3. QED
      BY <1>7, <2>2
  <1>11. CASE CloseSent(c)
    <2>1. /\ pc[c] = "close_dma" /\ pc'[c] = "close_done" /\ sent[c] = 4 /\ sent'[c] = 0
          /\ UNCHANGED <<reg, got, result, clean, hb>>
      BY <1>4, <1>6, <1>11 DEF CloseSent
    <2>2. Parts'
      BY <1>1, <1>2, <2>1
         DEF Parts, CleanRests, AbortEmpties, Doubtless, Opens, Reads, Closes, Values,
             ReadbackLabels, OpeningLabels, ReadLabels, ClosingLabels
    <2>3. QED
      BY <1>7, <2>2
  <1>12. CASE ReadWord(c)
    <2>1. /\ pc[c] = "read_dma" /\ hb.rfifo # <<>> /\ pc'[c] = "read_clear"
          /\ got'[c] = Head(hb.rfifo) /\ hb' = [hb EXCEPT !.rfifo = Tail(@)]
          /\ UNCHANGED <<sent, result, clean, reg, icap>>
      BY <1>1, <1>12 DEF ReadWord, Goto, ClientTypeOK
    <2>2. hb.mode = "idle" /\ hb.rfifo = <<reg[c]>> /\ Closed(icap, 0) /\ hb.fifo = <<>> /\ ~hb.abort
      BY <1>1, <2>1 DEF Parts, Reads
    <2>3. Head(hb.rfifo) = reg[c] /\ Tail(hb.rfifo) = <<>>
      BY <2>2
    <2>4. /\ hb'.mode = "idle" /\ hb'.fifo = <<>> /\ ~hb'.abort /\ hb'.rfifo = <<>>
      BY <1>1, <2>1, <2>2, <2>3 DEF HbicapType
    <2>5. Parts'
      BY <1>1, <2>1, <2>2, <2>3, <2>4
         DEF Parts, CleanRests, AbortEmpties, Doubtless, Opens, Reads, Closes, Values,
             ReadbackLabels, OpeningLabels, ReadLabels, ClosingLabels
    <2>6. QED
      BY <1>7, <2>5
  <1>13. QED
    BY <1>3, <1>8, <1>9, <1>10, <1>11, <1>12 DEF Transfers

\* No word takes the port into the middle of an image.
LEMMA ReceivedSound ==
  ASSUME NEW port \in Ports, NEW w,
         port.next # "data", ~port.sync => port.next = "header"
  PROVE  LET q == Received(port, w)
         IN q.next # "data" /\ (~q.sync => q.next = "header")
  <1>1. /\ IcapReset.next = "header"
        /\ \A b \in BOOLEAN : [port EXCEPT !.sync = b].next = port.next
        /\ \A l \in {"header", "command"} : /\ [port EXCEPT !.next = l].next = l
                                            /\ [port EXCEPT !.next = l].sync = port.sync
        /\ \A v : /\ [port EXCEPT !.reg = v].next = port.next
                  /\ [port EXCEPT !.reg = v].sync = port.sync
    BY DEF IcapReset, Ports
  <1>2. (w = SYNC_CMD) \in BOOLEAN
    OBVIOUS
  <1>3. QED
    BY <1>1, <1>2 DEF Received

LEMMA PortStays ==
  ASSUME TypeOK, PortSound, Device
  PROVE  PortSound'
  <1>1. icap \in Ports
    BY DEF TypeOK
  <1>2. CASE \E w : icap' = Received(icap, w)
    BY <1>1, <1>2, ReceivedSound DEF PortSound
  <1>3. CASE icap' \in {icap, IcapReset}
    BY <1>3 DEF PortSound, IcapReset
  <1>4. CASE IcapFetch
    <2>1. icap'.sync = icap.sync /\ icap'.next = icap.next
      BY <1>1, <1>4 DEF IcapFetch, Ports
    <2>2. QED
      BY <2>1 DEF PortSound
  <1>5. QED
    BY <1>2, <1>3, <1>4
       DEF Device, IcapMove, ReadClears, AbortFinishes, AbortClears, Aborted, PortSound

\* The core works only where a stream, a read or an abort is under way: it
\* disturbs no process that waits for something else.
LEMMA DeviceKeeps ==
  ASSUME OneReader, AbortFirst, IInv, NEW c \in Clients, Device
  PROVE  IInv'
  <1> DEFINE Parts == /\ CleanRests(c) /\ AbortEmpties(c) /\ Doubtless(c)
                      /\ Opens(c) /\ Reads(c) /\ Closes(c) /\ Values(c)
             L == pc[c]
  <1>1. /\ TypeOK' /\ TypeOK /\ ClientTypeOK /\ Parts /\ PortSound
        /\ hb \in HbicapType(U32s, 0 .. NoReg) /\ icap \in Ports
    BY DeviceTyped DEF IInv, TypeOK
  <1>2. UNCHANGED client
    BY DEF Device, IcapMove, IcapFetch, ReadClears, AbortFinishes, AbortClears
  <1>3. ASSUME Parts', PortSound' PROVE IInv'
    BY <1>1, <1>3 DEF IInv, OneReader
  <1>4. /\ L \in {"open_dma", "open_done"} => \E s \in Nat : Streams(Opening(reg[c]), s, hb)
        /\ L \in {"close_dma", "close_done"} => \E s \in Nat : Streams(Closing, s, hb)
        /\ Len(Opening(reg[c])) = 9 /\ Len(Closing) = 4 /\ reg[c] \in 0 .. 31
    <2>1. sent[c] \in Nat /\ reg[c] \in 0 .. 31
      BY <1>1, RegsFit DEF ClientTypeOK
    <2>2. QED
      BY <1>1, <2>1, StreamWords DEF Opens, Closes
  <1>5. \/ ~clean[c] /\ L \in {"out", "abort", "reset_read", "reset_write"}
        \/ L \in {"abort_poll", "abort_debug", "abort_clear", "ready"}
        \/ L \in {"open_dma", "open_done"} \/ L \in {"close_dma", "close_done"}
        \/ L = "read_dma" \/ L = "read_clear"
        \/ Rests(hb)
    BY <1>1 DEF ClientTypeOK, Labels, AbortLabels, ResetLabels, CleanRests, Doubtless, Opens, Closes,
                ReadbackLabels, OpeningLabels, ReadLabels, ClosingLabels
  <1> HIDE DEF Parts, L
  <1>6. CASE IcapMove
    <2>1. /\ hb.mode = "write" /\ hb.size > 0 /\ hb' = Move(hb) /\ CanMove(hb)
          /\ icap' = Received(icap, Head(hb.fifo).u32)
      BY <1>6 DEF IcapMove, CanMove
    <2>2. PortSound'
      BY <1>1, PortStays
    <2>3. ~Rests(hb)
      BY <2>1 DEF Rests
    <2>4. CASE ~clean[c] /\ L \in {"out", "abort", "reset_read", "reset_write"}
      BY <1>1, <1>2, <1>3, <2>2, <2>4
         DEF L, client, Parts, CleanRests, AbortEmpties, Doubtless, Opens, Reads, Closes, Values,
             ReadbackLabels, OpeningLabels, ReadLabels, ClosingLabels
    <2>5. CASE L \in {"open_dma", "open_done"}
      <3>1. ASSUME NEW s \in Nat, Streams(Opening(reg[c]), s, hb)
            PROVE  /\ Streams(Opening(reg[c]), s, hb') /\ hb'.size = hb.size - 1
                   /\ Head(hb.fifo) = U32(Opening(reg[c])[(9 - hb.size) + 1])
                   /\ hb.size \in 1 .. 9
        <4>1. hb.size \in 1 .. 9
          BY <1>1, <1>4, <2>1, <3>1 DEF Streams, Flow
        <4> DEFINE words == Opening(reg[c])
        <4>2. Len(words) = 9 /\ Len(words) \in Nat /\ Streams(words, s, hb)
          BY <1>4, <3>1
        <4> HIDE DEF words
        <4>3. /\ Streams(words, s, Move(hb)) /\ Move(hb).size = hb.size - 1
              /\ Head(hb.fifo) = U32(words[(Len(words) - hb.size) + 1])
          BY <1>1, <2>1, <3>1, <4>2, FlowMoves
        <4>4. QED
          BY <2>1, <4>1, <4>2, <4>3 DEF words
      <3>2. /\ hb'.size = hb.size - 1 /\ hb.size \in 1 .. 9
            /\ icap' = Received(icap, Opening(reg[c])[(9 - hb.size) + 1])
        BY <1>4, <2>1, <2>5, <3>1 DEF U32
      <3>3. Opened(icap', reg[c], 9 - hb'.size)
        <4> DEFINE m == 9 - hb.size
        <4>1. m \in 0 .. 8 /\ 9 - hb'.size = m + 1 /\ Opened(icap, reg[c], m)
          BY <1>1, <2>5, <3>2 DEF Parts, Opens, L
        <4>2. QED
          BY <1>1, <1>4, <3>2, <4>1, PortOpens DEF PortSound
      <3>4. sent[c] \in Nat /\ 9 \in Nat
        BY <1>1 DEF ClientTypeOK
      <3>5. Parts'
        BY <1>1, <1>2, <2>5, <3>1, <3>3, <3>4
           DEF L, client, Parts, CleanRests, AbortEmpties, Doubtless, Opens, Reads, Closes, Values,
               ReadbackLabels, OpeningLabels, ReadLabels, ClosingLabels
      <3>6. QED
        BY <1>3, <2>2, <3>5
    <2>6. CASE L \in {"close_dma", "close_done"}
      <3>1. ASSUME NEW s \in Nat, Streams(Closing, s, hb)
            PROVE  /\ Streams(Closing, s, hb') /\ hb'.size = hb.size - 1
                   /\ Head(hb.fifo) = U32(Closing[(4 - hb.size) + 1])
                   /\ hb.size \in 1 .. 4
        <4>1. hb.size \in 1 .. 4
          BY <1>1, <1>4, <2>1, <3>1 DEF Streams, Flow
        <4> DEFINE words == Closing
        <4>2. Len(words) = 4 /\ Len(words) \in Nat /\ Streams(words, s, hb)
          BY <1>4, <3>1
        <4> HIDE DEF words
        <4>3. /\ Streams(words, s, Move(hb)) /\ Move(hb).size = hb.size - 1
              /\ Head(hb.fifo) = U32(words[(Len(words) - hb.size) + 1])
          BY <1>1, <2>1, <3>1, <4>2, FlowMoves
        <4>4. QED
          BY <2>1, <4>1, <4>2, <4>3 DEF words
      <3>2. /\ hb'.size = hb.size - 1 /\ hb.size \in 1 .. 4
            /\ icap' = Received(icap, Closing[(4 - hb.size) + 1])
        BY <1>4, <2>1, <2>6, <3>1 DEF U32
      <3>3. Closed(icap', 4 - hb'.size)
        <4> DEFINE m == 4 - hb.size
        <4>1. m \in 0 .. 3 /\ 4 - hb'.size = m + 1 /\ Closed(icap, m)
          BY <1>1, <2>6, <3>2 DEF Parts, Closes, L
        <4>2. QED
          BY <1>1, <3>2, <4>1, PortCloses
      <3>4. sent[c] \in Nat /\ 4 \in Nat
        BY <1>1 DEF ClientTypeOK
      <3>5. Parts'
        BY <1>1, <1>2, <2>6, <3>1, <3>3, <3>4
           DEF L, client, Parts, CleanRests, AbortEmpties, Doubtless, Opens, Reads, Closes, Values,
               ReadbackLabels, OpeningLabels, ReadLabels, ClosingLabels
      <3>6. QED
        BY <1>3, <2>2, <3>5
    <2>7. QED
      BY <1>1, <1>5, <2>1, <2>3, <2>4, <2>5, <2>6 DEF L, Parts, AbortEmpties, Reads
  <1>7. CASE IcapFetch
    <2>1. /\ hb.mode = "read" /\ hb.size > 0 /\ hb' = Fetch(hb, icap.reg)
          /\ icap' = [icap EXCEPT !.reg = NoReg]
      BY <1>7 DEF IcapFetch, CanFetch
    <2>2. icap'.sync = icap.sync /\ icap'.next = icap.next /\ PortSound'
      BY <1>1, <2>1 DEF PortSound, Ports
    <2>3. CASE ~clean[c] /\ L \in {"out", "abort", "reset_read", "reset_write"}
      BY <1>1, <1>2, <1>3, <2>2, <2>3
         DEF L, client, Parts, CleanRests, AbortEmpties, Doubtless, Opens, Reads, Closes, Values,
             ReadbackLabels, OpeningLabels, ReadLabels, ClosingLabels
    <2>4. CASE L = "read_dma"
      <3>1. hb.size = 1 /\ hb.rfifo = <<>> /\ Asked(icap, reg[c]) /\ hb.fifo = <<>> /\ ~hb.abort
        BY <1>1, <2>1, <2>4 DEF L, Parts, Reads
      <3>2. /\ hb'.mode = "idle" /\ hb'.rfifo = <<reg[c]>> /\ hb'.fifo = <<>> /\ ~hb'.abort
        BY <1>1, <2>1, <3>1 DEF Fetch, HbicapType, Asked
      <3>3. Closed(icap', 0)
        BY <2>2, <3>1 DEF Closed, Asked
      <3>4. Parts'
        BY <1>1, <1>2, <2>4, <3>2, <3>3
           DEF L, client, Parts, CleanRests, AbortEmpties, Doubtless, Opens, Reads, Closes, Values,
               ReadbackLabels, OpeningLabels, ReadLabels, ClosingLabels
      <3>5. QED
        BY <1>3, <2>2, <3>4
    <2>5. QED
      BY <1>1, <1>4, <1>5, <2>1, <2>3, <2>4
         DEF L, Parts, AbortEmpties, Reads, Rests, Streams, Flow
  <1>8. CASE ReadClears
    <2>1. hb.read /\ hb.mode # "read" /\ hb' = ClearRead(hb) /\ icap' = icap /\ PortSound'
      BY <1>1, <1>8 DEF ReadClears, CanClearRead, PortSound
    <2>2. /\ hb'.mode = hb.mode /\ hb'.size = hb.size /\ hb'.fifo = hb.fifo
          /\ hb'.rfifo = hb.rfifo /\ hb'.abort = hb.abort
      BY <1>1, <2>1 DEF ClearRead, HbicapType
    <2>3. CASE \/ ~clean[c] /\ L \in {"out", "abort", "reset_read", "reset_write"}
               \/ L = "read_dma" \/ L = "read_clear"
      BY <1>1, <1>2, <1>3, <2>1, <2>2, <2>3
         DEF L, client, Parts, CleanRests, AbortEmpties, Doubtless, Opens, Reads, Closes, Values,
             ReadbackLabels, OpeningLabels, ReadLabels, ClosingLabels
    <2>4. QED
      BY <1>1, <1>4, <1>5, <2>1, <2>3 DEF L, Parts, AbortEmpties, Rests, Streams
  <1>9. CASE AbortFinishes
    <2>1. hb.mode = "abort" /\ hb' = FinishAbort(hb) /\ icap' \in {icap, IcapReset}
      BY <1>9 DEF AbortFinishes, CanFinishAbort, Aborted
    <2>2. PortSound'
      BY <1>1, PortStays
    <2>3. CASE ~clean[c] /\ L \in {"out", "abort", "reset_read", "reset_write"}
      BY <1>1, <1>2, <1>3, <2>2, <2>3
         DEF L, client, Parts, CleanRests, AbortEmpties, Doubtless, Opens, Reads, Closes, Values,
             ReadbackLabels, OpeningLabels, ReadLabels, ClosingLabels
    <2>4. CASE L \in {"abort_poll", "abort_debug", "abort_clear", "ready"}
      <3>1. hb.size = 0 /\ hb.fifo = <<>> /\ hb.rfifo = <<>> /\ ~hb.read /\ (L = "ready" => ~hb.abort)
        BY <1>1, <2>4 DEF L, Parts, AbortEmpties
      <3>2. hb' = [hb EXCEPT !.mode = "idle"]
        BY <1>1, <2>1, <3>1 DEF FinishAbort, Kick, HbicapType
      <3>3. /\ hb'.mode = "idle" /\ hb'.size = 0 /\ hb'.fifo = <<>> /\ hb'.rfifo = <<>>
            /\ ~hb'.read /\ (L = "ready" => ~hb'.abort)
        BY <1>1, <3>1, <3>2 DEF HbicapType
      <3>4. Parts'
        BY <1>1, <1>2, <2>4, <3>3
           DEF L, client, Parts, CleanRests, AbortEmpties, Doubtless, Opens, Reads, Closes, Values,
               ReadbackLabels, OpeningLabels, ReadLabels, ClosingLabels
      <3>5. QED
        BY <1>3, <2>2, <3>4
    <2>5. QED
      BY <1>1, <1>4, <1>5, <2>1, <2>3, <2>4 DEF L, Parts, Reads, Rests, Streams, Flow
  <1>10. CASE AbortClears
    <2>1. hb.abort /\ hb' = ClearAbort(hb) /\ icap' = icap /\ PortSound'
      BY <1>1, <1>10 DEF AbortClears, CanClearAbort, PortSound
    <2>2. /\ hb'.mode = hb.mode /\ hb'.size = hb.size /\ hb'.fifo = hb.fifo
          /\ hb'.rfifo = hb.rfifo /\ hb'.read = hb.read /\ ~hb'.abort
      BY <1>1, <2>1 DEF ClearAbort, HbicapType
    <2>3. CASE \/ ~clean[c] /\ L \in {"out", "abort", "reset_read", "reset_write"}
               \/ L \in {"abort_poll", "abort_debug", "abort_clear", "ready"}
      BY <1>1, <1>2, <1>3, <2>1, <2>2, <2>3
         DEF L, client, Parts, CleanRests, AbortEmpties, Doubtless, Opens, Reads, Closes, Values,
             ReadbackLabels, OpeningLabels, ReadLabels, ClosingLabels
    <2>4. QED
      BY <1>1, <1>4, <1>5, <2>1, <2>3 DEF L, Parts, Reads, Rests, Streams
  <1>11. QED
    BY <1>6, <1>7, <1>8, <1>9, <1>10 DEF Device

\* Every process begins outside of a call, in doubt about the core.
LEMMA InitKeeps == Init => IInv
  <1> SUFFICES ASSUME Init PROVE IInv
    OBVIOUS
  <1>1. TypeOK
    BY InitTyped
  <1>2. PortSound
    BY DEF Init, IcapReset, PortSound
  <1>3. ASSUME NEW c \in Clients
        PROVE  pc[c] = "out" /\ sent[c] = 0 /\ result[c] = "none" /\ clean[c] = FALSE
    BY DEF Init
  <1>4. QED
    BY <1>1, <1>2, <1>3
       DEF IInv, CleanRests, AbortEmpties, Doubtless, Opens, Reads, Closes, Values,
           ReadbackLabels, OpeningLabels, ReadLabels, ClosingLabels

\* The invariant: at every label of a readback it says which words of which
\* stream are in the FIFO, what the port has made of those before them, and
\* that a process without doubt finds a core at rest.
THEOREM IInvHolds ==
  ASSUME OneReader, AbortFirst
  PROVE  Spec => []IInv
  <1>1. IInv /\ [Next]_vars => IInv'
    <2> SUFFICES ASSUME IInv, [Next]_vars PROVE IInv'
      OBVIOUS
    <2>1. CASE UNCHANGED vars
      BY <2>1 DEF vars, client, IInv, TypeOK, ClientTypeOK, PortSound, CleanRests, AbortEmpties,
                  Doubtless, Opens, Reads, Closes, Values
    <2>2. ASSUME NEW c \in Clients, Start(c) \/ Step(c) \/ Fault(c) PROVE IInv'
      BY <2>2, ClientCases, BeginKeeps, AccessesKeep, PollsKeep, TransfersKeep
    <2>3. CASE Device
      <3>1. CASE Clients = {}
        BY <2>3, <3>1, DeviceTyped, PortStays DEF IInv
      <3>2. QED
        BY <2>3, <3>1, DeviceKeeps
    <2>4. QED
      BY <2>1, <2>2, <2>3 DEF Next
  <1>2. QED
    BY <1>1, InitKeeps, PTL DEF Spec

\* config_logic_reg_readback returns the value of the register it was asked
\* for, whatever failed, timed out or died before, once the caller aborts first.
THEOREM OkIsRight ==
  ASSUME OneReader, AbortFirst
  PROVE  Spec => []OkIsTheRegister
  <1>1. IInv => OkIsTheRegister
    BY DEF IInv, Values, OkIsTheRegister
  <1>2. QED
    BY <1>1, IInvHolds, PTL

\* After Ok the core is idle, both FIFOs are empty and the port is
\* desynchronised.
THEOREM OkIsQuiet ==
  ASSUME OneReader, AbortFirst
  PROVE  Spec => []OkLeavesQuiet
  <1>1. IInv => OkLeavesQuiet
    BY DEF IInv, Values, CleanRests, Rests, Idle, OkLeavesQuiet
  <1>2. QED
    BY <1>1, IInvHolds, PTL

\* Nothing is sent or read while the Read bit is set.
THEOREM ReadBitIsAwaited ==
  ASSUME OneReader, AbortFirst
  PROVE  Spec => []NothingBeforeReadClears
  <1>1. IInv => NothingBeforeReadClears
    BY DEF IInv, Opens, Closes, Streams, Rests, NothingBeforeReadClears
  <1>2. QED
    BY <1>1, IInvHolds, PTL

\* A read is started on an empty read FIFO and on a port that waits to answer
\* for this register.
THEOREM ReadsAreAsked ==
  ASSUME OneReader, AbortFirst
  PROVE  Spec => []ReadsWhatWasAsked
  <1>1. IInv => ReadsWhatWasAsked
    BY DEF IInv, Opens, Rests, Asked, ReadsWhatWasAsked
  <1>2. QED
    BY <1>1, IInvHolds, PTL
=============================================================================
