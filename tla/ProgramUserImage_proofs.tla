------------------------ MODULE ProgramUserImage_proofs ------------------------
(***************************************************************************)
(* Theorems about ProgramUserImage and their proofs.  Type correctness     *)
(* holds for any number of processes.  The safety properties hold for one  *)
(* process at a time and images of whole words, at least one, from an      *)
(* inductive invariant; so does the refinement of Reconfig.                *)
(*                                                                         *)
(* The lemmas do not depend on what else the FIFOs of the core carry, so   *)
(* that they hold for the calls of program_user_image in module Shell, too.*)
(***************************************************************************)
EXTENDS ProgramUserImage, HbicapDevice_proofs

-----------------------------------------------------------------------------
(* Type correctness *)

\* The types of TypeOK, on a core that carries words W and values V: those of
\* images here, those of readbacks beside them in module Shell.
TypedOver(W, V) ==
  /\ ClientTypeOK
  /\ hb \in HbicapType(W, V)
  /\ fw \in [Firewalls -> FirewallType]
  /\ part \in Words \cup {Garbage}

\* What a process may do, whatever the outcome: the accesses with any reply,
\* the polls with any read, the transfer, its failure, the death of the process.
LEMMA ClientCases ==
  ASSUME NEW c \in Clients, Step(c) \/ Fault(c)
  PROVE  \/ \E reply \in Replies : Access(c, reply)
         \/ \E readOk \in BOOLEAN : Polls(c, readOk)
         \/ DmaWord(c) \/ DmaDone(c) \/ DmaStalls(c) \/ DmaFails(c) \/ Crash(c)
  BY DEF Step, Fault, Replies

\* Words that a transfer delivers, and what they leave behind, are typed.
LEMMA WordsTyped ==
  /\ \A i \in Images, k \in Nat : Word(i, k) \in Words
  /\ \A p \in Words \cup {Garbage}, w \in Words : Received(p, w) \in Words \cup {Garbage}
  /\ \A i \in Images : NWords(i) \in Nat /\ NBeats(i) \in Nat
  BY ImagesAssumption DEF Word, Words, Received, NWords, NBeats, WordBytes

\* A process goes on, or the call returns, somewhere it can be.
LEMMA ControlTyped ==
  ASSUME ClientTypeOK, NEW c \in Clients,
         \/ \E l \in Labels : Goto(c, l)
         \/ \E r \in Results : Return(c, r)
  PROVE  /\ pc' \in [Clients -> Labels]
         /\ sent' \in [Clients -> Nat]
         /\ result' \in [Clients -> Results]
  BY DEF ClientTypeOK, Goto, Return, Labels

\* A register write keeps the types of the process that makes it.
LEMMA WriteRegTyped ==
  ASSUME ClientTypeOK, NEW c \in Clients, NEW at, NEW reply, NEW next \in Labels,
         WriteReg(c, at, reply, next)
  PROVE  ClientTypeOK'
  BY ControlTyped DEF ClientTypeOK, WriteReg, Results

\* No outcome of a poll takes the count of tries out of its range.
LEMMA PollsTyped ==
  ASSUME NEW W, NEW V, TypedOver(W, V),
         NEW c \in Clients, NEW readOk \in BOOLEAN, Polls(c, readOk)
  PROVE  TypedOver(W, V)'
  <1> DEFINE Typed == /\ pc' \in [Clients -> Labels]
                      /\ sent' \in [Clients -> Nat]
                      /\ result' \in [Clients -> Results]
  <1>1. /\ Goto(c, "block_ctrl") \/ Goto(c, "abort") => Typed
        /\ Goto(c, "abort_debug") \/ Goto(c, "dma_soft") => Typed
        /\ Return(c, "err") => Typed
        /\ UNCHANGED <<pc, sent, result>> => Typed
    BY ControlTyped DEF TypedOver, ClientTypeOK, Labels, Results
  <1>2. /\ Typed
        /\ tries' \in [Clients -> 0 .. PollTries - 1]
        /\ UNCHANGED <<image, hb, fw, part>>
    <2>1. CASE PollIdle(c, readOk)
      BY <1>1, <2>1, PollAssumption DEF PollIdle, PollTry, TypedOver, ClientTypeOK
    <2>2. CASE PollAborted(c, readOk)
      BY <1>1, <2>2, PollAssumption DEF PollAborted, PollTry, TypedOver, ClientTypeOK
    <2>3. CASE PollAbortCleared(c, readOk)
      BY <1>1, <2>3, PollAssumption DEF PollAbortCleared, PollTry, TypedOver, ClientTypeOK
    <2>4. CASE PollDone(c, readOk)
      BY <1>1, <2>4, PollAssumption DEF PollDone, PollTry, TypedOver, ClientTypeOK
    <2>5. QED
      BY <2>1, <2>2, <2>3, <2>4 DEF Polls
  <1>3. QED
    BY <1>2 DEF TypedOver, ClientTypeOK

\* Every register write keeps the types, whether it took effect or not.
LEMMA AccessTyped ==
  ASSUME NEW W, NEW V, TypedOver(W, V),
         NEW c \in Clients, NEW reply \in Replies, Access(c, reply)
  PROVE  TypedOver(W, V)'
  <1> USE DEF TypedOver
  <1>1. \A i \in Images : NWords(i) \in Nat
    BY WordsTyped
  <1>2. /\ StartAbort \in HbicapType(W, V)
        /\ \A n \in Nat : SetSize(hb, n) \in HbicapType(W, V)
    BY HbicapTyped
  <1>3. /\ ClientTypeOK'
        /\ hb' \in HbicapType(W, V)
        /\ \A f \in Firewalls : fw[f] \in FirewallType
        /\ \/ fw' = fw
           \/ \E f \in Firewalls, new \in FirewallType : fw' = [fw EXCEPT ![f] = new]
        /\ part' = part
    <2>1. \A f \in Firewalls : /\ fw[f] \in FirewallType
                               /\ BlockMi \in FirewallType
                               /\ ClearSoftFault(fw[f]) \in FirewallType
                               /\ WriteUnblock(fw[f]) \in FirewallType
      BY DEF FirewallType, BlockMi, ClearSoftFault, WriteUnblock
    <2>2. \A f \in Firewalls : \A new \in FirewallType : Landed(reply, fw[f], new) \in FirewallType
      BY <2>1 DEF Landed
    <2>3. CASE Abort(c, reply)
      BY <1>2, <2>1, <2>3, WriteRegTyped DEF Abort, Landed, Labels
    <2>4. CASE AbortDebug(c, reply)
      BY <2>1, <2>4, WriteRegTyped DEF AbortDebug, Labels
    <2>5. CASE BlockCtrl(c, reply)
      BY <2>1, <2>2, <2>5, WriteRegTyped DEF BlockCtrl, Labels, Firewalls
    <2>6. CASE BlockDma(c, reply)
      BY <2>1, <2>2, <2>6, WriteRegTyped DEF BlockDma, Labels, Firewalls
    <2>7. CASE WriteSize(c, reply)
      BY <1>1, <1>2, <2>1, <2>7, WriteRegTyped DEF WriteSize, Landed, Labels, ClientTypeOK
    <2>8. CASE DmaClearSoft(c, reply)
      BY <2>1, <2>2, <2>8, WriteRegTyped DEF DmaClearSoft, Labels, Firewalls
    <2>9. CASE DmaUnblock(c, reply)
      BY <2>1, <2>2, <2>9, WriteRegTyped DEF DmaUnblock, Labels, Firewalls
    <2>10. CASE CtrlClearSoft(c, reply)
      BY <2>1, <2>2, <2>10, WriteRegTyped DEF CtrlClearSoft, Labels, Firewalls
    <2>11. CASE CtrlUnblock(c, reply)
      BY <2>1, <2>2, <2>11, ControlTyped DEF CtrlUnblock, ClientTypeOK, Results, Firewalls
    <2>12. QED
      BY <2>3, <2>4, <2>5, <2>6, <2>7, <2>8, <2>9, <2>10, <2>11 DEF Access
  <1>4. QED
    BY <1>3 DEF Firewalls

\* A call begins with nothing sent.
LEMMA BeginTyped ==
  ASSUME NEW W, NEW V, TypedOver(W, V), NEW c \in Clients, NEW i \in Images, Begin(c, i)
  PROVE  TypedOver(W, V)'
  BY DEF Begin, TypedOver, ClientTypeOK, Labels, Results

\* The transfer puts words of the image into the FIFO.
LEMMA TransferTyped ==
  ASSUME NEW W, NEW V, Words \subseteq W, TypedOver(W, V), NEW c \in Clients,
         DmaWord(c) \/ DmaDone(c) \/ DmaStalls(c) \/ DmaFails(c) \/ Crash(c)
  PROVE  TypedOver(W, V)'
  <1> USE DEF TypedOver
  <1>1. CASE DmaWord(c)
    <2>1. Word(image[c], sent[c] + 1) \in W
      BY WordsTyped DEF ClientTypeOK
    <2>2. Push(hb, Word(image[c], sent[c] + 1)) \in HbicapType(W, V)
      BY <2>1, HbicapTyped
    <2>3. QED
      BY <1>1, <2>2 DEF DmaWord, ClientTypeOK
  <1>2. CASE DmaDone(c) \/ DmaStalls(c) \/ DmaFails(c) \/ Crash(c)
    BY <1>2, ControlTyped, PollAssumption
       DEF DmaDone, DmaStalls, DmaFails, Crash, ClientTypeOK, Labels, Results
  <1>3. QED
    BY <1>1, <1>2

\* A call and its steps keep the types, on any core that can carry images.
LEMMA CallTyped ==
  ASSUME NEW W, NEW V, Words \subseteq W, TypedOver(W, V), NEW c \in Clients,
         (\E i \in Images : Begin(c, i)) \/ Step(c) \/ Fault(c)
  PROVE  TypedOver(W, V)'
  BY ClientCases, BeginTyped, AccessTyped, PollsTyped, TransferTyped

\* The card as the bitstream of the shell leaves it, and no call under way.
LEMMA InitTyped == Init => TypeOK
  BY ImagesAssumption, PollAssumption, WordsTyped
     DEF Init, TypeOK, ClientTypeOK, Labels, Results, HbicapReset, HbicapType, Modes,
         Firewalls, FirewallType, Passing, Loaded

\* TypeOK is inductive: no order of accesses, polls, transfers, faults and
\* crashes of any number of processes takes a variable out of its type.
THEOREM TypeCorrect == Spec => []TypeOK
  <1>1. Init => TypeOK
    BY InitTyped
  <1>2. TypeOK /\ [Next]_vars => TypeOK'
    <2> SUFFICES ASSUME TypeOK, [Next]_vars PROVE TypeOK'
      OBVIOUS
    <2>1. CASE IcapMove
      BY <2>1, HbicapTyped, WordsTyped DEF IcapMove, client, TypeOK, ClientTypeOK
    <2>2. CASE AbortFinishes
      BY <2>2, HbicapTyped DEF AbortFinishes, client, TypeOK, ClientTypeOK
    <2>3. CASE AbortClears
      BY <2>3, HbicapTyped DEF AbortClears, client, TypeOK, ClientTypeOK
    <2>4. ASSUME NEW c \in Clients, (\E i \in Images : Begin(c, i)) \/ Step(c) \/ Fault(c)
          PROVE  TypeOK'
      <3>1. TypedOver(Words, {})
        BY DEF TypeOK, TypedOver
      <3>2. TypedOver(Words, {})'
        BY <2>4, <3>1, CallTyped
      <3>3. QED
        BY <3>2 DEF TypeOK, TypedOver
    <2>5. CASE UNCHANGED vars
      BY <2>5 DEF vars, client, TypeOK, ClientTypeOK
    <2>6. QED
      BY <2>1, <2>2, <2>3, <2>4, <2>5 DEF Next, Device
  <1>3. QED
    BY <1>1, <1>2, PTL DEF Spec

-----------------------------------------------------------------------------
(* The inductive invariant, for one process and images of whole words *)

Before    == {"out", "poll_idle", "abort", "abort_poll", "abort_debug",
              "abort_clear", "block_ctrl", "block_dma", "size"}
Quiet     == {"abort_debug", "abort_clear", "block_ctrl", "block_dma", "size"}
Transfer  == {"dma", "poll_done"}
After     == {"dma_soft", "dma_unblock", "ctrl_soft", "ctrl_unblock"}
Isolated  == Transfer \cup {"size", "dma_soft", "dma_unblock"}

\* Words wait in the FIFO only while a transfer is under way, and no more of
\* them than it will move.
Drained ==
  /\ hb.mode # "write" => hb.fifo = <<>>
  /\ hb.mode = "write" => Len(hb.fifo) <= hb.size

\* Behind an open firewall no word of an image waits, and an image is complete.
Shielded ==
  Reachable("dma") => /\ \A j \in 1 .. Len(hb.fifo) : hb.fifo[j] \notin Words
                      /\ \E i \in Images : Loaded(i)

\* Until the transfer nothing is sent; once a call has seen Done it stays so.
QuietCore(c) ==
  /\ pc[c] \in Before => sent[c] = 0
  /\ pc[c] \in Quiet => Idle(hb)

\* Where the firewalls are while the call blocks and unblocks them.
Walls(c) ==
  /\ pc[c] = "block_dma" => ~Reachable("ctrl")
  /\ pc[c] \in Isolated => \A f \in Firewalls : ~Reachable(f)
  /\ pc[c] = "dma_unblock" => ~fw["dma"].soft
  /\ pc[c] \in {"ctrl_soft", "ctrl_unblock"} => Reachable("dma")
  /\ pc[c] = "ctrl_unblock" => ~fw["ctrl"].soft

\* s words of image i sent to core h, in order: partition p holds the first of
\* them, the FIFO the next, and Size counts what is still to be moved.
Flow(i, s, h, p) ==
  LET n     == Len(h.fifo)
      moved == s - n
  IN /\ h.mode \in {"idle", "write"}
     /\ n <= s /\ s <= NBeats(i)
     /\ h.size = NBeats(i) - moved
     /\ \A j \in 1 .. n : h.fifo[j] = Word(i, moved + j)
     /\ moved > 0 => p = Word(i, moved)

Stream(c) ==
  pc[c] \in Transfer =>
    /\ Flow(image[c], sent[c], hb, part)
    /\ pc[c] = "poll_done" => sent[c] = NBeats(image[c])

\* From Done on the image is there.
Done(c) == pc[c] \in After => Idle(hb) /\ Loaded(image[c])

IInvOver(W, V) ==
  /\ TypedOver(W, V) /\ Drained /\ Shielded /\ CtrlNestsDma /\ OkMeansLive
  /\ \A c \in Clients : QuietCore(c) /\ Walls(c) /\ Stream(c) /\ Done(c)

IInv == IInvOver(Words, {})

\* Size counts every word of an image of whole words, and there is one.
LEMMA WholeWords ==
  ASSUME WholeImages, NEW i \in Images
  PROVE  NWords(i) = NBeats(i) /\ NBeats(i) \in Nat \ {0}
  <1>1. Bytes[i] \in Nat \ {0} /\ Bytes[i] % 4 = 0
    BY ImagesAssumption DEF WholeImages, WordBytes
  <1>2. QED
    BY <1>1 DEF NWords, NBeats, WordBytes

\* A transfer begins with an empty FIFO and the image's size.
LEMMA FlowBegins ==
  ASSUME NEW W, NEW V, NEW h \in HbicapType(W, V), NEW p,
         WholeImages, NEW i \in Images, Idle(h), h.fifo = <<>>
  PROVE  /\ SetSize(h, NWords(i)) = [h EXCEPT !.size = NWords(i)]
         /\ Flow(i, 0, SetSize(h, NWords(i)), p)
  BY WholeWords DEF Flow, SetSize, Kick, Idle, HbicapType

\* The next word of the image goes to the end of the FIFO, and the core moves.
LEMMA FlowPushes ==
  ASSUME NEW W, NEW V, NEW h \in HbicapType(W, V), NEW p, Words \subseteq W,
         NEW i \in Images, NEW s \in Nat, Flow(i, s, h, p), s < NBeats(i)
  PROVE  /\ Flow(i, s + 1, Push(h, Word(i, s + 1)), p)
         /\ Push(h, Word(i, s + 1)).mode = "write"
         /\ Len(Push(h, Word(i, s + 1)).fifo) <= Push(h, Word(i, s + 1)).size
  <1> DEFINE w == Word(i, s + 1)
             q == Append(h.fifo, w)
             g == [h EXCEPT !.fifo = q]
             n == Len(h.fifo)
             k == Push(h, w)
  <1>1. h.fifo \in Seq(W) /\ n \in Nat /\ w \in W /\ NBeats(i) \in Nat
    BY WordsTyped, LenProperties DEF HbicapType
  <1>2. /\ h.mode \in {"idle", "write"} /\ n <= s
        /\ h.size = NBeats(i) - (s - n)
        /\ \A j \in 1 .. n : h.fifo[j] = Word(i, (s - n) + j)
        /\ s - n > 0 => p = Word(i, s - n)
    BY <1>1 DEF Flow, HbicapType, Modes
  <1>3. /\ q \in Seq(W) /\ q # <<>> /\ Len(q) = n + 1
        /\ \A j \in 1 .. n : q[j] = h.fifo[j]
        /\ q[n + 1] = w
    BY <1>1, AppendProperties
  <1>4. k.mode = "write" /\ k.size = h.size /\ k.fifo = q
    <2>1. g \in HbicapType(W, V) /\ g.size = h.size /\ g.mode = h.mode /\ g.fifo = q
      BY <1>3 DEF HbicapType
    <2>2. h.size > 0
      BY <1>1, <1>2
    <2>3. k = IF g.mode = "idle" THEN [g EXCEPT !.mode = "write"] ELSE g
      BY <1>3, <2>1, <2>2 DEF Push, Kick
    <2>4. QED
      BY <1>2, <2>1, <2>3 DEF HbicapType
  <1> HIDE DEF n, q, k
  <1>5. ASSUME NEW j \in 1 .. n + 1 PROVE q[j] = Word(i, (s - n) + j)
    <2>1. CASE j \in 1 .. n
      BY <1>2, <1>3, <2>1
    <2>2. CASE j = n + 1
      <3>1. (s - n) + j = s + 1
        BY <1>1, <2>2
      <3>2. QED
        BY <1>3, <2>2, <3>1
    <2>3. QED
      BY <1>1, <2>1, <2>2
  <1>6. (s + 1) - Len(q) = s - n /\ Len(q) <= s + 1 /\ s + 1 <= NBeats(i) /\ Len(q) <= h.size
    BY <1>1, <1>2, <1>3
  <1>7. Flow(i, s + 1, k, p)
    BY <1>2, <1>3, <1>4, <1>5, <1>6 DEF Flow
  <1>8. QED
    BY <1>4, <1>6, <1>7 DEF k

\* The core moves the oldest word, which continues what the partition holds,
\* and it stops with the last one of the FIFO.
LEMMA FlowMoves ==
  ASSUME NEW W, NEW V, NEW h \in HbicapType(W, V), NEW p,
         NEW i \in Images, NEW s \in Nat, Flow(i, s, h, p), CanMove(h)
  PROVE  Flow(i, s, Move(h), Received(p, Head(h.fifo)))
  <1> DEFINE n == Len(h.fifo)
             moved == s - n
             q == Tail(h.fifo)
             r == Received(p, Head(h.fifo))
  <1>1. /\ h.fifo \in Seq(W) /\ h.fifo # <<>> /\ h.size \in Nat
        /\ n \in Nat \ {0} /\ NBeats(i) \in Nat
    BY WordsTyped, EmptySeq DEF CanMove, HbicapType
  <1>2. /\ n <= s /\ s <= NBeats(i) /\ h.size = NBeats(i) - moved
        /\ \A j \in 1 .. n : h.fifo[j] = Word(i, moved + j)
        /\ moved > 0 => p = Word(i, moved)
    BY DEF Flow
  <1>3. Len(q) = n - 1 /\ \A j \in 1 .. n - 1 : q[j] = h.fifo[j + 1]
    BY <1>1, HeadTailProperties
  <1> HIDE DEF n, q
  <1>4. s - Len(q) = moved + 1 /\ h.size - 1 = NBeats(i) - (moved + 1) /\ Len(q) <= s
    BY <1>1, <1>2, <1>3
  <1>5. ASSUME NEW j \in 1 .. n - 1 PROVE q[j] = Word(i, (moved + 1) + j)
    <2>1. j + 1 \in 1 .. n /\ moved + (j + 1) = (moved + 1) + j
      BY <1>1
    <2>2. QED
      BY <1>2, <1>3, <2>1
  <1>6. r = Word(i, moved + 1)
    <2>1. Head(h.fifo) = h.fifo[1] /\ 1 \in 1 .. n /\ moved \in Nat
      BY <1>1, <1>2
    <2>2. Head(h.fifo) = Word(i, moved + 1)
      BY <1>2, <2>1
    <2>3. moved = 0 \/ moved > 0
      BY <1>1, <1>2
    <2>4. QED
      BY <1>1, <1>2, <2>2, <2>3 DEF Received, Word
  <1>7. Move(h).fifo = q /\ Move(h).size = h.size - 1 /\ Move(h).mode \in {"idle", "write"}
    BY DEF Move, HbicapType, q
  <1>8. QED
    BY <1>2, <1>3, <1>4, <1>5, <1>6, <1>7 DEF Flow

\* The register writes.  Blocking needs the labels before and after; unblocking
\* opens a firewall only behind Done and, for the control path, the DMA path.
LEMMA AccessKeeps ==
  ASSUME NEW W, NEW V, OneProgrammer, WholeImages, IInvOver(W, V),
         NEW c \in Clients, NEW reply \in Replies, Access(c, reply)
  PROVE  IInvOver(W, V)'
  <1>0. Idle(hb) /\ hb.fifo = <<>> =>
          /\ Flow(image[c], 0, SetSize(hb, NWords(image[c])), part)
          /\ SetSize(hb, NWords(image[c])) = [hb EXCEPT !.size = NWords(image[c])]
    <2>1. image[c] \in Images /\ hb \in HbicapType(W, V)
      BY DEF IInvOver, TypedOver, ClientTypeOK
    <2>2. QED
      BY <2>1, FlowBegins
  <1> USE DEF IInvOver, OneProgrammer, TypedOver, ClientTypeOK, WriteReg, Goto, Return, Landed,
              Drained, Shielded, CtrlNestsDma, OkMeansLive, QuietCore, Walls, Stream, Done,
              Before, Quiet, Transfer, After, Isolated,
              Firewalls, FirewallType, Reachable, MiIsBlocked, Idle, Loaded
  <1>1. TypedOver(W, V)'
    BY AccessTyped
  <1>2. CASE Abort(c, reply)
    BY <1>1, <1>2 DEF Abort, StartAbort, HbicapReset
  <1>3. CASE AbortDebug(c, reply)
    BY <1>1, <1>3 DEF AbortDebug
  <1>4. CASE BlockCtrl(c, reply)
    BY <1>1, <1>4 DEF BlockCtrl, BlockMi
  <1>5. CASE BlockDma(c, reply)
    BY <1>1, <1>5 DEF BlockDma, BlockMi
  <1>6. CASE WriteSize(c, reply)
    <2>1. pc[c] = "size" /\ hb.fifo = <<>> /\ Idle(hb) /\ sent[c] = 0
      BY <1>6 DEF WriteSize
    <2>2. /\ Flow(image[c], 0, SetSize(hb, NWords(image[c])), part)
          /\ SetSize(hb, NWords(image[c])) = [hb EXCEPT !.size = NWords(image[c])]
      BY <1>0, <2>1
    <2>3. hb'.fifo = hb.fifo /\ hb'.mode = hb.mode
      BY <1>6, <2>2 DEF WriteSize, HbicapType
    <2>4. QED
      BY <1>1, <1>6, <2>1, <2>2, <2>3 DEF WriteSize
  <1>7. CASE DmaClearSoft(c, reply)
    BY <1>1, <1>7 DEF DmaClearSoft, ClearSoftFault
  <1>8. CASE DmaUnblock(c, reply)
    BY <1>1, <1>8 DEF DmaUnblock, WriteUnblock
  <1>9. CASE CtrlClearSoft(c, reply)
    BY <1>1, <1>9 DEF CtrlClearSoft, ClearSoftFault
  <1>10. CASE CtrlUnblock(c, reply)
    BY <1>1, <1>10 DEF CtrlUnblock, WriteUnblock
  <1>11. QED
    BY <1>2, <1>3, <1>4, <1>5, <1>6, <1>7, <1>8, <1>9, <1>10 DEF Access

\* The polls.  Only the last one has something to show: when the core is Done
\* the FIFO is empty, so that the whole image has arrived.
LEMMA PollsKeep ==
  ASSUME NEW W, NEW V, OneProgrammer, WholeImages, IInvOver(W, V),
         NEW c \in Clients, NEW readOk \in BOOLEAN, Polls(c, readOk)
  PROVE  IInvOver(W, V)'
  <1> USE DEF IInvOver, OneProgrammer, TypedOver, ClientTypeOK, PollTry, Goto, Return,
              Drained, Shielded, CtrlNestsDma, OkMeansLive, QuietCore, Walls, Stream, Done,
              Before, Quiet, Transfer, After, Isolated, Reachable, MiIsBlocked, Idle, Loaded
  <1>1. TypedOver(W, V)'
    BY PollsTyped
  <1>2. CASE PollIdle(c, readOk)
    BY <1>1, <1>2 DEF PollIdle
  <1>3. CASE PollAborted(c, readOk)
    BY <1>1, <1>3 DEF PollAborted
  <1>4. CASE PollAbortCleared(c, readOk)
    BY <1>1, <1>4 DEF PollAbortCleared
  <1>5. CASE PollDone(c, readOk)
    <2>1. pc[c] = "poll_done" /\ UNCHANGED <<image, hb, fw, part>>
      BY <1>5 DEF PollDone
    <2>2. Idle(hb) => Loaded(image[c])
      <3> SUFFICES ASSUME Idle(hb) PROVE Loaded(image[c])
        OBVIOUS
      <3>1. hb.fifo = <<>> /\ sent[c] = NBeats(image[c]) /\ sent[c] \in Nat \ {0}
        BY <2>1, WholeWords
      <3>2. QED
        BY <2>1, <3>1 DEF Flow
    <2>3. QED
      BY <1>1, <1>5, <2>1, <2>2 DEF PollDone
  <1>6. QED
    BY <1>2, <1>3, <1>4, <1>5 DEF Polls

\* The transfer: the next word of the image goes to the end of the FIFO.
LEMMA TransferKeeps ==
  ASSUME NEW W, NEW V, Words \subseteq W, OneProgrammer, WholeImages, IInvOver(W, V),
         NEW c \in Clients,
         DmaWord(c) \/ DmaDone(c) \/ DmaStalls(c) \/ DmaFails(c) \/ Crash(c)
  PROVE  IInvOver(W, V)'
  <1> USE DEF IInvOver, OneProgrammer, TypedOver, ClientTypeOK, Goto, Return,
              Drained, Shielded, CtrlNestsDma, OkMeansLive, QuietCore, Walls, Stream, Done,
              Before, Quiet, Transfer, After, Isolated, Firewalls,
              Reachable, MiIsBlocked, Idle, Loaded
  <1>0. TypedOver(W, V)'
    BY TransferTyped
  <1>1. CASE DmaWord(c)
    <2>1. /\ pc[c] = "dma" /\ sent[c] < NBeats(image[c])
          /\ sent' = [sent EXCEPT ![c] = @ + 1]
          /\ UNCHANGED <<pc, image, tries, result, fw, part>>
          /\ hb' = Push(hb, Word(image[c], sent[c] + 1))
      BY <1>1 DEF DmaWord
    <2>2. /\ Flow(image[c], sent[c] + 1, hb', part)
          /\ hb'.mode = "write" /\ Len(hb'.fifo) <= hb'.size
      BY <2>1, FlowPushes
    <2>3. QED
      BY <1>0, <2>1, <2>2
  <1>2. CASE DmaDone(c)
    BY <1>0, <1>2 DEF DmaDone
  <1>3. CASE DmaStalls(c)
    BY <1>0, <1>3 DEF DmaStalls
  <1>4. CASE DmaFails(c)
    BY <1>0, <1>4 DEF DmaFails
  <1>5. CASE Crash(c)
    BY <1>0, <1>5 DEF Crash
  <1>6. QED
    BY <1>1, <1>2, <1>3, <1>4, <1>5

\* A call begins, with nothing sent and nothing changed on the card.
LEMMA BeginKeeps ==
  ASSUME NEW W, NEW V, OneProgrammer, WholeImages, IInvOver(W, V),
         NEW c \in Clients, NEW i \in Images, Begin(c, i)
  PROVE  IInvOver(W, V)'
  BY BeginTyped
     DEF Begin, IInvOver, OneProgrammer, TypedOver, ClientTypeOK,
         Drained, Shielded, CtrlNestsDma, OkMeansLive, QuietCore, Walls, Stream, Done,
         Before, Quiet, Transfer, After, Isolated, Reachable, Idle, Loaded

\* No step of the one process leaves the invariant.
LEMMA CallKeeps ==
  ASSUME NEW W, NEW V, Words \subseteq W, OneProgrammer, WholeImages, IInvOver(W, V),
         NEW c \in Clients, (\E i \in Images : Begin(c, i)) \/ Step(c) \/ Fault(c)
  PROVE  IInvOver(W, V)'
  BY ClientCases, BeginKeeps, AccessKeeps, PollsKeep, TransferKeeps

\* A word of an image moves behind two blocked firewalls.
LEMMA MovesIsolated ==
  ASSUME NEW W, NEW V, IInvOver(W, V), CanMove(hb), Head(hb.fifo) \in Words
  PROVE  \A f \in Firewalls : ~Reachable(f)
  <1>1. hb.fifo \in Seq(W) /\ hb.fifo # <<>>
    BY DEF IInvOver, TypedOver, HbicapType, CanMove
  <1>2. Head(hb.fifo) = hb.fifo[1] /\ 1 \in 1 .. Len(hb.fifo)
    BY <1>1
  <1>3. QED
    BY <1>2 DEF IInvOver, Shielded, CtrlNestsDma, Firewalls

\* The core moves a word of an image: both firewalls are blocked, and the core
\* stops with the last word of the FIFO.
LEMMA MoveKeeps ==
  ASSUME NEW W, NEW V, WholeImages, IInvOver(W, V), TypedOver(W, V)',
         CanMove(hb), hb' = Move(hb), UNCHANGED <<client, fw>>,
         Head(hb.fifo) \in Words, part' = Received(part, Head(hb.fifo))
  PROVE  IInvOver(W, V)'
  <1> USE DEF IInvOver, TypedOver, ClientTypeOK, client,
              Drained, Shielded, CtrlNestsDma, OkMeansLive, QuietCore, Walls, Stream, Done,
              Before, Quiet, Transfer, After, Isolated, Firewalls,
              Reachable, MiIsBlocked, Idle, Loaded, HbicapType, Modes
  <1>1. /\ \A f \in Firewalls : ~Reachable(f)
        /\ \A c \in Clients : pc[c] \notin Quiet \cup After
    <2>1. \A f \in Firewalls : ~Reachable(f)
      BY MovesIsolated
    <2>2. QED
      BY <2>1 DEF CanMove
  <1>2. Drained'
    <2>1. Len(hb.fifo) <= hb.size /\ hb.fifo \in Seq(W) /\ hb.fifo # <<>>
      BY DEF CanMove
    <2>2. QED
      BY <2>1 DEF Move
  <1>3. ASSUME NEW c \in Clients PROVE Stream(c)'
    BY FlowMoves
  <1>4. QED
    BY <1>1, <1>2, <1>3

\* The abort completes.
LEMMA AbortKeeps ==
  ASSUME NEW W, NEW V, IInvOver(W, V), TypedOver(W, V)',
         CanFinishAbort(hb), hb' = FinishAbort(hb), UNCHANGED <<client, fw>>,
         Reachable("dma") => part' = part
  PROVE  IInvOver(W, V)'
  <1> USE DEF IInvOver, TypedOver, ClientTypeOK, client,
              Drained, Shielded, CtrlNestsDma, OkMeansLive, QuietCore, Walls, Stream, Done,
              Before, Quiet, Transfer, After, Isolated, Firewalls,
              Reachable, MiIsBlocked, Idle, Loaded, HbicapType, Modes
  <1>1. hb.mode = "abort" /\ hb.fifo = <<>> /\ hb' = [hb EXCEPT !.mode = "idle"]
    BY DEF CanFinishAbort, FinishAbort, Kick
  <1>2. \A c \in Clients : pc[c] \notin Transfer \cup Quiet \cup After
    BY <1>1 DEF Flow
  <1>3. QED
    BY <1>1, <1>2

\* The bits of Control and the read FIFO are nothing to the image.
LEMMA BitsKeep ==
  ASSUME NEW W, NEW V, IInvOver(W, V), TypedOver(W, V)', UNCHANGED <<client, fw, part>>,
         hb'.mode = hb.mode, hb'.size = hb.size, hb'.fifo = hb.fifo
  PROVE  IInvOver(W, V)'
  <1> USE DEF IInvOver, TypedOver, ClientTypeOK, client,
              Drained, Shielded, CtrlNestsDma, OkMeansLive, QuietCore, Walls, Stream, Done,
              Before, Quiet, Transfer, After, Isolated, Firewalls,
              Reachable, MiIsBlocked, Idle, Loaded, HbicapType, Modes
  <1>1. \A c \in Clients : Stream(c)'
    BY DEF Flow
  <1>2. QED
    BY <1>1

\* The core: what it moves is of an image.
LEMMA DeviceKeeps ==
  ASSUME WholeImages, IInv, TypeOK', Device
  PROVE  IInv'
  <1>1. TypedOver(Words, {}) /\ TypedOver(Words, {})' /\ IInvOver(Words, {})
    BY DEF IInv, IInvOver, TypedOver, TypeOK
  <1>2. CASE IcapMove
    <2>1. Head(hb.fifo) \in Words
      BY <1>1, <1>2, HbicapTyped DEF IcapMove, TypedOver
    <2>2. QED
      BY <1>1, <1>2, <2>1, MoveKeeps DEF IcapMove, IInv
  <1>3. CASE AbortFinishes
    BY <1>1, <1>3, AbortKeeps DEF AbortFinishes, IInv
  <1>4. CASE AbortClears
    <2>1. hb'.mode = hb.mode /\ hb'.size = hb.size /\ hb'.fifo = hb.fifo
      BY <1>1, <1>4 DEF AbortClears, ClearAbort, TypedOver, HbicapType
    <2>2. QED
      BY <1>1, <1>4, <2>1, BitsKeep DEF AbortClears, IInv
  <1>5. QED
    BY <1>2, <1>3, <1>4 DEF Device

\* No step of the one process or of the core leaves IInv.
LEMMA Inductive ==
  ASSUME OneProgrammer, WholeImages, IInv, TypeOK', [Next]_vars
  PROVE  IInv'
  <1>1. CASE Device
    BY <1>1, DeviceKeeps
  <1>2. ASSUME NEW c \in Clients, (\E i \in Images : Begin(c, i)) \/ Step(c) \/ Fault(c)
        PROVE  IInv'
    BY <1>2, CallKeeps DEF IInv
  <1>3. CASE UNCHANGED vars
    BY <1>3 DEF vars, client, IInv, IInvOver, TypedOver, ClientTypeOK,
                Drained, Shielded, CtrlNestsDma, OkMeansLive, QuietCore, Walls, Stream, Done,
                Reachable, Idle, Loaded
  <1>4. QED
    BY <1>1, <1>2, <1>3 DEF Next

\* The invariant holds before the first call.
LEMMA InitIInv == Init => IInv
  <1> SUFFICES ASSUME Init PROVE IInv
    OBVIOUS
  <1>1. TypedOver(Words, {})
    BY InitTyped DEF TypeOK, TypedOver
  <1>2. Drained /\ Shielded /\ CtrlNestsDma /\ OkMeansLive
    BY DEF Init, HbicapReset, Passing, Firewalls, Drained, Shielded, CtrlNestsDma,
           OkMeansLive, Reachable, MiIsBlocked
  <1>3. \A c \in Clients : QuietCore(c) /\ Walls(c) /\ Stream(c) /\ Done(c)
    BY DEF Init, QuietCore, Walls, Stream, Done, Before, Quiet, Transfer, After, Isolated
  <1>4. QED
    BY <1>1, <1>2, <1>3 DEF IInv, IInvOver

\* IInv holds throughout.
THEOREM IInvHolds ==
  ASSUME OneProgrammer, WholeImages
  PROVE  Spec => []IInv
  <1>1. Init => IInv
    BY InitIInv
  <1>2. IInv /\ TypeOK' /\ [Next]_vars => IInv'
    BY Inductive
  <1>3. Spec => []TypeOK
    BY TypeCorrect
  <1>4. QED
    BY <1>1, <1>2, <1>3, PTL DEF Spec

-----------------------------------------------------------------------------
(* What follows from it *)

\* Whoever reaches the user partition finds a complete image there, after any
\* history of failed accesses, expired polls, broken transfers and crashes.
THEOREM ServedIntact ==
  ASSUME OneProgrammer, WholeImages
  PROVE  Spec => []ServedImageIntact
  <1>1. IInv => ServedImageIntact
    BY DEF IInv, IInvOver, ServedImageIntact, Shielded, CtrlNestsDma, Firewalls
  <1>2. QED
    BY <1>1, IInvHolds, PTL

\* A call that returned Ok has its own image live behind open firewalls.
THEOREM OkIsLive ==
  ASSUME OneProgrammer, WholeImages
  PROVE  Spec => []OkMeansLive
  <1>1. IInv => OkMeansLive
    BY DEF IInv, IInvOver
  <1>2. QED
    BY <1>1, IInvHolds, PTL

\* An idle core has nothing left in its write FIFO.
THEOREM IdleIsDrained ==
  ASSUME OneProgrammer, WholeImages
  PROVE  Spec => []IdleMeansDrained
  <1>1. IInv => IdleMeansDrained
    BY DEF IInv, IInvOver, Drained, IdleMeansDrained, Idle
  <1>2. QED
    BY <1>1, IInvHolds, PTL

\* The control path is never open while the DMA path is blocked.
THEOREM CtrlIsNested ==
  ASSUME OneProgrammer, WholeImages
  PROVE  Spec => []CtrlNestsDma
  <1>1. IInv => CtrlNestsDma
    BY DEF IInv, IInvOver
  <1>2. QED
    BY <1>1, IInvHolds, PTL

\* Only the core puts words into the partition, and it leaves the firewalls alone.
LEMMA CoreConfigures ==
  ASSUME [Next]_vars
  PROVE  part' = part \/ (IcapMove /\ fw' = fw)
  BY DEF Next, Device, IcapMove, AbortFinishes, AbortClears, Begin, Step, Fault, Access, Polls,
         PollTry, Abort, AbortDebug, BlockCtrl, BlockDma, WriteSize, DmaClearSoft, DmaUnblock,
         CtrlClearSoft, CtrlUnblock, PollIdle, PollAborted, PollAbortCleared, PollDone,
         DmaWord, DmaDone, DmaStalls, DmaFails, Crash, vars

\* The partition changes only behind two blocked firewalls.
THEOREM ChangesAreIsolated ==
  ASSUME OneProgrammer, WholeImages
  PROVE  Spec => ChangesIsolated
  <1>1. ASSUME IInv, [Next]_vars, part' # part
        PROVE  \A f \in Firewalls : MiIsBlocked(fw[f])
    <2>1. IcapMove
      BY <1>1, CoreConfigures
    <2>2. CanMove(hb) /\ Head(hb.fifo) \in Words
      BY <1>1, <2>1, HbicapTyped DEF IcapMove, IInv, IInvOver, TypedOver
    <2>3. QED
      BY <1>1, <2>2, MovesIsolated DEF IInv, Reachable
  <1>2. IInv /\ [Next]_vars => [part' # part => \A f \in Firewalls : MiIsBlocked(fw[f])]_vars
    BY <1>1
  <1>3. QED
    BY <1>2, IInvHolds, PTL DEF Spec, ChangesIsolated

\* A step that leaves the partition alone, or changes it behind blocked
\* firewalls that stay so, is one of Reconfig.
LEMMA StepRefines ==
  ASSUME Shielded, CtrlNestsDma, Shielded', CtrlNestsDma',
         \/ part' = part
         \/ (\A f \in Firewalls : ~Reachable(f)) /\ fw' = fw
  PROVE  [Promise!Next]_(Promise!vars)
  <1> DEFINE Opened == \E f \in Firewalls : Reachable(f)
  <1>1. (\E i \in Images : Loaded(i)) => LoadedImage \in Images
    BY DEF LoadedImage
  <1>2. CASE part' = part
    <2>1. LoadedImage' = LoadedImage
      BY <1>2 DEF LoadedImage, Loaded
    <2>2. CASE Opened /\ ~Opened'
      BY <2>1, <2>2 DEF Promise!Next, Promise!Close
    <2>3. CASE ~Opened /\ Opened'
      <3>1. \E i \in Images : Loaded(i)
        BY <1>2, <2>3 DEF Shielded, CtrlNestsDma, Firewalls, Loaded
      <3>2. LoadedImage # NoImage
        BY <3>1, <1>1, ImagesAssumption
      <3>3. QED
        BY <2>1, <2>3, <3>2 DEF Promise!Next, Promise!Open
    <2>4. CASE Opened' <=> Opened
      BY <2>1, <2>4 DEF Promise!vars
    <2>5. QED
      BY <2>2, <2>3, <2>4
  <1>3. CASE (\A f \in Firewalls : ~Reachable(f)) /\ fw' = fw
    <2>1. ~Opened /\ ~Opened'
      BY <1>3 DEF Reachable, Firewalls
    <2>2. LoadedImage' = NoImage \/ LoadedImage' \in Images
      BY DEF LoadedImage
    <2>3. CASE LoadedImage' = NoImage
      BY <2>1, <2>3 DEF Promise!Next, Promise!Disturb
    <2>4. CASE LoadedImage' \in Images
      BY <2>1, <2>4 DEF Promise!Next, Promise!Complete
    <2>5. QED
      BY <2>2, <2>3, <2>4
  <1>4. QED
    BY <1>2, <1>3

\* The card begins with an image behind open firewalls.
LEMMA InitRefines == Init => Promise!Init
  <1>1. (\E i \in Images : Loaded(i)) => LoadedImage \in Images
    BY DEF LoadedImage
  <1>2. QED
    BY <1>1 DEF Init, Promise!Init, Firewalls, Reachable, MiIsBlocked, Passing

\* program_user_image, with its register accesses, FIFO, polls, faults and
\* retries, implements the abstract reconfiguration of module Reconfig.
THEOREM ImplementsReconfig ==
  ASSUME OneProgrammer, WholeImages
  PROVE  Spec => KeepsPromise
  <1>1. ASSUME IInv, IInv', [Next]_vars PROVE [Promise!Next]_(Promise!vars)
    <2>1. \/ part' = part
          \/ (\A f \in Firewalls : ~Reachable(f)) /\ fw' = fw
      <3>1. CASE IcapMove /\ fw' = fw
        <4>1. CanMove(hb) /\ Head(hb.fifo) \in Words
          BY <1>1, <3>1, HbicapTyped DEF IcapMove, IInv, IInvOver, TypedOver
        <4>2. QED
          BY <1>1, <3>1, <4>1, MovesIsolated DEF IInv
      <3>2. QED
        BY <1>1, <3>1, CoreConfigures
    <2>2. Shielded /\ CtrlNestsDma /\ Shielded' /\ CtrlNestsDma'
      BY <1>1 DEF IInv, IInvOver
    <2>3. QED
      BY <2>1, <2>2, StepRefines
  <1>2. IInv /\ IInv' /\ [Next]_vars => [Promise!Next]_(Promise!vars)
    BY <1>1
  <1>3. QED
    BY <1>2, InitRefines, IInvHolds, PTL DEF Spec, KeepsPromise, Promise!Spec
-----------------------------------------------------------------------------
(* What other users of the core may do to it, for module Shell *)

\* A word that is of no image moves: no transfer of an image is under way.
LEMMA OthersMove ==
  ASSUME NEW W, NEW V, IInvOver(W, V), TypedOver(W, V)',
         CanMove(hb), hb' = Move(hb), UNCHANGED <<client, fw>>,
         Head(hb.fifo) \notin Words, Reachable("dma") => part' = part
  PROVE  IInvOver(W, V)'
  <1> USE DEF IInvOver, TypedOver, ClientTypeOK, client,
              Drained, Shielded, CtrlNestsDma, OkMeansLive, QuietCore, Walls, Stream, Done,
              Before, Quiet, Transfer, After, Isolated, Firewalls,
              Reachable, MiIsBlocked, Idle, Loaded, HbicapType, Modes
  <1>1. /\ hb.mode = "write" /\ hb.fifo \in Seq(W) /\ hb.fifo # <<>>
        /\ Len(hb.fifo) \in Nat \ {0} /\ Head(hb.fifo) = hb.fifo[1] /\ Len(hb.fifo) <= hb.size
    BY EmptySeq DEF CanMove
  <1>2. \A c \in Clients : pc[c] \notin Transfer \cup Quiet \cup After
    <2>1. ASSUME NEW c \in Clients, pc[c] \in Transfer PROVE FALSE
      <3>1. /\ Len(hb.fifo) <= sent[c] /\ sent[c] \in Nat /\ 1 \in 1 .. Len(hb.fifo)
            /\ hb.fifo[1] = Word(image[c], (sent[c] - Len(hb.fifo)) + 1)
        BY <1>1, <2>1 DEF Flow
      <3>2. hb.fifo[1] \in Words
        BY <1>1, <3>1, WordsTyped
      <3>3. QED
        BY <1>1, <3>2
    <2>2. QED
      BY <1>1, <2>1
  <1>3. /\ Len(Tail(hb.fifo)) = Len(hb.fifo) - 1
        /\ \A j \in 1 .. Len(Tail(hb.fifo)) : Tail(hb.fifo)[j] = hb.fifo[j + 1]
    BY <1>1, HeadTailProperties
  <1>4. Drained'
    BY <1>1 DEF Move
  <1>5. Shielded'
    <2>1. hb'.fifo = Tail(hb.fifo)
      BY DEF Move
    <2>2. \A j \in 1 .. Len(Tail(hb.fifo)) : j + 1 \in 1 .. Len(hb.fifo)
      BY <1>1, <1>3
    <2>3. QED
      BY <1>3, <2>1, <2>2
  <1>6. QED
    BY <1>1, <1>2, <1>4, <1>5

\* The core reads: it holds no words to write.
LEMMA OthersFetch ==
  ASSUME NEW W, NEW V, IInvOver(W, V), TypedOver(W, V)', UNCHANGED <<client, fw, part>>,
         hb.mode = "read", hb'.mode \in {"idle", "read"}, hb'.fifo = hb.fifo
  PROVE  IInvOver(W, V)'
  <1> USE DEF IInvOver, TypedOver, ClientTypeOK, client,
              Drained, Shielded, CtrlNestsDma, OkMeansLive, QuietCore, Walls, Stream, Done,
              Before, Quiet, Transfer, After, Isolated, Firewalls,
              Reachable, MiIsBlocked, Idle, Loaded, HbicapType, Modes
  <1>1. \A c \in Clients : pc[c] \notin Transfer \cup Quiet \cup After
    BY DEF Flow
  <1>2. QED
    BY <1>1

\* While no image is being programmed, the core may be used as long as no word
\* of an image gets into its FIFO behind open firewalls.
LEMMA OthersUse ==
  ASSUME NEW W, NEW V, IInvOver(W, V), TypedOver(W, V)', UNCHANGED <<pc, image, sent, fw, part>>,
         \A c \in Clients : pc[c] = "out" /\ result'[c] # "ok",
         Drained', Shielded'
  PROVE  IInvOver(W, V)'
  BY DEF IInvOver, CtrlNestsDma, OkMeansLive, QuietCore, Walls, Stream, Done,
         Before, Quiet, Transfer, After, Isolated, Reachable
=============================================================================
