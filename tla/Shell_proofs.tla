------------------------------ MODULE Shell_proofs ------------------------------
(***************************************************************************)
(* Theorems about Shell and their proofs: program_user_image and the       *)
(* readback driver keep their promises although they share one core.       *)
(* Type correctness holds for any number of processes; the rest for one    *)
(* process at a time that aborts what a failed call may have left, and for *)
(* images of whole words.                                                  *)
(*                                                                         *)
(* The lemmas about program_user_image are those of ProgramUserImage_proofs*)
(* on a core that carries the words of readbacks, too; those about the     *)
(* readback driver are those of HbicapReadback_proofs on a core that       *)
(* carries no word of an image.                                            *)
(***************************************************************************)
EXTENDS Shell, HbicapReadback_proofs

UP == INSTANCE ProgramUserImage_proofs
        WITH pc <- upc, sent <- usent, tries <- utries, result <- uresult

-----------------------------------------------------------------------------
(* The calls of program_user_image, as Shell and as its lemmas name them *)

\* What the lemmas about program_user_image assume of the constants.
LEMMA Assumed ==
  /\ FifoDepth \in Nat \ {0} /\ PollTries \in Nat \ {0} /\ DebugLog \in BOOLEAN
  /\ NoImage \notin Images /\ Bytes \in [Images -> Nat]
  /\ \E i \in Images : Bytes[i] > 0
  BY FifoDepthAssumption, TriesAssumption, DebugAssumption, ImagesAssumption

\* The names of the two instances mean the same.
LEMMA SameState ==
  /\ UP!Words = U!Words /\ UP!Garbage = U!Garbage
  /\ \A p, w : UP!Received(p, w) = U!Received(p, w)
  /\ \A i : UP!NBeats(i) = U!NBeats(i) /\ \A k : UP!Word(i, k) = U!Word(i, k)
  /\ \A i : UP!Loaded(i) <=> U!Loaded(i)
  /\ \A f : UP!Reachable(f) <=> U!Reachable(f)
  /\ UP!Firewalls = U!Firewalls
  /\ UP!WholeImages <=> U!WholeImages
  /\ OneReader => UP!OneProgrammer
  BY DEF OneReader, UP!OneProgrammer, U!Words, UP!Words, U!Garbage, UP!Garbage, U!Word, UP!Word,
         U!Received, UP!Received, U!Loaded,
         UP!Loaded, U!NBeats, UP!NBeats, U!WordBytes, UP!WordBytes, U!WholeImages,
         UP!WholeImages, U!Firewalls, UP!Firewalls, U!Reachable, UP!Reachable, U!MiIsBlocked,
         UP!MiIsBlocked

\* So do those of the steps of a call.
LEMMA SameCalls ==
  ASSUME NEW c \in Clients
  PROVE  /\ BeginProgram(c) => \E i \in Images : UP!Begin(c, i)
         /\ U!Step(c) => UP!Step(c)
         /\ U!Fault(c) => UP!Fault(c)
  BY DEF BeginProgram, U!AbortDebug, UP!AbortDebug, U!BlockCtrl, UP!BlockCtrl, U!BlockDma,
         UP!BlockDma, U!WriteSize, UP!WriteSize, U!DmaClearSoft, UP!DmaClearSoft, U!DmaUnblock, UP!DmaUnblock,
         U!CtrlClearSoft, UP!CtrlClearSoft, U!CtrlUnblock, UP!CtrlUnblock, U!Abort, UP!Abort,
         U!PollIdle, UP!PollIdle, U!PollAborted, UP!PollAborted, U!PollAbortCleared,
         UP!PollAbortCleared, U!PollDone, UP!PollDone, U!PollTry, UP!PollTry, U!WriteReg,
         UP!WriteReg, U!Goto, UP!Goto, U!Return, UP!Return, U!Landed, UP!Landed, U!Access,
         UP!Access, U!Polls, UP!Polls, U!Step, UP!Step, U!Fault, UP!Fault, U!Begin, UP!Begin,
         U!DmaWord, UP!DmaWord, U!DmaDone, UP!DmaDone, U!DmaStalls, UP!DmaStalls, U!DmaFails,
         UP!DmaFails, U!Crash, UP!Crash, U!NWords, UP!NWords, U!NBeats, UP!NBeats, U!WordBytes,
         UP!WordBytes, U!Word, UP!Word, U!Replies, UP!Replies, U!Idle, UP!Idle, U!SetSize,
         UP!SetSize, U!Kick, UP!Kick, U!Push, UP!Push, U!HasVacancy, UP!HasVacancy,
         U!StartAbort, UP!StartAbort, U!HbicapReset, UP!HbicapReset, U!BlockMi, UP!BlockMi,
         U!ClearSoftFault, UP!ClearSoftFault, U!WriteUnblock, UP!WriteUnblock

-----------------------------------------------------------------------------
(* Type correctness *)

\* What the write FIFO carries: words of images and words of readbacks.
Carried == UP!Words \cup U32s

\* The types of Shell are those of its two halves, before and after a step.
LEMMA ShellTypes ==
  /\ ShellTypeOK <=> TypedIn(Carried) /\ UP!TypedOver(Carried, 0 .. NoReg)
  /\ ShellTypeOK' <=> TypedIn(Carried)' /\ UP!TypedOver(Carried, 0 .. NoReg)'
  <1>1. UP!Labels = U!Labels /\ UP!Results = U!Results
    BY DEF UP!Labels, U!Labels, UP!Results, U!Results
  <1>2. UP!Firewalls = U!Firewalls /\ UP!FirewallType = U!FirewallType
    BY SameState DEF UP!FirewallType, U!FirewallType
  <1>3. \A W, V : UP!HbicapType(W, V) = HbicapType(W, V)
    BY DEF UP!HbicapType, HbicapType, UP!Modes, Modes
  <1>4. UP!Words = U!Words /\ UP!Garbage = U!Garbage
    BY SameState
  <1>5. QED
    BY <1>1, <1>2, <1>3, <1>4
       DEF ShellTypeOK, TypedIn, UP!TypedOver, UP!ClientTypeOK, U!ClientTypeOK, Carried

\* The core moves words of both kinds, and an abort ends either.
LEMMA ShellDeviceTyped ==
  ASSUME ShellTypeOK, ShellDevice
  PROVE  ShellTypeOK'
  <1> USE DEF TypedIn
  <1>1. TypedIn(Carried) /\ UP!TypedOver(Carried, 0 .. NoReg)
    BY ShellTypes
  <1>2. IcapReset \in Ports /\ NoReg \in 0 .. NoReg
    <2>1. NoReg \in 0 .. NoReg
      BY DEF NoReg
    <2>2. QED
      BY <2>1 DEF Ports, IcapReset
  <1>3. /\ hb' \in HbicapType(Carried, 0 .. NoReg) /\ icap' \in Ports
        /\ part' \in UP!Words \cup {UP!Garbage}
        /\ UNCHANGED <<client, uclient, fw>>
    <2>1. part \in UP!Words \cup {UP!Garbage}
      BY <1>1 DEF UP!TypedOver
    <2>2. CASE ShellMove
      <3>1. Head(hb.fifo) \in Carried /\ hb' \in HbicapType(Carried, 0 .. NoReg)
        BY <1>1, <2>2, HbicapTyped DEF ShellMove
      <3>2. CASE MoveImageWord(Head(hb.fifo))
        <4>1. part' \in UP!Words \cup {UP!Garbage}
          BY <2>1, <3>2, UP!WordsTyped, Assumed, SameState DEF MoveImageWord, IsImageWord
        <4>2. [sync |-> TRUE, next |-> "data", reg |-> NoReg] \in Ports
          BY <1>2 DEF Ports
        <4>3. QED
          BY <1>2, <2>2, <3>1, <3>2, <4>1, <4>2 DEF ShellMove, MoveImageWord
      <3>3. CASE MoveU32(Head(hb.fifo))
        <4>1. Head(hb.fifo).u32 \in Int
          BY <3>1, <3>3, SameState DEF MoveU32, IsImageWord, Carried, U32s
        <4>2. QED
          BY <1>1, <2>1, <2>2, <3>1, <3>3, <4>1, ReceivedTyped, SameState DEF ShellMove, MoveU32
      <3>4. QED
        BY <2>2, <3>2, <3>3 DEF ShellMove
    <2>3. CASE ShellAbortFinishes
      <3>1. icap' \in Ports
        BY <1>1, <1>2, <2>3 DEF ShellAbortFinishes, AbortFinishes, Aborted
      <3>2. QED
        BY <1>1, <2>1, <2>3, <3>1, HbicapTyped, SameState DEF ShellAbortFinishes, AbortFinishes
    <2>4. CASE IcapFetch /\ UNCHANGED <<uclient, fw, part>>
      <3>1. icap.reg \in 0 .. NoReg /\ [icap EXCEPT !.reg = NoReg] \in Ports
        BY <1>1, <1>2 DEF Ports
      <3>2. Fetch(hb, icap.reg) \in HbicapType(Carried, 0 .. NoReg)
        BY <1>1, <2>4, <3>1, HbicapTyped DEF IcapFetch, CanFetch
      <3>3. QED
        BY <2>1, <2>4, <3>1, <3>2 DEF IcapFetch
    <2>5. CASE (ReadClears \/ AbortClears) /\ UNCHANGED <<uclient, fw, part>>
      BY <1>1, <2>1, <2>5, HbicapTyped DEF ReadClears, AbortClears
    <2>6. QED
      BY <2>2, <2>3, <2>4, <2>5 DEF ShellDevice
  <1>4. TypedIn(Carried)'
    BY <1>1, <1>3 DEF client, ClientTypeOK
  <1>5. UP!TypedOver(Carried, 0 .. NoReg)'
    <2>1. UP!HbicapType(Carried, 0 .. NoReg) = HbicapType(Carried, 0 .. NoReg)
      BY DEF UP!HbicapType, HbicapType, UP!Modes, Modes
    <2>2. QED
      BY <1>1, <1>3, <2>1 DEF uclient, UP!TypedOver, UP!ClientTypeOK
  <1>6. QED
    BY <1>4, <1>5, ShellTypes

\* A call of program_user_image keeps the types, and what it does to the process.
LEMMA ProgramTyped ==
  ASSUME ShellTypeOK, NEW c \in Clients,
         Program(c, BeginProgram(c) \/ U!Step(c) \/ U!Fault(c))
  PROVE  /\ ShellTypeOK'
         /\ (\E i \in Images : UP!Begin(c, i)) \/ UP!Step(c) \/ UP!Fault(c)
  <1>1. TypedIn(Carried) /\ UP!TypedOver(Carried, 0 .. NoReg)
    BY ShellTypes
  <1>2. (\E i \in Images : UP!Begin(c, i)) \/ UP!Step(c) \/ UP!Fault(c)
    BY SameCalls DEF Program
  <1>3. UP!Words \subseteq Carried
    BY DEF Carried
  <1>4. UP!TypedOver(Carried, 0 .. NoReg)'
    BY <1>1, <1>2, <1>3, UP!CallTyped, Assumed
  <1>5. TypedIn(Carried)'
    <2>1. UP!HbicapType(Carried, 0 .. NoReg) = HbicapType(Carried, 0 .. NoReg)
      BY DEF UP!HbicapType, HbicapType, UP!Modes, Modes
    <2>2. (clean[c] /\ uresult'[c] \notin {"err", "crash"}) \in BOOLEAN /\ "none" \in Results
      BY DEF Results
    <2>3. QED
      BY <1>1, <1>4, <2>1, <2>2 DEF Program, TypedIn, ClientTypeOK, UP!TypedOver
  <1>6. QED
    BY <1>2, <1>4, <1>5, ShellTypes

\* So does a call of the readback driver.
LEMMA ReadBackTyped ==
  ASSUME ShellTypeOK, NEW c \in Clients, ReadBack(c, Start(c) \/ Step(c) \/ Fault(c))
  PROVE  ShellTypeOK'
  <1>1. TypedIn(Carried) /\ UP!TypedOver(Carried, 0 .. NoReg)
    BY ShellTypes
  <1>2. U32s \subseteq Carried
    BY DEF Carried
  <1>3. TypedIn(Carried)'
    BY <1>1, <1>2, ClientCases, CallTyped DEF ReadBack
  <1>4. UP!TypedOver(Carried, 0 .. NoReg)'
    <2>1. UP!HbicapType(Carried, 0 .. NoReg) = HbicapType(Carried, 0 .. NoReg)
      BY DEF UP!HbicapType, HbicapType, UP!Modes, Modes
    <2>2. "none" \in UP!Results
      BY DEF UP!Results
    <2>3. QED
      BY <1>1, <1>3, <2>1, <2>2 DEF ReadBack, TypedIn, UP!TypedOver, UP!ClientTypeOK
  <1>5. QED
    BY <1>3, <1>4, ShellTypes

\* The card before the first call.
LEMMA ShellInitTyped == ShellInit => ShellTypeOK
  <1> SUFFICES ASSUME ShellInit PROVE ShellTypeOK
    OBVIOUS
  <1>1. TypeOK
    BY InitTyped DEF ShellInit
  <1>2. U!ClientTypeOK
    BY TriesAssumption DEF ShellInit, U!Init, U!ClientTypeOK, U!Labels, U!Results
  <1>3. hb \in HbicapType(U!Words \cup U32s, 0 .. NoReg)
    BY DEF ShellInit, Init, HbicapReset, HbicapType, Modes
  <1>4. fw \in [U!Firewalls -> U!FirewallType]
    BY DEF ShellInit, U!Init, U!Passing, U!FirewallType
  <1>5. part \in U!Words \cup {U!Garbage}
    BY UP!WordsTyped, Assumed, SameState DEF ShellInit, U!Init, U!Loaded
  <1>6. QED
    BY <1>1, <1>2, <1>3, <1>4, <1>5 DEF TypeOK, ShellTypeOK

\* ShellTypeOK is inductive: whatever order the two users of the core take, with
\* any number of processes, no variable leaves its type.
THEOREM ShellTypeCorrect == ShellSpec => []ShellTypeOK
  <1>1. ShellTypeOK /\ [ShellNext]_shellVars => ShellTypeOK'
    <2> SUFFICES ASSUME ShellTypeOK, [ShellNext]_shellVars PROVE ShellTypeOK'
      OBVIOUS
    <2>1. CASE UNCHANGED shellVars
      BY <2>1 DEF shellVars, vars, client, uclient, ShellTypeOK, ClientTypeOK, U!ClientTypeOK
    <2>2. QED
      BY <2>1, ShellDeviceTyped, ProgramTyped, ReadBackTyped DEF ShellNext
  <1>2. QED
    BY <1>1, ShellInitTyped, PTL DEF ShellSpec

-----------------------------------------------------------------------------
(* The invariant, for one process that aborts first and whole images *)

\* Neither the FIFO nor the port holds anything of an image.
ImageFree ==
  /\ icap.next # "data"
  /\ \A j \in 1 .. Len(hb.fifo) : hb.fifo[j] \notin UP!Words

\* Where a process is that has not yet aborted what it found.
InDoubt(c) ==
  /\ ~clean[c]
  /\ \/ pc[c] \in {"out", "abort", "reset_read", "reset_write"}
     \/ pc[c] = "abort_poll" /\ hb.mode = "abort"

\* The parts of the readback driver's invariant.
Sound(c) ==
  /\ CleanRests(c) /\ AbortEmpties(c) /\ Doubtless(c)
  /\ Opens(c) /\ Reads(c) /\ Closes(c) /\ Values(c)

\* While a process is not programming, the readback driver's invariant holds
\* for it; the rest of an image it can meet only while it is in doubt.
Reader(c) ==
  upc[c] = "out" => Sound(c) /\ (ImageFree \/ InDoubt(c))

\* While a process is programming, the port stands in the middle of an image
\* only as long as the transfer lasts, and a process without doubt finds the
\* rest of the core as it would leave it.
Programmer(c) ==
  upc[c] # "out" =>
    /\ pc[c] = "out" /\ sent[c] = 0 /\ result[c] = "none"
    /\ \/ upc[c] \in UP!Transfer /\ hb.size = 0
       \/ upc[c] \in UP!After
       => icap.next # "data"
    /\ clean[c] =>
         /\ ~hb.read /\ hb.rfifo = <<>>
         /\ hb.abort => upc[c] \in {"abort_poll", "abort_debug", "abort_clear"}
         /\ upc[c] \in {"poll_idle", "abort"} => hb.mode = "idle"
         /\ upc[c] = "abort_poll" => hb.mode \in {"abort", "idle"}
         /\ upc[c] \notin UP!Transfer => icap.next # "data"

\* The port: an unsynchronised one waits for SYNC, and one in the middle of an
\* image stands behind a blocked firewall.
PortShut ==
  /\ ~icap.sync => icap.next = "header"
  /\ UP!Reachable("dma") => icap.next # "data"

ShellIInv ==
  /\ ShellTypeOK /\ PortShut
  /\ UP!IInvOver(Carried, 0 .. NoReg)
  /\ \A c \in Clients : Reader(c) /\ Programmer(c)
-----------------------------------------------------------------------------
(* The two halves of the invariant on one core *)

\* A word is of an image or of a readback, never of both.
LEMMA WordsApart == \A w \in U32s : w \notin UP!Words
  BY DEF U32s, UP!Words

\* A core carries no word of an image exactly when it is one of the readback
\* driver's cores.
LEMMA OnlyU32s ==
  ASSUME NEW h \in HbicapType(Carried, 0 .. NoReg)
  PROVE  (\A j \in 1 .. Len(h.fifo) : h.fifo[j] \notin UP!Words)
           <=> h \in HbicapType(U32s, 0 .. NoReg)
  <1> DEFINE q == h.fifo
  <1>1. q \in Seq(Carried) /\ Len(q) \in Nat
    BY DEF HbicapType
  <1>2. ASSUME \A j \in 1 .. Len(q) : q[j] \notin UP!Words PROVE q \in Seq(U32s)
    <2>1. \A j \in 1 .. Len(q) : q[j] \in U32s
      BY <1>1, <1>2, ElementOfSeq DEF Carried
    <2>2. q = [j \in 1 .. Len(q) |-> q[j]]
      BY <1>1, LenProperties
    <2>3. q \in [1 .. Len(q) -> U32s]
      BY <2>1, <2>2
    <2>4. QED
      BY <1>1, <2>3, SeqDef
  <1>3. ASSUME q \in Seq(U32s) PROVE \A j \in 1 .. Len(q) : q[j] \notin UP!Words
    BY <1>3, ElementOfSeq, WordsApart
  <1>4. QED
    BY <1>2, <1>3 DEF HbicapType

\* What an abort and a reset leave.
LEMMA Emptied ==
  /\ StartAbort.mode = "abort" /\ StartAbort.size = 0 /\ ~StartAbort.read
  /\ StartAbort.fifo = <<>> /\ StartAbort.rfifo = <<>>
  /\ HbicapReset.mode = "idle" /\ HbicapReset.fifo = <<>>
  <1>1. /\ HbicapReset.mode = "idle" /\ HbicapReset.size = 0 /\ ~HbicapReset.read
        /\ HbicapReset.fifo = <<>> /\ HbicapReset.rfifo = <<>>
    BY DEF HbicapReset
  <1>2. HbicapReset \in HbicapType({}, {})
    BY DEF HbicapReset, HbicapType, Modes
  <1>3. QED
    BY <1>1, <1>2 DEF StartAbort, HbicapType

\* A process that reads back from a core without an image has the readback
\* driver's invariant, and the other way round.
LEMMA HalvesMeet ==
  ASSUME OneReader, ShellTypeOK, PortShut, NEW c \in Clients
  PROVE  Sound(c) /\ ImageFree <=> IInv
  <1>1. TypedIn(Carried)
    BY ShellTypes
  <1>2. /\ hb \in HbicapType(Carried, 0 .. NoReg) /\ icap \in Ports /\ ClientTypeOK
    BY <1>1 DEF TypedIn
  <1>3. ImageFree <=> TypeOK /\ PortSound
    BY <1>2, OnlyU32s DEF ImageFree, TypeOK, PortSound, PortShut
  <1>4. QED
    BY <1>3 DEF IInv, Sound, OneReader

\* The same after a step.
LEMMA HalvesMeetNext ==
  ASSUME OneReader, ShellTypeOK', PortShut', NEW c \in Clients
  PROVE  Sound(c)' /\ ImageFree' <=> IInv'
  <1>1. TypedIn(Carried)'
    BY ShellTypes
  <1>2. /\ hb' \in HbicapType(Carried, 0 .. NoReg) /\ icap' \in Ports /\ ClientTypeOK'
    BY <1>1 DEF TypedIn
  <1>3. ImageFree' <=> TypeOK' /\ PortSound'
    BY <1>2, OnlyU32s DEF ImageFree, TypeOK, PortSound, PortShut
  <1>4. QED
    BY <1>3 DEF IInv, Sound, OneReader

\* No step of the readback driver itself moves the port.
LEMMA PortWaits ==
  ASSUME NEW c \in Clients, Start(c) \/ Step(c) \/ Fault(c)
  PROVE  icap' = icap
  <1>1. CASE Start(c) \/ Stalls(c) \/ SendFails(c) \/ ReadFails(c) \/ Crash(c)
    BY <1>1 DEF Start, StartAborting, StartReset, StartWriteProgramming, StartReadback, Begin,
                Stalls, OpenStalls, ReadStalls, CloseStalls, SendStalls, SendFails, ReadFails, Crash
  <1>2. CASE \E readOk \in BOOLEAN : Polls(c, readOk)
    BY <1>2 DEF Polls, PollAborted, PollAbortCleared, PollReady, OpenDone, PollReadClear,
                CloseDone, PollTry
  <1>3. CASE \E reply \in Replies : Accesses(c, reply)
    BY <1>3 DEF Accesses, Abort, AbortDebug, ResetRead, ResetWrite, Announce, OpenSize, ReadSize,
                ReadStart, CloseSize, WriteSize
  <1>4. CASE Transfers(c)
    BY <1>4 DEF Transfers, OpenWord, OpenSent, ReadWord, CloseWord, CloseSent, SendWord, SendDone
  <1>5. QED
    BY <1>1, <1>2, <1>3, <1>4, ClientCases

\* What a step of the readback driver leaves in the write FIFO will move.
LEMMA ReaderDrains ==
  ASSUME AbortFirst, IInv, IInv', UP!Drained,
         NEW c \in Clients, Start(c) \/ Step(c) \/ Fault(c)
  PROVE  UP!Drained'
  <1> DEFINE Quenched(h) == /\ h.mode # "write" => h.fifo = <<>>
                            /\ h.mode = "write" => Len(h.fifo) <= h.size
  <1>1. /\ hb \in HbicapType(U32s, 0 .. NoReg) /\ hb' \in HbicapType(U32s, 0 .. NoReg)
        /\ Quenched(hb) /\ ClientTypeOK /\ ClientTypeOK'
        /\ CleanRests(c) /\ Doubtless(c) /\ Opens(c) /\ Closes(c) /\ Opens(c)' /\ Closes(c)'
    BY DEF IInv, TypeOK, UP!Drained
  <1>2. ASSUME \/ hb' = hb
               \/ \E q : hb' = [hb EXCEPT !.rfifo = q]
               \/ hb' = StartAbort \/ hb' = HbicapReset
               \/ Rests(hb) /\ \E n \in Nat : hb' = SetSize(hb, n)
               \/ Rests(hb) /\ hb' = StartRead(hb)
               \/ \E words, s : Len(words) \in Nat /\ Streams(words, s, hb')
        PROVE  Quenched(hb')
    <2>1. CASE \E words, s : Len(words) \in Nat /\ Streams(words, s, hb')
      BY <1>1, <2>1, EmptySeq DEF Streams, Flow
    <2>2. CASE hb' = hb \/ \E q : hb' = [hb EXCEPT !.rfifo = q]
      <3>1. hb'.mode = hb.mode /\ hb'.size = hb.size /\ hb'.fifo = hb.fifo
        BY <1>1, <2>2 DEF HbicapType
      <3>2. QED
        BY <1>1, <3>1
    <2>3. CASE hb' = StartAbort \/ hb' = HbicapReset
      BY <2>3, Emptied
    <2>4. CASE Rests(hb) /\ \E n \in Nat : hb' = SetSize(hb, n)
      BY <1>1, <2>4, SizeRests DEF Rests
    <2>5. CASE Rests(hb) /\ hb' = StartRead(hb)
      BY <1>1, <2>5 DEF Rests, StartRead, HbicapType
    <2>6. QED
      BY <1>2, <2>1, <2>2, <2>3, <2>4, <2>5
  <1>3. reg[c] \in Regs /\ sent[c] \in Nat /\ Len(Opening(reg[c])) \in Nat /\ Len(Closing) \in Nat
    BY <1>1, SentTyped DEF ClientTypeOK
  <1> HIDE DEF Quenched
  <1>4. Quenched(hb')
    <2>1. CASE Start(c) \/ Stalls(c) \/ SendFails(c) \/ Crash(c) \/ \E readOk \in BOOLEAN : Polls(c, readOk)
      <3>1. hb' = hb
        BY <2>1 DEF Start, StartAborting, StartReset, StartWriteProgramming, StartReadback, Begin,
                    Stalls, OpenStalls, ReadStalls, CloseStalls, SendStalls, SendFails, Crash,
                    Polls, PollAborted, PollAbortCleared, PollReady, OpenDone, PollReadClear,
                    CloseDone, PollTry
      <3>2. QED
        BY <1>2, <3>1
    <2>2. ASSUME NEW reply \in Replies, Accesses(c, reply) PROVE Quenched(hb')
      <3>1. /\ pc[c] \in {"announce", "open_size", "read_size", "read_start", "close_size"} => Rests(hb)
            /\ \A new : Landed(reply, hb, new) \in {hb, new}
        BY <1>1 DEF CleanRests, Doubtless, Opens, Closes, ReadbackLabels, OpeningLabels,
                    ClosingLabels, Landed
      <3>2. \A n \in Nat, at \in {"announce", "open_size", "read_size", "close_size"} :
              pc[c] = at /\ hb' = Landed(reply, hb, SetSize(hb, n)) => Quenched(hb')
        BY <1>2, <3>1
      <3>3. CASE Abort(c, reply) \/ AbortDebug(c, reply) \/ ResetRead(c, reply) \/ ResetWrite(c, reply)
        BY <1>2, <3>1, <3>3 DEF Abort, AbortDebug, ResetRead, ResetWrite
      <3>4. CASE Announce(c, reply)
        <4> DEFINE left == ProgramWords - sent[c]
                   size == IF left < MaxBurst THEN left ELSE MaxBurst
        <4>1. left > 0 => size \in Nat
          BY <1>3, BurstAssumption
        <4>2. /\ pc[c] = "announce"
              /\ \/ hb' = hb
                 \/ left > 0 /\ hb' = Landed(reply, hb, SetSize(hb, size))
          BY <3>4 DEF Announce
        <4>3. QED
          BY <1>2, <3>2, <4>1, <4>2
      <3>5. CASE OpenSize(c, reply) \/ ReadSize(c, reply) \/ CloseSize(c, reply)
        BY <1>3, <3>2, <3>5 DEF OpenSize, ReadSize, CloseSize, WriteSize, Access
      <3>6. CASE ReadStart(c, reply)
        BY <1>2, <3>1, <3>6 DEF ReadStart, Access
      <3>7. QED
        BY <2>2, <3>3, <3>4, <3>5, <3>6 DEF Accesses
    <2>3. CASE Transfers(c) \/ ReadFails(c)
      <3>1. CASE OpenWord(c)
        <4>1. pc'[c] = "open_dma"
          BY <3>1 DEF OpenWord, SendWord
        <4>2. Streams(Opening(reg'[c]), sent'[c], hb') /\ reg' = reg
          BY <1>1, <3>1, <4>1 DEF Opens, OpenWord, SendWord
        <4>3. QED
          BY <1>2, <1>3, <4>2
      <3>2. CASE CloseWord(c)
        <4>1. pc'[c] = "close_dma"
          BY <3>2 DEF CloseWord, SendWord
        <4>2. Streams(Closing, sent'[c], hb')
          BY <1>1, <4>1 DEF Closes
        <4>3. QED
          BY <1>2, <1>3, <4>2
      <3>3. CASE OpenSent(c) \/ CloseSent(c) \/ ReadWord(c) \/ ReadFails(c)
        BY <1>2, <3>3 DEF OpenSent, CloseSent, SendDone, ReadWord, ReadFails
      <3>4. QED
        BY <2>3, <3>1, <3>2, <3>3 DEF Transfers
    <2>4. QED
      BY <2>1, <2>2, <2>3, ClientCases
  <1>5. QED
    BY <1>4 DEF Quenched, UP!Drained
-----------------------------------------------------------------------------
(* The steps of the readback driver *)

\* A process in doubt finds the core as a dead call of program_user_image may
\* leave it.  It can only abort or reset it.
LEMMA DoubtKeeps ==
  ASSUME AbortFirst, ClientTypeOK, NEW c \in Clients, Sound(c), InDoubt(c),
         Start(c) \/ Step(c) \/ Fault(c)
  PROVE  /\ Sound(c)' /\ InDoubt(c)' /\ icap' = icap
         /\ hb' = hb \/ hb' = StartAbort \/ hb' = HbicapReset
  <1> DEFINE Goal == /\ Sound(c)' /\ InDoubt(c)' /\ icap' = icap
                     /\ hb' = hb \/ hb' = StartAbort \/ hb' = HbicapReset
             Card == /\ icap' = icap
                     /\ hb' = hb \/ hb' = StartAbort \/ hb' = HbicapReset
  <1>1. /\ clean[c] = FALSE /\ result[c] # "value"
        /\ pc[c] \in {"out", "abort", "reset_read", "reset_write", "abort_poll"}
        /\ pc[c] = "abort_poll" => hb.mode = "abort"
        /\ pc[c] = "out" => sent[c] = 0
        /\ AbortEmpties(c)
    BY DEF InDoubt, Sound, Values, Opens, ClientTypeOK
  <1>2. ASSUME pc'[c] \in {"out", "abort", "reset_read", "reset_write"}, clean'[c] = FALSE,
               result'[c] # "value", pc'[c] = "out" => sent'[c] = 0, Card
        PROVE  Goal
    BY <1>2 DEF InDoubt, Sound, CleanRests, AbortEmpties, Doubtless, Opens, Reads, Closes, Values,
                ReadbackLabels, OpeningLabels, ReadLabels, ClosingLabels
  <1>3. ASSUME pc'[c] = "abort_poll", clean'[c] = FALSE, result'[c] # "value",
               \/ pc[c] = "abort_poll" /\ hb' = hb
               \/ hb' = StartAbort,
               Card
        PROVE  Goal
    <2>1. /\ hb'.mode = "abort" /\ ~hb'.read /\ hb'.size = 0
          /\ hb'.fifo = <<>> /\ hb'.rfifo = <<>>
      BY <1>1, <1>3, Emptied DEF AbortEmpties
    <2>2. QED
      BY <1>3, <2>1
         DEF InDoubt, Sound, CleanRests, AbortEmpties, Doubtless, Opens, Reads, Closes, Values,
             ReadbackLabels, OpeningLabels, ReadLabels, ClosingLabels
  <1>4. ASSUME Card, NEW r \in {"ok", "err", "crash"}, Return(c, r) PROVE Goal
    <2>1. pc'[c] = "out" /\ clean'[c] = FALSE /\ result'[c] = r /\ sent'[c] = 0
      BY <1>1, <1>4 DEF Return, ClientTypeOK
    <2>2. QED
      BY <1>2, <1>4, <2>1
  <1> HIDE DEF Goal
  <1>5. ASSUME Start(c) PROVE Goal
    <2>1. PICK r \in Regs, l \in {"abort", "reset_read"} : Begin(c, r, l)
      BY <1>1, <1>5 DEF Start, StartAborting, StartReset, StartWriteProgramming, StartReadback,
                        ClientTypeOK
    <2>2. pc'[c] = l /\ result'[c] = "none" /\ UNCHANGED <<clean, hb, icap>>
      BY <2>1 DEF Begin, ClientTypeOK
    <2>3. QED
      BY <1>1, <1>2, <2>2
  <1>6. ASSUME NEW reply \in Replies, Accesses(c, reply) PROVE Goal
    <2>1. \/ Abort(c, reply) \/ ResetRead(c, reply) \/ ResetWrite(c, reply)
      BY <1>1, <1>6 DEF Accesses, AbortDebug, Announce, OpenSize, ReadSize, ReadStart, CloseSize,
                        WriteSize, Access
    <2>2. CASE Abort(c, reply)
      <3>1. Card /\ (reply = "ok" => hb' = StartAbort)
        BY <2>2 DEF Abort, Landed
      <3>2. CASE reply = "ok"
        <4>1. Access(c, "abort", "ok", "abort_poll")
          BY <2>2, <3>2 DEF Abort
        <4>2. pc'[c] = "abort_poll" /\ result'[c] = result[c] /\ clean'[c] = clean[c]
          BY <4>1, AccessOk
        <4>3. QED
          BY <1>1, <1>3, <3>1, <3>2, <4>2
      <3>3. CASE reply # "ok"
        BY <1>4, <2>2, <3>1, <3>3 DEF Abort, Access
      <3>4. QED
        BY <3>2, <3>3
    <2>3. CASE ResetRead(c, reply)
      <3>1. CASE reply = "ok"
        <4>1. Access(c, "reset_read", "ok", "reset_write") /\ UNCHANGED <<hb, icap>>
          BY <2>3, <3>1 DEF ResetRead
        <4>2. pc'[c] = "reset_write" /\ result'[c] = result[c] /\ clean'[c] = clean[c]
          BY <4>1, AccessOk
        <4>3. QED
          BY <1>1, <1>2, <4>1, <4>2
      <3>2. CASE reply # "ok"
        BY <1>4, <2>3, <3>2 DEF ResetRead, Access
      <3>3. QED
        BY <3>1, <3>2
    <2>4. CASE ResetWrite(c, reply)
      BY <1>4, <2>4 DEF ResetWrite, Landed
    <2>5. QED
      BY <2>1, <2>2, <2>3, <2>4
  <1>7. ASSUME NEW readOk \in BOOLEAN, Polls(c, readOk) PROVE Goal
    <2>1. PollTry(c, "abort_poll", FALSE, Goto(c, "abort_debug"))
      <3>1. PollAborted(c, readOk)
        BY <1>1, <1>7 DEF Polls, PollAborted, PollAbortCleared, PollReady, OpenDone, PollReadClear,
                          CloseDone, PollTry
      <3>2. pc[c] = "abort_poll" /\ ~Idle(hb)
        BY <1>1, <3>1 DEF PollAborted, PollTry, Idle
      <3>3. QED
        BY <3>1, <3>2 DEF PollAborted, PollTry
    <2>2. QED
      BY <1>1, <1>3, <1>4, <2>1 DEF PollTry
  <1>8. ASSUME Transfers(c) \/ Stalls(c) \/ SendFails(c) \/ ReadFails(c) \/ Crash(c)
        PROVE  Goal
    <2>1. Crash(c)
      BY <1>1, <1>8 DEF Transfers, OpenWord, OpenSent, ReadWord, CloseWord, CloseSent, SendWord,
                        SendDone, Stalls, OpenStalls, ReadStalls, CloseStalls, SendStalls,
                        SendFails, ReadFails
    <2>2. QED
      BY <1>4, <2>1 DEF Crash
  <1>9. Goal
    BY <1>5, <1>6, <1>7, <1>8, ClientCases
  <1>10. QED
    BY <1>9 DEF Goal

\* A call of the readback driver: in doubt it empties the core, and otherwise
\* nothing of an image is there.
LEMMA ReadBackKeeps ==
  ASSUME OneReader, AbortFirst, ShellIInv, NEW c \in Clients,
         ReadBack(c, Start(c) \/ Step(c) \/ Fault(c))
  PROVE  ShellIInv'
  <1>1. /\ ShellTypeOK /\ ShellTypeOK' /\ ClientTypeOK /\ TypedIn(Carried)
        /\ UP!TypedOver(Carried, 0 .. NoReg)'
    BY ReadBackTyped, ShellTypes DEF ShellIInv, TypedIn
  <1>2. /\ upc[c] = "out" /\ UNCHANGED <<upc, image, usent, utries, fw, part>>
        /\ uresult'[c] = "none"
        /\ Start(c) \/ Step(c) \/ Fault(c)
        /\ Sound(c)
        /\ ImageFree \/ InDoubt(c)
        /\ UP!Drained /\ UP!Shielded /\ PortShut
    BY <1>1, ShellTypes DEF ReadBack, ShellIInv, Reader, UP!IInvOver, UP!TypedOver, UP!ClientTypeOK
  <1>3. /\ icap' = icap /\ Sound(c)' /\ UP!Drained'
        /\ ImageFree' \/ InDoubt(c)'
        /\ ImageFree' \/ hb' = hb \/ hb'.fifo = <<>>
    <2>1. CASE ImageFree
      <3>1. IInv
        BY <1>1, <1>2, <2>1, HalvesMeet
      <3>2. IInv'
        BY <1>2, <3>1, ClientCases, BeginKeeps, AccessesKeep, PollsKeep, TransfersKeep
      <3>3. icap' = icap
        BY <1>2, PortWaits
      <3>4. PortShut'
        BY <1>2, <3>3 DEF PortShut, UP!Reachable
      <3>5. QED
        BY <1>1, <1>2, <3>1, <3>2, <3>3, <3>4, HalvesMeetNext, ReaderDrains
    <2>2. CASE InDoubt(c)
      <3>1. /\ Sound(c)' /\ InDoubt(c)' /\ icap' = icap
            /\ hb' = hb \/ hb' = StartAbort \/ hb' = HbicapReset
        BY <1>1, <1>2, <2>2, DoubtKeeps
      <3>2. QED
        BY <1>2, <3>1, Emptied DEF UP!Drained
    <2>3. QED
      BY <1>2, <2>1, <2>2
  <1>4. PortShut'
    BY <1>2, <1>3 DEF PortShut, UP!Reachable
  <1>5. UP!Shielded'
    BY <1>2, <1>3 DEF UP!Shielded, UP!Reachable, UP!Loaded, ImageFree
  <1>6. UP!IInvOver(Carried, 0 .. NoReg)'
    BY <1>1, <1>2, <1>3, <1>5, UP!OthersUse, Assumed DEF ShellIInv, OneReader
  <1>7. Reader(c)' /\ Programmer(c)'
    BY <1>2, <1>3 DEF Reader, Programmer
  <1>8. QED
    BY <1>1, <1>4, <1>6, <1>7 DEF ShellIInv, OneReader
-----------------------------------------------------------------------------
(* The steps of program_user_image *)

\* The way of a call: where it goes on, and what it does to the core there.
LEMMA Turns ==
  ASSUME UP!ClientTypeOK, NEW c \in Clients,
         (\E i \in Images : UP!Begin(c, i)) \/ UP!Step(c) \/ UP!Fault(c)
  PROVE  \/ upc[c] = "out" /\ upc'[c] = "poll_idle" /\ hb' = hb
         \/ upc[c] # "out" /\ upc'[c] = "out" /\ uresult'[c] \in {"err", "crash"}
         \/ upc[c] = "ctrl_unblock" /\ upc'[c] = "out" /\ hb' = hb
         \/ upc[c] # "out" /\ upc'[c] = upc[c] /\ hb' = hb
         \/ /\ <<upc[c], upc'[c]>> \in
                  {<<"poll_idle", "block_ctrl">>, <<"poll_idle", "abort">>,
                   <<"abort_poll", "abort_debug">>, <<"abort_debug", "abort_clear">>,
                   <<"block_ctrl", "block_dma">>, <<"block_dma", "size">>, <<"dma", "poll_done">>,
                   <<"dma_soft", "dma_unblock">>, <<"dma_unblock", "ctrl_soft">>,
                   <<"ctrl_soft", "ctrl_unblock">>}
            /\ hb' = hb
         \/ upc[c] = "abort" /\ upc'[c] = "abort_poll" /\ hb' = UP!StartAbort
         \/ upc[c] = "abort_clear" /\ upc'[c] = "block_ctrl" /\ ~hb.abort /\ hb' = hb
         \/ /\ upc[c] = "size" /\ upc'[c] = "dma" /\ usent'[c] = usent[c]
            /\ \E n : hb' = UP!SetSize(hb, n)
         \/ upc[c] = "dma" /\ upc'[c] = "dma" /\ \E w : hb' = UP!Push(hb, w)
         \/ upc[c] = "poll_done" /\ upc'[c] = "dma_soft" /\ UP!Idle(hb) /\ hb' = hb
  <1> USE DEF UP!ClientTypeOK
  <1>1. \A l : UP!Goto(c, l) => upc'[c] = l /\ usent' = usent
    BY DEF UP!Goto
  <1>2. \A r : UP!Return(c, r) => upc'[c] = "out" /\ uresult'[c] = r
    BY DEF UP!Return
  <1>3. \A at, reply, next :
          UP!WriteReg(c, at, reply, next) =>
            /\ upc[c] = at
            /\ \/ reply = "ok" /\ upc'[c] = next /\ usent' = usent
               \/ upc'[c] = "out" /\ uresult'[c] = "err"
    BY <1>1, <1>2 DEF UP!WriteReg
  <1>4. CASE \E i \in Images : UP!Begin(c, i)
    BY <1>4 DEF UP!Begin
  <1>5. ASSUME NEW reply \in UP!Replies, UP!Access(c, reply)
        PROVE  \/ upc[c] # "out" /\ upc'[c] = "out" /\ uresult'[c] \in {"err", "crash"}
               \/ upc[c] = "ctrl_unblock" /\ upc'[c] = "out" /\ hb' = hb
               \/ /\ <<upc[c], upc'[c]>> \in
                        {<<"abort_debug", "abort_clear">>, <<"block_ctrl", "block_dma">>,
                         <<"block_dma", "size">>, <<"dma_soft", "dma_unblock">>,
                         <<"dma_unblock", "ctrl_soft">>, <<"ctrl_soft", "ctrl_unblock">>}
                  /\ hb' = hb
               \/ upc[c] = "abort" /\ upc'[c] = "abort_poll" /\ hb' = UP!StartAbort
               \/ /\ upc[c] = "size" /\ upc'[c] = "dma" /\ usent'[c] = usent[c]
                  /\ \E n : hb' = UP!SetSize(hb, n)
    <2>1. CASE UP!Abort(c, reply)
      BY <1>3, <2>1 DEF UP!Abort, UP!Landed
    <2>2. CASE UP!WriteSize(c, reply)
      BY <1>3, <2>2 DEF UP!WriteSize, UP!Landed
    <2>3. CASE UP!CtrlUnblock(c, reply)
      BY <1>2, <2>3 DEF UP!CtrlUnblock
    <2>4. CASE UP!AbortDebug(c, reply) \/ UP!BlockCtrl(c, reply) \/ UP!BlockDma(c, reply)
      BY <1>3, <2>4 DEF UP!AbortDebug, UP!BlockCtrl, UP!BlockDma
    <2>5. CASE UP!DmaClearSoft(c, reply) \/ UP!DmaUnblock(c, reply) \/ UP!CtrlClearSoft(c, reply)
      BY <1>3, <2>5 DEF UP!DmaClearSoft, UP!DmaUnblock, UP!CtrlClearSoft
    <2>6. QED
      BY <1>5, <2>1, <2>2, <2>3, <2>4, <2>5 DEF UP!Access
  <1>6. ASSUME NEW readOk \in BOOLEAN, UP!Polls(c, readOk)
        PROVE  \/ upc[c] # "out" /\ upc'[c] = "out" /\ uresult'[c] \in {"err", "crash"}
               \/ upc[c] # "out" /\ upc'[c] = upc[c] /\ hb' = hb
               \/ /\ <<upc[c], upc'[c]>> \in
                        {<<"poll_idle", "block_ctrl">>, <<"poll_idle", "abort">>,
                         <<"abort_poll", "abort_debug">>}
                  /\ hb' = hb
               \/ upc[c] = "abort_clear" /\ upc'[c] = "block_ctrl" /\ ~hb.abort /\ hb' = hb
               \/ upc[c] = "poll_done" /\ upc'[c] = "dma_soft" /\ UP!Idle(hb) /\ hb' = hb
    <2>1. CASE UP!PollIdle(c, readOk)
      BY <1>1, <2>1 DEF UP!PollIdle, UP!PollTry
    <2>2. CASE UP!PollAborted(c, readOk)
      BY <1>1, <1>2, <2>2 DEF UP!PollAborted, UP!PollTry
    <2>3. CASE UP!PollAbortCleared(c, readOk)
      BY <1>1, <1>2, <2>3 DEF UP!PollAbortCleared, UP!PollTry
    <2>4. CASE UP!PollDone(c, readOk)
      BY <1>1, <1>2, <2>4 DEF UP!PollDone, UP!PollTry
    <2>5. QED
      BY <1>6, <2>1, <2>2, <2>3, <2>4 DEF UP!Polls
  <1>7. CASE UP!DmaWord(c)
    BY <1>7 DEF UP!DmaWord
  <1>8. CASE UP!DmaDone(c) \/ UP!DmaStalls(c) \/ UP!DmaFails(c) \/ UP!Crash(c)
    BY <1>1, <1>2, <1>8 DEF UP!DmaDone, UP!DmaStalls, UP!DmaFails, UP!Crash
  <1>9. CASE \E reply \in UP!Replies : UP!Access(c, reply)
    BY <1>5, <1>9
  <1>10. CASE \E readOk \in BOOLEAN : UP!Polls(c, readOk)
    BY <1>6, <1>10
  <1>11. QED
    BY <1>4, <1>7, <1>8, <1>9, <1>10, UP!ClientCases, Assumed

\* Only the end of a call opens the DMA firewall.
LEMMA DmaOpens ==
  ASSUME UP!TypedOver(Carried, 0 .. NoReg), NEW c \in Clients,
         (\E i \in Images : UP!Begin(c, i)) \/ UP!Step(c) \/ UP!Fault(c),
         ~UP!Reachable("dma"), UP!Reachable("dma")'
  PROVE  upc[c] = "dma_unblock"
  <1>1. fw["dma"] \in UP!FirewallType /\ fw \in [{"ctrl", "dma"} -> UP!FirewallType]
    BY DEF UP!TypedOver, UP!Firewalls
  <1>2. fw' # fw
    BY DEF UP!Reachable
  <1>3. PICK reply \in UP!Replies : UP!Access(c, reply)
    BY <1>2, UP!ClientCases, Assumed
       DEF UP!Begin, UP!Polls, UP!PollIdle, UP!PollAborted, UP!PollAbortCleared, UP!PollDone,
           UP!PollTry, UP!DmaWord, UP!DmaDone, UP!DmaStalls, UP!DmaFails, UP!Crash
  <1>4. CASE UP!BlockDma(c, reply) \/ UP!DmaClearSoft(c, reply)
    BY <1>1, <1>4
       DEF UP!BlockDma, UP!DmaClearSoft, UP!Landed, UP!BlockMi, UP!ClearSoftFault,
           UP!Reachable, UP!MiIsBlocked, UP!FirewallType
  <1>5. CASE UP!BlockCtrl(c, reply) \/ UP!CtrlClearSoft(c, reply) \/ UP!CtrlUnblock(c, reply)
    BY <1>1, <1>5 DEF UP!BlockCtrl, UP!CtrlClearSoft, UP!CtrlUnblock, UP!Reachable, UP!MiIsBlocked
  <1>6. QED
    BY <1>2, <1>3, <1>4, <1>5
       DEF UP!Access, UP!Abort, UP!AbortDebug, UP!WriteSize, UP!DmaUnblock, UP!WriteReg
\* What a call does to the bits of Control and to the read FIFO.
LEMMA CoreBits ==
  ASSUME NEW h \in HbicapType(Carried, 0 .. NoReg), NEW k,
         \/ k = h
         \/ \E n : k = UP!SetSize(h, n)
         \/ \E w : k = UP!Push(h, w)
  PROVE  /\ k.read = h.read /\ k.rfifo = h.rfifo /\ k.abort = h.abort
         /\ (\E w : k = UP!Push(h, w)) => k.size = h.size
  <1>1. CASE k = h
    BY <1>1 DEF UP!Push, UP!Kick, HbicapType
  <1>2. ASSUME NEW n, k = UP!SetSize(h, n)
        PROVE  k.read = h.read /\ k.rfifo = h.rfifo /\ k.abort = h.abort
    BY <1>2 DEF UP!SetSize, UP!Kick, HbicapType
  <1>3. ASSUME NEW w, k = UP!Push(h, w)
        PROVE  k.read = h.read /\ k.rfifo = h.rfifo /\ k.abort = h.abort /\ k.size = h.size
    BY <1>3 DEF UP!Push, UP!Kick, HbicapType
  <1>4. QED
    BY <1>1, <1>2, <1>3

\* What a finished or dead call leaves to the readback driver: a core at rest and
\* no trace of the image, or a process in doubt.
LEMMA ProgramEnds ==
  ASSUME ShellIInv, NEW c \in Clients, Program(c, BeginProgram(c) \/ U!Step(c) \/ U!Fault(c)),
         upc'[c] = "out"
  PROVE  Sound(c)' /\ (ImageFree' \/ InDoubt(c)')
  <1>1. /\ ClientTypeOK /\ UP!ClientTypeOK /\ hb \in HbicapType(Carried, 0 .. NoReg)
        /\ (\E i \in Images : UP!Begin(c, i)) \/ UP!Step(c) \/ UP!Fault(c)
    BY ShellTypes, ProgramTyped DEF ShellIInv, TypedIn, UP!TypedOver
  <1>2. /\ clean'[c] = (clean[c] /\ uresult'[c] \notin {"err", "crash"})
        /\ pc'[c] = pc[c] /\ sent'[c] = sent[c] /\ result'[c] = "none" /\ icap' = icap
    BY <1>1 DEF Program, ClientTypeOK
  <1>3. upc[c] # "out"
    BY <1>1, Turns
  <1>4. pc[c] = "out" /\ sent[c] = 0
    BY <1>3 DEF ShellIInv, Programmer
  <1>5. ASSUME clean'[c] => Rests(hb') PROVE Sound(c)'
    BY <1>2, <1>4, <1>5
       DEF Sound, CleanRests, AbortEmpties, Doubtless, Opens, Reads, Closes, Values,
           ReadbackLabels, OpeningLabels, ReadLabels, ClosingLabels
  <1>6. CASE uresult'[c] \in {"err", "crash"}
    BY <1>2, <1>4, <1>5, <1>6 DEF InDoubt
  <1>7. CASE upc[c] = "ctrl_unblock" /\ hb' = hb
    <2>1. hb.mode = "idle" /\ hb.fifo = <<>>
      BY <1>7 DEF ShellIInv, UP!IInvOver, UP!Done, UP!After, UP!Drained, UP!Idle
    <2>2. icap.next # "data" /\ (clean[c] => ~hb.read /\ ~hb.abort /\ hb.rfifo = <<>>)
      BY <1>7 DEF ShellIInv, Programmer, UP!After
    <2>3. Sound(c)'
      BY <1>2, <1>5, <1>7, <2>1, <2>2 DEF Rests
    <2>4. ImageFree'
      <3>1. hb'.fifo = <<>> /\ icap'.next # "data"
        BY <1>2, <1>7, <2>1, <2>2
      <3>2. QED
        BY <3>1 DEF ImageFree
    <2>5. QED
      BY <2>3, <2>4
  <1>8. QED
    BY <1>1, <1>3, <1>6, <1>7, Turns

\* What a call of program_user_image, as long as it runs, keeps for the readback
\* driver.
LEMMA ProgramGoesOn ==
  ASSUME U!WholeImages, ShellIInv, NEW c \in Clients,
         Program(c, BeginProgram(c) \/ U!Step(c) \/ U!Fault(c)),
         UP!IInvOver(Carried, 0 .. NoReg)', upc'[c] # "out"
  PROVE  Programmer(c)'
  <1> USE DEF UP!Transfer, UP!After
  <1>1. /\ ClientTypeOK /\ UP!ClientTypeOK /\ hb \in HbicapType(Carried, 0 .. NoReg)
        /\ (\E i \in Images : UP!Begin(c, i)) \/ UP!Step(c) \/ UP!Fault(c)
        /\ UP!ClientTypeOK' /\ hb' \in HbicapType(Carried, 0 .. NoReg)
    BY ShellTypes, ProgramTyped DEF ShellIInv, TypedIn, UP!TypedOver
  <1>2. /\ clean'[c] => clean[c]
        /\ pc'[c] = pc[c] /\ pc[c] = "out" /\ sent'[c] = sent[c] /\ result'[c] = "none"
        /\ icap' = icap
    BY <1>1 DEF Program, ClientTypeOK
  <1>3. sent'[c] = 0
    BY <1>2 DEF ShellIInv, Programmer, Reader, Sound, Opens
  <1>4. \/ upc'[c] \in UP!Transfer /\ hb'.size = 0
        \/ upc'[c] \in UP!After
        => icap'.next # "data"
    <2>1. CASE \/ upc[c] \in UP!Transfer /\ hb.size = 0
               \/ upc[c] \in UP!After
      BY <1>2, <2>1 DEF ShellIInv, Programmer
    <2>2. CASE upc[c] = "size" /\ upc'[c] = "dma"
      <3>1. /\ UP!Flow(image'[c], usent'[c], hb', part') /\ usent'[c] = usent[c]
            /\ usent[c] = 0 /\ image'[c] \in Images
        BY <1>1, <2>2, Turns
           DEF ShellIInv, UP!IInvOver, UP!Stream, UP!QuietCore, UP!Before, UP!ClientTypeOK
      <3>2. UP!NBeats(image'[c]) \in Nat \ {0}
        BY <3>1, UP!WholeWords, Assumed, SameState
      <3>3. hb'.size # 0
        BY <1>1, <3>1, <3>2, LenProperties DEF UP!Flow, HbicapType
      <3>4. QED
        BY <2>2, <3>3
    <2>3. CASE upc[c] \in UP!Transfer /\ hb.size # 0 /\ upc'[c] \in UP!Transfer
      <3>1. hb'.size = hb.size
        BY <1>1, <2>3, Turns, CoreBits
      <3>2. QED
        BY <2>3, <3>1
    <2>4. CASE upc[c] = "poll_done" /\ upc'[c] = "dma_soft"
      <3>1. hb.mode = "idle" /\ hb.fifo = <<>> /\ UP!Flow(image[c], usent[c], hb, part)
            /\ usent[c] = UP!NBeats(image[c]) /\ image[c] \in Images
        BY <1>1, <2>4, Turns
           DEF ShellIInv, UP!IInvOver, UP!Drained, UP!Stream, UP!Idle, UP!ClientTypeOK
      <3>2. UP!NBeats(image[c]) \in Nat
        BY <3>1, UP!WholeWords, Assumed, SameState
      <3>3. hb.size = 0
        BY <3>1, <3>2, EmptySeq DEF UP!Flow
      <3>4. QED
        BY <2>1, <2>4, <3>3
    <2>5. QED
      BY <1>1, <2>1, <2>2, <2>3, <2>4, Turns
  <1>5. ASSUME clean'[c]
        PROVE  /\ ~hb'.read /\ hb'.rfifo = <<>>
               /\ hb'.abort => upc'[c] \in {"abort_poll", "abort_debug", "abort_clear"}
               /\ upc'[c] \in {"poll_idle", "abort"} => hb'.mode = "idle"
               /\ upc'[c] = "abort_poll" => hb'.mode \in {"abort", "idle"}
               /\ upc'[c] \notin UP!Transfer => icap'.next # "data"
    <2>1. CASE upc[c] = "out"
      <3>1. upc'[c] = "poll_idle" /\ hb' = hb
        BY <1>1, <2>1, Turns
      <3>2. Sound(c) /\ ImageFree
        BY <1>2, <1>5, <2>1 DEF ShellIInv, Reader, InDoubt
      <3>3. Rests(hb) /\ icap.next # "data"
        BY <1>2, <1>5, <3>2 DEF Sound, CleanRests, ImageFree
      <3>4. QED
        BY <1>2, <3>1, <3>3 DEF Rests
    <2>2. CASE upc[c] # "out"
      <3>1. /\ ~hb.read /\ hb.rfifo = <<>>
            /\ hb.abort => upc[c] \in {"abort_poll", "abort_debug", "abort_clear"}
            /\ upc[c] \in {"poll_idle", "abort"} => hb.mode = "idle"
            /\ upc[c] = "abort_poll" => hb.mode \in {"abort", "idle"}
            /\ upc[c] \notin UP!Transfer => icap.next # "data"
        BY <1>2, <1>5, <2>2 DEF ShellIInv, Programmer
      <3>2. CASE upc[c] = "abort" /\ upc'[c] = "abort_poll" /\ hb' = UP!StartAbort
        <4>1. hb' = StartAbort
          BY <3>2 DEF UP!StartAbort, StartAbort, UP!HbicapReset, HbicapReset
        <4>2. QED
          BY <1>2, <3>1, <3>2, <4>1, Emptied
      <3>3. CASE \/ hb' = hb
                 \/ upc[c] = "size" /\ upc'[c] = "dma" /\ \E n : hb' = UP!SetSize(hb, n)
                 \/ upc[c] = "dma" /\ upc'[c] = "dma" /\ \E w : hb' = UP!Push(hb, w)
        <4>1. hb'.read = hb.read /\ hb'.rfifo = hb.rfifo /\ hb'.abort = hb.abort
          BY <1>1, <3>3, CoreBits
        <4>2. upc'[c] \in UP!After => icap'.next # "data"
          BY <1>4
        <4>3. QED
          BY <1>1, <1>2, <2>2, <3>1, <3>3, <4>1, <4>2, Turns
      <3>4. QED
        BY <1>1, <2>2, <3>2, <3>3, Turns
    <2>3. QED
      BY <2>1, <2>2
  <1>6. QED
    BY <1>2, <1>3, <1>4, <1>5 DEF Programmer

\* A call of program_user_image, from its beginning to its end or death.
LEMMA ProgramKeeps ==
  ASSUME OneReader, U!WholeImages, ShellIInv, NEW c \in Clients,
         Program(c, BeginProgram(c) \/ U!Step(c) \/ U!Fault(c))
  PROVE  ShellIInv'
  <1>1. /\ ShellTypeOK' /\ UP!TypedOver(Carried, 0 .. NoReg)
        /\ (\E i \in Images : UP!Begin(c, i)) \/ UP!Step(c) \/ UP!Fault(c)
    BY ProgramTyped, ShellTypes DEF ShellIInv
  <1>2. icap' = icap
    BY DEF Program
  <1>3. UP!IInvOver(Carried, 0 .. NoReg)'
    <2>1. UP!OneProgrammer /\ UP!WholeImages /\ UP!Words \subseteq Carried
      BY SameState DEF Carried
    <2>2. QED
      BY <1>1, <2>1, UP!CallKeeps, Assumed DEF ShellIInv
  <1>4. PortShut'
    <2>1. CASE UP!Reachable("dma")' /\ ~UP!Reachable("dma")
      <3>1. upc[c] = "dma_unblock"
        BY <1>1, <2>1, DmaOpens
      <3>2. icap.next # "data"
        BY <3>1 DEF ShellIInv, Programmer, UP!After
      <3>3. QED
        BY <1>2, <3>2 DEF ShellIInv, PortShut
    <2>2. QED
      BY <1>2, <2>1 DEF ShellIInv, PortShut
  <1>5. Reader(c)' /\ Programmer(c)'
    BY <1>3, ProgramEnds, ProgramGoesOn DEF Reader, Programmer
  <1>6. QED
    BY <1>1, <1>3, <1>4, <1>5 DEF ShellIInv, OneReader
-----------------------------------------------------------------------------
(* The steps of the core *)

\* The core's operations, as the two instances name them.
LEMMA SameCore ==
  /\ \A h : UP!CanMove(h) = CanMove(h) /\ UP!Move(h) = Move(h)
  /\ \A h : UP!CanFinishAbort(h) = CanFinishAbort(h) /\ UP!FinishAbort(h) = FinishAbort(h)
  BY DEF UP!CanMove, CanMove, UP!Move, Move, UP!CanFinishAbort, CanFinishAbort,
         UP!FinishAbort, FinishAbort, UP!Kick, Kick

\* The port never gets into an image behind an open firewall.
LEMMA PortStaysShut ==
  ASSUME ShellIInv, ShellDevice
  PROVE  PortShut'
  <1>1. /\ icap \in Ports /\ PortShut /\ UP!IInvOver(Carried, 0 .. NoReg)
        /\ (UP!Reachable("dma")' <=> UP!Reachable("dma"))
    BY DEF ShellIInv, ShellTypeOK, ShellDevice, ShellMove, ShellAbortFinishes, UP!Reachable
  <1>2. CASE ShellMove /\ MoveImageWord(Head(hb.fifo))
    <2>1. ~UP!Reachable("dma")
      <3>1. UP!CanMove(hb) /\ Head(hb.fifo) \in UP!Words
        BY <1>2, SameCore, SameState DEF ShellMove, MoveImageWord, IsImageWord
      <3>2. QED
        BY <1>1, <3>1, UP!MovesIsolated, Assumed DEF UP!Firewalls
    <2>2. icap' = IcapReset \/ icap'.sync
      BY <1>2 DEF MoveImageWord
    <2>3. QED
      BY <1>1, <2>1, <2>2 DEF PortShut, IcapReset
  <1>3. CASE ShellMove /\ MoveU32(Head(hb.fifo))
    <2>1. icap' = Received(icap, Head(hb.fifo).u32)
      BY <1>3 DEF MoveU32
    <2>2. CASE icap.next = "data"
      BY <1>1, <2>1, <2>2 DEF Received, PortShut
    <2>3. CASE icap.next # "data"
      BY <1>1, <2>1, <2>3, ReceivedSound DEF PortShut
    <2>4. QED
      BY <2>2, <2>3
  <1>4. CASE ShellAbortFinishes
    BY <1>1, <1>4 DEF ShellAbortFinishes, AbortFinishes, Aborted, PortShut, IcapReset
  <1>5. CASE IcapFetch
    <2>1. icap'.sync = icap.sync /\ icap'.next = icap.next
      BY <1>1, <1>5 DEF IcapFetch, Ports
    <2>2. QED
      BY <1>1, <2>1 DEF PortShut
  <1>6. CASE ReadClears \/ AbortClears
    BY <1>1, <1>6 DEF ReadClears, AbortClears, PortShut
  <1>7. QED
    BY <1>2, <1>3, <1>4, <1>5, <1>6 DEF ShellDevice, ShellMove

\* What the core does to the reconfiguration: it moves the words of images in
\* order, and whatever else it does leaves an open partition alone.
LEMMA CardKeeps ==
  ASSUME U!WholeImages, ShellIInv, ShellDevice
  PROVE  UP!IInvOver(Carried, 0 .. NoReg)'
  <1>1. /\ UP!IInvOver(Carried, 0 .. NoReg) /\ UP!TypedOver(Carried, 0 .. NoReg)'
        /\ hb \in HbicapType(Carried, 0 .. NoReg) /\ UP!WholeImages
    BY ShellTypes, ShellDeviceTyped, SameState DEF ShellIInv, TypedIn
  <1>2. UNCHANGED <<UP!client, fw>>
    BY DEF ShellDevice, ShellMove, ShellAbortFinishes, uclient, UP!client
  <1>3. UP!Reachable("dma") => icap.next # "data"
    BY DEF ShellIInv, PortShut
  <1>4. CASE ShellMove /\ MoveImageWord(Head(hb.fifo))
    <2>1. /\ UP!CanMove(hb) /\ hb' = UP!Move(hb) /\ Head(hb.fifo) \in UP!Words
          /\ part' = UP!Received(part, Head(hb.fifo))
      BY <1>4, SameCore, SameState DEF ShellMove, MoveImageWord, IsImageWord
    <2>2. QED
      BY <1>1, <1>2, <2>1, UP!MoveKeeps, Assumed
  <1>5. CASE ShellMove /\ MoveU32(Head(hb.fifo))
    <2>1. /\ UP!CanMove(hb) /\ hb' = UP!Move(hb) /\ Head(hb.fifo) \notin UP!Words
          /\ UP!Reachable("dma") => part' = part
      BY <1>3, <1>5, SameCore, SameState DEF ShellMove, MoveU32, IsImageWord
    <2>2. QED
      BY <1>1, <1>2, <2>1, UP!OthersMove, Assumed
  <1>6. CASE ShellAbortFinishes
    <2>1. /\ UP!CanFinishAbort(hb) /\ hb' = UP!FinishAbort(hb)
          /\ UP!Reachable("dma") => part' = part
      BY <1>3, <1>6, SameCore DEF ShellAbortFinishes, AbortFinishes
    <2>2. QED
      BY <1>1, <1>2, <2>1, UP!AbortKeeps, Assumed
  <1>7. CASE IcapFetch /\ UNCHANGED part
    <2>1. hb.mode = "read" /\ hb'.mode \in {"idle", "read"} /\ hb'.fifo = hb.fifo
      BY <1>1, <1>7 DEF IcapFetch, CanFetch, Fetch, HbicapType
    <2>2. QED
      BY <1>1, <1>2, <1>7, <2>1, UP!OthersFetch, Assumed
  <1>8. CASE (ReadClears \/ AbortClears) /\ UNCHANGED part
    <2>1. hb'.mode = hb.mode /\ hb'.size = hb.size /\ hb'.fifo = hb.fifo
      BY <1>1, <1>8 DEF ReadClears, ClearRead, AbortClears, ClearAbort, HbicapType
    <2>2. QED
      BY <1>1, <1>2, <1>8, <2>1, UP!BitsKeep, Assumed
  <1>9. QED
    BY <1>4, <1>5, <1>6, <1>7, <1>8 DEF ShellDevice, ShellMove

\* The core serves a process that reads back as it does without images, and it
\* takes the rest of an image from one that aborts.
LEMMA ServesReader ==
  ASSUME OneReader, AbortFirst, ShellIInv, ShellDevice, ShellTypeOK', PortShut',
         NEW c \in Clients, upc[c] = "out"
  PROVE  Sound(c)' /\ (ImageFree' \/ InDoubt(c)')
  <1>1. /\ ShellTypeOK /\ PortShut /\ Sound(c) /\ ClientTypeOK
        /\ ImageFree \/ InDoubt(c)
        /\ hb \in HbicapType(Carried, 0 .. NoReg) /\ icap \in Ports
    BY ShellTypes DEF ShellIInv, Reader, TypedIn
  <1>2. UNCHANGED client
    BY DEF ShellDevice, ShellMove, ShellAbortFinishes, AbortFinishes, IcapFetch, ReadClears, AbortClears
  <1>3. CASE ImageFree
    <2>1. IInv
      BY <1>1, <1>3, HalvesMeet
    <2>2. Device
      <3>1. CASE ShellMove
        <4>1. Head(hb.fifo) \in U32s /\ hb \in HbicapType(U32s, 0 .. NoReg)
          BY <2>1, <3>1, HbicapTyped DEF IInv, TypeOK, ShellMove
        <4>2. ~IsImageWord(Head(hb.fifo))
          BY <4>1, WordsApart, SameState DEF IsImageWord
        <4>3. IcapMove
          BY <1>2, <3>1, <4>2 DEF ShellMove, MoveImageWord, MoveU32, IcapMove
        <4>4. QED
          BY <4>3 DEF Device
      <3>2. QED
        BY <3>1 DEF ShellDevice, ShellAbortFinishes, Device
    <2>3. IInv'
      BY <2>1, <2>2, DeviceKeeps
    <2>4. QED
      BY <2>3, HalvesMeetNext
  <1>4. CASE InDoubt(c)
    <2>1. /\ clean[c] = FALSE /\ result[c] # "value"
          /\ pc[c] = "out" => sent[c] = 0
          /\ AbortEmpties(c)
      BY <1>1, <1>4 DEF InDoubt, Sound, Values, Opens, ClientTypeOK
    <2>2. CASE pc[c] \in {"out", "abort", "reset_read", "reset_write"}
      BY <1>2, <2>1, <2>2
         DEF client, InDoubt, Sound, CleanRests, AbortEmpties, Doubtless, Opens, Reads, Closes, Values,
             ReadbackLabels, OpeningLabels, ReadLabels, ClosingLabels
    <2>3. CASE pc[c] = "abort_poll" /\ hb.mode = "abort"
      <3>1. hb.size = 0 /\ hb.fifo = <<>> /\ hb.rfifo = <<>> /\ ~hb.read
        BY <2>1, <2>3 DEF AbortEmpties
      <3>2. ShellAbortFinishes
        BY <2>3, <3>1
           DEF ShellDevice, ShellMove, CanMove, IcapFetch, CanFetch, ReadClears, CanClearRead,
               AbortClears, CanClearAbort
      <3>3. hb' = [hb EXCEPT !.mode = "idle"]
        BY <1>1, <3>1, <3>2 DEF ShellAbortFinishes, AbortFinishes, FinishAbort, Kick, HbicapType
      <3>4. /\ hb'.mode = "idle" /\ hb'.size = 0 /\ hb'.fifo = <<>> /\ hb'.rfifo = <<>>
            /\ ~hb'.read
        BY <1>1, <3>1, <3>3 DEF HbicapType
      <3>5. Sound(c)'
        BY <1>2, <2>1, <2>3, <3>4
           DEF client, Sound, CleanRests, AbortEmpties, Doubtless, Opens, Reads, Closes, Values,
               ReadbackLabels, OpeningLabels, ReadLabels, ClosingLabels
      <3>6. icap'.next # "data"
        BY <3>2 DEF ShellAbortFinishes, AbortFinishes, Aborted, IcapReset
      <3>7. ImageFree'
        BY <3>4, <3>6 DEF ImageFree
      <3>8. QED
        BY <3>5, <3>7
    <2>4. QED
      BY <1>4, <2>2, <2>3 DEF InDoubt
  <1>5. QED
    BY <1>1, <1>3, <1>4
\* The core never leaves the port in the middle of an image whose transfer is
\* over, and takes nothing from a process without doubt.
LEMMA ServesProgrammer ==
  ASSUME U!WholeImages, ShellIInv, ShellDevice, UP!IInvOver(Carried, 0 .. NoReg)',
         NEW c \in Clients, upc[c] # "out"
  PROVE  Programmer(c)'
  <1>1. /\ hb \in HbicapType(Carried, 0 .. NoReg) /\ icap \in Ports
        /\ UP!ClientTypeOK /\ Programmer(c)
        /\ UP!Drained /\ UP!QuietCore(c) /\ UP!Stream(c) /\ UP!Done(c) /\ UP!Stream(c)'
    BY ShellTypes DEF ShellIInv, TypedIn, UP!TypedOver, UP!IInvOver
  <1>2. UNCHANGED <<client, uclient>>
    BY DEF ShellDevice, ShellMove, ShellAbortFinishes, AbortFinishes, IcapFetch, ReadClears, AbortClears
  <1>3. /\ hb.mode # "write" => hb.fifo = <<>>
        /\ upc[c] \in UP!Quiet \cup UP!After => hb.mode = "idle"
        /\ upc[c] \in UP!Transfer => hb.mode \in {"idle", "write"}
        /\ upc[c] \in {"poll_idle", "abort", "abort_poll"} \cup UP!Quiet \cup UP!Transfer \cup UP!After
    BY <1>1 DEF UP!Drained, UP!QuietCore, UP!Done, UP!Idle, UP!Stream, UP!Flow, UP!ClientTypeOK,
                UP!Labels, UP!Quiet, UP!Transfer, UP!After
  <1>4. ASSUME ShellMove
        PROVE  /\ hb.mode = "write" /\ hb'.size = hb.size - 1
               /\ hb'.read = hb.read /\ hb'.rfifo = hb.rfifo /\ hb'.abort = hb.abort
    BY <1>1, <1>4 DEF ShellMove, CanMove, Move, HbicapType
  <1>5. ASSUME ShellAbortFinishes
        PROVE  /\ hb.mode = "abort" /\ hb'.mode = "idle" /\ icap'.next # "data"
               /\ hb'.read = hb.read /\ hb'.rfifo = hb.rfifo /\ hb'.abort = hb.abort
    <2>1. hb.mode = "abort" /\ hb.fifo = <<>>
      BY <1>3, <1>5 DEF ShellAbortFinishes, AbortFinishes, CanFinishAbort
    <2>2. hb' = [hb EXCEPT !.mode = "idle"]
      BY <1>1, <1>5, <2>1 DEF ShellAbortFinishes, AbortFinishes, FinishAbort, Kick, HbicapType
    <2>3. icap'.next # "data"
      BY <1>5 DEF ShellAbortFinishes, AbortFinishes, Aborted, IcapReset
    <2>4. QED
      BY <1>1, <2>1, <2>2, <2>3 DEF HbicapType
  <1>6. ASSUME ReadClears \/ AbortClears
        PROVE  /\ icap' = icap /\ hb'.mode = hb.mode /\ hb'.size = hb.size /\ hb'.rfifo = hb.rfifo
               /\ hb'.read => hb.read
               /\ hb'.abort => hb.abort
    BY <1>1, <1>6 DEF ReadClears, ClearRead, AbortClears, ClearAbort, HbicapType
  <1>7. CASE ShellMove
    <2>1. hb.mode = "write" /\ upc[c] \notin UP!Quiet \cup UP!After
      BY <1>3, <1>4, <1>7
    <2>2. ASSUME upc[c] \in UP!Transfer, hb'.size = 0 PROVE icap'.next # "data"
      <3>1. /\ UP!Flow(image[c], usent[c], hb, part) /\ UP!Flow(image[c], usent[c], hb', part')
            /\ image[c] \in Images /\ usent[c] \in Nat
        BY <1>1, <1>2, <2>2 DEF UP!Stream, uclient, UP!ClientTypeOK
      <3>2. UP!NBeats(image[c]) \in Nat \ {0} /\ hb.fifo \in Seq(Carried) /\ hb.fifo # <<>>
        BY <1>1, <1>7, <3>1, UP!WholeWords, Assumed, SameState DEF ShellMove, CanMove, HbicapType
      <3>3. /\ Len(hb.fifo) \in Nat \ {0} /\ Len(hb.fifo) <= usent[c]
            /\ Head(hb.fifo) = hb.fifo[1]
        BY <3>1, <3>2, EmptySeq DEF UP!Flow
      <3>4. Head(hb.fifo) = UP!Word(image[c], (usent[c] - Len(hb.fifo)) + 1)
        BY <3>1, <3>3 DEF UP!Flow
      <3>5. IsImageWord(Head(hb.fifo))
        BY <3>1, <3>3, <3>4, UP!WordsTyped, Assumed, SameState DEF IsImageWord
      <3>6. part' = UP!Word(image[c], UP!NBeats(image[c]))
        <4> DEFINE moved == usent[c] - Len(hb'.fifo)
        <4>1. hb'.fifo = Tail(hb.fifo)
          BY <1>1, <1>7 DEF ShellMove, Move, HbicapType
        <4>2. Len(hb'.fifo) \in Nat
          BY <3>2, <4>1
        <4>3. moved = UP!NBeats(image[c])
          BY <2>2, <3>1, <3>2, <4>2 DEF UP!Flow
        <4>4. moved > 0
          BY <3>2, <4>3
        <4>5. part' = UP!Word(image[c], moved)
          BY <3>1, <4>4 DEF UP!Flow
        <4>6. QED
          BY <4>3, <4>5
      <3>7. Complete(part')
        BY <3>1, <3>6, SameState DEF Complete
      <3>8. QED
        BY <1>7, <3>5, <3>7 DEF ShellMove, MoveImageWord, MoveU32, IcapReset
    <2>3. clean[c] => upc[c] \in UP!Transfer
      BY <1>1, <1>3, <2>1 DEF Programmer
    <2>4. QED
      BY <1>1, <1>2, <1>4, <1>7, <2>1, <2>2, <2>3
         DEF Programmer, client, uclient, UP!Transfer, UP!After
  <1>8. CASE ShellAbortFinishes
    BY <1>1, <1>2, <1>5, <1>8 DEF Programmer, client, uclient
  <1>9. CASE IcapFetch
    <2>1. hb.mode = "read" /\ upc[c] \notin UP!Quiet \cup UP!Transfer \cup UP!After
      BY <1>3, <1>9 DEF IcapFetch, CanFetch
    <2>2. ~clean[c]
      BY <1>1, <1>3, <2>1 DEF Programmer
    <2>3. QED
      BY <1>1, <1>2, <2>1, <2>2 DEF Programmer, client, uclient
  <1>10. CASE ReadClears \/ AbortClears
    BY <1>1, <1>2, <1>6, <1>10 DEF Programmer, client, uclient
  <1>11. QED
    BY <1>7, <1>8, <1>9, <1>10 DEF ShellDevice

\* No step of the core leaves the invariant.
LEMMA ShellDeviceKeeps ==
  ASSUME OneReader, AbortFirst, U!WholeImages, ShellIInv, ShellDevice
  PROVE  ShellIInv'
  <1>1. /\ ShellTypeOK' /\ PortShut' /\ UP!IInvOver(Carried, 0 .. NoReg)'
    BY ShellDeviceTyped, PortStaysShut, CardKeeps DEF ShellIInv
  <1>2. upc' = upc
    BY DEF ShellDevice, ShellMove, ShellAbortFinishes, uclient
  <1>3. ASSUME NEW c \in Clients PROVE Reader(c)' /\ Programmer(c)'
    BY <1>1, <1>2, ServesReader, ServesProgrammer DEF Reader, Programmer
  <1>4. QED
    BY <1>1, <1>3 DEF ShellIInv

\* The card before the first call.
LEMMA ShellInitKeeps == ShellInit => ShellIInv
  <1> SUFFICES ASSUME ShellInit PROVE ShellIInv
    OBVIOUS
  <1>1. ShellTypeOK /\ UP!TypedOver(Carried, 0 .. NoReg)
    BY ShellInitTyped, ShellTypes
  <1>2. IInv
    BY InitKeeps DEF ShellInit
  <1>3. icap.next = "header" /\ PortShut
    BY DEF ShellInit, Init, IcapReset, PortShut
  <1>4. hb.mode = "idle" /\ hb.fifo = <<>>
    BY Emptied DEF ShellInit, Init
  <1>5. \A c \in Clients : Reader(c) /\ Programmer(c)
    <2>1. ASSUME NEW c \in Clients PROVE upc[c] = "out" /\ Sound(c) /\ ImageFree
      BY <1>2, <1>3, <1>4 DEF ShellInit, U!Init, IInv, Sound, ImageFree
    <2>2. QED
      BY <2>1 DEF Reader, Programmer
  <1>6. UP!IInvOver(Carried, 0 .. NoReg)
    <2>1. \E i \in Images : UP!Loaded(i)
      BY SameState DEF ShellInit, U!Init
    <2>2. \A f \in {"ctrl", "dma"} : UP!Reachable(f)
      BY SameState DEF ShellInit, U!Init, U!Reachable, U!MiIsBlocked, U!Passing, U!Firewalls
    <2>3. \A c \in Clients : upc[c] = "out" /\ usent[c] = 0 /\ uresult[c] = "none"
      BY DEF ShellInit, U!Init
    <2>4. UP!Drained /\ UP!Shielded /\ UP!CtrlNestsDma /\ UP!OkMeansLive
      BY <1>4, <2>1, <2>2, <2>3 DEF UP!Drained, UP!Shielded, UP!CtrlNestsDma, UP!OkMeansLive
    <2>5. \A c \in Clients : UP!QuietCore(c) /\ UP!Walls(c) /\ UP!Stream(c) /\ UP!Done(c)
      BY <2>3 DEF UP!QuietCore, UP!Walls, UP!Stream, UP!Done, UP!Before, UP!Quiet, UP!Transfer,
                  UP!After, UP!Isolated
    <2>6. QED
      BY <1>1, <2>4, <2>5 DEF UP!IInvOver
  <1>7. QED
    BY <1>1, <1>3, <1>5, <1>6 DEF ShellIInv

\* The invariant of the two users together: each keeps its own, and what a failed
\* or dead call of one leaves on the core waits for an abort.
THEOREM ShellIInvHolds ==
  ASSUME OneReader, AbortFirst, U!WholeImages
  PROVE  ShellSpec => []ShellIInv
  <1>1. ShellIInv /\ [ShellNext]_shellVars => ShellIInv'
    <2> SUFFICES ASSUME ShellIInv, [ShellNext]_shellVars PROVE ShellIInv'
      OBVIOUS
    <2>1. CASE UNCHANGED shellVars
      <3>1. ShellTypeOK /\ ShellTypeOK'
        BY <2>1 DEF ShellIInv, shellVars, vars, client, uclient, ShellTypeOK, ClientTypeOK,
                    U!ClientTypeOK
      <3>2. QED
        BY <2>1, <3>1, ShellTypes
           DEF shellVars, vars, client, uclient, ShellIInv, PortShut, Reader, Programmer, ImageFree,
               InDoubt, Sound, CleanRests, AbortEmpties, Doubtless, Opens, Reads, Closes, Values,
               UP!IInvOver, UP!Drained, UP!Shielded, UP!CtrlNestsDma, UP!OkMeansLive,
               UP!QuietCore, UP!Walls, UP!Stream, UP!Done, UP!Reachable, UP!Loaded
    <2>2. CASE ShellDevice
      BY <2>2, ShellDeviceKeeps
    <2>3. ASSUME NEW c \in Clients, Program(c, BeginProgram(c) \/ U!Step(c) \/ U!Fault(c))
          PROVE  ShellIInv'
      BY <2>3, ProgramKeeps
    <2>4. ASSUME NEW c \in Clients, ReadBack(c, Start(c) \/ Step(c) \/ Fault(c))
          PROVE  ShellIInv'
      BY <2>4, ReadBackKeeps
    <2>5. QED
      BY <2>1, <2>2, <2>3, <2>4 DEF ShellNext
  <1>2. QED
    BY <1>1, ShellInitKeeps, PTL DEF ShellSpec

-----------------------------------------------------------------------------
(* The properties of Shell *)

\* A readback returns the value of the register it was asked for, and leaves the
\* core and the port at rest, also when calls of program_user_image failed or
\* died on the same core before it.
THEOREM ReadbackIsRight ==
  ASSUME OneReader, AbortFirst, U!WholeImages
  PROVE  ShellSpec => [](OkIsTheRegister /\ OkLeavesQuiet)
  <1>1. ShellIInv => OkIsTheRegister /\ OkLeavesQuiet
    <2> SUFFICES ASSUME ShellIInv, NEW c \in Clients, result[c] = "value"
                 PROVE  /\ got[c] = reg[c]
                        /\ Idle(hb) /\ hb.fifo = <<>> /\ hb.rfifo = <<>> /\ icap = IcapReset
      BY DEF OkIsTheRegister, OkLeavesQuiet
    <2>1. upc[c] = "out"
      BY DEF ShellIInv, Programmer
    <2>2. Sound(c)
      BY <2>1 DEF ShellIInv, Reader
    <2>3. got[c] = reg[c] /\ icap = IcapReset /\ Rests(hb)
      BY <2>2 DEF Sound, Values, CleanRests
    <2>4. QED
      BY <2>3 DEF Rests, Idle
  <1>2. QED
    BY <1>1, ShellIInvHolds, PTL

\* An Ok of program_user_image means its own image complete behind open
\* firewalls and a drained core, whatever readbacks, aborts and resets did to
\* the core between the calls.
THEOREM ProgrammingIsRight ==
  ASSUME OneReader, AbortFirst, U!WholeImages
  PROVE  ShellSpec => []ProgrammedBetweenReadbacks
  <1>1. ShellIInv => ProgrammedBetweenReadbacks
    <2> SUFFICES ASSUME ShellIInv PROVE U!OkMeansLive
      BY DEF ProgrammedBetweenReadbacks
    <2>1. UP!OkMeansLive
      BY DEF ShellIInv, UP!IInvOver
    <2>2. UP!Idle(hb) = U!Idle(hb)
      BY DEF UP!Idle, U!Idle
    <2>3. QED
      BY <2>1, <2>2, SameState DEF UP!OkMeansLive, U!OkMeansLive
  <1>2. QED
    BY <1>1, ShellIInvHolds, PTL

\* The safety of module ProgramUserImage, on the core that readbacks share: hosts
\* reach whole images only, the control path opens last, and no word waits in a
\* core that shows Idle.
ServedBetweenReadbacks == U!ServedImageIntact /\ U!CtrlNestsDma /\ U!IdleMeansDrained

\* What failed or dead readbacks, aborts and resets left on the core never shows
\* through an open firewall, and never stays in a core that shows Idle.
THEOREM ServingIsRight ==
  ASSUME OneReader, AbortFirst, U!WholeImages
  PROVE  ShellSpec => []ServedBetweenReadbacks
  <1>1. ASSUME ShellIInv PROVE ServedBetweenReadbacks
    <2>1. UP!Drained /\ UP!Shielded /\ UP!CtrlNestsDma
      BY <1>1 DEF ShellIInv, UP!IInvOver
    <2>2. U!ServedImageIntact
      BY <2>1, SameState DEF UP!Shielded, UP!CtrlNestsDma, U!ServedImageIntact, UP!Firewalls
    <2>3. U!CtrlNestsDma
      BY <2>1, SameState DEF UP!CtrlNestsDma, U!CtrlNestsDma
    <2>4. U!IdleMeansDrained
      BY <2>1 DEF UP!Drained, U!IdleMeansDrained, U!Idle
    <2>5. QED
      BY <2>2, <2>3, <2>4 DEF ServedBetweenReadbacks
  <1>2. ShellIInv => ServedBetweenReadbacks
    BY <1>1
  <1>3. QED
    BY <1>2, ShellIInvHolds, PTL

\* Only the core changes the partition, with the firewalls as they are; behind an
\* open one it changes nothing.
LEMMA CoreConfiguresShell ==
  ASSUME ShellIInv, [ShellNext]_shellVars
  PROVE  \/ part' = part
         \/ /\ ShellMove \/ ShellAbortFinishes
            /\ \A f \in UP!Firewalls : ~UP!Reachable(f)
            /\ fw' = fw
  <1> DEFINE Goal == \/ part' = part
                     \/ /\ ShellMove \/ ShellAbortFinishes
                        /\ \A f \in UP!Firewalls : ~UP!Reachable(f)
                        /\ fw' = fw
  <1>1. UP!IInvOver(Carried, 0 .. NoReg) /\ PortShut /\ UP!CtrlNestsDma
    BY DEF ShellIInv, UP!IInvOver
  <1>2. icap.next = "data" => \A f \in UP!Firewalls : ~UP!Reachable(f)
    BY <1>1 DEF PortShut, UP!CtrlNestsDma, UP!Firewalls
  <1>3. CASE ShellMove /\ MoveImageWord(Head(hb.fifo))
    <2>1. UP!CanMove(hb) /\ Head(hb.fifo) \in UP!Words
      BY <1>3, SameCore, SameState DEF ShellMove, MoveImageWord, IsImageWord
    <2>2. QED
      BY <1>1, <1>3, <2>1, UP!MovesIsolated, Assumed DEF ShellMove
  <1>4. CASE ShellMove /\ MoveU32(Head(hb.fifo))
    BY <1>2, <1>4 DEF ShellMove, MoveU32
  <1>5. CASE ShellAbortFinishes
    BY <1>2, <1>5 DEF ShellAbortFinishes
  <1>6. CASE (IcapFetch \/ ReadClears \/ AbortClears) /\ UNCHANGED <<uclient, fw, part>>
    BY <1>6
  <1>7. ASSUME NEW c \in Clients, Program(c, BeginProgram(c) \/ U!Step(c) \/ U!Fault(c))
        PROVE  Goal
    <2>1. ShellTypeOK
      BY DEF ShellIInv
    <2>2. (\E i \in Images : UP!Begin(c, i)) \/ UP!Step(c) \/ UP!Fault(c)
      BY <1>7, <2>1, ProgramTyped
    <2>3. part' = part
      BY <2>2, UP!ClientCases, Assumed
         DEF UP!Begin, UP!Access, UP!Polls, UP!PollTry, UP!Abort, UP!AbortDebug, UP!BlockCtrl,
             UP!BlockDma, UP!WriteSize, UP!DmaClearSoft, UP!DmaUnblock, UP!CtrlClearSoft,
             UP!CtrlUnblock, UP!PollIdle, UP!PollAborted, UP!PollAbortCleared, UP!PollDone,
             UP!DmaWord, UP!DmaDone, UP!DmaStalls, UP!DmaFails, UP!Crash
    <2>4. QED
      BY <2>3
  <1>8. ASSUME NEW c \in Clients, ReadBack(c, Start(c) \/ Step(c) \/ Fault(c)) PROVE Goal
    BY <1>8 DEF ReadBack
  <1>9. CASE UNCHANGED shellVars
    BY <1>9 DEF shellVars
  <1>10. QED
    BY <1>3, <1>4, <1>5, <1>6, <1>7, <1>8, <1>9 DEF ShellNext, ShellDevice, ShellMove

\* The partition changes only behind two blocked firewalls, also when it is a
\* readback's word or an abort that spoils an image.
ChangesStayIsolated ==
  [][part' # part => \A f \in U!Firewalls : U!MiIsBlocked(fw[f])]_shellVars

\* No order of images, readbacks, aborts and resets, failed ones among them, lets
\* the partition change while a host can reach it.
THEOREM ChangesAreShielded ==
  ASSUME OneReader, AbortFirst, U!WholeImages
  PROVE  ShellSpec => ChangesStayIsolated
  <1>1. ASSUME ShellIInv, [ShellNext]_shellVars, part' # part
        PROVE  \A f \in U!Firewalls : U!MiIsBlocked(fw[f])
    <2>1. \A f \in UP!Firewalls : ~UP!Reachable(f)
      BY <1>1, CoreConfiguresShell
    <2>2. QED
      BY <2>1, SameState DEF U!Reachable
  <1>2. ShellIInv /\ [ShellNext]_shellVars
          => [part' # part => \A f \in U!Firewalls : U!MiIsBlocked(fw[f])]_shellVars
    BY <1>1
  <1>3. QED
    BY <1>2, ShellIInvHolds, PTL DEF ShellSpec, ChangesStayIsolated

\* No readback writes to the partition: a process reads back only from a core
\* and a port that hold nothing of an image.
THEOREM ReadbacksLeaveImage ==
  ASSUME OneReader, AbortFirst, U!WholeImages
  PROVE  ShellSpec => ReadbackLeavesImage
  <1>1. ASSUME ShellIInv, [ShellNext]_shellVars, NEW c \in Clients, pc[c] \in ReadbackLabels
        PROVE  part' = part
    <2>1. upc[c] = "out"
      BY <1>1 DEF ShellIInv, Programmer, ReadbackLabels, OpeningLabels, ReadLabels, ClosingLabels
    <2>2. Sound(c) /\ (ImageFree \/ InDoubt(c))
      BY <1>1, <2>1 DEF ShellIInv, Reader
    <2>3. ImageFree
      BY <1>1, <2>2 DEF Sound, Doubtless, InDoubt
    <2>4. CASE ShellMove
      <3>1. hb \in HbicapType(Carried, 0 .. NoReg) /\ hb.fifo # <<>>
        BY <1>1, <2>4, ShellTypes DEF ShellIInv, TypedIn, ShellMove, CanMove
      <3>2. hb.fifo \in Seq(Carried) /\ Head(hb.fifo) = hb.fifo[1] /\ 1 \in 1 .. Len(hb.fifo)
        BY <3>1, EmptySeq DEF HbicapType
      <3>3. ~IsImageWord(Head(hb.fifo))
        BY <2>3, <3>2, SameState DEF ImageFree, IsImageWord
      <3>4. QED
        BY <2>3, <2>4, <3>3 DEF ShellMove, MoveImageWord, MoveU32, ImageFree
    <2>5. CASE ShellAbortFinishes
      BY <2>3, <2>5 DEF ShellAbortFinishes, ImageFree
    <2>6. QED
      BY <1>1, <2>4, <2>5, CoreConfiguresShell
  <1>2. ShellIInv /\ [ShellNext]_shellVars
          => [(\E c \in Clients : pc[c] \in ReadbackLabels) => part' = part]_shellVars
    BY <1>1
  <1>3. QED
    BY <1>2, ShellIInvHolds, PTL DEF ShellSpec, ReadbackLeavesImage

\* The two users of the core together implement module Reconfig: a host that
\* reaches the partition finds a complete image there, and never another one
\* without the firewalls closing in between.
THEOREM ShellImplementsReconfig ==
  ASSUME OneReader, AbortFirst, U!WholeImages
  PROVE  ShellSpec => KeepsPromiseBetweenReadbacks
  <1>1. U!LoadedImage = UP!LoadedImage /\ UP!LoadedImage' = U!LoadedImage'
    BY DEF U!LoadedImage, UP!LoadedImage, U!Loaded, UP!Loaded, U!Word, UP!Word, U!NBeats,
           UP!NBeats, U!WordBytes, UP!WordBytes
  <1>2. /\ (\E f \in U!Firewalls : U!Reachable(f)) = (\E f \in UP!Firewalls : UP!Reachable(f))
        /\ (\E f \in U!Firewalls : U!Reachable(f))' = (\E f \in UP!Firewalls : UP!Reachable(f))'
    BY DEF U!Firewalls, UP!Firewalls, U!Reachable, UP!Reachable, U!MiIsBlocked, UP!MiIsBlocked
  <1>3. [UP!Promise!Next]_(UP!Promise!vars) => [U!Promise!Next]_(U!Promise!vars)
    BY <1>1, <1>2
       DEF UP!Promise!Next, U!Promise!Next, UP!Promise!Close, U!Promise!Close,
           UP!Promise!Disturb, U!Promise!Disturb, UP!Promise!Complete, U!Promise!Complete,
           UP!Promise!Open, U!Promise!Open, UP!Promise!vars, U!Promise!vars
  <1>4. ASSUME ShellIInv, ShellIInv', [ShellNext]_shellVars
        PROVE  [U!Promise!Next]_(U!Promise!vars)
    <2>1. \/ part' = part
          \/ (\A f \in UP!Firewalls : ~UP!Reachable(f)) /\ fw' = fw
      BY <1>4, CoreConfiguresShell
    <2>2. /\ UP!Shielded /\ UP!CtrlNestsDma /\ UP!Shielded' /\ UP!CtrlNestsDma'
      BY <1>4 DEF ShellIInv, UP!IInvOver
    <2>3. QED
      BY <1>3, <2>1, <2>2, UP!StepRefines, Assumed
  <1>5. ShellInit => U!Promise!Init
    <2>1. (\E i \in Images : U!Loaded(i)) => U!LoadedImage \in Images
      BY DEF U!LoadedImage
    <2>2. QED
      BY <2>1 DEF ShellInit, U!Init, U!Promise!Init, U!Firewalls, U!Reachable, U!MiIsBlocked,
                  U!Passing
  <1>6. ShellIInv /\ ShellIInv' /\ [ShellNext]_shellVars => [U!Promise!Next]_(U!Promise!vars)
    BY <1>4
  <1>7. QED
    BY <1>5, <1>6, ShellIInvHolds, PTL
       DEF ShellSpec, KeepsPromiseBetweenReadbacks, U!KeepsPromise, U!Promise!Spec
=============================================================================
