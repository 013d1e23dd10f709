----------------------------- MODULE HbicapReadback -----------------------------
(***************************************************************************)
(* HbicapOps::config_logic_reg_readback: host processes read configuration *)
(* registers of the FPGA through the HBICAP core.  A readback writes an    *)
(* opening stream to the ICAP, initiates a read, takes the word from the   *)
(* read FIFO and writes a closing stream that desynchronises the ICAP.     *)
(* abort, reset and write_programming, the other operations on the core,   *)
(* are here too.                                                           *)
(*                                                                         *)
(* Each register access is a step; accesses fail and processes die as in   *)
(* ProgramUserImage.  A u32 of 2^31 or more is written as the negative     *)
(* number with the same bits.                                              *)
(***************************************************************************)
EXTENDS HbicapDevice, Integers

CONSTANTS
  Clients,         \* host processes with the card open
  Regs,            \* ConfigLogicReg codes that they read
  ReadFifoDepth,   \* words the read FIFO holds
  MaxBurst,        \* MAX_BURST_SIZE: 256 words in the code
  ProgramWords,    \* words given to write_programming
  PollTries,       \* n of poll_reg_mask_sleep: 1000 polls of 10 ms in the code
  AbortFirst       \* does a caller abort what a failed call may have left before
                   \* it announces words to the core, as u55n_regs does

ASSUME RegsAssumption == Regs # {} /\ Regs \subseteq 0 .. 31
ASSUME ReadFifoAssumption == ReadFifoDepth \in Nat \ {0}
ASSUME BurstAssumption == MaxBurst \in Nat \ {0} /\ ProgramWords \in Nat
ASSUME TriesAssumption == PollTries \in Nat \ {0}
ASSUME AbortFirstAssumption == AbortFirst \in BOOLEAN

VARIABLES
  pc,       \* where each process is in its call
  reg,      \* the register it reads back
  got,      \* the word in its read_buf
  sent,     \* words of the current stream delivered, or announced to Size
  tries,    \* polls made in the current poll_reg_mask_sleep
  result,   \* what the last call returned: "none" while it runs
  clean,    \* has it aborted what it found, and has no call failed since
  hb,       \* the HBICAP core
  icap      \* the port behind it

client == <<pc, reg, got, sent, tries, result, clean>>
vars   == <<client, hb, icap>>

Replies == {"ok", "lost", "late"}
Results == {"none", "ok", "value", "err", "crash"}

AbortLabels   == {"abort", "abort_poll", "abort_debug", "abort_clear", "ready"}
ResetLabels   == {"reset_read", "reset_write"}
OpeningLabels == {"open_size", "open_dma", "open_done", "read_size", "read_start"}
ReadLabels    == {"read_dma", "read_clear"}
ClosingLabels == {"close_size", "close_dma", "close_done"}
ReadbackLabels == OpeningLabels \cup ReadLabels \cup ClosingLabels
Labels == {"out", "announce"} \cup AbortLabels \cup ResetLabels \cup ReadbackLabels

-----------------------------------------------------------------------------
(* ICAP words *)

\* A word as the driver sends it: the u32, apart from the words of an image.
U32(n) == [u32 |-> n]
U32s   == [u32 : Int]

DUMMY_CMD            == -1             \* 0xffff_ffff
BUS_WIDTH_SYNC_CMD   == 187            \* 0x0000_00bb
BUS_WIDTH_DETECT_CMD == 287440964      \* 0x1122_0044
SYNC_CMD             == -1432791706    \* 0xaa99_5566
Desync               == 13             \* CmdRegCode::Desync

Bit11 == 2048
Bit13 == 8192
Bit27 == 134217728
Bit29 == 536870912
NoReg == 16384   \* 2^14, no register: nothing was asked for

OpNoop  == 0
OpRead  == 1
OpWrite == 2
Crc     == 0
Cmd     == 4

\* Mutant: the register lands one bit too high.
Type1PacketShifted(op, r, n) == Bit29 + op * Bit27 + r * 2 * Bit13 + (n % Bit11)

\* u32::from(Type1Packet): the type, the opcode, the register, the word count.
Type1Packet(op, r, n) == Bit29 + op * Bit27 + r * Bit13 + (n % Bit11)

Noop == Type1Packet(OpNoop, Crc, 0)

Opening(r) ==
  <<DUMMY_CMD, BUS_WIDTH_SYNC_CMD, BUS_WIDTH_DETECT_CMD, DUMMY_CMD, SYNC_CMD,
    Noop, Type1Packet(OpRead, r, 1), Noop, Noop>>

Closing == <<Type1Packet(OpWrite, Cmd, 1), Desync, Noop, Noop>>

\* The port takes the fields of a header apart again.
IsType1(w) == w \div Bit29 = 1
OpOf(w)    == (w \div Bit27) % 4
RegOf(w)   == (w \div Bit13) % NoReg
CountOf(w) == w % Bit11

IcapReset == [sync |-> FALSE, next |-> "header", reg |-> NoReg]

\* What a word does to the port: it waits for SYNC, then for requests to read a
\* register and for values of the command register.  In the middle of an image
\* it takes any word for the image's data.
Received(port, w) ==
  IF port.next = "data" THEN port
  ELSE IF ~port.sync THEN [port EXCEPT !.sync = (w = SYNC_CMD)]
  ELSE IF port.next = "command"
       THEN IF w = Desync THEN IcapReset ELSE [port EXCEPT !.next = "header"]
  ELSE IF IsType1(w) /\ CountOf(w) = 1 /\ OpOf(w) = OpRead
       THEN [port EXCEPT !.reg = RegOf(w)]
  ELSE IF IsType1(w) /\ CountOf(w) = 1 /\ OpOf(w) = OpWrite /\ RegOf(w) = Cmd
       THEN [port EXCEPT !.next = "command"]
  ELSE port

\* An abort ends the image it interrupts; whether it desynchronises a port that
\* receives none is left open.
Aborted(port) == IF port.next = "data" THEN {IcapReset} ELSE {port, IcapReset}

-----------------------------------------------------------------------------
(* The core and the port *)

Init ==
  /\ pc = [c \in Clients |-> "out"]
  /\ reg \in [Clients -> Regs]
  /\ got = [c \in Clients |-> NoReg]
  /\ sent = [c \in Clients |-> 0]
  /\ tries = [c \in Clients |-> 0]
  /\ result = [c \in Clients |-> "none"]
  /\ clean = [c \in Clients |-> FALSE]
  /\ hb = HbicapReset
  /\ icap = IcapReset

IcapMove ==
  /\ CanMove(hb)
  /\ icap' = Received(icap, Head(hb.fifo).u32)
  /\ hb' = Move(hb)
  /\ UNCHANGED client

\* A word of the register asked for goes to the read FIFO.
CanFetch == hb.mode = "read" /\ hb.size > 0 /\ Len(hb.rfifo) < ReadFifoDepth

IcapFetch ==
  /\ CanFetch
  /\ hb' = Fetch(hb, icap.reg)
  /\ icap' = [icap EXCEPT !.reg = NoReg]
  /\ UNCHANGED client

ReadClears ==
  /\ CanClearRead(hb)
  /\ hb' = ClearRead(hb)
  /\ UNCHANGED <<client, icap>>

AbortFinishes ==
  /\ CanFinishAbort(hb)
  /\ hb' = FinishAbort(hb)
  /\ icap' \in Aborted(icap)
  /\ UNCHANGED client

AbortClears ==
  /\ CanClearAbort(hb)
  /\ hb' = ClearAbort(hb)
  /\ UNCHANGED <<client, icap>>

Device == IcapMove \/ IcapFetch \/ ReadClears \/ AbortFinishes \/ AbortClears

-----------------------------------------------------------------------------
(* Control flow of one process *)

Goto(c, l) == pc' = [pc EXCEPT ![c] = l] /\ UNCHANGED <<sent, result, clean>>

\* A call that did not end in Ok leaves the core in doubt.  An abort followed
\* by poll_done ends the doubt.
Return(c, r) ==
  /\ pc' = [pc EXCEPT ![c] = "out"]
  /\ result' = [result EXCEPT ![c] = r]
  /\ sent' = [sent EXCEPT ![c] = 0]
  /\ clean' = [clean EXCEPT ![c] = r \in {"ok", "value"} /\ (@ \/ pc[c] = "ready")]

\* A call begins, with a read_buf that holds no register's value yet.
Begin(c, r, l) ==
  /\ pc[c] = "out"
  /\ pc' = [pc EXCEPT ![c] = l]
  /\ reg' = [reg EXCEPT ![c] = r]
  /\ got' = [got EXCEPT ![c] = NoReg]
  /\ result' = [result EXCEPT ![c] = "none"]
  /\ UNCHANGED <<sent, tries, clean, hb, icap>>

\* One register access.  The reply "lost" is an error and no effect, "late" an
\* error reported although a write took effect; both are passed on by `?`.
Access(c, at, reply, next) ==
  /\ pc[c] = at
  /\ IF reply = "ok" THEN Goto(c, next) ELSE Return(c, "err")
  /\ UNCHANGED <<reg, got, tries>>

Landed(reply, old, new) == IF reply = "lost" THEN old ELSE new

\* Mutant: one try too many.
PollTryOneMore(c, at, hit, onHit) ==
  /\ pc[c] = at
  /\ \/ hit /\ onHit /\ tries' = [tries EXCEPT ![c] = 0]
     \/ ~hit /\ tries[c] < PollTries /\ tries' = [tries EXCEPT ![c] = @ + 1]
        /\ UNCHANGED <<pc, sent, result, clean>>
     \/ ~hit /\ tries[c] = PollTries /\ Return(c, "err") /\ tries' = [tries EXCEPT ![c] = 0]
  /\ UNCHANGED <<reg, got, hb, icap>>

\* One try of poll_reg_mask_sleep: `hit` is whether the read succeeded and
\* showed the expected bits.  A failed read is one more try, no error.
PollTry(c, at, hit, onHit) ==
  /\ pc[c] = at
  /\ \/ /\ hit
        /\ onHit
        /\ tries' = [tries EXCEPT ![c] = 0]
     \/ /\ ~hit
        /\ tries[c] + 1 < PollTries
        /\ tries' = [tries EXCEPT ![c] = @ + 1]
        /\ UNCHANGED <<pc, sent, result, clean>>
     \/ /\ ~hit
        /\ tries[c] + 1 = PollTries
        /\ Return(c, "err")
        /\ tries' = [tries EXCEPT ![c] = 0]
  /\ UNCHANGED <<reg, got, hb, icap>>

-----------------------------------------------------------------------------
(* abort, and the poll_done with which u55n_regs follows it *)

StartAborting(c) == Begin(c, reg[c], "abort")

\* Mutant: FifoClear is written instead of Abort.
AbortClearsFifoOnly(c, reply) ==
  /\ Access(c, "abort", reply, "abort_poll")
  /\ hb' = Landed(reply, hb, [hb EXCEPT !.fifo = <<>>, !.rfifo = <<>>])
  /\ UNCHANGED icap

\* Control := Abort: ends the transfer and clears both FIFOs.
Abort(c, reply) ==
  /\ Access(c, "abort", reply, "abort_poll")
  /\ hb' = Landed(reply, hb, StartAbort)
  /\ UNCHANGED icap

PollAborted(c, readOk) ==
  PollTry(c, "abort_poll", readOk /\ Idle(hb), Goto(c, "abort_debug"))

\* The reads inside debug!, which happen only at that log level.
AbortDebug(c, reply) ==
  Access(c, "abort_debug", reply, "abort_clear") /\ UNCHANGED <<hb, icap>>

PollAbortCleared(c, readOk) ==
  PollTry(c, "abort_clear", readOk /\ ~hb.abort, Goto(c, "ready"))

PollReady(c, readOk) ==
  PollTry(c, "ready", readOk /\ Idle(hb), Return(c, "ok"))

-----------------------------------------------------------------------------
(* reset *)

StartReset(c) == Begin(c, reg[c], "reset_read")

ResetRead(c, reply) ==
  Access(c, "reset_read", reply, "reset_write") /\ UNCHANGED <<hb, icap>>

\* SwReset resets all the registers, whatever else is written with it, and
\* FifoClear empties both FIFOs.
ResetWrite(c, reply) ==
  /\ pc[c] = "reset_write"
  /\ Return(c, IF reply = "ok" THEN "ok" ELSE "err")
  /\ hb' = Landed(reply, hb, HbicapReset)
  /\ UNCHANGED <<reg, got, tries, icap>>

-----------------------------------------------------------------------------
(* write_programming: the words are announced in bursts, none is sent *)

StartWriteProgramming(c) == (AbortFirst => clean[c]) /\ Begin(c, reg[c], "announce")

\* The Size register gets the words of each burst; todo!() behind the loop
\* panics.
Announce(c, reply) ==
  LET left == ProgramWords - sent[c]
      size == IF left < MaxBurst THEN left ELSE MaxBurst
  IN /\ pc[c] = "announce"
     /\ \/ /\ left > 0
           /\ hb' = Landed(reply, hb, SetSize(hb, size))
           /\ IF reply = "ok"
              THEN sent' = [sent EXCEPT ![c] = @ + size] /\ UNCHANGED <<pc, result, clean>>
              ELSE Return(c, "err")
        \/ left <= 0 /\ Return(c, "crash") /\ UNCHANGED hb
     /\ UNCHANGED <<reg, got, tries, icap>>

-----------------------------------------------------------------------------
(* config_logic_reg_readback: read_programming with its two streams *)

StartReadback(c, r) == (AbortFirst => clean[c]) /\ Begin(c, r, "open_size")

\* write_bitstream: the Size register, then one DMA write
WriteSize(c, at, reply, n, next) ==
  /\ Access(c, at, reply, next)
  /\ hb' = Landed(reply, hb, SetSize(hb, n))
  /\ UNCHANGED icap

SendWord(c, at, words) ==
  /\ pc[c] = at
  /\ sent[c] < Len(words)
  /\ HasVacancy(hb)
  /\ hb' = Push(hb, U32(words[sent[c] + 1]))
  /\ sent' = [sent EXCEPT ![c] = @ + 1]
  /\ UNCHANGED <<pc, reg, got, tries, result, clean, icap>>

SendDone(c, at, words, next) ==
  /\ pc[c] = at
  /\ sent[c] = Len(words)
  /\ pc' = [pc EXCEPT ![c] = next]
  /\ sent' = [sent EXCEPT ![c] = 0]
  /\ UNCHANGED <<reg, got, tries, result, clean, hb, icap>>

\* The transport gives up on a transfer that the core does not accept.
SendStalls(c, at, words) ==
  /\ pc[c] = at
  /\ sent[c] < Len(words)
  /\ ~HasVacancy(hb)
  /\ Return(c, "err")
  /\ UNCHANGED <<reg, got, tries, hb, icap>>

OpenSize(c, reply) ==
  WriteSize(c, "open_size", reply, Len(Opening(reg[c])), "open_dma")
OpenWord(c)   == SendWord(c, "open_dma", Opening(reg[c]))
OpenSent(c)   == SendDone(c, "open_dma", Opening(reg[c]), "open_done")
OpenStalls(c) == SendStalls(c, "open_dma", Opening(reg[c]))

\* Mutant: the end of the opening stream is not awaited.
OpenDoneUnchecked(c, readOk) ==
  PollTry(c, "open_done", readOk, Goto(c, "read_size"))

OpenDone(c, readOk) ==
  PollTry(c, "open_done", readOk /\ Idle(hb), Goto(c, "read_size"))

\* read_bitstream: Size, Control := Read, one DMA read
ReadSize(c, reply) == WriteSize(c, "read_size", reply, 1, "read_start")

ReadStart(c, reply) ==
  /\ Access(c, "read_start", reply, "read_dma")
  /\ hb' = Landed(reply, hb, StartRead(hb))
  /\ UNCHANGED icap

ReadWord(c) ==
  /\ pc[c] = "read_dma"
  /\ hb.rfifo # <<>>
  /\ got' = [got EXCEPT ![c] = Head(hb.rfifo)]
  /\ hb' = [hb EXCEPT !.rfifo = Tail(@)]
  /\ Goto(c, "read_clear")
  /\ UNCHANGED <<reg, tries, icap>>

ReadStalls(c) ==
  /\ pc[c] = "read_dma"
  /\ hb.rfifo = <<>>
  /\ Return(c, "err")
  /\ UNCHANGED <<reg, got, tries, hb, icap>>

\* Mutant: the Read bit is not awaited.
PollReadClearUnchecked(c, readOk) ==
  PollTry(c, "read_clear", readOk, Goto(c, "close_size"))

PollReadClear(c, readOk) ==
  PollTry(c, "read_clear", readOk /\ ~hb.read, Goto(c, "close_size"))

CloseSize(c, reply) == WriteSize(c, "close_size", reply, Len(Closing), "close_dma")
CloseWord(c)        == SendWord(c, "close_dma", Closing)
CloseSent(c)        == SendDone(c, "close_dma", Closing, "close_done")
CloseStalls(c)      == SendStalls(c, "close_dma", Closing)

\* Mutant: the end of the closing stream is not awaited.
CloseDoneUnchecked(c, readOk) ==
  PollTry(c, "close_done", readOk, Return(c, "value"))

CloseDone(c, readOk) ==
  PollTry(c, "close_done", readOk /\ Idle(hb), Return(c, "value"))

-----------------------------------------------------------------------------
(* Faults: a failed access, a failed DMA transfer, the death of the process *)

SendFails(c) ==
  /\ pc[c] \in {"open_dma", "close_dma"}
  /\ Return(c, "err")
  /\ UNCHANGED <<reg, got, tries, hb, icap>>

\* A DMA read that fails may have taken the word.
ReadFails(c) ==
  /\ pc[c] = "read_dma"
  /\ Return(c, "err")
  /\ \/ UNCHANGED hb
     \/ hb.rfifo # <<>> /\ hb' = [hb EXCEPT !.rfifo = Tail(@)]
  /\ UNCHANGED <<reg, got, tries, icap>>

Crash(c) ==
  /\ pc[c] # "out"
  /\ Return(c, "crash")
  /\ tries' = [tries EXCEPT ![c] = 0]
  /\ UNCHANGED <<reg, got, hb, icap>>

\* The register accesses of a call, each with its reply.
Accesses(c, reply) ==
  \/ Abort(c, reply)
  \/ AbortDebug(c, reply)
  \/ ResetRead(c, reply)
  \/ ResetWrite(c, reply)
  \/ Announce(c, reply)
  \/ OpenSize(c, reply)
  \/ ReadSize(c, reply)
  \/ ReadStart(c, reply)
  \/ CloseSize(c, reply)

\* The polls of a call, with a read that succeeds or not.
Polls(c, readOk) ==
  \/ PollAborted(c, readOk)
  \/ PollAbortCleared(c, readOk)
  \/ PollReady(c, readOk)
  \/ OpenDone(c, readOk)
  \/ PollReadClear(c, readOk)
  \/ CloseDone(c, readOk)

\* The DMA transfers that the core answers, and those it does not.
Transfers(c) == OpenWord(c) \/ OpenSent(c) \/ ReadWord(c) \/ CloseWord(c) \/ CloseSent(c)
Stalls(c)    == OpenStalls(c) \/ ReadStalls(c) \/ CloseStalls(c)

Step(c) == Accesses(c, "ok") \/ Polls(c, TRUE) \/ Transfers(c) \/ Stalls(c)

Fault(c) ==
  \/ \E reply \in Replies \ {"ok"} : Accesses(c, reply)
  \/ Polls(c, FALSE)
  \/ SendFails(c)
  \/ ReadFails(c)
  \/ Crash(c)

Start(c) ==
  \/ StartAborting(c)
  \/ StartReset(c)
  \/ StartWriteProgramming(c)
  \/ \E r \in Regs : StartReadback(c, r)

Next == Device \/ \E c \in Clients : Start(c) \/ Step(c) \/ Fault(c)

\* A process that was scheduled goes on, and the core goes on working.
Fairness == WF_vars(Device) /\ \A c \in Clients : WF_vars(Step(c))

Spec == Init /\ [][Next]_vars /\ Fairness

\* The caller goes on to abort what is in doubt and to read registers back.
AgainFairness ==
  \A c \in Clients :
    /\ WF_vars(~clean[c] /\ StartAborting(c))
    /\ WF_vars(\E r \in Regs : StartReadback(c, r))
AgainSpec == Spec /\ AgainFairness
-----------------------------------------------------------------------------
(* Properties *)

Ports == [sync : BOOLEAN, next : {"header", "command", "data"}, reg : 0 .. NoReg]

ClientTypeOK ==
  /\ pc \in [Clients -> Labels]
  /\ reg \in [Clients -> Regs]
  /\ got \in [Clients -> 0 .. NoReg]
  /\ sent \in [Clients -> Nat]
  /\ tries \in [Clients -> 0 .. PollTries - 1]
  /\ result \in [Clients -> Results]
  /\ clean \in [Clients -> BOOLEAN]

\* The values each variable takes: the type invariant of the module.
TypeOK ==
  /\ ClientTypeOK
  /\ hb \in HbicapType(U32s, 0 .. NoReg)
  /\ icap \in Ports

\* config_logic_reg_readback returns the value of the register it was asked
\* for, never a word that an earlier readback left in the read FIFO.
OkIsTheRegister == \A c \in Clients : result[c] = "value" => got[c] = reg[c]

\* Ok means that the readback is over for the ICAP, too: it is desynchronised
\* and ignores what is on its pins, the Read bit is clear, and no word is left
\* in either FIFO.
OkLeavesQuiet ==
  \A c \in Clients :
    pc[c] = "out" /\ result[c] = "value" =>
      Idle(hb) /\ hb.fifo = <<>> /\ hb.rfifo = <<>> /\ icap = IcapReset

\* No configuration and no read is initiated until the Read bit is cleared, as
\* the comment in read_programming demands.
NothingBeforeReadClears ==
  \A c \in Clients :
    pc[c] \in {"open_dma", "read_start", "close_dma"} => ~hb.read

\* A read begins on an empty read FIFO and on a port that was asked for this
\* register, whatever failed before: the word that comes is the one asked for.
ReadsWhatWasAsked ==
  \A c \in Clients :
    pc[c] = "read_start" => hb.rfifo = <<>> /\ icap.sync /\ icap.reg = reg[c]

PollLabels == {"abort_poll", "abort_clear", "ready", "open_done", "read_clear", "close_done"}

\* A poll or a DMA transfer that expires although the core still had a step to
\* make.
TooSlow ==
  /\ CanMove(hb) \/ CanFetch \/ CanClearRead(hb) \/ CanFinishAbort(hb) \/ CanClearAbort(hb)
  /\ \E c \in Clients :
       \/ Stalls(c)
       \/ pc[c] \in PollLabels /\ pc'[c] = "out" /\ result'[c] = "err"

\* A step that only a fault explains.
Broken(c) ==
  \/ \E reply \in Replies \ {"ok"} : Accesses(c, reply)
  \/ Polls(c, FALSE) /\ ~Polls(c, TRUE)
  \/ SendFails(c) /\ ~Stalls(c)
  \/ ReadFails(c) /\ ~Stalls(c)
  \/ Crash(c)

\* From some point on no access fails, no process dies, and the core answers
\* within the 10 s of a poll or a transfer; the process only reads back, and
\* aborts when it must.
EventuallyWell ==
  <>[][/\ ~TooSlow
       /\ \A c \in Clients :
            /\ ~Broken(c)
            /\ ~StartReset(c) /\ ~StartWriteProgramming(c)
            /\ ~(clean[c] /\ StartAborting(c))]_vars

\* Whatever a failed or interrupted readback left in the core, the FIFOs and
\* the ICAP: a caller who aborts first reads registers again.
ReadbackAgain == EventuallyWell => \A c \in Clients : []<>(result[c] = "value")
=============================================================================
