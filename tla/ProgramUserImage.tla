--------------------------- MODULE ProgramUserImage ---------------------------
(***************************************************************************)
(* Shell::program_user_image of XilinxU55nXdmaStd: host processes program  *)
(* images into the user partition over the HBICAP core, behind the control *)
(* and the DMA AXI firewall.                                               *)
(*                                                                         *)
(* Each register access is a step of its own, so that other processes and  *)
(* the HBICAP core run between any two of them.  An access may fail before *)
(* or after it took effect, and a process may die between any two steps:   *)
(* the card keeps its state, the process starts again from the top.        *)
(***************************************************************************)
EXTENDS AxiFirewall, HbicapDevice

CONSTANTS
  Clients,      \* host processes with the card open
  Images,       \* user images
  Bytes,        \* Bytes[i]: length of image i in bytes; an image may be empty
  NoImage,      \* stands for the contents of a half-written partition
  PollTries,    \* n of poll_reg_mask_sleep: 1000 polls of 10 ms in the code
  DebugLog      \* is the log level Debug, so that debug! evaluates its arguments

WordBytes == 4  \* ICAP_WORD_BYTES

ASSUME ImagesAssumption ==
  /\ NoImage \notin Images /\ Bytes \in [Images -> Nat]
  /\ \E i \in Images : Bytes[i] > 0
ASSUME PollAssumption == PollTries \in Nat \ {0}
ASSUME DebugAssumption == DebugLog \in BOOLEAN

VARIABLES
  pc,       \* where each process is in program_user_image
  image,    \* the image it is programming, or last programmed
  sent,     \* words of it that the DMA write has delivered
  tries,    \* polls made in the current poll_reg_mask_sleep
  result,   \* what the last call returned: "none" while it runs
  hb,       \* the HBICAP core
  fw,       \* the two firewalls
  part      \* the word the partition received last, of an unbroken image

client == <<pc, image, sent, tries, result>>
vars   == <<client, hb, fw, part>>

Firewalls == {"ctrl", "dma"}
Replies   == {"ok", "lost", "late"}
Results   == {"none", "ok", "err", "crash"}

Labels == {"out", "poll_idle", "abort", "abort_poll", "abort_debug",
           "abort_clear", "block_ctrl", "block_dma", "size", "dma",
           "poll_done", "dma_soft", "dma_unblock", "ctrl_soft", "ctrl_unblock"}

\* Mutant: the last word is not counted.
NWordsShort(i) == (Bytes[i] - 1) \div WordBytes

\* write_bitstream counts whole words; the DMA write carries every byte.
NWords(i) == Bytes[i] \div WordBytes
NBeats(i) == (Bytes[i] + WordBytes - 1) \div WordBytes

Word(i, k) == [img |-> i, k |-> k]
Words      == [img : Images, k : Nat]
Garbage    == Word(NoImage, 0)

\* What a word leaves in the partition: word 1 begins an image, its successor
\* continues it, any other word spoils it.
Received(p, w) ==
  IF w.k = 1 \/ (w.img = p.img /\ w.k = p.k + 1) THEN w ELSE Garbage

Loaded(i) == part = Word(i, NBeats(i))

Init ==
  /\ pc = [c \in Clients |-> "out"]
  /\ image \in [Clients -> Images]
  /\ sent = [c \in Clients |-> 0]
  /\ tries = [c \in Clients |-> 0]
  /\ result = [c \in Clients |-> "none"]
  /\ hb = HbicapReset
  /\ fw = [f \in Firewalls |-> Passing]
  /\ \E i \in Images : NBeats(i) > 0 /\ Loaded(i)

-----------------------------------------------------------------------------
(* Control flow of one process *)

Goto(c, l) == pc' = [pc EXCEPT ![c] = l] /\ UNCHANGED <<sent, result>>

Return(c, r) ==
  /\ pc' = [pc EXCEPT ![c] = "out"]
  /\ result' = [result EXCEPT ![c] = r]
  /\ sent' = [sent EXCEPT ![c] = 0]

\* One register write.  The reply "lost" is an error and no effect, "late" an
\* error reported although the write took effect; both are passed on by `?`.
WriteReg(c, at, reply, next) ==
  /\ pc[c] = at
  /\ IF reply = "ok" THEN Goto(c, next) ELSE Return(c, "err")
  /\ UNCHANGED <<image, tries>>

Landed(reply, old, new) == IF reply = "lost" THEN old ELSE new

\* Mutant: one try too many.
PollTryOneMore(c, at, hit, onHit, onExpiry) ==
  /\ pc[c] = at
  /\ \/ hit /\ onHit /\ tries' = [tries EXCEPT ![c] = 0]
     \/ ~hit /\ tries[c] < PollTries /\ tries' = [tries EXCEPT ![c] = @ + 1]
        /\ UNCHANGED <<pc, sent, result>>
     \/ ~hit /\ tries[c] = PollTries /\ onExpiry /\ tries' = [tries EXCEPT ![c] = 0]
  /\ UNCHANGED <<image, hb, fw, part>>

\* Mutant: a poll that goes on until it is answered.
PollTryForever(c, at, hit, onHit, onExpiry) ==
  /\ pc[c] = at
  /\ IF hit THEN onHit ELSE UNCHANGED <<pc, sent, result>>
  /\ UNCHANGED <<tries, image, hb, fw, part>>

\* One try of poll_reg_mask_sleep: `hit` is whether the read succeeded and
\* showed the expected bits.  A failed read is one more try, no error.
PollTry(c, at, hit, onHit, onExpiry) ==
  /\ pc[c] = at
  /\ \/ /\ hit
        /\ onHit
        /\ tries' = [tries EXCEPT ![c] = 0]
     \/ /\ ~hit
        /\ tries[c] + 1 < PollTries
        /\ tries' = [tries EXCEPT ![c] = @ + 1]
        /\ UNCHANGED <<pc, sent, result>>
     \/ /\ ~hit
        /\ tries[c] + 1 = PollTries
        /\ onExpiry
        /\ tries' = [tries EXCEPT ![c] = 0]
  /\ UNCHANGED <<image, hb, fw, part>>

-----------------------------------------------------------------------------
(* program_user_image *)

Begin(c, i) ==
  /\ pc[c] = "out"
  /\ pc' = [pc EXCEPT ![c] = "poll_idle"]
  /\ image' = [image EXCEPT ![c] = i]
  /\ result' = [result EXCEPT ![c] = "none"]
  /\ UNCHANGED <<sent, tries, hb, fw, part>>

\* Mutant: a busy core is not aborted.
PollIdleNoAbort(c, readOk) ==
  PollTry(c, "poll_idle", readOk /\ Idle(hb), Goto(c, "block_ctrl"), Goto(c, "block_ctrl"))

\* Mutant: a busy core is an error.
PollIdleFails(c, readOk) ==
  PollTry(c, "poll_idle", readOk /\ Idle(hb), Goto(c, "block_ctrl"), Return(c, "err"))

\* hbicap.poll_done_every_10ms: only the poll's expiry can be an error, so the
\* arm that returns other errors is never taken.
PollIdle(c, readOk) ==
  PollTry(c, "poll_idle", readOk /\ Idle(hb), Goto(c, "block_ctrl"), Goto(c, "abort"))

\* hbicap.abort
Abort(c, reply) ==
  /\ WriteReg(c, "abort", reply, "abort_poll")
  /\ hb' = Landed(reply, hb, StartAbort)
  /\ UNCHANGED <<fw, part>>

PollAborted(c, readOk) ==
  PollTry(c, "abort_poll", readOk /\ Idle(hb),
          Goto(c, "abort_debug"), Return(c, "err"))

\* The two register reads inside debug! happen, and can fail, only at that
\* log level.
AbortDebug(c, reply) ==
  /\ reply # "ok" => DebugLog
  /\ WriteReg(c, "abort_debug", reply, "abort_clear")
  /\ UNCHANGED <<hb, fw, part>>

PollAbortCleared(c, readOk) ==
  PollTry(c, "abort_clear", readOk /\ ~hb.abort,
          Goto(c, "block_ctrl"), Return(c, "err"))

\* Mutant: the firewalls are blocked in the wrong order.
BlockCtrlSwapped(c, reply) ==
  /\ WriteReg(c, "block_ctrl", reply, "block_dma")
  /\ fw' = [fw EXCEPT !["dma"] = Landed(reply, @, BlockMi)]
  /\ UNCHANGED <<hb, part>>

BlockCtrl(c, reply) ==
  /\ WriteReg(c, "block_ctrl", reply, "block_dma")
  /\ fw' = [fw EXCEPT !["ctrl"] = Landed(reply, @, BlockMi)]
  /\ UNCHANGED <<hb, part>>

\* Mutant: the outcome of the second block_mi is ignored.
BlockDmaUnchecked(c, reply) ==
  /\ WriteReg(c, "block_dma", "ok", "size")
  /\ fw' = [fw EXCEPT !["dma"] = Landed(reply, @, BlockMi)]
  /\ UNCHANGED <<hb, part>>

BlockDma(c, reply) ==
  /\ WriteReg(c, "block_dma", reply, "size")
  /\ fw' = [fw EXCEPT !["dma"] = Landed(reply, @, BlockMi)]
  /\ UNCHANGED <<hb, part>>

\* hbicap.write_bitstream: the Size register, then one DMA write
WriteSize(c, reply) ==
  /\ WriteReg(c, "size", reply, "dma")
  /\ hb' = Landed(reply, hb, SetSize(hb, NWords(image[c])))
  /\ UNCHANGED <<fw, part>>

DmaWord(c) ==
  /\ pc[c] = "dma"
  /\ sent[c] < NBeats(image[c])
  /\ HasVacancy(hb)
  /\ hb' = Push(hb, Word(image[c], sent[c] + 1))
  /\ sent' = [sent EXCEPT ![c] = @ + 1]
  /\ UNCHANGED <<pc, image, tries, result, fw, part>>

DmaDone(c) ==
  /\ pc[c] = "dma"
  /\ sent[c] = NBeats(image[c])
  /\ Goto(c, "poll_done")
  /\ UNCHANGED <<image, tries, hb, fw, part>>

\* The transport gives up on a transfer that the core does not accept.
DmaStalls(c) ==
  /\ pc[c] = "dma"
  /\ sent[c] < NBeats(image[c])
  /\ ~HasVacancy(hb)
  /\ Return(c, "err")
  /\ UNCHANGED <<image, tries, hb, fw, part>>

\* Mutant: the outcome of the poll is ignored.
PollDoneUnchecked(c, readOk) ==
  PollTry(c, "poll_done", readOk /\ Idle(hb),
          Goto(c, "dma_soft"), Goto(c, "dma_soft"))

PollDone(c, readOk) ==
  PollTry(c, "poll_done", readOk /\ Idle(hb),
          Goto(c, "dma_soft"), Return(c, "err"))

\* dma_axi_firewall.unblock_mi, then ctrl_axi_firewall.unblock_mi.
\* Mutant: the soft fault stays requested.
DmaKeepSoft(c, reply) ==
  WriteReg(c, "dma_soft", reply, "dma_unblock") /\ UNCHANGED <<hb, fw, part>>

DmaClearSoft(c, reply) ==
  /\ WriteReg(c, "dma_soft", reply, "dma_unblock")
  /\ fw' = [fw EXCEPT !["dma"] = Landed(reply, @, ClearSoftFault(@))]
  /\ UNCHANGED <<hb, part>>

DmaUnblock(c, reply) ==
  /\ WriteReg(c, "dma_unblock", reply, "ctrl_soft")
  /\ fw' = [fw EXCEPT !["dma"] = Landed(reply, @, WriteUnblock(@))]
  /\ UNCHANGED <<hb, part>>

CtrlClearSoft(c, reply) ==
  /\ WriteReg(c, "ctrl_soft", reply, "ctrl_unblock")
  /\ fw' = [fw EXCEPT !["ctrl"] = Landed(reply, @, ClearSoftFault(@))]
  /\ UNCHANGED <<hb, part>>

CtrlUnblock(c, reply) ==
  /\ pc[c] = "ctrl_unblock"
  /\ Return(c, IF reply = "ok" THEN "ok" ELSE "err")
  /\ fw' = [fw EXCEPT !["ctrl"] = Landed(reply, @, WriteUnblock(@))]
  /\ UNCHANGED <<image, tries, hb, part>>

-----------------------------------------------------------------------------
(* Faults: a failed access, a failed DMA write, the death of the process *)

DmaFails(c) ==
  /\ pc[c] = "dma"
  /\ Return(c, "err")
  /\ UNCHANGED <<image, tries, hb, fw, part>>

Crash(c) ==
  /\ pc[c] # "out"
  /\ Return(c, "crash")
  /\ tries' = [tries EXCEPT ![c] = 0]
  /\ UNCHANGED <<image, hb, fw, part>>

\* The register writes of a call, each with its reply.
Access(c, reply) ==
  \/ Abort(c, reply)
  \/ AbortDebug(c, reply)
  \/ BlockCtrl(c, reply)
  \/ BlockDma(c, reply)
  \/ WriteSize(c, reply)
  \/ DmaClearSoft(c, reply)
  \/ DmaUnblock(c, reply)
  \/ CtrlClearSoft(c, reply)
  \/ CtrlUnblock(c, reply)

\* The polls of a call, with a read that succeeds or not.
Polls(c, readOk) ==
  \/ PollIdle(c, readOk)
  \/ PollAborted(c, readOk)
  \/ PollAbortCleared(c, readOk)
  \/ PollDone(c, readOk)

Step(c) ==
  \/ Access(c, "ok")
  \/ Polls(c, TRUE)
  \/ DmaWord(c)
  \/ DmaDone(c)
  \/ DmaStalls(c)

Fault(c) ==
  \/ \E reply \in Replies \ {"ok"} : Access(c, reply)
  \/ Polls(c, FALSE)
  \/ DmaFails(c)
  \/ Crash(c)

-----------------------------------------------------------------------------
(* The HBICAP core *)

IcapMove ==
  /\ CanMove(hb)
  /\ part' = Received(part, Head(hb.fifo))
  /\ hb' = Move(hb)
  /\ UNCHANGED <<client, fw>>

AbortFinishes ==
  /\ CanFinishAbort(hb)
  /\ hb' = FinishAbort(hb)
  /\ UNCHANGED <<client, fw, part>>

AbortClears ==
  /\ CanClearAbort(hb)
  /\ hb' = ClearAbort(hb)
  /\ UNCHANGED <<client, fw, part>>

Device == IcapMove \/ AbortFinishes \/ AbortClears

Next ==
  \/ Device
  \/ \E c \in Clients :
       \/ \E i \in Images : Begin(c, i)
       \/ Step(c)
       \/ Fault(c)

\* A process that was scheduled goes on, and the core goes on working.
Fairness == WF_vars(Device) /\ \A c \in Clients : WF_vars(Step(c))

Spec == Init /\ [][Next]_vars /\ Fairness

\* The operator tries again whenever a call has ended.
RetryFairness == \A c \in Clients : WF_vars(\E i \in Images : Begin(c, i))
RetrySpec     == Spec /\ RetryFairness
-----------------------------------------------------------------------------
(* Properties *)

ClientTypeOK ==
  /\ pc \in [Clients -> Labels]
  /\ image \in [Clients -> Images]
  /\ sent \in [Clients -> Nat]
  /\ tries \in [Clients -> 0 .. PollTries - 1]
  /\ result \in [Clients -> Results]

\* The values each variable takes: the type invariant of the module.
TypeOK ==
  /\ ClientTypeOK
  /\ hb \in HbicapType(Words, {})
  /\ fw \in [Firewalls -> FirewallType]
  /\ part \in Words \cup {Garbage}

\* One process at a time drives the card.  Nothing in the code enforces it.
OneProgrammer == \A c, d \in Clients : c = d

\* Every image is a whole number of ICAP words, and not empty.  Nothing in the
\* code checks it.
WholeImages == \A i \in Images : Bytes[i] > 0 /\ Bytes[i] % WordBytes = 0

Reachable(f) == ~MiIsBlocked(fw[f])

\* A host that reaches the partition through either firewall finds a complete
\* image there, whatever failed and was retried before (the order of
\* block_mi, write_bitstream, poll_done and unblock_mi).
ServedImageIntact ==
  (\E f \in Firewalls : Reachable(f)) => \E i \in Images : Loaded(i)

\* program_user_image returns Ok only with its own image complete in the
\* partition, both firewalls passing and no word left in the write FIFO.
OkMeansLive ==
  \A c \in Clients :
    pc[c] = "out" /\ result[c] = "ok" =>
      /\ Loaded(image[c])
      /\ \A f \in Firewalls : Reachable(f)
      /\ Idle(hb) /\ hb.fifo = <<>>

\* When Status says Idle the write FIFO is empty: poll_done is all that
\* program_user_image asks before it sends the next image, and words left
\* behind would arrive ahead of it.
IdleMeansDrained == Idle(hb) => hb.fifo = <<>>

\* The control path closes first and opens last: memory is reachable whenever
\* the control registers of the user logic are (block and unblock are nested).
CtrlNestsDma == Reachable("ctrl") => Reachable("dma")

\* The call that reports success has put its own image into the partition.
SuccessIsTrue ==
  [][\A c \in Clients :
       pc[c] # "out" /\ pc'[c] = "out" /\ result'[c] = "ok" => Loaded(image[c])]_vars

\* The partition changes only behind two blocked firewalls.
ChangesIsolated ==
  [][part' # part => \A f \in Firewalls : MiIsBlocked(fw[f])]_vars

\* Every call of program_user_image returns, also when it finds the core waiting
\* for words that never come.
CallsReturn == \A c \in Clients : pc[c] # "out" ~> pc[c] = "out"

\* A poll or a DMA write that expires although the core still had a step to
\* make.
Expires(c) ==
  \/ DmaStalls(c)
  \/ /\ pc[c] \in {"poll_idle", "abort_poll", "abort_clear", "poll_done"}
     /\ tries[c] + 1 = PollTries
     /\ tries'[c] = 0
     /\ pc'[c] \in {"out", "abort"}

TooSlow ==
  /\ CanMove(hb) \/ CanFinishAbort(hb) \/ CanClearAbort(hb)
  /\ \E c \in Clients : Expires(c)

\* A step that only a fault explains: a poll that misses what the register
\* shows, not one that waits for it.
Broken(c) ==
  \/ \E reply \in Replies \ {"ok"} : Access(c, reply)
  \/ Polls(c, FALSE) /\ ~Polls(c, TRUE)
  \/ DmaFails(c) /\ ~DmaStalls(c)
  \/ Crash(c)

\* From some point on no access fails, no process dies, and the core answers
\* within the 10 s of a poll or a transfer.
EventuallyWell == <>[][~TooSlow /\ \A c \in Clients : ~Broken(c)]_vars

\* No history of failed accesses, time-outs and crashes leaves the card in a
\* state that further calls cannot repair: once the faults are over, an
\* operator who tries again succeeds, without a reboot.
RetriesSucceed ==
  EventuallyWell => \A c \in Clients : []<>(result[c] = "ok")

\* The promise of module Reconfig, under this refinement mapping.
LoadedImage ==
  IF \E i \in Images : Loaded(i) THEN CHOOSE i \in Images : Loaded(i) ELSE NoImage

Promise == INSTANCE Reconfig
             WITH loaded <- LoadedImage, open <- \E f \in Firewalls : Reachable(f)

KeepsPromise == Promise!Spec
=============================================================================
