---------------------------------- MODULE Host ----------------------------------
(***************************************************************************)
(* What the threads of a host process do with a shell once they have it:   *)
(* they fill DMA buffers and transfer them, enable and disable the DFX     *)
(* decoupler and poll a register.  Module Channels says how they come to   *)
(* have it.                                                                *)
(***************************************************************************)
EXTENDS Channels

CONSTANTS
  Unit,         \* size of Align4K: 4096 bytes in the code
  WordBytes,    \* ICAP_WORD_BYTES: 4 in the code
  Sizes,        \* bytes that buffers are asked for
  Period,       \* time between two polls: 10 ms in the code
  Durations,    \* times to poll for
  MaxUsize      \* the largest usize: 2^64 - 1 in the code

ASSUME SizesAssumption ==
  Unit \in Nat \ {0} /\ WordBytes \in Nat \ {0} /\ Sizes \subseteq Nat

ASSUME DurationsAssumption ==
  Period \in Nat \ {0} /\ MaxUsize \in Nat /\ Durations \subseteq Nat

VARIABLES
  buf,          \* the DMA buffer of each thread
  val,          \* the Control value it read, or the one it polls for
  tries,        \* polls made in the current poll_reg_mask_sleep
  span,         \* for how long it is to poll
  control,      \* the decoupler's Control register, as the set of its bits
  claim         \* what calls that returned Ok promise of the decoupler: "en",
                \* "dis", or nothing while the opposite may still be written

thread   == <<buf, val, tries, span>>
hostVars == <<pc, channels, thread, control, claim>>

Replies == {"ok", "lost", "late"}
IdleLabels == {"ready", "failed"}
BusyLabels == {"fill", "en_read", "en_write", "dis_read", "dis_write", "poll"}

NoBuffer == [asked |-> 0, len |-> 0, cap |-> 0, aligned |-> TRUE]

\* ControlRegBit::En, and what else the register holds.
En   == "en"
Bits == {En, "rest"}

HostInit ==
  /\ pc = [t \in Threads |-> "out"]
  /\ ChannelsInit
  /\ buf = [t \in Threads |-> NoBuffer]
  /\ val = [t \in Threads |-> {}]
  /\ tries = [t \in Threads |-> 0]
  /\ span = [t \in Threads |-> 0]
  /\ control \in SUBSET Bits
  /\ claim = "none"

-----------------------------------------------------------------------------
(* Control flow of one thread *)

Goto(t, l) == pc' = [pc EXCEPT ![t] = l]

\* A call ends in Ok, or in an error after which the caller may go on.
Return(t, ok) == Goto(t, IF ok THEN "ready" ELSE "failed")

Begin(t, l) == pc[t] \in IdleLabels /\ Goto(t, l)

Landed(reply, old, new) == IF reply = "lost" THEN old ELSE new

-----------------------------------------------------------------------------
(* DmaBuffer *)

\* Mutant: as many units as fit into the bytes.
CapacityRoundedDown(n) == (n \div Unit) * Unit

\* aligned_vec
Capacity(n) == ((n \div Unit) + 1) * Unit

NewBuffer(t, n) ==
  /\ Begin(t, "fill")
  /\ buf' = [buf EXCEPT ![t] =
       [asked |-> n, len |-> 0, cap |-> Capacity(n), aligned |-> TRUE]]
  /\ UNCHANGED <<channels, val, tries, span, control, claim>>

\* Vec::extend_from_slice: a buffer that has to grow moves, to no alignment.
Extended(b, k) ==
  [asked   |-> b.asked,
   len     |-> b.len + k,
   cap     |-> IF b.len + k <= b.cap THEN b.cap ELSE b.len + k,
   aligned |-> b.aligned /\ b.len + k <= b.cap]

\* The callers put in all of an image at once, or a stream word by word.
Fill(t) ==
  /\ pc[t] = "fill" /\ buf[t].len < buf[t].asked
  /\ \E k \in {WordBytes, buf[t].asked - buf[t].len} :
       buf[t].len + k <= buf[t].asked /\ buf' = [buf EXCEPT ![t] = Extended(@, k)]
  /\ UNCHANGED <<pc, channels, val, tries, span, control, claim>>

\* dma_read or dma_write of the filled part of the buffer.
Transfer(t, reply) ==
  /\ pc[t] = "fill" /\ buf[t].len = buf[t].asked
  /\ Return(t, reply = "ok")
  /\ buf' = [buf EXCEPT ![t] = NoBuffer]
  /\ UNCHANGED <<channels, val, tries, span, control, claim>>

-----------------------------------------------------------------------------
(* DfxDecouplerOps *)

Xor(v, w) == (v \ w) \cup (w \ v)

\* Mutant: disable toggles the bit.
WithoutEnToggled(v) == Xor(v, {En})

WithEn(v)    == v \cup {En}
WithoutEn(v) == Xor(v \cup {En}, {En})

Withdraw(l) == claim' = IF claim = l THEN "none" ELSE claim

StartEnable(t)  == Begin(t, "en_read")  /\ Withdraw("dis") /\ UNCHANGED <<channels, buf, val, tries, span, control>>
StartDisable(t) == Begin(t, "dis_read") /\ Withdraw("en")  /\ UNCHANGED <<channels, buf, val, tries, span, control>>

ReadControl(t, at, reply, next) ==
  /\ pc[t] = at
  /\ IF reply = "ok" THEN Goto(t, next) ELSE Return(t, FALSE)
  /\ val' = [val EXCEPT ![t] = IF reply = "ok" THEN control ELSE {}]
  /\ UNCHANGED <<channels, buf, tries, span, control, claim>>

\* The call that returns Ok can promise what it wrote, unless a call of the
\* opposite is still under way.
WriteControl(t, at, reply, value, made, opposite) ==
  /\ pc[t] = at
  /\ Return(t, reply = "ok")
  /\ control' = Landed(reply, control, value)
  /\ val' = [val EXCEPT ![t] = {}]
  /\ claim' = IF reply = "ok" /\ \A u \in Threads : pc[u] \notin opposite THEN made ELSE claim
  /\ UNCHANGED <<channels, buf, tries, span>>

EnableRead(t, reply)  == ReadControl(t, "en_read", reply, "en_write")
DisableRead(t, reply) == ReadControl(t, "dis_read", reply, "dis_write")

EnableWrite(t, reply) ==
  WriteControl(t, "en_write", reply, WithEn(val[t]), "en", {"dis_read", "dis_write"})
DisableWrite(t, reply) ==
  WriteControl(t, "dis_write", reply, WithoutEn(val[t]), "dis", {"en_read", "en_write"})

-----------------------------------------------------------------------------
(* poll_reg_mask_sleep, for a duration in steps of a period *)

\* Mutant: one poll too many.
TriesAndOne(d) == d \div Period + 1

\* usize::try_from(..).unwrap_or_default()
Tries(d) == IF d \div Period <= MaxUsize THEN d \div Period ELSE 0

StartPoll(t, d, expected) ==
  /\ Begin(t, "poll")
  /\ span' = [span EXCEPT ![t] = d]
  /\ val' = [val EXCEPT ![t] = expected]
  /\ UNCHANGED <<channels, buf, tries, control, claim>>

\* A failed read shows nothing.
Shown(t, readOk) == readOk /\ control \cap {En} = val[t]

PollOver(t) ==
  /\ tries' = [tries EXCEPT ![t] = 0]
  /\ val' = [val EXCEPT ![t] = {}]
  /\ span' = [span EXCEPT ![t] = 0]

\* Mutant: a read that fails begins the poll again.
PollRestarted(t, readOk) ==
  /\ pc[t] = "poll"
  /\ \/ tries[t] < Tries(span[t]) /\ Shown(t, readOk) /\ Return(t, TRUE) /\ PollOver(t)
     \/ /\ tries[t] < Tries(span[t]) /\ ~Shown(t, readOk)
        /\ tries' = [tries EXCEPT ![t] = IF readOk THEN @ + 1 ELSE 0]
        /\ UNCHANGED <<pc, val, span>>
     \/ tries[t] >= Tries(span[t]) /\ Return(t, FALSE) /\ PollOver(t)
  /\ UNCHANGED <<channels, buf, control, claim>>

\* Mutant: one poll more than take(n) makes.
PollOnceMore(t, readOk) ==
  /\ pc[t] = "poll"
  /\ \/ tries[t] <= Tries(span[t]) /\ Shown(t, readOk) /\ Return(t, TRUE) /\ PollOver(t)
     \/ /\ tries[t] <= Tries(span[t]) /\ ~Shown(t, readOk)
        /\ tries' = [tries EXCEPT ![t] = @ + 1]
        /\ UNCHANGED <<pc, val, span>>
     \/ tries[t] > Tries(span[t]) /\ Return(t, FALSE) /\ PollOver(t)
  /\ UNCHANGED <<channels, buf, control, claim>>

\* Sleep for a period and read.  After n of them, or when n is 0, the poll has
\* failed.
Poll(t, readOk) ==
  /\ pc[t] = "poll"
  /\ \/ tries[t] < Tries(span[t]) /\ Shown(t, readOk) /\ Return(t, TRUE) /\ PollOver(t)
     \/ /\ tries[t] < Tries(span[t]) /\ ~Shown(t, readOk)
        /\ tries' = [tries EXCEPT ![t] = @ + 1]
        /\ UNCHANGED <<pc, val, span>>
     \/ tries[t] >= Tries(span[t]) /\ Return(t, FALSE) /\ PollOver(t)
  /\ UNCHANGED <<channels, buf, control, claim>>

-----------------------------------------------------------------------------

\* The shell is dropped; the statics keep the channels.
Drop(t) ==
  /\ pc[t] \in IdleLabels
  /\ Goto(t, "out")
  /\ UNCHANGED <<channels, thread, control, claim>>

\* Every thread is gone, and what it had in memory.  A promise holds on.
HostExit ==
  /\ Exit
  /\ buf' = [t \in Threads |-> NoBuffer]
  /\ val' = [t \in Threads |-> {}]
  /\ tries' = [t \in Threads |-> 0]
  /\ span' = [t \in Threads |-> 0]
  /\ UNCHANGED <<control, claim>>

Accesses(t, reply) ==
  \/ Transfer(t, reply)
  \/ EnableRead(t, reply)
  \/ EnableWrite(t, reply)
  \/ DisableRead(t, reply)
  \/ DisableWrite(t, reply)

Starts(t) ==
  \/ \E n \in Sizes : NewBuffer(t, n)
  \/ StartEnable(t)
  \/ StartDisable(t)
  \/ \E d \in Durations, expected \in {{}, {En}} : StartPoll(t, d, expected)

Opening(t) == (StartNew(t) \/ New(t) \/ OpenFails(t)) /\ UNCHANGED <<thread, control, claim>>

HostNext ==
  \/ HostExit
  \/ \E t \in Threads :
       \/ Opening(t)
       \/ Starts(t)
       \/ Fill(t)
       \/ \E reply \in Replies : Accesses(t, reply)
       \/ \E readOk \in BOOLEAN : Poll(t, readOk)
       \/ Drop(t)

\* A thread that is in a call goes on with it, whatever the answers are.
GoesOn(t) ==
  \/ (New(t) \/ OpenFails(t)) /\ UNCHANGED <<thread, control, claim>>
  \/ Fill(t)
  \/ \E reply \in Replies : Accesses(t, reply)
  \/ \E readOk \in BOOLEAN : Poll(t, readOk)

HostSpec == HostInit /\ [][HostNext]_hostVars /\ \A t \in Threads : WF_hostVars(GoesOn(t))
-----------------------------------------------------------------------------
(* Properties *)

\* The values each variable takes: the type invariant of the module.
HostTypeOK ==
  /\ pc \in [Threads -> {"out"} \cup OpenLabels \cup IdleLabels \cup BusyLabels]
  /\ hand \in [Threads -> [Nodes -> Fds \cup {NoFd}]]
  /\ cell \in [Nodes -> Fds \cup {NoFd}]
  /\ file \in [Fds -> Nodes \cup {"closed"}]
  /\ buf \in [Threads -> [asked : Nat, len : Nat, cap : Nat, aligned : BOOLEAN]]
  /\ val \in [Threads -> SUBSET Bits]
  /\ tries \in [Threads -> 0 .. MaxUsize]
  /\ span \in [Threads -> Durations \cup {0}]
  /\ control \in SUBSET Bits
  /\ claim \in {"none", "en", "dis"}

\* No buffer outgrows what it was created with, however it is filled up to the
\* size asked for, in one piece or in words: it is not moved, and stays aligned
\* for the DMA engine.
BuffersStayAligned ==
  \A t \in Threads : buf[t].aligned /\ buf[t].len <= buf[t].cap

\* After an Ok of enable the decoupler is on, and after an Ok of disable off,
\* until the opposite is called, whichever calls of other threads failed, were
\* lost or answered late, and also in the process that comes after this one.
DecouplerIsAsPromised ==
  /\ claim = "en" => En \in control
  /\ claim = "dis" => En \notin control

\* The polls of poll_reg_mask_sleep fill a duration: they take no longer, and
\* leave less than a period of it.  The exception is a duration whose number of
\* polls is no usize: it is not polled for at all (unwrap_or_default).
Fills(polls, d) ==
  /\ polls * Period <= d
  /\ \/ d < (polls + 1) * Period
     \/ polls = 0 /\ d \div Period > MaxUsize

\* A poll that fails has waited for its duration, however many of its reads
\* failed, and for no longer.
PollsForItsDuration ==
  [][\A t \in Threads : pc[t] = "poll" /\ pc'[t] = "failed" =>
       Fills(tries[t], span[t])]_hostVars

\* Every call of new and every operation comes to its end, with Ok or an error,
\* whatever fails.
CallsEnd ==
  \A t \in Threads : pc[t] \in OpenLabels \cup BusyLabels ~> pc[t] \in {"out"} \cup IdleLabels
=============================================================================
