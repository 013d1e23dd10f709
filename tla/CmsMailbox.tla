------------------------------ MODULE CmsMailbox ------------------------------
(***************************************************************************)
(* The card management system as host processes drive it (cores/cms.rs):   *)
(* init, get_card_info over the mailbox, and reset_sensor_max_avg.  All of *)
(* them read, modify and write the one Control register, on whose bits the *)
(* CMS firmware works at the same time.                                    *)
(*                                                                         *)
(* Each register access is a step of its own; it may fail before or after  *)
(* it took effect, and a process may die between any two steps.            *)
(***************************************************************************)
EXTENDS Naturals

CONSTANTS
  Clients,      \* host processes with the card open
  CardLen,      \* bytes of the card's information
  PollTries     \* n of poll_reg_mask_sleep: 1000 and 100 in the code

ASSUME CardLenAssumption == CardLen \in Nat \ {0}
ASSUME PollTriesAssumption == PollTries \in Nat \ {0}

VARIABLES
  pc,        \* where each process is: "dead", in a call, or "ready" for one
  ctl,       \* the Control value it read last
  tries,     \* polls made in the current poll_reg_mask_sleep
  left,      \* bytes of the answer that it still has to read
  got,       \* bytes of the answer that it has read
  result,    \* what the last call returned
  control,   \* the Control register, as the set of the bits that are set
  mbox,      \* the header of the mailbox, and whether card data follow it
  error,     \* HostMsgError # 0
  released,  \* MicroblazeResetN = 1
  up,        \* bit 0 of HostStatus
  supported  \* RegMapId is the one that init asks for; it never changes

client == <<pc, ctl, tries, left, got, result>>
core   == <<control, mbox, error, released, up, supported>>
vars   == <<client, core>>

Bits    == {"max_avg_reset", "mailbox_status", "hbm_temp_monitor_enable"}
Replies == {"ok", "lost", "late"}
Results == {"none", "ok", "err", "info"}

InitLabels == {"reset_n", "host_status", "reg_map", "hbm_read", "hbm_write"}
CallLabels == {"available", "offset", "request", "mbox_read", "mbox_write", "mbox_poll",
               "host_error", "length", "payload", "max_read", "max_write"}
Labels     == {"dead", "ready"} \cup InitLabels \cup CallLabels

\* The header a request leaves: opcode 4 in the top byte, 0 in the length.
Request == [len |-> 0, data |-> FALSE]

Init ==
  /\ pc = [c \in Clients |-> "dead"]
  /\ ctl = [c \in Clients |-> {}]
  /\ tries = [c \in Clients |-> 0]
  /\ left = [c \in Clients |-> 0]
  /\ got = [c \in Clients |-> 0]
  /\ result = [c \in Clients |-> "none"]
  /\ control = {}
  /\ mbox = Request
  /\ error = FALSE
  /\ released = FALSE
  /\ up = FALSE
  /\ supported \in BOOLEAN

-----------------------------------------------------------------------------
(* Control flow of one process *)

Goto(c, l) == pc' = [pc EXCEPT ![c] = l] /\ UNCHANGED result

Return(c, r) ==
  /\ pc' = [pc EXCEPT ![c] = "ready"]
  /\ result' = [result EXCEPT ![c] = r]

\* A process whose init fails ends; a call that fails returns its error.
Fail(c) ==
  IF pc[c] \in InitLabels
  THEN pc' = [pc EXCEPT ![c] = "dead"] /\ result' = [result EXCEPT ![c] = "err"]
  ELSE Return(c, "err")

\* One register access that goes on as `onOk`, or fails.
Access(c, at, reply, onOk) ==
  /\ pc[c] = at
  /\ IF reply = "ok" THEN onOk ELSE Fail(c)

Landed(reply, old, new) == IF reply = "lost" THEN old ELSE new

\* get_cms_control_reg
ReadControl(c, at, reply, next) ==
  /\ Access(c, at, reply, Goto(c, next))
  /\ ctl' = [ctl EXCEPT ![c] = IF reply = "ok" THEN control ELSE {}]
  /\ UNCHANGED <<tries, left, got, core>>

\* Mutant: the bit is written on its own.
WriteControlAlone(c, at, reply, bit, onOk) ==
  /\ Access(c, at, reply, onOk)
  /\ control' = Landed(reply, control, {bit})
  /\ ctl' = [ctl EXCEPT ![c] = {}]
  /\ UNCHANGED <<tries, left, got, mbox, error, released, up, supported>>

\* set_cms_control_reg of the value read before, with one more bit.
WriteControl(c, at, reply, bit, onOk) ==
  /\ Access(c, at, reply, onOk)
  /\ control' = Landed(reply, control, ctl[c] \cup {bit})
  /\ ctl' = [ctl EXCEPT ![c] = {}]
  /\ UNCHANGED <<tries, left, got, mbox, error, released, up, supported>>

\* One try of poll_reg_mask_sleep; a failed read is one more try.
PollTry(c, at, hit, next) ==
  /\ pc[c] = at
  /\ \/ hit /\ Goto(c, next) /\ tries' = [tries EXCEPT ![c] = 0]
     \/ /\ ~hit /\ tries[c] + 1 < PollTries
        /\ tries' = [tries EXCEPT ![c] = @ + 1]
        /\ UNCHANGED <<pc, result>>
     \/ /\ ~hit /\ tries[c] + 1 = PollTries
        /\ tries' = [tries EXCEPT ![c] = 0]
        /\ Fail(c)
  /\ UNCHANGED <<ctl, left, got, core>>

-----------------------------------------------------------------------------
(* init *)

StartInit(c) ==
  pc[c] = "dead" /\ Goto(c, "reset_n") /\ UNCHANGED <<ctl, tries, left, got, core>>

\* Mutant: nobody waits for the firmware to come up.
ReleaseMicroblazeOnly(c, reply) ==
  /\ Access(c, "reset_n", reply, Goto(c, "reg_map"))
  /\ released' = Landed(reply, released, TRUE)
  /\ UNCHANGED <<ctl, tries, left, got, control, mbox, error, up, supported>>

ReleaseMicroblaze(c, reply) ==
  /\ Access(c, "reset_n", reply, Goto(c, "host_status"))
  /\ released' = Landed(reply, released, TRUE)
  /\ UNCHANGED <<ctl, tries, left, got, control, mbox, error, up, supported>>

ExpectReadyHostStatus(c, readOk) == PollTry(c, "host_status", readOk /\ up, "reg_map")

CheckRegMapId(c, reply) ==
  /\ Access(c, "reg_map", reply, IF supported THEN Goto(c, "hbm_read") ELSE Fail(c))
  /\ UNCHANGED <<ctl, tries, left, got, core>>

EnableHbmRead(c, reply) == ReadControl(c, "hbm_read", reply, "hbm_write")
EnableHbmWrite(c, reply) ==
  WriteControl(c, "hbm_write", reply, "hbm_temp_monitor_enable", Return(c, "ok"))

-----------------------------------------------------------------------------
(* get_card_info *)

StartCardInfo(c) ==
  /\ pc[c] = "ready"
  /\ pc' = [pc EXCEPT ![c] = "available"]
  /\ result' = [result EXCEPT ![c] = "none"]
  /\ got' = [got EXCEPT ![c] = 0]
  /\ UNCHANGED <<ctl, tries, left, core>>

\* Mutant: a busy mailbox is not noticed.
MailboxAvailableUnchecked(c, reply) ==
  /\ Access(c, "available", reply, Goto(c, "offset"))
  /\ UNCHANGED <<ctl, tries, left, got, core>>

\* Mutant: the test of the bit is the wrong way round.
MailboxAvailableInverted(c, reply) ==
  /\ Access(c, "available", reply,
            IF "mailbox_status" \in control THEN Goto(c, "offset") ELSE Fail(c))
  /\ UNCHANGED <<ctl, tries, left, got, core>>

\* get_mailbox_offset: a busy mailbox is an error (MailboxNotAvailable) ...
MailboxAvailable(c, reply) ==
  /\ Access(c, "available", reply,
            IF "mailbox_status" \in control THEN Fail(c) ELSE Goto(c, "offset"))
  /\ UNCHANGED <<ctl, tries, left, got, core>>

\* ... and the offset, a constant of the firmware, is read from HostMsgOffset.
GetMailboxOffset(c, reply) ==
  /\ Access(c, "offset", reply, Goto(c, "request"))
  /\ UNCHANGED <<ctl, tries, left, got, core>>

WriteRequest(c, reply) ==
  /\ Access(c, "request", reply, Goto(c, "mbox_read"))
  /\ mbox' = Landed(reply, mbox, [mbox EXCEPT !.len = Request.len])
  /\ UNCHANGED <<ctl, tries, left, got, control, error, released, up, supported>>

SubmitRead(c, reply) == ReadControl(c, "mbox_read", reply, "mbox_write")
SubmitWrite(c, reply) ==
  WriteControl(c, "mbox_write", reply, "mailbox_status", Goto(c, "mbox_poll"))

AwaitAnswer(c, readOk) ==
  PollTry(c, "mbox_poll", readOk /\ "mailbox_status" \notin control, "host_error")

\* Mutant: the error register is not looked at.
CheckHostMsgErrorIgnored(c, reply) ==
  /\ Access(c, "host_error", reply, Goto(c, "length"))
  /\ UNCHANGED <<ctl, tries, left, got, core>>

CheckHostMsgError(c, reply) ==
  /\ Access(c, "host_error", reply, IF error THEN Fail(c) ELSE Goto(c, "length"))
  /\ UNCHANGED <<ctl, tries, left, got, core>>

\* Mutant: the length counts the header word as well.
ReadLengthOfAll(c, reply) ==
  /\ Access(c, "length", reply, IF mbox.len = 0 THEN Return(c, "info") ELSE Goto(c, "payload"))
  /\ left' = [left EXCEPT ![c] = IF reply = "ok" THEN mbox.len + 4 ELSE 0]
  /\ UNCHANGED <<ctl, tries, got, core>>

ReadLength(c, reply) ==
  /\ Access(c, "length", reply, IF mbox.len = 0 THEN Return(c, "info") ELSE Goto(c, "payload"))
  /\ left' = [left EXCEPT ![c] = IF reply = "ok" THEN mbox.len ELSE 0]
  /\ UNCHANGED <<ctl, tries, got, core>>

\* Four bytes of the answer, or as many as are left.
ReadPayload(c, reply) ==
  LET n == IF left[c] < 4 THEN left[c] ELSE 4
  IN /\ Access(c, "payload", reply,
               IF left[c] <= 4 THEN Return(c, "info") ELSE UNCHANGED <<pc, result>>)
     /\ got' = [got EXCEPT ![c] = IF reply = "ok" THEN @ + n ELSE 0]
     /\ left' = [left EXCEPT ![c] = IF reply = "ok" THEN @ - n ELSE 0]
     /\ UNCHANGED <<ctl, tries, core>>

-----------------------------------------------------------------------------
(* reset_sensor_max_avg, the end of a process, and faults *)

StartResetMaxAvg(c) ==
  /\ pc[c] = "ready"
  /\ pc' = [pc EXCEPT ![c] = "max_read"]
  /\ result' = [result EXCEPT ![c] = "none"]
  /\ got' = [got EXCEPT ![c] = 0]
  /\ UNCHANGED <<ctl, tries, left, core>>

ResetMaxAvgRead(c, reply) == ReadControl(c, "max_read", reply, "max_write")
ResetMaxAvgWrite(c, reply) ==
  WriteControl(c, "max_write", reply, "max_avg_reset", Return(c, "ok"))

\* The process ends, or dies in the middle of a call.
Die(c) ==
  /\ pc[c] # "dead"
  /\ pc' = [pc EXCEPT ![c] = "dead"]
  /\ result' = [result EXCEPT ![c] = "none"]
  /\ ctl' = [ctl EXCEPT ![c] = {}]
  /\ tries' = [tries EXCEPT ![c] = 0]
  /\ left' = [left EXCEPT ![c] = 0]
  /\ got' = [got EXCEPT ![c] = 0]
  /\ UNCHANGED core

Accesses(c, reply) ==
  \/ ReleaseMicroblaze(c, reply)
  \/ CheckRegMapId(c, reply)
  \/ EnableHbmRead(c, reply)
  \/ EnableHbmWrite(c, reply)
  \/ MailboxAvailable(c, reply)
  \/ GetMailboxOffset(c, reply)
  \/ WriteRequest(c, reply)
  \/ SubmitRead(c, reply)
  \/ SubmitWrite(c, reply)
  \/ CheckHostMsgError(c, reply)
  \/ ReadLength(c, reply)
  \/ ReadPayload(c, reply)
  \/ ResetMaxAvgRead(c, reply)
  \/ ResetMaxAvgWrite(c, reply)

Polls(c, readOk) == ExpectReadyHostStatus(c, readOk) \/ AwaitAnswer(c, readOk)

Step(c)  == StartInit(c) \/ Accesses(c, "ok") \/ Polls(c, TRUE)
Fault(c) == (\E reply \in Replies \ {"ok"} : Accesses(c, reply)) \/ Polls(c, FALSE) \/ Die(c)

-----------------------------------------------------------------------------
(* The CMS firmware *)

Boot ==
  /\ released /\ ~up
  /\ up' = TRUE
  /\ UNCHANGED <<client, control, mbox, error, released, supported>>

\* It answers what it finds in the mailbox and clears the bit.
Answer ==
  /\ up /\ "mailbox_status" \in control
  /\ control' = control \ {"mailbox_status"}
  /\ mbox' = [len |-> CardLen, data |-> TRUE]
  /\ error' = FALSE
  /\ UNCHANGED <<client, released, up, supported>>

\* Or it reports an error and leaves the mailbox as it is.
Reject ==
  /\ up /\ "mailbox_status" \in control
  /\ control' = control \ {"mailbox_status"}
  /\ error' = TRUE
  /\ UNCHANGED <<client, mbox, released, up, supported>>

\* It resets the readings and clears the bit.
ResetReadings ==
  /\ up /\ "max_avg_reset" \in control
  /\ control' = control \ {"max_avg_reset"}
  /\ UNCHANGED <<client, mbox, error, released, up, supported>>

Next ==
  \/ Boot \/ Answer \/ Reject \/ ResetReadings
  \/ \E c \in Clients : Step(c) \/ Fault(c) \/ StartCardInfo(c) \/ StartResetMaxAvg(c)

\* The firmware works on, a process that was scheduled goes on, and an operator
\* whose call ended asks for the card's information if nothing else is done.
Fairness ==
  /\ WF_vars(Boot) /\ WF_vars(Answer)
  /\ \A c \in Clients : WF_vars(Step(c)) /\ WF_vars(StartCardInfo(c))

Spec == Init /\ [][Next]_vars /\ Fairness
-----------------------------------------------------------------------------
(* Properties *)

\* The values each variable takes: the type invariant of the module.
TypeOK ==
  /\ pc \in [Clients -> Labels]
  /\ ctl \in [Clients -> SUBSET Bits]
  /\ tries \in [Clients -> 0 .. PollTries - 1]
  /\ left \in [Clients -> 0 .. CardLen]
  /\ got \in [Clients -> 0 .. CardLen]
  /\ result \in [Clients -> Results]
  /\ control \in SUBSET Bits
  /\ mbox \in [len : {0, CardLen}, data : BOOLEAN]
  /\ error \in BOOLEAN /\ released \in BOOLEAN /\ up \in BOOLEAN /\ supported \in BOOLEAN

\* get_card_info returns Ok only with all of the card's information, whatever
\* earlier calls timed out and were answered late, and whatever processes died
\* with a request in the mailbox.
InfoIsCards ==
  \A c \in Clients : result[c] = "info" => got[c] = CardLen /\ mbox.data

\* A request never overwrites one that the firmware still has to answer
\* (get_mailbox_offset returns MailboxNotAvailable instead).
RequestsDoNotCollide ==
  [][\A c \in Clients :
       pc[c] = "request" /\ pc'[c] = "mbox_read" => "mailbox_status" \notin control]_vars

Letter == IF mbox.len = 0 THEN "request" ELSE "card"
Service ==
  INSTANCE CardService
    WITH letter <- Letter, submitted <- "mailbox_status" \in control,
         informed <- {c \in Clients : result[c] = "info"}

\* The registers, the bits of Control, the polls and the retries implement the
\* mailbox of CardService: an answer is taken only where it is and cannot change
\* any more, and no request is written over another.
KeepsService == Service!Spec

\* HBM monitoring, once enabled, stays enabled: no read-modify-write of Control
\* by any process, however stale what it read, clears the bit again.
MonitoringStays ==
  [][LET on == "hbm_temp_monitor_enable" \in control IN on => on']_vars

\* A process that is past init deals with firmware that is up, that has the
\* register map it was written for, and that has HBM monitoring on; another
\* process's failure or stale write of Control never takes that away.
InitIsDone ==
  \A c \in Clients : pc[c] \notin InitLabels \cup {"dead"} =>
    up /\ supported /\ "hbm_temp_monitor_enable" \in control

TooSlow ==
  \E c \in Clients :
    /\ pc[c] \in {"host_status", "mbox_poll"} /\ tries[c] + 1 = PollTries
    /\ pc'[c] \in {"dead", "ready"}

\* A step that only a fault explains.  A call that returns an error because the
\* mailbox is taken is none, nor is a poll that waits for what is not there yet.
Broken(c) ==
  \/ (\E reply \in Replies \ {"ok"} : Accesses(c, reply)) /\ ~Accesses(c, "ok")
  \/ Polls(c, FALSE) /\ ~Polls(c, TRUE)
  \/ Die(c)

\* From some point on no access fails, no process dies, the firmware answers
\* within the second that a poll takes, without an error of its own, and nobody
\* resets the readings: a reset that read Control before an answer and writes it
\* afterwards submits the request once more, and resets that always come at
\* that time would keep the mailbox busy for good.
EventuallyWell ==
  <>[][/\ ~Reject /\ ~TooSlow
      /\ \A c \in Clients : ~Broken(c) /\ ~StartResetMaxAvg(c)]_vars

\* Once the faults are over a process that asks again gets the information: no
\* time-out, late answer, crash or repeated request leaves the mailbox unusable.
InfoAgain == supported /\ EventuallyWell => \A c \in Clients : []<>(result[c] = "info")
=============================================================================
