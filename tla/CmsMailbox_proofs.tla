-------------------------- MODULE CmsMailbox_proofs --------------------------
(***************************************************************************)
(* Theorems about CmsMailbox and their proofs.  For any number of          *)
(* processes: type correctness, and what init establishes for good.  For   *)
(* one process at a time: the mailbox and what get_card_info returns.      *)
(***************************************************************************)
EXTENDS CmsMailbox, TLAPS

HbmOn == "hbm_temp_monitor_enable" \in control

\* Where nothing of the answer has been read.
Asking == {"available", "offset", "request", "mbox_read", "mbox_write", "mbox_poll",
           "host_error", "length"}

\* The bytes read and the bytes to read are never more than the card's.
Counted(c) ==
  /\ left[c] + got[c] <= CardLen
  /\ pc[c] \in Asking => got[c] = 0

\* How far init is on the way to what InitIsDone says, and that every value of
\* Control which is about to be written back has the bit set.
Prepared(c) ==
  /\ pc[c] = "reg_map" => up
  /\ pc[c] \in {"hbm_read", "hbm_write"} => up /\ supported
  /\ pc[c] \notin InitLabels \cup {"dead"} => up /\ supported /\ HbmOn
  /\ pc[c] \in {"mbox_write", "max_write"} => "hbm_temp_monitor_enable" \in ctl[c]

CInv == TypeOK /\ \A c \in Clients : Counted(c) /\ Prepared(c)

\* What a process may do, whatever the outcome.
LEMMA ClientSteps ==
  ASSUME NEW c \in Clients, Step(c) \/ Fault(c)
  PROVE  \/ \E reply \in Replies : Accesses(c, reply)
         \/ \E readOk \in BOOLEAN : Polls(c, readOk)
         \/ StartInit(c) \/ Die(c)
  BY DEF Step, Fault, Replies

\* Where the process is and what its call returned are typed after each way to
\* go on, and a failed call is over: its process is ready, or dead if init failed.
LEMMA FlowTyped ==
  ASSUME TypeOK, NEW c \in Clients
  PROVE  /\ \A l \in Labels : Goto(c, l) =>
              pc' = [pc EXCEPT ![c] = l] /\ pc' \in [Clients -> Labels]
                /\ result' \in [Clients -> Results]
         /\ \A r \in Results : Return(c, r) =>
              pc' = [pc EXCEPT ![c] = "ready"] /\ pc' \in [Clients -> Labels]
                /\ result' \in [Clients -> Results]
         /\ Fail(c) => /\ pc' = [pc EXCEPT ![c] = IF pc[c] \in InitLabels THEN "dead" ELSE "ready"]
                       /\ pc' \in [Clients -> Labels]
                       /\ result' \in [Clients -> Results]
  BY DEF TypeOK, Goto, Return, Fail, Labels, Results

\* A try of a poll stays, goes on, or fails.
LEMMA PollsKeep ==
  ASSUME CInv, NEW c \in Clients, NEW readOk \in BOOLEAN, Polls(c, readOk)
  PROVE  CInv'
  <1>1. /\ "reg_map" \in Labels /\ "host_error" \in Labels
        /\ "host_status" \in InitLabels /\ "mbox_poll" \notin InitLabels \cup {"dead"}
        /\ "reg_map" \in InitLabels
    BY DEF Labels, InitLabels, CallLabels
  <1>2. /\ tries' \in [Clients -> 0 .. PollTries - 1]
        /\ UNCHANGED <<ctl, left, got, core>>
    BY PollTriesAssumption
       DEF Polls, ExpectReadyHostStatus, AwaitAnswer, PollTry, CInv, TypeOK
  <1>3. TypeOK'
    BY <1>1, <1>2, FlowTyped
       DEF Polls, ExpectReadyHostStatus, AwaitAnswer, PollTry, CInv, TypeOK, core
  <1>4. \A d \in Clients : Counted(d)' /\ Prepared(d)'
    <2> SUFFICES ASSUME NEW d \in Clients PROVE Counted(d)' /\ Prepared(d)'
      OBVIOUS
    <2>1. CASE ExpectReadyHostStatus(c, readOk)
      BY <1>1, <1>2, <2>1, FlowTyped
         DEF ExpectReadyHostStatus, PollTry, CInv, TypeOK, core, Counted, Prepared, HbmOn,
             Asking, InitLabels
    <2>2. CASE AwaitAnswer(c, readOk)
      BY <1>1, <1>2, <2>2, FlowTyped
         DEF AwaitAnswer, PollTry, CInv, TypeOK, core, Counted, Prepared, HbmOn,
             Asking, InitLabels
    <2>3. QED
      BY <2>1, <2>2 DEF Polls
  <1>5. QED
    BY <1>3, <1>4 DEF CInv

\* The accesses of init.
LEMMA InitKeeps ==
  ASSUME CInv, NEW c \in Clients, NEW reply \in Replies,
         \/ ReleaseMicroblaze(c, reply)
         \/ CheckRegMapId(c, reply)
         \/ EnableHbmRead(c, reply)
         \/ EnableHbmWrite(c, reply)
  PROVE  CInv'
  <1> USE DEF CInv, TypeOK, core, Access, Landed, Counted, Prepared, HbmOn, Asking,
              Labels, InitLabels, CallLabels, Results, Bits
  <1>1. CASE ReleaseMicroblaze(c, reply)
    <2>1. UNCHANGED <<ctl, tries, left, got, control, mbox, error, up, supported>>
      BY <1>1 DEF ReleaseMicroblaze
    <2>2. released' \in BOOLEAN
      BY <1>1 DEF ReleaseMicroblaze
    <2>3. pc[c] = "reset_n" /\ (Goto(c, "host_status") \/ Fail(c))
      BY <1>1 DEF ReleaseMicroblaze
    <2>4. QED
      BY <2>1, <2>2, <2>3, FlowTyped
  <1>2. CASE CheckRegMapId(c, reply)
    <2>1. UNCHANGED <<ctl, tries, left, got, control, mbox, error, released, up, supported>>
      BY <1>2 DEF CheckRegMapId
    <2>2. pc[c] = "reg_map" /\ (Goto(c, "hbm_read") \/ Fail(c))
      BY <1>2 DEF CheckRegMapId
    <2>3. Goto(c, "hbm_read") /\ ~Fail(c) => supported
      BY <1>2 DEF CheckRegMapId
    <2>4. CASE Fail(c)
      BY <2>1, <2>2, <2>4, FlowTyped
    <2>5. CASE Goto(c, "hbm_read") /\ ~Fail(c)
      BY <2>1, <2>2, <2>3, <2>5, FlowTyped
    <2>6. QED
      BY <2>2, <2>4, <2>5
  <1>3. CASE EnableHbmRead(c, reply)
    BY <1>3, FlowTyped DEF EnableHbmRead, ReadControl
  <1>4. CASE EnableHbmWrite(c, reply)
    BY <1>4, FlowTyped DEF EnableHbmWrite, WriteControl
  <1>5. QED
    BY <1>1, <1>2, <1>3, <1>4

\* The accesses of get_card_info.
LEMMA CardInfoKeeps ==
  ASSUME CInv, NEW c \in Clients, NEW reply \in Replies,
         \/ MailboxAvailable(c, reply)
         \/ GetMailboxOffset(c, reply)
         \/ WriteRequest(c, reply)
         \/ SubmitRead(c, reply)
         \/ SubmitWrite(c, reply)
         \/ CheckHostMsgError(c, reply)
         \/ ReadLength(c, reply)
         \/ ReadPayload(c, reply)
  PROVE  CInv'
  <1> USE DEF CInv, TypeOK, core, Access, Landed, Counted, Prepared, HbmOn, Asking,
              Labels, InitLabels, CallLabels, Results, Bits
  <1>1. CASE MailboxAvailable(c, reply)
    BY <1>1, FlowTyped DEF MailboxAvailable
  <1>2. CASE GetMailboxOffset(c, reply)
    BY <1>2, FlowTyped DEF GetMailboxOffset
  <1>3. CASE WriteRequest(c, reply)
    BY <1>3, FlowTyped DEF WriteRequest, Request
  <1>4. CASE SubmitRead(c, reply)
    BY <1>4, FlowTyped DEF SubmitRead, ReadControl
  <1>5. CASE SubmitWrite(c, reply)
    BY <1>5, FlowTyped DEF SubmitWrite, WriteControl
  <1>6. CASE CheckHostMsgError(c, reply)
    BY <1>6, FlowTyped DEF CheckHostMsgError
  <1>7. CASE ReadLength(c, reply)
    BY <1>7, FlowTyped, CardLenAssumption DEF ReadLength
  <1>8. CASE ReadPayload(c, reply)
    BY <1>8, FlowTyped, CardLenAssumption DEF ReadPayload
  <1>9. QED
    BY <1>1, <1>2, <1>3, <1>4, <1>5, <1>6, <1>7, <1>8

\* The accesses of reset_sensor_max_avg, the start of a call, the end of a process.
LEMMA RestKeeps ==
  ASSUME CInv, NEW c \in Clients, NEW reply \in Replies,
         \/ ResetMaxAvgRead(c, reply)
         \/ ResetMaxAvgWrite(c, reply)
         \/ StartInit(c)
         \/ StartCardInfo(c)
         \/ StartResetMaxAvg(c)
         \/ Die(c)
  PROVE  CInv'
  <1> USE DEF CInv, TypeOK, core, Access, Landed, Counted, Prepared, HbmOn, Asking,
              Labels, InitLabels, CallLabels, Results, Bits
  <1>1. CASE ResetMaxAvgRead(c, reply)
    BY <1>1, FlowTyped DEF ResetMaxAvgRead, ReadControl
  <1>2. CASE ResetMaxAvgWrite(c, reply)
    BY <1>2, FlowTyped DEF ResetMaxAvgWrite, WriteControl
  <1>3. CASE StartInit(c)
    BY <1>3, FlowTyped DEF StartInit
  <1>4. CASE StartCardInfo(c) \/ StartResetMaxAvg(c)
    <2>1. TypeOK'
      <3>1. CASE StartCardInfo(c)
        BY <3>1, CardLenAssumption DEF StartCardInfo
      <3>2. CASE StartResetMaxAvg(c)
        BY <3>2, CardLenAssumption DEF StartResetMaxAvg
      <3>3. QED
        BY <1>4, <3>1, <3>2
    <2>2. \A d \in Clients : Counted(d)' /\ Prepared(d)'
      BY <1>4 DEF StartCardInfo, StartResetMaxAvg
    <2>3. QED
      BY <2>1, <2>2
  <1>5. CASE Die(c)
    <2>1. TypeOK'
      BY <1>5, PollTriesAssumption, CardLenAssumption DEF Die
    <2>2. \A d \in Clients : Counted(d)' /\ Prepared(d)'
      BY <1>5, CardLenAssumption DEF Die
    <2>3. QED
      BY <2>1, <2>2
  <1>6. QED
    BY <1>1, <1>2, <1>3, <1>4, <1>5

\* The firmware never clears the bit that enables HBM monitoring.
LEMMA FirmwareKeeps ==
  ASSUME CInv, Boot \/ Answer \/ Reject \/ ResetReadings
  PROVE  CInv' /\ (HbmOn => HbmOn')
  <1>1. /\ UNCHANGED <<client, supported>>
        /\ up => up'
        /\ HbmOn => HbmOn'
    BY DEF Boot, Answer, Reject, ResetReadings, HbmOn
  <1>2. /\ control' \in SUBSET Bits
        /\ mbox' \in [len : {0, CardLen}, data : BOOLEAN]
    <2>1. control \in SUBSET Bits /\ mbox \in [len : {0, CardLen}, data : BOOLEAN]
      BY DEF CInv, TypeOK
    <2>2. [len |-> CardLen, data |-> TRUE] \in [len : {0, CardLen}, data : BOOLEAN]
      OBVIOUS
    <2>3. /\ control' = control \/ control' = control \ {"mailbox_status"}
             \/ control' = control \ {"max_avg_reset"}
          /\ mbox' = mbox \/ mbox' = [len |-> CardLen, data |-> TRUE]
      BY DEF Boot, Answer, Reject, ResetReadings
    <2>4. QED
      BY <2>1, <2>2, <2>3
  <1>3. error' \in BOOLEAN /\ released' \in BOOLEAN /\ up' \in BOOLEAN
    BY Zenon DEF Boot, Answer, Reject, ResetReadings, CInv, TypeOK
  <1>4. TypeOK'
    BY <1>1, <1>2, <1>3 DEF CInv, TypeOK, client
  <1>5. \A c \in Clients : Counted(c)' /\ Prepared(c)'
    BY <1>1 DEF CInv, Counted, Prepared, HbmOn, client
  <1>6. QED
    BY <1>1, <1>4, <1>5 DEF CInv

\* Every step, of whichever process and of the firmware, keeps the invariant.
LEMMA CInvInductive == CInv /\ [Next]_vars => CInv'
  <1> SUFFICES ASSUME CInv, [Next]_vars PROVE CInv'
    OBVIOUS
  <1>1. CASE Boot \/ Answer \/ Reject \/ ResetReadings
    BY <1>1, FirmwareKeeps
  <1>2. ASSUME NEW c \in Clients, Step(c) \/ Fault(c) \/ StartCardInfo(c) \/ StartResetMaxAvg(c)
        PROVE  CInv'
    <2>1. ASSUME NEW reply \in Replies, Accesses(c, reply) PROVE CInv'
      BY <2>1, InitKeeps, CardInfoKeeps, RestKeeps DEF Accesses
    <2>2. CASE StartInit(c) \/ StartCardInfo(c) \/ StartResetMaxAvg(c) \/ Die(c)
      <3>1. "ok" \in Replies
        BY DEF Replies
      <3>2. QED
        BY <2>2, <3>1, RestKeeps
    <2>3. ASSUME NEW readOk \in BOOLEAN, Polls(c, readOk) PROVE CInv'
      BY <2>3, PollsKeep
    <2>4. QED
      BY <1>2, <2>1, <2>2, <2>3, ClientSteps
  <1>3. CASE UNCHANGED vars
    BY <1>3 DEF CInv, TypeOK, Counted, Prepared, HbmOn, vars, client, core
  <1>4. QED
    BY <1>1, <1>2, <1>3 DEF Next

\* The inductive invariant holds throughout.
THEOREM CInvHolds == Spec => []CInv
  <1>1. Init => CInv
    <2> SUFFICES ASSUME Init PROVE CInv
      OBVIOUS
    <2>1. /\ \A c \in Clients : pc[c] = "dead" /\ left[c] = 0 /\ got[c] = 0
          /\ pc \in [Clients -> Labels] /\ result \in [Clients -> Results]
          /\ ctl \in [Clients -> SUBSET Bits] /\ control \in SUBSET Bits
      BY DEF Init, Labels, Results
    <2>2. /\ tries \in [Clients -> 0 .. PollTries - 1]
          /\ left \in [Clients -> 0 .. CardLen] /\ got \in [Clients -> 0 .. CardLen]
      BY CardLenAssumption, PollTriesAssumption DEF Init
    <2>3. mbox \in [len : {0, CardLen}, data : BOOLEAN]
      BY DEF Init, Request
    <2>4. error \in BOOLEAN /\ released \in BOOLEAN /\ up \in BOOLEAN /\ supported \in BOOLEAN
      BY Zenon DEF Init
    <2>5. \A c \in Clients : Counted(c) /\ Prepared(c)
      <3>1. \A c \in Clients : Counted(c)
        <4>1. \A c \in Clients : left[c] = 0 /\ got[c] = 0
          BY <2>1
        <4>2. 0 + 0 <= CardLen
          BY CardLenAssumption
        <4>3. QED
          BY <4>1, <4>2 DEF Counted
      <3>2. \A c \in Clients : Prepared(c)
        BY <2>1 DEF Prepared
      <3>3. QED
        BY <3>1, <3>2
    <2>6. QED
      BY <2>1, <2>2, <2>3, <2>4, <2>5 DEF CInv, TypeOK
  <1>2. QED
    BY <1>1, CInvInductive, PTL DEF Spec

\* No order of accesses, polls, faults and answers takes a variable out of its
\* type: in particular no process ever reads more than the card's information.
THEOREM MailboxTypeCorrect == Spec => []TypeOK
  <1>1. CInv => TypeOK
    BY DEF CInv
  <1>2. QED
    BY <1>1, CInvHolds, PTL

\* What init establishes for one process, no step of any other takes away.
THEOREM InitStaysDone == Spec => []InitIsDone
  <1>1. CInv => InitIsDone
    BY DEF CInv, Prepared, HbmOn, InitIsDone
  <1>2. QED
    BY <1>1, CInvHolds, PTL

\* No read-modify-write of Control by any process clears the bit that init set.
THEOREM MonitoringIsKept == Spec => MonitoringStays
  <1>1. ASSUME CInv, [Next]_vars, HbmOn PROVE HbmOn'
    <2>1. CASE Boot \/ Answer \/ Reject \/ ResetReadings
      BY <1>1, <2>1, FirmwareKeeps
    <2>2. CASE control' = control
      BY <1>1, <2>2 DEF HbmOn
    <2>3. ASSUME NEW c \in Clients, NEW reply \in Replies,
                 \/ EnableHbmWrite(c, reply)
                 \/ SubmitWrite(c, reply)
                 \/ ResetMaxAvgWrite(c, reply)
          PROVE  HbmOn'
      BY <1>1, <2>3 DEF EnableHbmWrite, SubmitWrite, ResetMaxAvgWrite, WriteControl, Access,
                        Landed, CInv, Prepared, HbmOn
    <2>4. ASSUME NEW c \in Clients, Step(c) \/ Fault(c) \/ StartCardInfo(c) \/ StartResetMaxAvg(c)
          PROVE  \/ control' = control
                 \/ \E reply \in Replies : \/ EnableHbmWrite(c, reply)
                                           \/ SubmitWrite(c, reply)
                                           \/ ResetMaxAvgWrite(c, reply)
      BY <2>4, ClientSteps
         DEF core, Accesses, Polls, PollTry, StartInit, Die, StartCardInfo, StartResetMaxAvg,
             ReleaseMicroblaze, CheckRegMapId, EnableHbmRead, MailboxAvailable, GetMailboxOffset,
             WriteRequest, SubmitRead, CheckHostMsgError, ReadLength, ReadPayload,
             ResetMaxAvgRead, ReadControl, ExpectReadyHostStatus, AwaitAnswer
    <2>5. QED
      BY <1>1, <2>1, <2>2, <2>3, <2>4 DEF Next, vars, core
  <1>2. CInv /\ [Next]_vars => [HbmOn => HbmOn']_vars
    BY <1>1
  <1>3. QED
    BY <1>2, CInvHolds, PTL DEF Spec, MonitoringStays, HbmOn

-----------------------------------------------------------------------------
(* What a request is answered with, for one process at a time *)

\* One process at a time deals with the CMS.  Nothing in the code enforces it.
OneProcess == \A c, d \in Clients : c = d

Pending  == "mailbox_status" \in control
Answered == mbox.len = CardLen /\ mbox.data

\* A call writes its request into a free mailbox, and gets past the poll and the
\* error register only with the answer in it.
Exchange(c) ==
  /\ pc[c] \in {"offset", "request"} => ~Pending
  /\ pc[c] = "mbox_poll" => Pending \/ error \/ Answered
  /\ pc[c] = "host_error" => error \/ Answered
  /\ pc[c] \in {"length", "payload"} => Answered
  /\ pc[c] = "payload" => left[c] + got[c] = CardLen
  /\ result[c] = "info" => pc[c] = "ready" /\ got[c] = CardLen /\ mbox.data
  /\ pc[c] \in {"host_error", "length", "payload"} => ~Pending
  /\ pc[c] \in {"hbm_write", "mbox_write", "max_write"} /\ Pending => "mailbox_status" \in ctl[c]

EInv == CInv /\ \A c \in Clients : Exchange(c)

\* A failed access is over, whatever it did.
LEMMA ExchangeFails ==
  ASSUME OneProcess, EInv, NEW c \in Clients, Fail(c), mbox'.data = mbox.data
  PROVE  \A d \in Clients : Exchange(d)'
  BY DEF OneProcess, EInv, CInv, TypeOK, Exchange, Fail, Return, InitLabels

\* The polls.
LEMMA PollsExchange ==
  ASSUME OneProcess, EInv, NEW c \in Clients, NEW readOk \in BOOLEAN, Polls(c, readOk)
  PROVE  \A d \in Clients : Exchange(d)'
  <1>1. UNCHANGED <<ctl, left, got, control, mbox, error>>
    BY DEF Polls, ExpectReadyHostStatus, AwaitAnswer, PollTry, core
  <1>2. CASE Fail(c)
    BY <1>1, <1>2, ExchangeFails
  <1>3. CASE UNCHANGED <<pc, result>>
    BY <1>1, <1>3 DEF EInv, Exchange, Pending, Answered
  <1>4. CASE pc[c] = "host_status" /\ Goto(c, "reg_map")
    BY <1>1, <1>4 DEF OneProcess, EInv, CInv, TypeOK, Exchange, Goto
  <1>5. CASE pc[c] = "mbox_poll" /\ ~Pending /\ Goto(c, "host_error")
    BY <1>1, <1>5 DEF OneProcess, EInv, CInv, TypeOK, Exchange, Goto, Pending, Answered
  <1>6. QED
    BY <1>2, <1>3, <1>4, <1>5
       DEF Polls, ExpectReadyHostStatus, AwaitAnswer, PollTry, Pending

\* Each access, when it succeeds.
LEMMA AccessesExchange ==
  ASSUME OneProcess, EInv, NEW c \in Clients, NEW reply \in Replies, Accesses(c, reply)
  PROVE  \A d \in Clients : Exchange(d)'
  <1>1. mbox'.data = mbox.data
    <2>1. mbox \in [len : {0, CardLen}, data : BOOLEAN]
      BY DEF EInv, CInv, TypeOK
    <2>2. mbox' = mbox \/ mbox' = [mbox EXCEPT !.len = Request.len]
      BY DEF Accesses, ReleaseMicroblaze, CheckRegMapId, EnableHbmRead, EnableHbmWrite,
             MailboxAvailable, GetMailboxOffset, WriteRequest, SubmitRead, SubmitWrite,
             CheckHostMsgError, ReadLength, ReadPayload, ResetMaxAvgRead, ResetMaxAvgWrite,
             ReadControl, WriteControl, Landed, core
    <2>3. QED
      BY <2>1, <2>2
  <1>2. CASE Fail(c)
    BY <1>1, <1>2, ExchangeFails
  <1>3. CASE ~Fail(c)
    <2>1. reply = "ok"
      BY <1>3 DEF Accesses, ReleaseMicroblaze, CheckRegMapId, EnableHbmRead, EnableHbmWrite,
             MailboxAvailable, GetMailboxOffset, WriteRequest, SubmitRead, SubmitWrite,
             CheckHostMsgError, ReadLength, ReadPayload, ResetMaxAvgRead, ResetMaxAvgWrite,
             ReadControl, WriteControl, Access
    <2> USE <1>3, <2>1 DEF OneProcess, EInv, CInv, TypeOK, Exchange, Goto, Return, Access,
                           Pending, Answered, core, Landed
    <2>2. CASE ReleaseMicroblaze(c, reply) \/ CheckRegMapId(c, reply)
      BY <2>2 DEF ReleaseMicroblaze, CheckRegMapId
    <2>3. CASE EnableHbmRead(c, reply) \/ SubmitRead(c, reply) \/ ResetMaxAvgRead(c, reply)
      BY <2>3 DEF EnableHbmRead, SubmitRead, ResetMaxAvgRead, ReadControl
    <2>4. CASE EnableHbmWrite(c, reply) \/ ResetMaxAvgWrite(c, reply)
      BY <2>4 DEF EnableHbmWrite, ResetMaxAvgWrite, WriteControl
    <2>5. CASE MailboxAvailable(c, reply)
      BY <2>5 DEF MailboxAvailable
    <2>6. CASE GetMailboxOffset(c, reply)
      BY <2>6 DEF GetMailboxOffset
    <2>7. CASE WriteRequest(c, reply)
      BY <1>1, <2>7 DEF WriteRequest
    <2>8. CASE SubmitWrite(c, reply)
      BY <2>8 DEF SubmitWrite, WriteControl
    <2>9. CASE CheckHostMsgError(c, reply)
      BY <2>9 DEF CheckHostMsgError
    <2>10. CASE ReadLength(c, reply)
      BY <2>10, CardLenAssumption DEF ReadLength, Counted, Asking
    <2>11. CASE ReadPayload(c, reply)
      BY <2>11, CardLenAssumption DEF ReadPayload, Counted
    <2>12. QED
      BY <2>2, <2>3, <2>4, <2>5, <2>6, <2>7, <2>8, <2>9, <2>10, <2>11 DEF Accesses
  <1>4. QED
    BY <1>2, <1>3

\* No answer, error, late answer or repeated request breaks the exchange.
LEMMA EInvInductive ==
  ASSUME OneProcess, EInv, CInv', [Next]_vars
  PROVE  EInv'
  <1> USE DEF OneProcess, EInv, CInv, TypeOK, Exchange, Pending, Answered, client, core
  <1>1. CASE Boot \/ Answer \/ Reject \/ ResetReadings
    <2>1. CASE Boot
      BY <2>1 DEF Boot
    <2>2. CASE Answer
      BY <2>2 DEF Answer
    <2>3. CASE Reject
      BY <2>3 DEF Reject
    <2>4. CASE ResetReadings
      BY <2>4 DEF ResetReadings
    <2>5. QED
      BY <1>1, <2>1, <2>2, <2>3, <2>4
  <1>2. ASSUME NEW c \in Clients, Step(c) \/ Fault(c) \/ StartCardInfo(c) \/ StartResetMaxAvg(c)
        PROVE  EInv'
    <2>1. CASE StartInit(c)
      BY <2>1 DEF StartInit, Goto
    <2>2. CASE StartCardInfo(c)
      BY <2>2 DEF StartCardInfo
    <2>3. CASE StartResetMaxAvg(c)
      BY <2>3 DEF StartResetMaxAvg
    <2>4. CASE Die(c)
      BY <2>4 DEF Die
    <2>5. ASSUME NEW reply \in Replies, Accesses(c, reply) PROVE EInv'
      BY <2>5, AccessesExchange DEF EInv
    <2>6. ASSUME NEW readOk \in BOOLEAN, Polls(c, readOk) PROVE EInv'
      BY <2>6, PollsExchange DEF EInv
    <2>7. QED
      BY <1>2, <2>1, <2>2, <2>3, <2>4, <2>5, <2>6, ClientSteps
  <1>3. CASE UNCHANGED vars
    BY <1>3 DEF vars
  <1>4. QED
    BY <1>1, <1>2, <1>3 DEF Next

\* The invariant of the exchange holds throughout.
THEOREM EInvHolds ==
  ASSUME OneProcess
  PROVE  Spec => []EInv
  <1>1. Init /\ CInv => EInv
    BY DEF Init, EInv, Exchange
  <1>2. EInv /\ CInv' /\ [Next]_vars => EInv'
    BY EInvInductive
  <1>3. QED
    BY <1>1, <1>2, CInvHolds, PTL DEF Spec

\* get_card_info returns Ok only with all of the card's answer, whatever earlier
\* calls left in the mailbox.
THEOREM InfoIsAllOfIt ==
  ASSUME OneProcess
  PROVE  Spec => []InfoIsCards
  <1>1. EInv => InfoIsCards
    BY DEF EInv, Exchange, InfoIsCards
  <1>2. QED
    BY <1>1, EInvHolds, PTL

\* No request is written over one that the firmware still has to answer.
THEOREM RequestsAreSeparate ==
  ASSUME OneProcess
  PROVE  Spec => RequestsDoNotCollide
  <1>1. EInv => \A c \in Clients : pc[c] = "request" => "mailbox_status" \notin control
    BY DEF EInv, Exchange, Pending
  <1>2. EInv /\ [Next]_vars =>
          [\A c \in Clients : pc[c] = "request" /\ pc'[c] = "mbox_read"
             => "mailbox_status" \notin control]_vars
    BY <1>1
  <1>3. QED
    BY <1>2, EInvHolds, PTL DEF Spec, RequestsDoNotCollide

-----------------------------------------------------------------------------
(* The mailbox implements CardService *)

Informed == {c \in Clients : result[c] = "info"}

\* A step that leaves the mailbox alone takes the answer or forgets it.
LEMMA OthersServe ==
  ASSUME EInv, NEW c \in Clients, UNCHANGED <<mbox, control>>,
         \A d \in Clients \ {c} : result'[d] = result[d],
         result'[c] = "info" => result[c] = "info" \/ (Answered /\ ~Pending)
  PROVE  [Service!Next]_(Service!vars)
  <1>1. Letter' = Letter /\ ("mailbox_status" \in control)' = ("mailbox_status" \in control)
    BY DEF Letter
  <1>2. CASE result'[c] # "info"
    <2>1. Informed' = Informed \ {c}
      BY <1>2 DEF Informed
    <2>2. Service!Forget(c)
      BY <1>1, <2>1 DEF Service!Forget, Informed
    <2>3. QED
      BY <2>2 DEF Service!Next
  <1>3. CASE result'[c] = "info" /\ result[c] = "info"
    <2>1. Informed' = Informed
      BY <1>3 DEF Informed
    <2>2. QED
      BY <1>1, <2>1 DEF Service!vars, Informed
  <1>4. CASE result'[c] = "info" /\ Answered /\ ~Pending
    <2>1. Informed' = Informed \cup {c}
      BY <1>4 DEF Informed
    <2>2. Letter = "card" /\ ("mailbox_status" \in control) = FALSE
      BY <1>4, CardLenAssumption DEF Letter, Answered, Pending
    <2>3. Service!Take(c)
      BY <1>1, <2>1, <2>2 DEF Service!Take, Informed
    <2>4. QED
      BY <2>3 DEF Service!Next
  <1>5. QED
    BY <1>2, <1>3, <1>4

\* A step that writes into the mailbox or to Control is none of those.
LEMMA WritesServe ==
  ASSUME EInv, NEW c \in Clients, \A d \in Clients \ {c} : result'[d] = result[d],
         result[c] # "info", result'[c] # "info",
         \/ Letter' = Letter /\ (Pending => Pending')
         \/ Letter' = "request" /\ ~Pending /\ ~Pending'
  PROVE  [Service!Next]_(Service!vars)
  <1>1. Informed' = Informed
    BY DEF Informed
  <1>2. CASE Letter' = Letter /\ Pending'
    <2>1. Service!Submit
      BY <1>1, <1>2 DEF Service!Submit, Pending, Informed
    <2>2. QED
      BY <2>1 DEF Service!Next
  <1>3. CASE Letter' = Letter /\ ~Pending /\ ~Pending'
    BY <1>1, <1>3 DEF Service!vars, Pending, Informed
  <1>4. CASE Letter' = "request" /\ ~Pending /\ ~Pending'
    <2>1. Service!Write
      BY <1>1, <1>4 DEF Service!Write, Pending, Informed
    <2>2. QED
      BY <2>1 DEF Service!Next
  <1>5. QED
    BY <1>2, <1>3, <1>4

\* The firmware's steps.
LEMMA FirmwareServes ==
  ASSUME EInv, Boot \/ Answer \/ Reject \/ ResetReadings
  PROVE  [Service!Next]_(Service!vars)
  <1>1. Informed' = Informed
    BY DEF Boot, Answer, Reject, ResetReadings, client, Informed
  <1>2. CASE Boot \/ ResetReadings
    <2>1. Letter' = Letter /\ ("mailbox_status" \in control)' = ("mailbox_status" \in control)
      BY <1>2 DEF Boot, ResetReadings, Letter
    <2>2. QED
      BY <1>1, <2>1 DEF Service!vars, Informed
  <1>3. CASE Answer
    <2>1. Letter' = "card"
      BY <1>3, CardLenAssumption DEF Answer, Letter
    <2>2. Service!Answer
      BY <1>1, <1>3, <2>1 DEF Answer, Service!Answer, Informed
    <2>3. QED
      BY <2>2 DEF Service!Next
  <1>4. CASE Reject
    <2>1. Service!Refuse
      BY <1>1, <1>4 DEF Reject, Service!Refuse, Letter, Informed
    <2>2. QED
      BY <2>1 DEF Service!Next
  <1>5. QED
    BY <1>2, <1>3, <1>4

\* The register accesses of a call.
LEMMA AccessesServe ==
  ASSUME EInv, NEW c \in Clients, NEW reply \in Replies, Accesses(c, reply)
  PROVE  [Service!Next]_(Service!vars)
  <1>1. pc[c] # "ready" /\ result[c] # "info"
    BY DEF EInv, Exchange, Accesses, ReleaseMicroblaze, CheckRegMapId, EnableHbmRead,
           EnableHbmWrite, MailboxAvailable, GetMailboxOffset, WriteRequest, SubmitRead, SubmitWrite,
           CheckHostMsgError, ReadLength, ReadPayload, ResetMaxAvgRead, ResetMaxAvgWrite,
           ReadControl, WriteControl, Access
  <1>2. \A d \in Clients \ {c} : result'[d] = result[d]
    BY DEF EInv, CInv, TypeOK, Accesses, ReleaseMicroblaze, CheckRegMapId, EnableHbmRead,
           EnableHbmWrite, MailboxAvailable, GetMailboxOffset, WriteRequest, SubmitRead, SubmitWrite,
           CheckHostMsgError, ReadLength, ReadPayload, ResetMaxAvgRead, ResetMaxAvgWrite,
           ReadControl, WriteControl, Access, Goto, Fail, Return
  <1>3. CASE WriteRequest(c, reply)
    <2>1. result'[c] # "info"
      BY <1>1, <1>3 DEF EInv, CInv, TypeOK, WriteRequest, Access, Goto, Fail, Return
    <2>2. ~Pending /\ control' = control
      BY <1>3 DEF EInv, Exchange, WriteRequest, Access
    <2>3. Letter' = Letter \/ Letter' = "request"
      BY <1>3 DEF EInv, CInv, TypeOK, WriteRequest, Landed, Request, Letter
    <2>4. QED
      BY <1>1, <1>2, <2>1, <2>2, <2>3, WritesServe DEF Pending
  <1>4. CASE EnableHbmWrite(c, reply) \/ SubmitWrite(c, reply) \/ ResetMaxAvgWrite(c, reply)
    <2>1. result'[c] # "info" /\ Letter' = Letter
      BY <1>1, <1>4 DEF EInv, CInv, TypeOK, EnableHbmWrite, SubmitWrite, ResetMaxAvgWrite,
                        WriteControl, Access, Goto, Fail, Return, Letter
    <2>2. Pending => Pending'
      BY <1>4 DEF EInv, Exchange, EnableHbmWrite, SubmitWrite, ResetMaxAvgWrite,
                  WriteControl, Access, Landed, Pending
    <2>3. QED
      BY <1>1, <1>2, <2>1, <2>2, WritesServe
  <1>5. CASE ReadLength(c, reply) \/ ReadPayload(c, reply)
    <2>1. UNCHANGED <<mbox, control>>
      BY <1>5 DEF ReadLength, ReadPayload, core
    <2>2. Answered /\ ~Pending
      BY <1>5 DEF EInv, Exchange, ReadLength, ReadPayload, Access
    <2>3. QED
      BY <1>2, <2>1, <2>2, OthersServe
  <1>6. CASE /\ UNCHANGED <<mbox, control>>
             /\ (\E l : Goto(c, l)) \/ Fail(c)
    <2>1. result'[c] # "info"
      BY <1>1, <1>6 DEF EInv, CInv, TypeOK, Goto, Fail, Return
    <2>2. QED
      BY <1>2, <1>6, <2>1, OthersServe
  <1>7. QED
    BY <1>3, <1>4, <1>5, <1>6
       DEF Accesses, ReleaseMicroblaze, CheckRegMapId, EnableHbmRead, MailboxAvailable,
           GetMailboxOffset, SubmitRead, CheckHostMsgError, ResetMaxAvgRead, ReadControl, Access, core

\* A process that drives the mailbox with requests, polls, retries and crashes
\* implements the service of module CardService.
THEOREM ImplementsCardService ==
  ASSUME OneProcess
  PROVE  Spec => KeepsService
  <1>1. Init => Service!Init
    BY DEF Init, Service!Init, Letter, Request
  <1>2. ASSUME EInv, [Next]_vars PROVE [Service!Next]_(Service!vars)
    <2>1. CASE UNCHANGED vars
      BY <2>1 DEF vars, client, core, Letter, Service!vars
    <2>2. CASE Boot \/ Answer \/ Reject \/ ResetReadings
      BY <1>2, <2>2, FirmwareServes
    <2>3. ASSUME NEW c \in Clients, Step(c) \/ Fault(c) \/ StartCardInfo(c) \/ StartResetMaxAvg(c)
          PROVE  [Service!Next]_(Service!vars)
      <3>1. ASSUME NEW reply \in Replies, Accesses(c, reply) PROVE [Service!Next]_(Service!vars)
        BY <1>2, <3>1, AccessesServe
      <3>2. CASE \/ StartInit(c) \/ StartCardInfo(c) \/ StartResetMaxAvg(c) \/ Die(c)
                 \/ \E readOk \in BOOLEAN : Polls(c, readOk)
        <4>1. UNCHANGED <<mbox, control>>
          BY <3>2 DEF StartInit, StartCardInfo, StartResetMaxAvg, Die, Polls,
                      ExpectReadyHostStatus, AwaitAnswer, PollTry, core
        <4>2. \A d \in Clients \ {c} : result'[d] = result[d]
          BY <1>2, <3>2
             DEF EInv, CInv, TypeOK, StartInit, StartCardInfo, StartResetMaxAvg, Die, Polls,
                 ExpectReadyHostStatus, AwaitAnswer, PollTry, Goto, Fail, Return
        <4>3. result'[c] = "info" => result[c] = "info"
          BY <1>2, <3>2
             DEF EInv, CInv, TypeOK, StartInit, StartCardInfo, StartResetMaxAvg, Die, Polls,
                 ExpectReadyHostStatus, AwaitAnswer, PollTry, Goto, Fail, Return
        <4>4. QED
          BY <1>2, <4>1, <4>2, <4>3, OthersServe
      <3>3. QED
        BY <2>3, <3>1, <3>2, ClientSteps
    <2>4. QED
      BY <1>2, <2>1, <2>2, <2>3 DEF Next
  <1>3. EInv /\ [Next]_vars => [Service!Next]_(Service!vars)
    BY <1>2
  <1>4. QED
    BY <1>1, <1>3, EInvHolds, PTL DEF Spec, KeepsService, Service!Spec
=============================================================================
