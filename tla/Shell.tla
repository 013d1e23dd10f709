---------------------------------- MODULE Shell ----------------------------------
(***************************************************************************)
(* The two users of the HBICAP core of one shell together: processes call  *)
(* program_user_image (module ProgramUserImage) and the readback, abort    *)
(* and reset operations of HbicapOps (module HbicapReadback), in any       *)
(* order.  They share the core, its FIFOs and the port behind it: what a   *)
(* failed or dead call of one leaves there, the next call of the other     *)
(* finds.                                                                  *)
(***************************************************************************)
EXTENDS HbicapReadback

CONSTANTS Images, Bytes, NoImage, DebugLog     \* as in ProgramUserImage

ASSUME ImagesAssumption ==
  /\ NoImage \notin Images /\ Bytes \in [Images -> Nat]
  /\ \E i \in Images : Bytes[i] > 0
ASSUME DebugAssumption == DebugLog \in BOOLEAN

VARIABLES
  upc, image, usent, utries, uresult,   \* the calls of program_user_image
  fw,                                   \* the two firewalls
  part                                  \* the user partition

U == INSTANCE ProgramUserImage
       WITH pc <- upc, sent <- usent, tries <- utries, result <- uresult

uclient   == <<upc, image, usent, utries, uresult>>
shellVars == <<vars, uclient, fw, part>>

ShellInit == Init /\ U!Init

-----------------------------------------------------------------------------
(* The port and the partition behind the one core *)

IsImageWord(w) == w \in U!Words
Complete(p)    == \E i \in Images : p = U!Word(i, U!NBeats(i))

\* A word of an image: it desynchronises the port when it completes the image,
\* and otherwise leaves it in the middle of the data.
MoveImageWord(w) ==
  /\ IsImageWord(w)
  /\ part' = U!Received(part, w)
  /\ icap' = IF Complete(part') THEN IcapReset
             ELSE [sync |-> TRUE, next |-> "data", reg |-> NoReg]

\* A word of a readback: the port takes it for data in the middle of an image,
\* and the image is spoilt.
MoveU32(w) ==
  /\ ~IsImageWord(w)
  /\ icap' = Received(icap, w.u32)
  /\ part' = IF icap.next = "data" THEN U!Garbage ELSE part

ShellMove ==
  /\ CanMove(hb)
  /\ MoveImageWord(Head(hb.fifo)) \/ MoveU32(Head(hb.fifo))
  /\ hb' = Move(hb)
  /\ UNCHANGED <<client, uclient, fw>>

\* An abort in the middle of an image leaves half of it in the partition.
ShellAbortFinishes ==
  /\ AbortFinishes
  /\ part' = IF icap.next = "data" THEN U!Garbage ELSE part
  /\ UNCHANGED <<uclient, fw>>

ShellDevice ==
  \/ ShellMove
  \/ ShellAbortFinishes
  \/ (IcapFetch \/ ReadClears \/ AbortClears) /\ UNCHANGED <<uclient, fw, part>>

-----------------------------------------------------------------------------
(* A process makes one call at a time *)

\* A call of program_user_image.  One that fails leaves the core in doubt, as
\* any other call does.
Program(c, call) ==
  /\ pc[c] = "out"
  /\ call
  /\ clean' = [clean EXCEPT ![c] = @ /\ uresult'[c] \notin {"err", "crash"}]
  /\ result' = [result EXCEPT ![c] = "none"]
  /\ UNCHANGED <<pc, reg, got, sent, tries, icap>>

\* A call of the readback driver.
ReadBack(c, call) ==
  /\ upc[c] = "out"
  /\ call
  /\ uresult' = [uresult EXCEPT ![c] = "none"]
  /\ UNCHANGED <<upc, image, usent, utries, fw, part>>

BeginProgram(c) == \E i \in Images : U!Begin(c, i)

ShellStep(c) == Program(c, U!Step(c)) \/ ReadBack(c, Step(c))

ShellNext ==
  \/ ShellDevice
  \/ \E c \in Clients :
       \/ Program(c, BeginProgram(c) \/ U!Step(c) \/ U!Fault(c))
       \/ ReadBack(c, Start(c) \/ Step(c) \/ Fault(c))

ShellFairness == WF_shellVars(ShellDevice) /\ \A c \in Clients : WF_shellVars(ShellStep(c))

ShellSpec == ShellInit /\ [][ShellNext]_shellVars /\ ShellFairness

\* The operator comes back to each of the two, and aborts what is in doubt.
BeginReadback(c) == \E r \in Regs : StartReadback(c, r)
BeginAbort(c)    == ~clean[c] /\ StartAborting(c)
ShellAgainFairness ==
  \A c \in Clients :
    /\ SF_shellVars(Program(c, BeginProgram(c)))
    /\ SF_shellVars(ReadBack(c, BeginReadback(c)))
    /\ SF_shellVars(ReadBack(c, BeginAbort(c)))
ShellAgainSpec == ShellSpec /\ ShellAgainFairness
-----------------------------------------------------------------------------
(* Properties *)

\* The values each variable takes: the type invariant of the module.
ShellTypeOK ==
  /\ ClientTypeOK /\ U!ClientTypeOK
  /\ hb \in HbicapType(U!Words \cup U32s, 0 .. NoReg)
  /\ icap \in Ports
  /\ fw \in [U!Firewalls -> U!FirewallType]
  /\ part \in U!Words \cup {U!Garbage}

\* An Ok of program_user_image means a complete image behind open firewalls and
\* a drained core, whatever a readback left in the core before the call.
ProgrammedBetweenReadbacks == U!OkMeansLive

\* No readback writes to the partition, whatever program_user_image left behind
\* in the write FIFO and in the port.
ReadbackLeavesImage ==
  [][(\E c \in Clients : pc[c] \in ReadbackLabels) => part' = part]_shellVars

\* The reconfigurations that hosts see are those of Reconfig, whatever readbacks,
\* aborts and resets ran, failed or died between the calls: a host that reaches
\* the partition finds a complete image there.
KeepsPromiseBetweenReadbacks == U!KeepsPromise

\* From some point on no access fails, no process dies and no poll or transfer
\* expires while the core has a step to make; the processes only program, read
\* back, and abort when they must.
ShellEventuallyWell ==
  <>[][/\ ~TooSlow /\ ~U!TooSlow
       /\ \A c \in Clients :
            /\ ~Broken(c) /\ ~U!Broken(c)
            /\ ~StartReset(c) /\ ~StartWriteProgramming(c)
            /\ ~(clean[c] /\ StartAborting(c))]_shellVars

\* Programming and reading back never lock each other out: whatever failed in
\* one of them, both succeed again and again once the faults are over.
BothAgain ==
  ShellEventuallyWell =>
    \A c \in Clients : []<>(uresult[c] = "ok") /\ []<>(result[c] = "value")
=============================================================================
