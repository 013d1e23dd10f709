# A TLA+ model of Warpshell

Warpshell is an FPGA shell: a static region with PCIe DMA and card management,
and a user partition that a host reprograms at run time. This directory models
the host software in `src/sw/rust` that drives the shell's cores, checks it with
TLC on small instances and proves its central properties with TLAPS for every
instance.

## 1. The system

### Components, their state and their operations

| Component | Source (below `src/sw/rust`) | State | Operations | What makes it correct |
|---|---|---|---|---|
| Shell `xilinx_u55n_xdma_std` | `warpshell/src/shells/xilinx_u55n_xdma_std.rs` | handles of the cores; the card keeps the rest | `new`, `init`, `program_user_image` | the host never reaches a partial image; Ok means the image is live; a failed call can be repeated |
| HBICAP driver and core | `warpshell/src/cores/hbicap.rs` | Size, Control (Read, Abort, ...), Status (Idle), write and read FIFO | `write_bitstream`, `poll_done`, `abort`, `reset`, `read_bitstream`, `read_programming`, `config_logic_reg_readback`, `write_programming` (unfinished) | all words of an image move, in order, and none is left behind |
| AXI firewalls (control and DMA) | `warpshell/src/cores/axi_firewall.rs` | soft-fault request, blocked manager side | `block_mi`, `unblock_mi`, `mi_is_blocked` | blocked while the partition changes; unblock is effective |
| Register polling | `warpshell/src/lib.rs` | tries made | `poll_reg_mask`, `poll_reg_mask_sleep` | ends after n tries; waits for the duration it was given; reports a hit only if the register showed it |
| DMA buffer | `warpshell/src/lib.rs` | aligned allocation | `new`, `extend_from_slice`, slices | stays aligned however it is filled, inside its allocation |
| XDMA transport | `warpshell/src/xdma/mod.rs` | descriptors of the device nodes; two process-wide statics (`OnceCell`) with the channels | open and share the channels; control and DMA read and write | a channel in use is never closed; no descriptor is lost; an error never passes for success |
| CMS driver and firmware | `warpshell/src/cores/cms.rs` | Control, mailbox, HostMsgError, HostStatus, reset | `init`, `get_card_info`, `reset_sensor_max_avg`, sensor getters | Ok means all of the card's answer; no request is overwritten; the mailbox stays usable |
| Card information parser | `warpshell/src/cores/cms.rs` | bytes consumed, items | `CardInfo::try_from` | exactly the card's items, or an error |
| DFX decoupler | `warpshell/src/cores/dfx_decoupler.rs` | Control register: its bit, and the rest that is kept | `enable`, `disable`, status | what an Ok promised holds until the opposite is called, among any threads |
| Command line | `warpshell-cli/src/main.rs` | none | `program`, `get` | every call returns and reports what happened |
| Derive macros, Python scripts, examples, benchmarks | `warpshell-derive`, `src/sw/*.py`, ... | none | straight-line callers | |
| Hardware designs | `src/hw/shells` | | block designs of vendor cores | |

The parts interact through the card's registers only. `program` of the command
line calls `program_user_image`, which polls the HBICAP, aborts it if it is busy,
blocks both firewalls, writes Size, sends the image by DMA, polls for the end and
unblocks the firewalls. `get` calls `init` and then reads sensors or the card's
information over the CMS mailbox. `u55n_regs` reads configuration registers back
through the HBICAP that `program` writes images to. There is no lock anywhere:
several processes may open the card, and the methods take `&self`. Within one
process the threads share the channels, which the first of them opened.

### What is hard

* A call is ten or more register accesses, each of which can fail, and `?`
  leaves the call at once. The card keeps what was written so far, and so it does
  when the process dies. The next call begins from there.
* Polls end by their count. The device may finish right afterwards.
* Poll reads that fail are swallowed and count as tries.
* Processes share the registers. `Control` of the CMS is read, modified and
  written while the firmware clears bits of it.
* Orders that matter: block control, block DMA, transfer, unblock DMA, unblock
  control; inside unblock, the soft fault first.
* One core serves programming and readback. Each begins on whatever a call of the
  other left there, and only `u55n_regs` aborts first.
* Every call of `new` opens the device nodes, also when the statics have channels.
* Units: bytes, words, FIFO depth, periods of a poll, 4096-byte units of a buffer;
  lengths inside the card's information.

`PROJECT.json` lists each hazard at its line with the properties that cover it.

## 2. Modules

| Module | Models |
|---|---|
| `AxiFirewall` | one firewall as a record, an operator per register write |
| `HbicapDevice` | the HBICAP core as a record, an operator per register write, FIFO word and step of the core |
| `ProgramUserImage` | any number of processes in `program_user_image` over both, the failures and crashes, the core's own steps |
| `Reconfig` | abstract specification: the partition is open only on a complete image and changes only while closed |
| `HbicapReadback` | any number of processes in `config_logic_reg_readback`, `abort`, `reset` and `write_programming`, with the core's read side and the ICAP behind it |
| `Shell` | composes `HbicapReadback` and `ProgramUserImage` over one core: images, readbacks, aborts and resets in any order |
| `CmsMailbox` | any number of processes in `init`, `get_card_info` and `reset_sensor_max_avg`, with the firmware |
| `CardService` | abstract specification of the mailbox: a request is not written over while it is being answered, an answer is taken only where there is one |
| `CardInfo` | the parser of the card's information |
| `Channels` | `XilinxU55nXdmaStd::new` and the `OnceCell` channels among the threads of a process |
| `Host` | extends `Channels` by what the threads do with a shell: DMA buffers, decoupler, a poll of a duration |
| `MCProgramUserImage`, `MCHbicapReadback`, `MCShell`, `MCCmsMailbox`, `MCCardInfo`, `MCHost` | instances for TLC |
| `HbicapDevice_proofs`, `ProgramUserImage_proofs`, `HbicapReadback_proofs`, `Shell_proofs`, `CmsMailbox_proofs`, `CardInfo_proofs`, `Host_proofs` | the theorems about the module of that name |

Definitions have the names of the functions they model. Operators named after a
*mutant* in their comment are faulty variants of the definition that follows
them; no specification uses them. They show that each property can fail.

### ProgramUserImage

`pc[c]` is the next register access, poll or DMA step of process `c`. Each of
them is one action, so that everything else runs in between. `hb`, `fw` and
`part` are the card: the HBICAP core, the two firewalls, and the word the
partition received last of an unbroken image. An image of n words is loaded when
`part` is its word n, which is so only if words 1 to n arrived in order with none
missing and none in between.

* *Accesses.* `WriteReg` takes a reply: `ok`; `lost`, an error without effect;
  `late`, an error reported although the write took effect. Both errors return
  from the call, as `?` does.
* *Polls.* `PollTry` is one try of `poll_reg_mask_sleep`. A failed read is a try.
  Since only expiry can be an error of `poll_done`, the arm of
  `program_user_image` for other errors cannot be taken and has no action.
* *DMA.* `DmaWord` delivers one word if the write FIFO has room. `DmaDone` is the
  return of the write, `DmaFails` its error. `DmaStalls` is the time-out of the
  XDMA kernel driver on a core that takes nothing more; the Rust code has none, so
  it is marked external, and so are `SendStalls` and `ReadStalls` of the readback.
* *Images.* Any number of bytes, none included: nothing rejects an empty file.
  At the start some whole image is loaded.
* *Crash.* At any point; the process begins again from the top. A process that
  does not call is `"out"`, so a new process is the same as an old one.
* *Core.* The record of `HbicapDevice`, shared with the readback. It begins to move words when it is idle, has words and has a Size;
  `Idle` is clear until Size words moved. An abort drops the FIFO, and the Abort
  bit clears some time after Idle is set again. These follow the comments and
  register descriptions of `hbicap.rs`; they are marked external.

### Reconfig

`loaded` and `open`, and four actions: close, disturb, complete an image, open.
`Promise` in `ProgramUserImage` instantiates it with the refinement mapping
`loaded <- LoadedImage` and `open <- some firewall passes`.

### HbicapReadback

Accesses, polls, DMA and crashes are as in `ProgramUserImage`, with a DMA read:
it takes the oldest word of the read FIFO, gives up when there is none, and may
fail with or without having taken one. The streams are the words of the code:
`Opening(r)` and `Closing` are built by `Type1Packet` as `u32::from` builds them,
and the port takes the fields out of them again (`Received`): it waits for SYNC,
remembers the register it was asked for, and for a header that writes the
command register takes the next word as its value; DESYNC ends it. A word that
is read is named by the register whose value it is; `NoReg` is what a port
delivers that was asked for nothing. Hardware clears the Read bit some time after
the last word is in the read FIFO, as it clears the Abort bit after Idle. The
ICAP, the read FIFO and the bit follow the comments of `hbicap.rs` and are marked
external. Whether an abort desynchronises a port that receives no image is left
open (`Aborted`).

`write_programming` writes Size for each burst and then reaches `todo!()`, which
panics: `Announce`. Nothing ever sends the words, and nothing in the repository
calls it; the model lets any caller do so.

`AbortFirst` is the discipline of the caller: `u55n_regs` aborts, polls for Done,
and then reads registers back until one fails, which ends the program. `clean[c]`
records that an abort succeeded and nothing failed since.

### Shell

The state of `HbicapReadback` and, as an instance `U`, that of `ProgramUserImage`
over the same `hb`. A process is in at most one of the two kinds of calls. What
is new is the device: the word that leaves the FIFO is a word of an image, which
goes to the partition and puts the port in the middle of data, or a word of a
readback, which the port takes apart unless it is in the middle of data; then it
spoils the image, which `ReadbackLeavesImage` says never happens. An abort in the
middle of data spoils the image too. `program_user_image` has no
discipline of its own, and `clean[c]` is lost when it fails: the readback that
follows it aborts first.

Two assumptions about the part are external: the first word of an image begins an
image whatever the port was doing, since every bitstream begins with a SYNC of
its own, and the end of an image desynchronises the port.

### CmsMailbox

`control` is the set of the bits of Control that are set; `ctl[c]` the value that
process `c` read last, which it writes back with one more bit. `mbox` is the
header word of the mailbox (`len`) and whether data follow it; the request word
has opcode 4 and length 0. `get_card_info` reads `left[c]` bytes in words of
four. The firmware comes up after its reset is released, answers or rejects what
it finds when the bit is set, and clears the bits it dealt with. The register map
is the supported one or not, from the start. What the answer means is left to
`CardInfo`: `"info"` as a result stands for the bytes that are handed to the
parser.

`Service` in `CmsMailbox` instantiates `CardService` with the refinement mapping
`letter <-` what lies in the mailbox, `submitted <-` the bit MailboxStatus, and
`informed <-` the processes whose call returned the information. Nothing in
`CardService` polls, fails or dies.

### CardInfo

Bytes are numbers, since the parser's decisions are about keys, lengths and
terminators. The card sends a sequence of well-formed items and malformed
strings, and the host receives it cut at any byte. One action for each way an
iteration of the loop can go: an item (or its error), too long an item, a slice
that panics, the end. `ItemError` gives the errors in the order of the tests in
`CardInfoItem::try_from`, and `ItemOf` the item; `Encode`, the format that the
firmware writes, is independent of both and serves as the reference. `Fits` says
which values the format has room for.

### Channels and Host

A file is its descriptor, and the kernel hands out the lowest free one, so that a
file closed too early soon names another node. `hand[t]` is what thread `t` has
opened in its call of `new`, `cell` the files in the two statics. `GetOrInit` is
`OnceCell::get_or_init` on a channel that was opened already: the first caller
fills the cell, the files of any other are dropped and with that closed. Each
`open` can fail, at any time. `HostExit` ends the process with all its threads;
the next one begins with empty statics, and the card keeps the decoupler's bit.

`Host` extends this by the operations that are left of a shell's user. A buffer
has the capacity that `aligned_vec` reserves, and loses its alignment when it has
to grow (`Extended`); it is filled as the callers fill it, in one piece or word
by word. The decoupler's `enable` and `disable` are a read and a write of Control
among threads. `claim` is a history variable: what a call that returned Ok
promises, withdrawn when the opposite is called. `control` is the set of the
register's bits, `En` and what else it may hold, which a read and a write back
keep. `Poll` is `poll_reg_mask_sleep` with its number of tries from the duration
(`Tries`): 0 if that is less than a period, and 0 if the number does not fit a
usize.

## 3. Runs

| Run | Instance | Shows |
|---|---|---|
| `program` | 1 process that tries again, images of 2 and 3 words, FIFO of 2, polls of 2 tries, debug log on | type invariant, `ServedImageIntact`, `OkMeansLive`, `IdleMeansDrained`, `CtrlNestsDma`, `ChangesIsolated`, that the calls implement `Reconfig`, `CallsReturn`, and `RetriesSucceed`: no history of failures, time-outs and crashes is beyond repair |
| `program_ragged` | an image of 10 bytes | *violated:* Ok without the last bytes of the image |
| `program_two` | 2 processes | *violated:* Ok although the image never got in |
| `readback` | 1 process that aborts first and goes on, 2 registers, write FIFO of 3, read FIFO of 2, polls of 2 tries, bursts of 2 words | type invariant, `OkIsTheRegister`, `OkLeavesQuiet`, `NothingBeforeReadClears`, `ReadbackAgain` |
| `readback_stale` | 1 process that does not abort first | *violated:* Ok with the word of an earlier readback |
| `shell` | 1 process that programs images of 2 and 3 words and reads 2 registers back in any order, write FIFO of 3, read FIFO of 2 | type invariant, `OkIsTheRegister` also after programming, `ProgrammedBetweenReadbacks`, `ReadbackLeavesImage`, that the calls still implement `Reconfig`, and `BothAgain` |
| `cms_one` | 1 process, answer of 6 bytes (a word and a half), polls of 2 tries | type invariant, `InfoIsCards`, that the exchange implements `CardService` (no request collides with one that is being answered, no answer is taken that is not there), `InfoAgain` |
| `cms_two` | 2 processes, answer of 4 bytes | `InitIsDone`, `MonitoringStays` |
| `cms_lost` | 2 processes | *violated:* Ok with no information |
| `card_info` | up to 3 of 8 items and 5 malformed strings, cut at every byte | type invariant, `ItemsAreTheCards`, `OkLosesNoItem`, `ErrorsHaveCause`, `ItemsAreComplete` |
| `card_info_cut` | one string, cut | *violated:* the parser panics |
| `host` | 2 threads, 7 descriptors, buffers of 0, 4 and 6 bytes with a unit of 4 and words of 2, polls of 5, 10, 25 and 35 with a period of 10, counts up to 2 | type invariant, `ChannelsAreOpen`, `NoDescriptorLeaks`, `BuffersStayAligned`, `DecouplerIsAsPromised`, `PollsForItsDuration`, `CallsEnd` |

### Bounds

* Images of two and three words with a FIFO of two words: one image fits and one
  makes the DMA write wait for the core; an aborted longer image leaves a prefix
  that is as long as the shorter one. Real images are megabytes and the FIFO holds
  1023 words, but the code treats a word no differently for its position.
* Two tries stand for 1000 (or 100): there is a try that misses and goes on and
  one that misses and ends. The properties do not depend on the number.
* The readback's streams have nine and four words, as in the code, and the write
  FIFO three: both DMA writes wait, and the request can still be in the FIFO when
  the last word has been sent. Two registers tell a word from a stale one. The
  read FIFO has room for one word more than a readback reads. Three words in
  bursts of two make `write_programming` announce a whole burst and a rest.
* `shell` takes the images of `program` and the streams of `readback`, and a FIFO
  of three words, in which the last words of an image and the first of a stream
  would have room together.
* Two threads race for the statics; a third adds nothing that the second does
  not do. Each has at most two files in hand beside the three of the statics:
  seven descriptors are as many as are ever open. A size of nothing, of a unit and of more than one are
  the cases of `aligned_vec`. Durations of less than a period, one, and two and a
  half are those of the poll, and with a largest usize of 2 the count of the
  longest, three and a half, does not fit.
* `Crash`, failures and calls are not bounded: behaviours are infinite and the
  state spaces are complete.
* The width of Size (`buf.len() / 4` cast to `u32`) matters only for images
  of 16 GiB and is not modelled; nor is the mask `0xfff` of the answer's length.
* `card_info` has every kind of item, the old MAC address that is always refused
  among them (section 5), and a malformed string for each error.

`CHECK_DEADLOCK FALSE` stands in the configurations of `CardInfo` only: the
parser returns.

### Fairness

`Spec` of `ProgramUserImage` has weak fairness of the core and of `Step(c)`: a
scheduled process goes on, and registers answer. Neither failures nor calls are
fair. `RetrySpec` adds an operator who calls again. `RetriesSucceed` and
`InfoAgain` have the premise `EventuallyWell`: from some point on no access
fails, no process dies, and the device answers within the polls (10 s, 1 s).
Without it the code can promise nothing, for every one of its polls gives up.
The premise forbids steps, not states: whatever the faults left behind is where
the retries begin. `CmsMailbox` has weak fairness of the firmware and of
`Step(c)` and of asking for the information. For `InfoAgain` the premise also
says that readings are no longer reset: a `reset_sensor_max_avg` that read
Control while a request was pending and writes it after the answer submits the
request again, and resets that come at that moment again and again keep the
mailbox busy. TLC finds that behaviour when the premise is left out.
`ReadbackAgain` has the same premise and the same fairness of a caller who
aborts what is in doubt and reads on; resets, and aborts that are not needed, are
left out of its premise since they could take turns with readbacks for ever.
`CallsReturn` has no premise.

`ShellAgainSpec` has the core and a process's steps weakly fair, and a caller who
comes back to both kinds of calls and aborts what is in doubt. Coming back is
strongly fair: each kind waits while the other is under way, so that neither is
enabled all the time. The premise of `BothAgain` (`ShellEventuallyWell`) is that
of both sides. `HostSpec` has weak fairness of `GoesOn(t)`, a thread that is in
a call; the choice between success and failure is not fair, and `CallsEnd` has no
premise.

## 4. Proofs

`ProgramUserImage_proofs` proves, for any constants that satisfy the assumptions
in the modules (any number of processes, images, tries, any FIFO depth):

* `TypeCorrect`: `Spec => []TypeOK`, for any number of processes.

and, under `OneProgrammer` (one process at a time) and `WholeImages` (images of
whole words, at least one), which the runs `program_two` and `program_ragged` and,
for the empty image, section 5 show to be needed:

* `IInvHolds`: the inductive invariant `IInv`;
* `ServedIntact`, `OkIsLive`, `IdleIsDrained`, `CtrlIsNested`: the safety
  invariants of `program`;
* `ChangesAreIsolated`: its action property;
* `ImplementsReconfig`: `Spec` implements `Reconfig`.

None of the safety properties is inductive. That an image is complete when
`poll_done` sees Idle depends on where its words are at every moment before:
`Flow(i, s, hb, part)` says that of the `s` words sent the partition holds the
first, the FIFO the next in order, and that Size counts exactly the words that
have not moved. `Drained` says that words wait only while a transfer is under way,
and no more of them than will move; with it, whatever a failed call left behind
is moved or aborted before Idle shows again, and the next stream begins on an
empty FIFO. `Shielded` says that behind an open firewall no word of an image
waits and an image is complete.
`QuietCore`, `Walls` and `Done` tie these to the position in the call. The
lemmas `FlowBegins`, `FlowPushes` and `FlowMoves` say how one word changes the
stream; `AccessKeeps`, `PollsKeep`, `TransferKeeps` and `DeviceKeeps` take the
actions in groups. Type correctness is proved first and cited by the rest.

`CmsMailbox_proofs` proves, for any number of processes, tries and bytes:

* `MailboxTypeCorrect`, `InitStaysDone` and `MonitoringIsKept`, from the
  invariant `CInv`: the bytes read and left are never more than the card's
  (`Counted`), and a process that is past init finds the bit set in Control and
  in every value of Control it is about to write back (`Prepared`). A value read
  before the bit was set can only be in the hands of a process that is itself in
  init and sets it. Without that clause about values in hand `MonitoringStays`
  is not inductive;

and under `OneProcess`, which the run `cms_lost` shows to be needed:

* `InfoIsAllOfIt` and `RequestsAreSeparate`, from the invariant `EInv`: after the
  poll either the error register is set or the answer is in the mailbox, until
  the next request (`Exchange`).

and `ImplementsCardService`: the registers, polls, faults, crashes and retries
implement `CardService`. Steps that write into the mailbox or to Control, those of
the firmware, and the others are taken apart (`WritesServe`, `FirmwareServes`,
`OthersServe`), since a process that holds the information must lose it (its next
call returns nothing yet) before anyone writes the next request over it.

`HbicapReadback_proofs` proves, for any registers, tries and FIFO depths:

* `TypeCorrect`, for any number of processes, including that no header ever has
  a field that does not fit;

and, under `OneReader` (one process at a time) and `AbortFirst`, which
`readback_stale` and section 5 show to be needed:

* `OkIsRight`, `OkIsQuiet` and `ReadBitIsAwaited`, the safety properties of
  `readback`, and `ReadsAreAsked`, which says when a read begins, from the
  invariant `IInv` (`IInvHolds`).

That the word read is that of the register follows from three facts that are far
apart: the words of the opening arrive in the port in order (`Flow`, `Streams`,
as for an image), after m of them the port has understood so much of the request
(`Opened`), and the read FIFO was empty at the start (`CleanRests`,
`AbortEmpties`). `Closed` says the same of the DESYNC command. `StreamWords` and
`Headers` compute the u32 words and what the port takes out of them.

`Shell_proofs` proves, for any number of processes, `ShellTypeCorrect`; and, under
`OneReader`, `AbortFirst` and `WholeImages`, for any images, registers, tries and
FIFO depths:

* `ShellIInvHolds`: the inductive invariant `ShellIInv` of the two users of the core;
* `ReadbackIsRight`: `OkIsTheRegister` and `OkLeavesQuiet`, after any programming;
* `ProgrammingIsRight` and `ServingIsRight`: what `OkIsLive`, `ServedIntact`,
  `IdleIsDrained` and `CtrlIsNested` say, after any readbacks;
* `ReadbacksLeaveImage` and `ChangesAreShielded`: its action properties;
* `ShellImplementsReconfig`: the two together implement `Reconfig`.

The two halves are used, not proved again. For that the modules they come from
prove their lemmas for a core that may carry more than their own words
(`TypedOver`, `IInvOver` in `ProgramUserImage_proofs`; `TypedIn`, `CallTyped` in
`HbicapReadback_proofs`), and `Shell_proofs` cites them: those of programming on a
core with the words of both, those of readback on a core without a word of an
image. What ties them together is what one kind of call leaves to the other.
`Reader` says that a process which is not programming finds the core and the port
free of images (`ImageFree`) unless it is in doubt (`InDoubt`): its last call failed
and it has not aborted yet. `Programmer` says of a process that is programming
when the port may stand in the middle of an image. `PortShut` says that this is so
only behind a blocked firewall, which is why an abort or the word of a readback
that spoils a half-sent image is not seen by a host. `HalvesMeet` and `Turns` say
when the words in the FIFO are those of one half; `ReaderDrains` and
`ProgramKeeps` carry the invariant over from the halves.

`Host_proofs` proves, for any number of threads and descriptors and any sizes and
durations, and under no discipline of the caller, all safety properties of
`host`: `HostTyped`, `ChannelsHold`, `NothingLeaks`, `BuffersNeverMove`,
`PromisesHold` and `PollsTakeTheirTime`, from `HostInvHolds`. `ChannelsAreOpen` is
not inductive: that nobody closes a channel in use needs that each descriptor is
in one hand or one static only (`FilesApart`), that the place in the call says
which files a thread holds and which statics are filled (`HandsAreOpen`,
`CellsAreOpen`), and the two files of the DMA channel come and go together.
`DecouplerIsAsPromised` needs that while `enable`'s promise stands no thread is
in `disable` with a value to write back (`PromiseInv`). `CapacitySuffices` and
`TriesBounds` are the arithmetic.

`CardInfo_proofs` proves, for any items that fit the format, any malformed
strings, answers of any length and any cut of them, all properties of `card_info`:
`CardInfoTypeCorrect`, `ItemsAreRight`, `OkIsComplete`, `ErrorsAreCaused` and
`ItemsComplete`, from the invariant `LoopInv` (`LoopInvHolds`), and two more:

* `AnswersAreParsed`: an answer that is whole and well-formed (and has no MAC
  address of the old kind) is parsed to its items, all of them and in order: the
  parser undoes the firmware's encoding;
* `PanicIsRare`: the panic of `card_info_cut` needs an answer that lacks exactly the last byte of an
  item.

The items are found only by the lengths of those before them, so `LoopInv` has to
say where the loop stands in the answer: `Follows` puts it at the end of the last
part that was parsed, `IsCut` says that the input is a prefix of the answer, and
`NextPart` concludes that the slice taken next is the next part, byte for byte.
`EncodedItem` says that the item's parser undoes the encoding of each kind of item.
Where a part lies (`Layout`) is a fact about `FlattenSeq`, a recursive function.
The prover has no induction over numbers that it could apply to a predicate, but
it has the well-foundedness of `<`, from which `InductionOnSets` gives induction
for a set of numbers; `JoinExists`, `JoinUnique` and `FlattenGrows` then unfold the
recursion one string at a time.

### Assumptions

The constants' assumptions are named in the modules. Most only say which numbers
and sets the constants are. `ImagesAssumption` admits images of any length, empty
ones included, of which one at least is not empty (it is loaded at the start).
What the code does not check (`WholeImages`, `OneProgrammer`, `OneReader`,
`OneProcess`) is no assumption of a module but a premise of the
theorems that need it. `ItemsAssumption` says that the items are of the
format, that is bytes of a length that the length field can hold;
`MalformedAssumption` that any other string is as long as it announces and is
refused by the item's parser. That leaves out no answer, since one that is cut
within an item is in `Init`, but for the value of the reserved byte of the new MAC
scheme, which is 0 here and which the parser skips.

### Only model-checked

* The liveness properties (`CallsReturn`, `RetriesSucceed`, `InfoAgain`,
  `ReadbackAgain`, `BothAgain`, `CallsEnd`): the prover does not reason about
  fairness.

Every safety invariant and action property of the passing runs is proved, and so
are the refinements of `Reconfig` and `CardService`.

## 5. Findings

1. `hbicap.rs:267`: Size is rounded down to whole words and nothing rejects a
   ragged image; `program_user_image` returns Ok with its tail in the FIFO
   (`program_ragged`).
2. `xilinx_u55n_xdma_std.rs:179`: two processes; the loser of the race returns Ok
   (`program_two`).
3. `cms.rs:625`: a stale write of Control withdraws a request and
   `get_card_info` returns Ok and empty (`cms_lost`).
4. `cms.rs:529`: bounds test off by one; the parser panics (`card_info_cut`).
5. `hbicap.rs:280`: after a failed readback the next one returns the old word, and
   so does every one after it (`readback_stale`).

More was met on the way and has no run of its own:

* `program_user_image` (`xilinx_u55n_xdma_std.rs:178`) accepts an empty image and
  returns Ok; after a call that failed half-way that opens the firewalls onto a
  partial image. With images of 8 and 0 bytes, `ServedImageIntact` is violated.
* After an abort that failed half-way the next call of `program_user_image`
  (`xilinx_u55n_xdma_std.rs:160`) finds Idle and configures with the Abort bit set,
  against the comment at `hbicap.rs:461`: in `program`, `pc[c] = "dma" => ~hb.abort`
  is no invariant. What the core makes of that is not known here; the model lets
  it carry on.
* The mailbox is tested well before it is written (`cms.rs:613`): with two processes
  one writes its request over that of the other, which the firmware is about to
  answer (`RequestsDoNotCollide` with two clients).
* MAC address items of the old kind can never be parsed: length 18 is demanded
  (`cms.rs:326`) and 17 bytes are put into an array of 16. `ErrorsHaveCause` names
  them as the one well-formed item that is refused.
* Without an abort, the readback after a failed one also begins while the Read
  bit is set, against the comment at `hbicap.rs:393` (`NothingBeforeReadClears`
  with `Spec` and `AbortFirst = FALSE`).
* With a second process, whose abort drops the request and makes the core idle,
  a readback returns Ok with a word that no request asked for (`OkIsTheRegister`
  with two clients, both of which abort first).
* A duration whose number of polls does not fit a usize is not polled for at all
  (`hbicap.rs:322`). No caller asks for one; `PollsForItsDuration` states the
  exception, and `host` takes such a duration.
* The polls are documented as making "at least `n`" tries (`lib.rs:52` and `67`);
  `take(n)` makes at most n.

## 6. Not modelled, and plan

Not modelled:

* the derive macros, which generate getters and keep no state;
* the Python scripts, the examples and the benchmarks: straight-line callers that
  print or measure, but for the readback of `u55n_regs`;
* the block designs beyond what the drivers see of the HBICAP and the firewalls;
* printing and logging, except that `debug!` in `abort` reads registers;
* the plain sensor getters, one register read each without effect;
* the board power that the command line computes from four of them: the comment at
  `main.rs:113` calls it "only a proof-of-concept formula, needs correcting", so
  there is nothing to hold it to;
* with which layout the allocator is given back a `DmaBuffer`: that is memory
  management below the level of the model;
* `poll_reg_mask` without sleep, the same loop, which nothing calls.

Planned: theorems about what the calls of several processes still keep (type
correctness, `InitIsDone` and `MonitoringStays` hold for any number of them; most of
what programming promises does not, see finding 2), and the exchange of
`CmsMailbox` composed with the parser of `CardInfo`, whose theorems already meet:
`InfoIsAllOfIt` gives the parser a whole answer, `AnswersAreParsed` starts from one.
