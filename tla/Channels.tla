------------------------------- MODULE Channels -------------------------------
(***************************************************************************)
(* The channels of the XDMA transport (xdma/mod.rs) in one host process.   *)
(* Its threads call XilinxU55nXdmaStd::new, which opens the device nodes   *)
(* of the card and keeps the files in the statics CTRL_CHANNEL and         *)
(* DMA_CHANNEL0.  A call always opens the nodes; if the static has a       *)
(* channel already, the files just opened are dropped and closed.  The     *)
(* threads then share the one channel.                                     *)
(*                                                                         *)
(* A file is its descriptor; the kernel hands out the lowest free one, so  *)
(* that a descriptor closed too early would soon name another file.        *)
(***************************************************************************)
EXTENDS Naturals

CONSTANTS
  Threads,      \* threads of the host process
  MaxFds        \* descriptors that the process may have open

ASSUME MaxFdsAssumption == MaxFds \in Nat

VARIABLES
  pc,           \* where each thread is
  hand,         \* the files it has opened in its call, by node
  cell,         \* the files in the statics, by node
  file          \* the node that each descriptor is open on

channels == <<hand, cell, file>>

Nodes  == {"user", "h2c", "c2h"}
Fds    == 1 .. MaxFds
NoFd   == 0
NoFile == [n \in Nodes |-> NoFd]

OpenLabels == {"user_open", "user_cell", "h2c_open", "c2h_open", "dma_cell"}

Free == {fd \in Fds : file[fd] = "closed"}

ChannelsInit ==
  /\ hand = [t \in Threads |-> NoFile]
  /\ cell = NoFile
  /\ file = [fd \in Fds |-> "closed"]

\* What is left of the open files when some of them are closed.
Closing(fds) == [fd \in Fds |-> IF fd \in fds THEN "closed" ELSE file[fd]]

InHand(t) == {hand[t][n] : n \in Nodes}

-----------------------------------------------------------------------------

StartNew(t) ==
  /\ pc[t] = "out"
  /\ pc' = [pc EXCEPT ![t] = "user_open"]
  /\ UNCHANGED channels

OpenNode(t, at, node, next) ==
  /\ pc[t] = at
  /\ \E fd \in Free :
       /\ \A free \in Free : fd <= free
       /\ file' = [file EXCEPT ![fd] = node]
       /\ hand' = [hand EXCEPT ![t] = [@ EXCEPT ![node] = fd]]
  /\ pc' = [pc EXCEPT ![t] = next]
  /\ UNCHANGED cell

\* Mutant: the files that are not needed are not closed.
GetOrForget(t, at, nodes, next) ==
  /\ pc[t] = at
  /\ cell' = [n \in Nodes |-> IF n \in nodes /\ cell[n] = NoFd THEN hand[t][n] ELSE cell[n]]
  /\ hand' = [hand EXCEPT ![t] = NoFile]
  /\ pc' = [pc EXCEPT ![t] = next]
  /\ UNCHANGED file

\* Mutant: the files are closed also when the static keeps them.
GetOrDrop(t, at, nodes, next) ==
  /\ pc[t] = at
  /\ cell' = [n \in Nodes |-> IF n \in nodes /\ cell[n] = NoFd THEN hand[t][n] ELSE cell[n]]
  /\ hand' = [hand EXCEPT ![t] = NoFile]
  /\ file' = Closing(InHand(t))
  /\ pc' = [pc EXCEPT ![t] = next]

\* OnceCell::get_or_init: the first caller fills the cell, the files of any
\* other are dropped.
GetOrInit(t, at, nodes, next) ==
  /\ pc[t] = at
  /\ \/ /\ \A n \in nodes : cell[n] = NoFd
        /\ cell' = [n \in Nodes |-> IF n \in nodes THEN hand[t][n] ELSE cell[n]]
        /\ UNCHANGED file
     \/ /\ \E n \in nodes : cell[n] # NoFd
        /\ file' = Closing(InHand(t))
        /\ UNCHANGED cell
  /\ hand' = [hand EXCEPT ![t] = NoFile]
  /\ pc' = [pc EXCEPT ![t] = next]

OpenUser(t) == OpenNode(t, "user_open", "user", "user_cell")
InitUser(t) == GetOrInit(t, "user_cell", {"user"}, "h2c_open")
OpenH2c(t)  == OpenNode(t, "h2c_open", "h2c", "c2h_open")
OpenC2h(t)  == OpenNode(t, "c2h_open", "c2h", "dma_cell")
InitDma(t)  == GetOrInit(t, "dma_cell", {"h2c", "c2h"}, "ready")

\* A node that cannot be opened, or no descriptor for it, is an error even if
\* the channel is there.  A file opened before it is closed.
OpenFails(t) ==
  /\ pc[t] \in {"user_open", "h2c_open", "c2h_open"}
  /\ file' = Closing(InHand(t))
  /\ hand' = [hand EXCEPT ![t] = NoFile]
  /\ pc' = [pc EXCEPT ![t] = "out"]
  /\ UNCHANGED cell

\* The process ends: the kernel closes its files, and the next one begins with
\* empty statics.
Exit ==
  /\ pc' = [t \in Threads |-> "out"]
  /\ hand' = [t \in Threads |-> NoFile]
  /\ cell' = NoFile
  /\ file' = [fd \in Fds |-> "closed"]

New(t) == OpenUser(t) \/ InitUser(t) \/ OpenH2c(t) \/ OpenC2h(t) \/ InitDma(t)
-----------------------------------------------------------------------------
(* Properties *)

\* Whoever has a shell has it over open files, each on its own node: no other
\* thread's call, however it ends, closes a channel in use.
ChannelsAreOpen ==
  \A t \in Threads : pc[t] \notin OpenLabels \cup {"out"} =>
    \A n \in Nodes : cell[n] \in Fds /\ file[cell[n]] = n

\* Every open file is that of a static or of a call that is not over yet:
\* calling new again and again, with or without success, uses up no descriptors.
NoDescriptorLeaks ==
  \A fd \in Fds : file[fd] # "closed" =>
    (\E n \in Nodes : cell[n] = fd) \/ (\E t \in Threads : fd \in InHand(t))
=============================================================================
