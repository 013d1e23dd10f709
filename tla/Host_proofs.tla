------------------------------- MODULE Host_proofs -------------------------------
(***************************************************************************)
(* Theorems about the threads of a host process, for any number of them:   *)
(* the channels they share stay open and leak nothing, DMA buffers never   *)
(* move, what enable and disable promise holds, and polls take their time. *)
(***************************************************************************)
EXTENDS Host, TLAPS

\* Quotients are rounded down.
LEMMA DivBounds ==
  ASSUME NEW n \in Nat, NEW k \in Nat, k > 0
  PROVE  /\ n \div k \in Nat
         /\ (n \div k) * k <= n
         /\ n < (n \div k + 1) * k
  <1>1. n \div k \in Nat
    OBVIOUS
  <1>2. k * (n \div k) <= n /\ n < k * (n \div k) + k
    OBVIOUS
  <1>3. QED
    BY <1>1, <1>2

\* A buffer has room for more than it was asked for.
LEMMA CapacitySuffices ==
  ASSUME NEW n \in Nat
  PROVE  Capacity(n) \in Nat /\ n < Capacity(n)
  <1>1. n \div Unit \in Nat /\ n < (n \div Unit + 1) * Unit
    BY DivBounds, SizesAssumption
  <1>2. (n \div Unit + 1) * Unit \in Nat
    BY <1>1, SizesAssumption
  <1>3. QED
    BY <1>1, <1>2 DEF Capacity

\* The number of polls is a usize and fills the duration.
LEMMA TriesBounds ==
  ASSUME NEW d \in Durations
  PROVE  /\ Tries(d) \in 0 .. MaxUsize
         /\ Fills(Tries(d), d)
  <1>1. /\ d \div Period \in Nat /\ (d \div Period) * Period <= d
        /\ d < (d \div Period + 1) * Period
    BY DivBounds, DurationsAssumption
  <1>2. CASE d \div Period <= MaxUsize
    BY <1>1, <1>2, DurationsAssumption DEF Tries, Fills
  <1>3. CASE d \div Period > MaxUsize
    BY <1>1, <1>3, DurationsAssumption DEF Tries, Fills
  <1>4. QED
    BY <1>1, <1>2, <1>3, DurationsAssumption
-----------------------------------------------------------------------------
(***************************************************************************)
(* The channels.  A descriptor is that of one static or of one call, and   *)
(* open on its node, and where a thread is says which files its call holds *)
(* and which statics are filled.                                           *)
(***************************************************************************)

Holds(l, n) ==
  \/ l = "user_cell" /\ n = "user"
  \/ l \in {"c2h_open", "dma_cell"} /\ n = "h2c"
  \/ l = "dma_cell" /\ n = "c2h"

Has(l, n) ==
  \/ l \notin OpenLabels \cup {"out"}
  \/ l \in {"h2c_open", "c2h_open", "dma_cell"} /\ n = "user"

HandsAreOpen ==
  \A t \in Threads, n \in Nodes :
    /\ hand[t][n] # NoFd <=> Holds(pc[t], n)
    /\ hand[t][n] # NoFd => file[hand[t][n]] = n

CellsAreOpen ==
  /\ \A n \in Nodes : cell[n] # NoFd => file[cell[n]] = n
  /\ cell["h2c"] = NoFd <=> cell["c2h"] = NoFd
  /\ \A t \in Threads, n \in Nodes : Has(pc[t], n) => cell[n] # NoFd

FilesApart ==
  \A t \in Threads, n \in Nodes : hand[t][n] # NoFd =>
    /\ hand[t][n] # cell[n]
    /\ \A u \in Threads : u # t => hand[u][n] # hand[t][n]

ChannelsType ==
  /\ pc \in [Threads -> {"out"} \cup OpenLabels \cup IdleLabels \cup BusyLabels]
  /\ hand \in [Threads -> [Nodes -> Fds \cup {NoFd}]]
  /\ cell \in [Nodes -> Fds \cup {NoFd}]
  /\ file \in [Fds -> Nodes \cup {"closed"}]

ChannelsInv ==
  ChannelsType /\ HandsAreOpen /\ CellsAreOpen /\ FilesApart /\ NoDescriptorLeaks

LEMMA NoFdIsNone == NoFd \notin Fds
  BY MaxFdsAssumption DEF NoFd, Fds

\* A process that has not begun has no files.
LEMMA ChannelsBegin ==
  ASSUME pc = [t \in Threads |-> "out"], ChannelsInit
  PROVE  ChannelsInv
  <1> USE NoFdIsNone DEF ChannelsInit, NoFile, Nodes
  <1>1. ChannelsType
    BY DEF ChannelsType
  <1>2. HandsAreOpen
    BY DEF HandsAreOpen, Holds
  <1>3. CellsAreOpen
    BY DEF CellsAreOpen, Has, OpenLabels
  <1>4. FilesApart
    BY DEF FilesApart
  <1>5. NoDescriptorLeaks
    BY DEF NoDescriptorLeaks
  <1>6. QED
    BY <1>1, <1>2, <1>3, <1>4, <1>5 DEF ChannelsInv

LEMMA ExitKeepsChannels ==
  ASSUME Exit
  PROVE  ChannelsInv'
  <1> USE NoFdIsNone DEF Exit, NoFile, Nodes
  <1>1. ChannelsType'
    BY DEF ChannelsType
  <1>2. HandsAreOpen'
    BY DEF HandsAreOpen, Holds
  <1>3. CellsAreOpen'
    BY DEF CellsAreOpen, Has, OpenLabels
  <1>4. FilesApart'
    BY DEF FilesApart
  <1>5. NoDescriptorLeaks'
    BY DEF NoDescriptorLeaks
  <1>6. QED
    BY <1>1, <1>2, <1>3, <1>4, <1>5 DEF ChannelsInv

\* A step within the calls that use the channels, or before any node is opened.
LEMMA MovingKeepsChannels ==
  ASSUME ChannelsInv, NEW t \in Threads,
         NEW l \in {"out", "user_open"} \cup IdleLabels \cup BusyLabels,
         pc[t] \in {"out"} \cup IdleLabels \cup BusyLabels,
         l \in IdleLabels \cup BusyLabels => pc[t] # "out",
         pc' = [pc EXCEPT ![t] = l], UNCHANGED channels
  PROVE  ChannelsInv'
  <1> USE DEF ChannelsInv, channels
  <1>1. ChannelsType'
    BY DEF ChannelsType, OpenLabels
  <1>2. \A n \in Nodes : ~Holds(l, n) /\ ~Holds(pc[t], n)
    BY DEF Holds, IdleLabels, BusyLabels, Nodes
  <1>3. HandsAreOpen'
    BY <1>2 DEF HandsAreOpen, ChannelsType
  <1>4. \A n \in Nodes : Has(l, n) => Has(pc[t], n)
    BY DEF Has, OpenLabels, IdleLabels, BusyLabels
  <1>5. CellsAreOpen'
    BY <1>4 DEF CellsAreOpen, ChannelsType
  <1>6. FilesApart'
    BY DEF FilesApart
  <1>7. NoDescriptorLeaks'
    BY DEF NoDescriptorLeaks, InHand
  <1>8. QED
    BY <1>1, <1>3, <1>5, <1>6, <1>7

\* The kernel's choice of a descriptor is one that nobody has.
LEMMA OpenKeepsChannels ==
  ASSUME ChannelsInv, NEW t \in Threads, NEW at, NEW next \in OpenLabels,
         NEW node \in Nodes, OpenNode(t, at, node, next),
         \A n \in Nodes : Holds(next, n) <=> Holds(at, n) \/ n = node,
         \A n \in Nodes : Has(next, n) => Has(at, n),
         ~Holds(at, node)
  PROVE  ChannelsInv'
  <1> USE DEF ChannelsInv
  <1>1. PICK fd \in Free : /\ file' = [file EXCEPT ![fd] = node]
                           /\ hand' = [hand EXCEPT ![t] = [@ EXCEPT ![node] = fd]]
    BY DEF OpenNode
  <1>2. fd \in Fds /\ file[fd] = "closed" /\ fd # NoFd
    BY NoFdIsNone DEF Free
  <1>3. pc[t] = at /\ pc' = [pc EXCEPT ![t] = next] /\ cell' = cell
    BY DEF OpenNode
  <1>4. "closed" \notin Nodes
    BY DEF Nodes
  <1>5. hand[t][node] = NoFd
    BY <1>3 DEF HandsAreOpen
  <1>6. ChannelsType'
    BY <1>1, <1>2, <1>3 DEF ChannelsType
  <1>7. \A u \in Threads, n \in Nodes :
          /\ hand[u][n] # fd /\ cell[n] # fd
          /\ hand'[u][n] = IF u = t /\ n = node THEN fd ELSE hand[u][n]
    BY <1>1, <1>2, <1>4 DEF ChannelsType, HandsAreOpen, CellsAreOpen
  <1>8. \A g \in Fds : file'[g] = IF g = fd THEN node ELSE file[g]
    BY <1>1, <1>2 DEF ChannelsType
  <1>9. HandsAreOpen'
    BY <1>2, <1>3, <1>7, <1>8 DEF HandsAreOpen, ChannelsType
  <1>10. CellsAreOpen'
    BY <1>3, <1>7, <1>8 DEF CellsAreOpen, ChannelsType
  <1>11. FilesApart'
    BY <1>2, <1>3, <1>5, <1>7 DEF FilesApart
  <1>12. NoDescriptorLeaks'
    <2> SUFFICES ASSUME NEW g \in Fds, file'[g] # "closed"
                 PROVE  (\E n \in Nodes : cell'[n] = g) \/ (\E u \in Threads : g \in InHand(u)')
      BY DEF NoDescriptorLeaks
    <2>1. CASE g = fd
      BY <1>7, <2>1 DEF InHand
    <2>2. CASE g # fd
      <3>1. (\E n \in Nodes : cell[n] = g) \/ (\E u \in Threads : g \in InHand(u))
        BY <1>8, <2>2 DEF NoDescriptorLeaks
      <3>2. ASSUME NEW u \in Threads, NEW n \in Nodes, hand[u][n] = g
            PROVE  g \in InHand(u)'
        <4>1. ~(u = t /\ n = node)
          BY <1>5, <3>2, NoFdIsNone
        <4>2. QED
          BY <1>7, <3>2, <4>1 DEF InHand
      <3>3. QED
        BY <1>3, <3>1, <3>2 DEF InHand
    <2>3. QED
      BY <2>1, <2>2
  <1>13. QED
    BY <1>6, <1>9, <1>10, <1>11, <1>12

\* Closing what a call has in its hands closes nobody else's file, and it may
\* end at any label at which a call has nothing.
LEMMA DroppingKeepsChannels ==
  ASSUME ChannelsInv, NEW t \in Threads,
         NEW next \in {"out"} \cup OpenLabels \cup IdleLabels,
         file' = Closing(InHand(t)), hand' = [hand EXCEPT ![t] = NoFile],
         pc' = [pc EXCEPT ![t] = next], cell' = cell,
         \A n \in Nodes : ~Holds(next, n),
         \A n \in Nodes : Has(next, n) => cell[n] # NoFd
  PROVE  ChannelsInv'
  <1> USE DEF ChannelsInv
  <1>1. \A fd \in Fds : file'[fd] = IF fd \in InHand(t) THEN "closed" ELSE file[fd]
    BY DEF Closing
  <1>2. \A u \in Threads, n \in Nodes : hand'[u][n] = IF u = t THEN NoFd ELSE hand[u][n]
    BY DEF ChannelsType, NoFile
  <1>3. ChannelsType'
    BY DEF ChannelsType, NoFile, Closing
  <1>4. \A n \in Nodes : cell[n] # NoFd => cell[n] \notin InHand(t)
    BY DEF InHand, HandsAreOpen, CellsAreOpen, FilesApart
  <1>5. \A u \in Threads \ {t}, n \in Nodes : hand[u][n] # NoFd => hand[u][n] \notin InHand(t)
    BY DEF InHand, HandsAreOpen, FilesApart
  <1>6. HandsAreOpen'
    BY <1>1, <1>2, <1>5, NoFdIsNone DEF HandsAreOpen, ChannelsType
  <1>7. CellsAreOpen'
    BY <1>1, <1>4 DEF CellsAreOpen, ChannelsType
  <1>8. FilesApart'
    BY <1>2 DEF FilesApart
  <1>9. NoDescriptorLeaks'
    <2> SUFFICES ASSUME NEW fd \in Fds, file'[fd] # "closed"
                 PROVE  (\E n \in Nodes : cell'[n] = fd) \/ (\E u \in Threads : fd \in InHand(u)')
      BY DEF NoDescriptorLeaks
    <2>1. fd \notin InHand(t) /\ file[fd] # "closed"
      BY <1>1
    <2>2. (\E n \in Nodes : cell[n] = fd) \/ (\E u \in Threads \ {t} : fd \in InHand(u))
      BY <2>1 DEF NoDescriptorLeaks
    <2>3. QED
      BY <1>2, <2>2 DEF InHand
  <1>10. QED
    BY <1>3, <1>6, <1>7, <1>8, <1>9

\* The static keeps the files of the first caller.
LEMMA KeepingKeepsChannels ==
  ASSUME ChannelsInv, NEW t \in Threads, NEW nodes \in {{"user"}, {"h2c", "c2h"}},
         NEW next \in OpenLabels \cup IdleLabels,
         \A n \in nodes : cell[n] = NoFd,
         cell' = [n \in Nodes |-> IF n \in nodes THEN hand[t][n] ELSE cell[n]],
         hand' = [hand EXCEPT ![t] = NoFile],
         pc' = [pc EXCEPT ![t] = next], file' = file,
         \A n \in Nodes : Holds(pc[t], n) <=> n \in nodes,
         \A n \in Nodes : ~Holds(next, n),
         \A n \in Nodes : Has(next, n) => Has(pc[t], n) \/ n \in nodes
  PROVE  ChannelsInv'
  <1> USE DEF ChannelsInv
  <1>1. \A u \in Threads, n \in Nodes : hand'[u][n] = IF u = t THEN NoFd ELSE hand[u][n]
    BY DEF ChannelsType, NoFile
  <1>2. ChannelsType'
    BY DEF ChannelsType, NoFile
  <1>3. \A n \in Nodes : (n \in nodes <=> hand[t][n] # NoFd)
    BY DEF HandsAreOpen
  <1>4. HandsAreOpen'
    BY <1>1 DEF HandsAreOpen, ChannelsType
  <1>5. \A n \in Nodes : cell[n] # NoFd => cell'[n] # NoFd
    BY <1>3
  <1>6. CellsAreOpen'
    <2>1. \A n \in Nodes : cell'[n] # NoFd => file'[cell'[n]] = n
      BY <1>3 DEF CellsAreOpen, HandsAreOpen
    <2>2. cell'["h2c"] = NoFd <=> cell'["c2h"] = NoFd
      BY <1>3 DEF CellsAreOpen, Nodes
    <2>3. \A u \in Threads, n \in Nodes : Has(pc'[u], n) => cell'[n] # NoFd
      BY <1>3, <1>5 DEF CellsAreOpen, ChannelsType
    <2>4. QED
      BY <2>1, <2>2, <2>3 DEF CellsAreOpen
  <1>7. FilesApart'
    BY <1>1, <1>3 DEF FilesApart
  <1>8. NoDescriptorLeaks'
    <2> SUFFICES ASSUME NEW fd \in Fds, file[fd] # "closed"
                 PROVE  (\E n \in Nodes : cell'[n] = fd) \/ (\E u \in Threads : fd \in InHand(u)')
      BY DEF NoDescriptorLeaks
    <2>1. (\E n \in Nodes : cell[n] = fd) \/ (\E u \in Threads : fd \in InHand(u))
      BY DEF NoDescriptorLeaks
    <2>2. ASSUME NEW n \in Nodes, cell[n] = fd
          PROVE  cell'[n] = fd
      BY <2>2, NoFdIsNone
    <2>3. ASSUME NEW n \in Nodes, hand[t][n] = fd
          PROVE  cell'[n] = fd
      BY <1>3, <2>3, NoFdIsNone
    <2>4. QED
      BY <1>1, <2>1, <2>2, <2>3 DEF InHand
  <1>9. QED
    BY <1>2, <1>4, <1>6, <1>7, <1>8

\* A call of new, from its first node to its last static.
LEMMA NewKeepsChannels ==
  ASSUME ChannelsInv, NEW t \in Threads, New(t)
  PROVE  ChannelsInv'
  <1> USE DEF Nodes, Holds, Has, OpenLabels
  <1>1. CASE OpenUser(t)
    BY <1>1, OpenKeepsChannels DEF OpenUser
  <1>2. CASE OpenH2c(t)
    BY <1>2, OpenKeepsChannels DEF OpenH2c
  <1>3. CASE OpenC2h(t)
    BY <1>3, OpenKeepsChannels DEF OpenC2h
  <1>4. ASSUME NEW at \in OpenLabels, NEW nodes \in {{"user"}, {"h2c", "c2h"}},
               NEW next \in OpenLabels \cup IdleLabels, GetOrInit(t, at, nodes, next),
               \A n \in Nodes : Holds(at, n) <=> n \in nodes,
               \A n \in Nodes : ~Holds(next, n),
               \A n \in Nodes : Has(next, n) => Has(at, n) \/ n \in nodes
        PROVE  ChannelsInv'
    <2>1. pc[t] = at /\ pc' = [pc EXCEPT ![t] = next] /\ hand' = [hand EXCEPT ![t] = NoFile]
      BY <1>4 DEF GetOrInit
    <2>2. CASE \A n \in nodes : cell[n] = NoFd
      <3>1. cell' = [n \in Nodes |-> IF n \in nodes THEN hand[t][n] ELSE cell[n]] /\ file' = file
        BY <1>4, <2>2 DEF GetOrInit
      <3>2. QED
        BY <1>4, <2>1, <2>2, <3>1, KeepingKeepsChannels
    <2>3. CASE \E n \in nodes : cell[n] # NoFd
      <3>1. file' = Closing(InHand(t)) /\ cell' = cell
        BY <1>4, <2>3 DEF GetOrInit
      <3>2. \A n \in Nodes : Has(next, n) => cell[n] # NoFd
        BY <1>4, <2>1, <2>3 DEF ChannelsInv, CellsAreOpen
      <3>3. QED
        BY <1>4, <2>1, <3>1, <3>2, DroppingKeepsChannels
    <2>4. QED
      BY <2>2, <2>3
  <1>5. CASE InitUser(t)
    BY <1>4, <1>5 DEF InitUser, IdleLabels
  <1>6. CASE InitDma(t)
    BY <1>4, <1>6 DEF InitDma, IdleLabels
  <1>7. QED
    BY <1>1, <1>2, <1>3, <1>5, <1>6 DEF New

\* A call of new that fails closes the file of the other direction.
LEMMA FailingKeepsChannels ==
  ASSUME ChannelsInv, NEW t \in Threads, OpenFails(t)
  PROVE  ChannelsInv'
  <1>1. \A n \in Nodes : ~Holds("out", n) /\ ~Has("out", n)
    BY DEF Holds, Has, OpenLabels
  <1>2. QED
    BY <1>1, DroppingKeepsChannels DEF OpenFails
-----------------------------------------------------------------------------
(***************************************************************************)
(* The operations.  A variable that an operation uses is at rest while its *)
(* thread is elsewhere.                                                    *)
(***************************************************************************)

DataType ==
  /\ buf \in [Threads -> [asked : Nat, len : Nat, cap : Nat, aligned : BOOLEAN]]
  /\ val \in [Threads -> SUBSET Bits]
  /\ tries \in [Threads -> 0 .. MaxUsize]
  /\ span \in [Threads -> Durations \cup {0}]
  /\ control \in SUBSET Bits
  /\ claim \in {"none", "en", "dis"}

BuffersInv ==
  \A t \in Threads :
    IF pc[t] = "fill"
    THEN /\ buf[t].len <= buf[t].asked
         /\ buf[t].cap = Capacity(buf[t].asked)
         /\ buf[t].aligned
    ELSE buf[t] = NoBuffer

PollsInv ==
  \A t \in Threads :
    IF pc[t] = "poll" THEN span[t] \in Durations /\ tries[t] <= Tries(span[t]) ELSE tries[t] = 0

\* A promise is withdrawn as soon as the opposite is called.
PromiseInv ==
  /\ claim = "en" => En \in control /\ \A t \in Threads : pc[t] \notin {"dis_read", "dis_write"}
  /\ claim = "dis" => En \notin control /\ \A t \in Threads : pc[t] \notin {"en_read", "en_write"}

DataInv == DataType /\ BuffersInv /\ PollsInv /\ PromiseInv

HostInv == ChannelsInv /\ DataInv

LEMMA DataBegins ==
  ASSUME HostInit
  PROVE  DataInv
  <1> USE DEF HostInit
  <1>1. NoBuffer \in [asked : Nat, len : Nat, cap : Nat, aligned : BOOLEAN]
    BY DEF NoBuffer
  <1>2. 0 \in 0 .. MaxUsize
    BY DurationsAssumption
  <1>3. DataType
    BY <1>1, <1>2 DEF DataType, Bits
  <1>4. BuffersInv
    BY DEF BuffersInv
  <1>5. PollsInv
    BY DEF PollsInv
  <1>6. PromiseInv
    BY DEF PromiseInv
  <1>7. QED
    BY <1>3, <1>4, <1>5, <1>6 DEF DataInv

LEMMA ExitKeepsData ==
  ASSUME DataInv, HostExit
  PROVE  DataInv'
  <1> USE DEF HostExit, Exit, DataInv
  <1>1. NoBuffer \in [asked : Nat, len : Nat, cap : Nat, aligned : BOOLEAN]
    BY DEF NoBuffer
  <1>2. 0 \in 0 .. MaxUsize
    BY DurationsAssumption
  <1>3. DataType'
    BY <1>1, <1>2 DEF DataType, Bits
  <1>4. BuffersInv'
    BY DEF BuffersInv
  <1>5. PollsInv'
    BY DEF PollsInv
  <1>6. PromiseInv'
    BY DEF PromiseInv
  <1>7. QED
    BY <1>3, <1>4, <1>5, <1>6

\* A step that changes no data, at labels that need none.
LEMMA MovingKeepsData ==
  ASSUME ChannelsType, DataInv, NEW t \in Threads, NEW l,
         pc[t] \notin BusyLabels, l \notin BusyLabels,
         pc' = [pc EXCEPT ![t] = l], UNCHANGED <<thread, control, claim>>
  PROVE  DataInv'
  <1> USE DEF DataInv, ChannelsType, thread, BusyLabels
  <1>1. DataType'
    BY DEF DataType
  <1>2. BuffersInv'
    BY DEF BuffersInv
  <1>3. PollsInv'
    BY DEF PollsInv
  <1>4. PromiseInv'
    BY DEF PromiseInv
  <1>5. QED
    BY <1>1, <1>2, <1>3, <1>4

LEMMA OpeningKeepsData ==
  ASSUME ChannelsType, DataInv, NEW t \in Threads, Opening(t)
  PROVE  DataInv'
  <1>1. PICK l \in {"out", "ready"} \cup OpenLabels :
          pc[t] \in OpenLabels \cup {"out"} /\ pc' = [pc EXCEPT ![t] = l]
    BY DEF Opening, StartNew, New, OpenUser, InitUser, OpenH2c, OpenC2h, InitDma, OpenNode,
           GetOrInit, OpenFails, OpenLabels
  <1>2. QED
    BY <1>1, MovingKeepsData DEF OpenLabels, BusyLabels, Opening

\* A new buffer has the capacity for what it was asked for.
LEMMA NewBufferKeepsData ==
  ASSUME ChannelsType, DataInv, NEW t \in Threads, NEW n \in Sizes, NewBuffer(t, n)
  PROVE  DataInv'
  <1> USE DEF DataInv, ChannelsType, Begin, Goto, Return, IdleLabels, NewBuffer
  <1>0. n \in Nat /\ Capacity(n) \in Nat
    BY CapacitySuffices, SizesAssumption
  <1>1. DataType'
    BY <1>0 DEF DataType
  <1>2. BuffersInv'
    <2>1. \A u \in Threads : u # t => buf'[u] = buf[u] /\ pc'[u] = pc[u]
      OBVIOUS
    <2>2. buf'[t] = [asked |-> n, len |-> 0, cap |-> Capacity(n), aligned |-> TRUE]
      BY DEF DataType
    <2>3. pc'[t] = "fill"
      OBVIOUS
    <2>4. QED
      BY <1>0, <2>1, <2>2, <2>3 DEF BuffersInv
  <1>3. PollsInv'
    BY DEF PollsInv
  <1>4. PromiseInv'
    BY DEF PromiseInv
  <1>5. QED
    BY <1>1, <1>2, <1>3, <1>4

\* Growing within the capacity changes the length only.
LEMMA ExtendedWithin ==
  ASSUME NEW a \in Nat, NEW l \in Nat, NEW c \in Nat, NEW k \in Nat, l + k <= c
  PROVE  Extended([asked |-> a, len |-> l, cap |-> c, aligned |-> TRUE], k) =
           [asked |-> a, len |-> l + k, cap |-> c, aligned |-> TRUE]
  <1>1. (TRUE /\ l + k <= c) = TRUE
    OBVIOUS
  <1>2. QED
    BY <1>1 DEF Extended

\* A buffer is filled up to its size, which is less than its capacity.
LEMMA FillKeepsData ==
  ASSUME ChannelsType, DataInv, NEW t \in Threads, Fill(t)
  PROVE  DataInv'
  <1> USE DEF DataInv, ChannelsType, Begin, Goto, Return, IdleLabels, Fill
  <1>0. PICK k \in Nat : /\ buf[t].len + k <= buf[t].asked
                         /\ buf' = [buf EXCEPT ![t] =
                              [asked |-> @.asked, len |-> @.len + k, cap |-> @.cap, aligned |-> TRUE]]
    <2>1. buf[t].asked \in Nat /\ buf[t].len \in Nat /\ buf[t].len < buf[t].asked
      BY DEF DataType
    <2>2. WordBytes \in Nat /\ buf[t].asked - buf[t].len \in Nat
      BY <2>1, SizesAssumption
    <2>3. PICK k \in Nat : /\ buf[t].len + k <= buf[t].asked
                           /\ buf' = [buf EXCEPT ![t] = Extended(@, k)]
      BY <2>2
    <2>4. buf[t].aligned /\ buf[t].asked < buf[t].cap /\ buf[t].cap \in Nat
      BY <2>1, CapacitySuffices DEF BuffersInv
    <2>5. buf[t].len + k <= buf[t].cap
      BY <2>1, <2>3, <2>4
    <2>6. Extended(buf[t], k) =
            [asked |-> buf[t].asked, len |-> buf[t].len + k, cap |-> buf[t].cap, aligned |-> TRUE]
      <3>1. buf[t] \in [asked : Nat, len : Nat, cap : Nat, aligned : BOOLEAN]
        BY DEF DataType
      <3>2. buf[t].len + k <= buf[t].cap /\ buf[t].aligned = TRUE
        BY <2>4, <2>5, <3>1
      <3>3. PICK a \in Nat, l \in Nat, c \in Nat :
              buf[t] = [asked |-> a, len |-> l, cap |-> c, aligned |-> TRUE]
        BY <3>1, <3>2
      <3>4. l + k <= c
        BY <3>2, <3>3
      <3>5. QED
        BY <3>3, <3>4, ExtendedWithin
    <2>7. QED
      BY <2>3, <2>6
  <1>1. DataType'
    <2>1. buf[t].asked \in Nat /\ buf[t].len + k \in Nat /\ buf[t].cap \in Nat
      BY DEF DataType
    <2>2. QED
      BY <1>0, <2>1 DEF DataType
  <1>2. BuffersInv'
    BY <1>0 DEF BuffersInv
  <1>3. PollsInv'
    BY DEF PollsInv
  <1>4. PromiseInv'
    BY DEF PromiseInv
  <1>5. QED
    BY <1>1, <1>2, <1>3, <1>4

\* The buffer is freed.
LEMMA TransferKeepsData ==
  ASSUME ChannelsType, DataInv, NEW t \in Threads, NEW reply, Transfer(t, reply)
  PROVE  DataInv'
  <1> USE DEF DataInv, ChannelsType, Begin, Goto, Return, IdleLabels, Transfer
  <1>1. DataType'
    BY DEF DataType, NoBuffer
  <1>2. BuffersInv'
    <2>1. \A u \in Threads : u # t => buf'[u] = buf[u] /\ pc'[u] = pc[u]
      OBVIOUS
    <2>2. buf'[t] = NoBuffer /\ pc'[t] # "fill"
      BY DEF DataType
    <2>3. QED
      BY <2>1, <2>2 DEF BuffersInv
  <1>3. PollsInv'
    BY DEF PollsInv
  <1>4. PromiseInv'
    BY DEF PromiseInv
  <1>5. QED
    BY <1>1, <1>2, <1>3, <1>4

\* A call of enable withdraws the promise of disable.
LEMMA StartEnableKeepsData ==
  ASSUME ChannelsType, DataInv, NEW t \in Threads, StartEnable(t)
  PROVE  DataInv'
  <1> USE DEF DataInv, ChannelsType, Begin, Goto, Return, IdleLabels, StartEnable, Withdraw
  <1>1. DataType'
    BY DEF DataType
  <1>2. BuffersInv'
    BY DEF BuffersInv
  <1>3. PollsInv'
    BY DEF PollsInv
  <1>4. PromiseInv'
    BY DEF PromiseInv
  <1>5. QED
    BY <1>1, <1>2, <1>3, <1>4

\* A call of disable withdraws the promise of enable.
LEMMA StartDisableKeepsData ==
  ASSUME ChannelsType, DataInv, NEW t \in Threads, StartDisable(t)
  PROVE  DataInv'
  <1> USE DEF DataInv, ChannelsType, Begin, Goto, Return, IdleLabels, StartDisable, Withdraw
  <1>1. DataType'
    BY DEF DataType
  <1>2. BuffersInv'
    BY DEF BuffersInv
  <1>3. PollsInv'
    BY DEF PollsInv
  <1>4. PromiseInv'
    BY DEF PromiseInv
  <1>5. QED
    BY <1>1, <1>2, <1>3, <1>4

\* The value read is kept until it is written.
LEMMA ReadControlKeepsData ==
  ASSUME ChannelsType, DataInv, NEW t \in Threads, NEW at, NEW next, NEW reply,
         ReadControl(t, at, reply, next),
         <<at, next>> \in {<<"en_read", "en_write">>, <<"dis_read", "dis_write">>}
  PROVE  DataInv'
  <1> USE DEF DataInv, ChannelsType, Begin, Goto, Return, IdleLabels, ReadControl
  <1>1. DataType'
    BY DEF DataType
  <1>2. BuffersInv'
    BY DEF BuffersInv
  <1>3. PollsInv'
    BY DEF PollsInv
  <1>4. PromiseInv'
    BY DEF PromiseInv
  <1>5. QED
    BY <1>1, <1>2, <1>3, <1>4

\* Whatever enable read, it writes the bit as set.
LEMMA EnableWriteKeepsData ==
  ASSUME ChannelsType, DataInv, NEW t \in Threads, NEW reply, EnableWrite(t, reply)
  PROVE  DataInv'
  <1> USE DEF DataInv, ChannelsType, Begin, Goto, Return, IdleLabels, EnableWrite, WriteControl, Landed, WithEn, En, Bits
  <1>1. DataType'
    BY DEF DataType
  <1>2. BuffersInv'
    BY DEF BuffersInv
  <1>3. PollsInv'
    BY DEF PollsInv
  <1>4. PromiseInv'
    BY DEF PromiseInv
  <1>5. QED
    BY <1>1, <1>2, <1>3, <1>4

\* Whatever disable read, it writes the bit as cleared.
LEMMA DisableWriteKeepsData ==
  ASSUME ChannelsType, DataInv, NEW t \in Threads, NEW reply, DisableWrite(t, reply)
  PROVE  DataInv'
  <1> USE DEF DataInv, ChannelsType, Begin, Goto, Return, IdleLabels, DisableWrite, WriteControl, Landed, WithoutEn, Xor, En, Bits
  <1>1. DataType'
    BY DEF DataType
  <1>2. BuffersInv'
    BY DEF BuffersInv
  <1>3. PollsInv'
    BY DEF PollsInv
  <1>4. PromiseInv'
    BY DEF PromiseInv
  <1>5. QED
    BY <1>1, <1>2, <1>3, <1>4

\* A poll begins with no try made.
LEMMA StartPollKeepsData ==
  ASSUME ChannelsType, DataInv, NEW t \in Threads, NEW d \in Durations, NEW expected \in SUBSET Bits,
         StartPoll(t, d, expected)
  PROVE  DataInv'
  <1> USE DEF DataInv, ChannelsType, Begin, Goto, Return, IdleLabels, StartPoll
  <1>1. DataType'
    BY DEF DataType
  <1>2. BuffersInv'
    BY DEF BuffersInv
  <1>3. PollsInv'
    <2>1. \A u \in Threads : /\ u # t => pc'[u] = pc[u] /\ span'[u] = span[u]
                              /\ tries'[u] = tries[u]
      OBVIOUS
    <2>2. tries[t] = 0 /\ 0 <= Tries(d)
      BY TriesBounds DEF PollsInv
    <2>3. span'[t] = d /\ tries'[t] = 0
      BY <2>2 DEF DataType
    <2>4. QED
      BY <2>1, <2>2, <2>3 DEF PollsInv
  <1>4. PromiseInv'
    BY DEF PromiseInv
  <1>5. QED
    BY <1>1, <1>2, <1>3, <1>4

\* A poll is made while fewer than the number for its duration were.
LEMMA PollKeepsData ==
  ASSUME ChannelsType, DataInv, NEW t \in Threads, NEW readOk, Poll(t, readOk)
  PROVE  DataInv'
  <1> USE DEF DataInv, ChannelsType, Begin, Goto, Return, IdleLabels, Poll, PollOver
  <1>0. /\ pc[t] = "poll" /\ span[t] \in Durations
        /\ Tries(span[t]) \in 0 .. MaxUsize /\ MaxUsize \in Nat /\ 0 \in 0 .. MaxUsize
    <2>1. pc[t] = "poll" /\ span[t] \in Durations
      BY DEF PollsInv
    <2>2. Tries(span[t]) \in 0 .. MaxUsize
      BY <2>1, TriesBounds
    <2>3. MaxUsize \in Nat /\ 0 \in 0 .. MaxUsize
      BY DurationsAssumption
    <2>4. QED
      BY <2>1, <2>2, <2>3
  <1>a. PICK x \in Nat, d \in Durations \cup {0}, l \in {"poll", "ready", "failed"} :
          /\ tries' = [tries EXCEPT ![t] = x] /\ x \in 0 .. MaxUsize
          /\ span' = [span EXCEPT ![t] = d] /\ val' \in [Threads -> SUBSET Bits]
          /\ pc' = [pc EXCEPT ![t] = l]
          /\ IF l = "poll" THEN d \in Durations /\ x <= Tries(d) ELSE x = 0
    <2> DEFINE G(x, d, l) ==
          /\ tries' = [tries EXCEPT ![t] = x] /\ x \in 0 .. MaxUsize
          /\ span' = [span EXCEPT ![t] = d] /\ val' \in [Threads -> SUBSET Bits]
          /\ pc' = [pc EXCEPT ![t] = l]
          /\ IF l = "poll" THEN d \in Durations /\ x <= Tries(d) ELSE x = 0
    <2>1. CASE tries[t] < Tries(span[t]) /\ ~Shown(t, readOk)
      <3>1. tries[t] + 1 \in 0 .. MaxUsize /\ tries[t] + 1 <= Tries(span[t])
        BY <1>0, <2>1 DEF DataType
      <3>2. tries' = [tries EXCEPT ![t] = tries[t] + 1] /\ UNCHANGED <<pc, val, span>>
        BY <1>0, <2>1 DEF DataType
      <3>3. pc' = [pc EXCEPT ![t] = "poll"] /\ span' = [span EXCEPT ![t] = span[t]]
        BY <1>0, <3>2 DEF DataType
      <3>4. G(tries[t] + 1, span[t], "poll")
        BY <1>0, <3>1, <3>2, <3>3 DEF DataType
      <3>5. QED
        <4> HIDE DEF G
        <4>1. tries[t] + 1 \in Nat /\ span[t] \in Durations \cup {0}
          BY <1>0, <3>1
        <4>2. \E x \in Nat, d \in Durations \cup {0}, l \in {"poll", "ready", "failed"} : G(x, d, l)
          BY <3>4, <4>1
        <4>3. QED
          BY <4>2 DEF G
    <2>2. CASE ~(tries[t] < Tries(span[t]) /\ ~Shown(t, readOk))
      <3>1. PollOver(t) /\ \E l \in {"ready", "failed"} : pc' = [pc EXCEPT ![t] = l]
        BY <1>0, <2>2 DEF DataType
      <3>2. PICK l \in {"ready", "failed"} : pc' = [pc EXCEPT ![t] = l]
        BY <3>1
      <3>3. val' \in [Threads -> SUBSET Bits]
        BY <3>1 DEF DataType
      <3>4. G(0, 0, l)
        BY <1>0, <3>1, <3>2, <3>3
      <3>5. QED
        BY <3>4
    <2>3. QED
      BY <2>1, <2>2
  <1>b. UNCHANGED <<buf, control, claim>>
    OBVIOUS
  <1>1. DataType'
    BY <1>a, <1>b DEF DataType
  <1>2. BuffersInv'
    BY <1>0, <1>a, <1>b DEF BuffersInv
  <1>3. PollsInv'
    BY <1>a DEF PollsInv, DataType
  <1>4. PromiseInv'
    BY <1>0, <1>a, <1>b DEF PromiseInv
  <1>5. QED
    BY <1>1, <1>2, <1>3, <1>4

-----------------------------------------------------------------------------
(***************************************************************************)
(* Every step keeps the invariant.                                         *)
(***************************************************************************)

Operation(t) ==
  \/ Starts(t)
  \/ Fill(t)
  \/ \E reply \in Replies : Accesses(t, reply)
  \/ \E readOk \in BOOLEAN : Poll(t, readOk)

\* No operation opens or closes a file, and a thread stays within those that
\* have a shell.
LEMMA OperationsMove ==
  ASSUME NEW t \in Threads, Operation(t), ChannelsType
  PROVE  /\ UNCHANGED channels
         /\ pc[t] \in IdleLabels \cup BusyLabels
         /\ \E l \in IdleLabels \cup BusyLabels : pc' = [pc EXCEPT ![t] = l]
  <1> USE DEF Begin, Return, Goto, IdleLabels, BusyLabels
  <1>1. CASE Starts(t)
    BY <1>1 DEF Starts, NewBuffer, StartEnable, StartDisable, StartPoll
  <1>2. CASE Fill(t)
    BY <1>2 DEF Fill, ChannelsType
  <1>3. ASSUME NEW reply \in Replies, Accesses(t, reply)
        PROVE  /\ UNCHANGED channels
               /\ pc[t] \in IdleLabels \cup BusyLabels
               /\ \E l \in IdleLabels \cup BusyLabels : pc' = [pc EXCEPT ![t] = l]
    <2>1. CASE Transfer(t, reply)
      BY <2>1 DEF Transfer
    <2>2. CASE EnableRead(t, reply) \/ DisableRead(t, reply)
      BY <2>2 DEF EnableRead, DisableRead, ReadControl
    <2>3. CASE EnableWrite(t, reply) \/ DisableWrite(t, reply)
      BY <2>3 DEF EnableWrite, DisableWrite, WriteControl
    <2>4. QED
      BY <1>3, <2>1, <2>2, <2>3 DEF Accesses
  <1>4. ASSUME NEW readOk \in BOOLEAN, Poll(t, readOk)
        PROVE  /\ UNCHANGED channels
               /\ pc[t] \in IdleLabels \cup BusyLabels
               /\ \E l \in IdleLabels \cup BusyLabels : pc' = [pc EXCEPT ![t] = l]
    BY <1>4 DEF Poll, ChannelsType
  <1>5. QED
    BY <1>1, <1>2, <1>3, <1>4 DEF Operation

LEMMA OperationsKeepChannels ==
  ASSUME ChannelsInv, NEW t \in Threads, Operation(t)
  PROVE  ChannelsInv'
  <1>1. PICK l \in IdleLabels \cup BusyLabels : pc' = [pc EXCEPT ![t] = l]
    BY OperationsMove DEF ChannelsInv
  <1>2. UNCHANGED channels /\ pc[t] \in IdleLabels \cup BusyLabels
    BY OperationsMove DEF ChannelsInv
  <1>3. pc[t] # "out"
    BY <1>2 DEF IdleLabels, BusyLabels
  <1>4. QED
    BY <1>1, <1>2, <1>3, MovingKeepsChannels

LEMMA OperationsKeepData ==
  ASSUME ChannelsType, DataInv, NEW t \in Threads, Operation(t)
  PROVE  DataInv'
  <1>1. CASE Starts(t)
    <2>1. ASSUME NEW n \in Sizes, NewBuffer(t, n)
          PROVE  DataInv'
      BY <2>1, NewBufferKeepsData
    <2>2. CASE StartEnable(t)
      BY <2>2, StartEnableKeepsData
    <2>3. CASE StartDisable(t)
      BY <2>3, StartDisableKeepsData
    <2>4. ASSUME NEW d \in Durations, NEW expected \in {{}, {En}}, StartPoll(t, d, expected)
          PROVE  DataInv'
      BY <2>4, StartPollKeepsData DEF Bits, En
    <2>5. QED
      BY <1>1, <2>1, <2>2, <2>3, <2>4 DEF Starts
  <1>2. CASE Fill(t)
    BY <1>2, FillKeepsData
  <1>3. ASSUME NEW reply \in Replies, Accesses(t, reply)
        PROVE  DataInv'
    <2>1. CASE Transfer(t, reply)
      BY <2>1, TransferKeepsData
    <2>2. CASE EnableRead(t, reply)
      BY <2>2, ReadControlKeepsData DEF EnableRead
    <2>3. CASE DisableRead(t, reply)
      BY <2>3, ReadControlKeepsData DEF DisableRead
    <2>4. CASE EnableWrite(t, reply)
      BY <2>4, EnableWriteKeepsData
    <2>5. CASE DisableWrite(t, reply)
      BY <2>5, DisableWriteKeepsData
    <2>6. QED
      BY <1>3, <2>1, <2>2, <2>3, <2>4, <2>5 DEF Accesses
  <1>4. ASSUME NEW readOk \in BOOLEAN, Poll(t, readOk)
        PROVE  DataInv'
    BY <1>4, PollKeepsData
  <1>5. QED
    BY <1>1, <1>2, <1>3, <1>4 DEF Operation

LEMMA HostKeepsInv ==
  ASSUME HostInv, [HostNext]_hostVars
  PROVE  HostInv'
  <1> USE DEF HostInv
  <1>0. ChannelsType
    BY DEF ChannelsInv
  <1>1. CASE HostExit
    BY <1>1, ExitKeepsChannels, ExitKeepsData DEF HostExit
  <1>2. ASSUME NEW t \in Threads, Opening(t)
        PROVE  HostInv'
    <2>1. DataInv'
      BY <1>0, <1>2, OpeningKeepsData
    <2>2. CASE StartNew(t)
      BY <2>1, <2>2, MovingKeepsChannels DEF StartNew, IdleLabels, BusyLabels
    <2>3. CASE New(t)
      BY <2>1, <2>3, NewKeepsChannels
    <2>4. CASE OpenFails(t)
      BY <2>1, <2>4, FailingKeepsChannels
    <2>5. QED
      BY <1>2, <2>2, <2>3, <2>4 DEF Opening
  <1>3. ASSUME NEW t \in Threads, Operation(t)
        PROVE  HostInv'
    BY <1>0, <1>3, OperationsKeepChannels, OperationsKeepData
  <1>4. ASSUME NEW t \in Threads, Drop(t)
        PROVE  HostInv'
    <2>1. pc[t] \in {"ready", "failed"} /\ pc' = [pc EXCEPT ![t] = "out"]
      BY <1>4 DEF Drop, Goto, IdleLabels
    <2>2. UNCHANGED channels /\ UNCHANGED <<thread, control, claim>>
      BY <1>4 DEF Drop
    <2>3. ChannelsInv'
      BY <2>1, <2>2, MovingKeepsChannels DEF IdleLabels, BusyLabels
    <2>4. DataInv'
      BY <1>0, <2>1, <2>2, MovingKeepsData DEF BusyLabels
    <2>5. QED
      BY <2>3, <2>4
  <1>5. CASE UNCHANGED hostVars
    <2> USE <1>5 DEF hostVars, channels, thread
    <2>1. ChannelsInv'
      BY DEF ChannelsInv, ChannelsType, HandsAreOpen, CellsAreOpen, FilesApart, NoDescriptorLeaks,
             InHand
    <2>2. DataInv'
      BY DEF DataInv, DataType, BuffersInv, PollsInv, PromiseInv
    <2>3. QED
      BY <2>1, <2>2
  <1>6. QED
    BY <1>1, <1>2, <1>3, <1>4, <1>5 DEF HostNext, Operation

THEOREM HostInvHolds == HostSpec => []HostInv
  <1>1. HostInit => HostInv
    BY ChannelsBegin, DataBegins DEF HostInv, HostInit
  <1>2. HostInv /\ [HostNext]_hostVars => HostInv'
    BY HostKeepsInv
  <1>3. QED
    BY <1>1, <1>2, PTL DEF HostSpec
-----------------------------------------------------------------------------
(***************************************************************************)
(* What follows from the invariant.                                        *)
(***************************************************************************)

\* Every variable of the host process takes the values of its type.
THEOREM HostTyped == HostSpec => []HostTypeOK
  <1>1. HostInv => HostTypeOK
    BY DEF HostInv, ChannelsInv, ChannelsType, DataInv, DataType, HostTypeOK
  <1>2. QED
    BY <1>1, HostInvHolds, PTL

\* However many threads connect, and whichever of them fail, nobody is left
\* with a channel over a closed file or over another node's (get_or_init).
THEOREM ChannelsHold == HostSpec => []ChannelsAreOpen
  <1>1. ASSUME HostInv
        PROVE  ChannelsAreOpen
    <2> SUFFICES ASSUME NEW t \in Threads, pc[t] \notin OpenLabels \cup {"out"}, NEW n \in Nodes
                 PROVE  cell[n] \in Fds /\ file[cell[n]] = n
      BY DEF ChannelsAreOpen
    <2>1. cell[n] # NoFd
      BY <1>1 DEF HostInv, ChannelsInv, CellsAreOpen, Has
    <2>2. QED
      BY <1>1, <2>1 DEF HostInv, ChannelsInv, CellsAreOpen, ChannelsType
  <1>2. QED
    BY <1>1, HostInvHolds, PTL

\* No descriptor is lost, although every call of new opens the nodes again.
THEOREM NothingLeaks == HostSpec => []NoDescriptorLeaks
  <1>1. HostInv => NoDescriptorLeaks
    BY DEF HostInv, ChannelsInv
  <1>2. QED
    BY <1>1, HostInvHolds, PTL

\* A buffer of any size keeps its memory (aligned_vec): what the callers put
\* into it never exceeds what it was created for.
THEOREM BuffersNeverMove == HostSpec => []BuffersStayAligned
  <1>1. ASSUME HostInv
        PROVE  BuffersStayAligned
    <2> SUFFICES ASSUME NEW t \in Threads
                 PROVE  buf[t].aligned /\ buf[t].len <= buf[t].cap
      BY DEF BuffersStayAligned
    <2>1. CASE pc[t] = "fill"
      <3>1. /\ buf[t].asked \in Nat /\ buf[t].len \in Nat
            /\ buf[t].len <= buf[t].asked
            /\ buf[t].cap = Capacity(buf[t].asked) /\ buf[t].aligned
        BY <1>1, <2>1 DEF HostInv, DataInv, DataType, BuffersInv
      <3>2. QED
        BY <3>1, CapacitySuffices
    <2>2. CASE pc[t] # "fill"
      BY <1>1, <2>2 DEF HostInv, DataInv, BuffersInv, NoBuffer
    <2>3. QED
      BY <2>1, <2>2
  <1>2. QED
    BY <1>1, HostInvHolds, PTL

\* Of any number of threads that enable and disable with a read and a write
\* each, none undoes what another was promised, unless it calls the opposite.
THEOREM PromisesHold == HostSpec => []DecouplerIsAsPromised
  <1>1. HostInv => DecouplerIsAsPromised
    BY DEF HostInv, DataInv, PromiseInv, DecouplerIsAsPromised
  <1>2. QED
    BY <1>1, HostInvHolds, PTL

\* A poll that fails lasted for the whole periods of its duration
\* (poll_reg_mask_sleep), whatever the duration; a number of periods that does
\* not fit a usize becomes 0 there, and such a poll fails at once.
THEOREM PollsTakeTheirTime == HostSpec => PollsForItsDuration
  <1> DEFINE Takes(t) == pc[t] = "poll" /\ pc'[t] = "failed" => Fills(tries[t], span[t])
  <1>1. ASSUME HostInv, [HostNext]_hostVars, NEW t \in Threads, pc[t] = "poll", pc'[t] = "failed"
        PROVE  Fills(tries[t], span[t])
    <2>1. ChannelsType /\ span[t] \in Durations /\ tries[t] \in 0 .. MaxUsize /\ tries[t] <= Tries(span[t])
      BY <1>1 DEF HostInv, ChannelsInv, DataInv, DataType, PollsInv
    <2>2. ~HostExit /\ ~UNCHANGED hostVars
      BY <1>1 DEF HostExit, Exit, hostVars
    <2>3. PICK u \in Threads : Opening(u) \/ Operation(u) \/ Drop(u)
      BY <1>1, <2>2 DEF HostNext, Operation
    <2>4. \E l : pc' = [pc EXCEPT ![u] = l]
      <3>1. CASE Opening(u)
        BY <3>1 DEF Opening, StartNew, New, OpenUser, InitUser, OpenH2c, OpenC2h, InitDma, OpenNode,
                    GetOrInit, OpenFails
      <3>2. CASE Operation(u)
        BY <2>1, <3>2, OperationsMove
      <3>3. CASE Drop(u)
        BY <3>3 DEF Drop, Goto
      <3>4. QED
        BY <2>3, <3>1, <3>2, <3>3
    <2>5. u = t
      BY <1>1, <2>1, <2>4 DEF ChannelsType
    <2>6. ~Opening(t) /\ ~Drop(t) /\ ~Starts(t)
      BY <1>1 DEF Opening, StartNew, New, OpenUser, InitUser, OpenH2c, OpenC2h, InitDma, OpenNode,
                  GetOrInit, OpenFails, Drop, Starts, NewBuffer, StartEnable, StartDisable, StartPoll,
                  Begin, IdleLabels
    <2>7. \A reply \in Replies : ~Accesses(t, reply)
      BY <1>1 DEF Accesses, Transfer, EnableRead, EnableWrite, DisableRead, DisableWrite, ReadControl,
                  WriteControl
    <2>8. ~Fill(t)
      BY <1>1 DEF Fill
    <2>9. PICK readOk \in BOOLEAN : Poll(t, readOk)
      BY <2>3, <2>5, <2>6, <2>7, <2>8 DEF Operation
    <2>10. tries[t] >= Tries(span[t])
      BY <1>1, <2>1, <2>9 DEF Poll, Return, Goto, ChannelsType
    <2>11. Tries(span[t]) \in 0 .. MaxUsize
      BY <2>1, TriesBounds
    <2>12. tries[t] = Tries(span[t])
      BY <2>1, <2>10, <2>11
    <2>13. QED
      BY <2>1, <2>12, TriesBounds
  <1>2. HostInv /\ [HostNext]_hostVars => \A t \in Threads : Takes(t)
    BY <1>1
  <1>3. QED
    BY <1>2, HostInvHolds, PTL DEF HostSpec, PollsForItsDuration
=============================================================================
