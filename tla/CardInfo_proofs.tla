--------------------------- MODULE CardInfo_proofs ---------------------------
(***************************************************************************)
(* Theorems about CardInfo::try_from, for any items, any malformed strings *)
(* and any cut of the answer: what it parses is what the card sent, it     *)
(* leaves nothing out without an error, and its errors have a cause.       *)
(***************************************************************************)
EXTENDS CardInfo, SequenceTheorems, WellFoundedInduction, TLAPS

-----------------------------------------------------------------------------
(* Joining strings: FlattenSeq, by induction over how many are joined *)

\* The order of the numbers, as a relation.
Less == {ss \in Nat \X Nat : ss[1] < ss[2]}

LEMMA LessIsWellFounded == IsWellFoundedOn(Less, Nat)
  BY NatLessThanWellFounded DEF OpToRel, Less

\* Induction, for a set of numbers.
LEMMA InductionOnSets ==
  ASSUME NEW T, 0 \in T, \A n \in Nat : n \in T => n + 1 \in T
  PROVE  \A n \in Nat : n \in T
  <1> DEFINE F == {n \in Nat : n \notin T}
  <1>1. SUFFICES ASSUME F # {} PROVE FALSE
    OBVIOUS
  <1>2. PICK x \in F : \A y \in F : <<y, x>> \notin Less
    <2>1. F \subseteq Nat
      OBVIOUS
    <2> HIDE DEF F
    <2>2. QED
      BY <1>1, <2>1, LessIsWellFounded, WFMin
  <1>3. x \in Nat /\ x # 0 /\ x - 1 \in Nat
    OBVIOUS
  <1>4. x - 1 \in F
    BY <1>3
  <1>5. <<x - 1, x>> \in Less
    BY <1>3 DEF Less
  <1>6. QED
    BY <1>2, <1>4, <1>5

\* f joins n strings of s from the left: f[i] is the first i of them.
Joins(f, s, n) == f = [i \in 1 .. n |-> IF i = 1 THEN s[i] ELSE f[i - 1] \o s[i]]

\* There is such a function.
LEMMA JoinExists ==
  ASSUME NEW s, NEW n \in Nat
  PROVE  \E f : Joins(f, s, n)
  <1> DEFINE T == {k \in Nat : \E f : Joins(f, s, k)}
  <1>1. 0 \in T
    <2> DEFINE g == [i \in {} |-> i]
    <2>1. g = [i \in 1 .. 0 |-> IF i = 1 THEN s[i] ELSE g[i - 1] \o s[i]]
      OBVIOUS
    <2>2. Joins(g, s, 0)
      BY <2>1 DEF Joins
    <2>3. QED
      BY <2>2
  <1>2. ASSUME NEW k \in Nat, k \in T PROVE k + 1 \in T
    <2>1. PICK f : Joins(f, s, k)
      BY <1>2
    <2> DEFINE g == [i \in 1 .. k + 1 |->
                       IF i <= k THEN f[i] ELSE IF i = 1 THEN s[i] ELSE f[i - 1] \o s[i]]
    <2>2. \A i \in 1 .. k + 1 : g[i] = IF i = 1 THEN s[i] ELSE g[i - 1] \o s[i]
      <3>1. ASSUME NEW i \in 1 .. k + 1, i # 1
            PROVE  i - 1 \in 1 .. k /\ g[i - 1] = f[i - 1]
        BY <3>1
      <3>2. ASSUME NEW i \in 1 .. k PROVE f[i] = IF i = 1 THEN s[i] ELSE f[i - 1] \o s[i]
        BY <2>1 DEF Joins
      <3>3. QED
        BY <3>1, <3>2
    <2>3. g = [i \in 1 .. k + 1 |-> g[i]]
      OBVIOUS
    <2> HIDE DEF g
    <2>4. Joins(g, s, k + 1)
      BY <2>2, <2>3 DEF Joins
    <2>5. QED
      BY <2>4
  <1>3. n \in T
    <2> HIDE DEF T
    <2>1. QED
      BY <1>1, <1>2, InductionOnSets
  <1>4. QED
    BY <1>3

\* Those of two sequences agree as far as these do.
SameTo(n, s, t) == \A i \in 1 .. n : s[i] = t[i]

LEMMA JoinUnique ==
  ASSUME NEW s, NEW t, NEW k \in Nat, NEW l \in Nat, k <= l,
         NEW f, NEW g, Joins(f, s, k), Joins(g, t, l), SameTo(k, s, t)
  PROVE  SameTo(k, f, g)
  <1> DEFINE T == {n \in Nat : n \in 1 .. k => f[n] = g[n]}
  <1>1. 0 \in T
    OBVIOUS
  <1>2. ASSUME NEW n \in Nat, n \in T PROVE n + 1 \in T
    <2> SUFFICES ASSUME n + 1 \in 1 .. k PROVE f[n + 1] = g[n + 1]
      OBVIOUS
    <2> DEFINE m == n + 1
    <2>1. m \in 1 .. k /\ m \in 1 .. l /\ m - 1 = n
      OBVIOUS
    <2>2. n # 0 => f[n] = g[n]
      BY <1>2
    <2> HIDE DEF m
    <2>3. f[m] = IF m = 1 THEN s[m] ELSE f[m - 1] \o s[m]
      BY <2>1 DEF Joins
    <2>4. g[m] = IF m = 1 THEN t[m] ELSE g[m - 1] \o t[m]
      BY <2>1 DEF Joins
    <2>5. f[m] = g[m]
      BY <2>1, <2>2, <2>3, <2>4 DEF SameTo
    <2>6. QED
      BY <2>5 DEF m
  <1>3. \A n \in Nat : n \in T
    <2> HIDE DEF T
    <2>1. QED
      BY <1>1, <1>2, InductionOnSets
  <1>4. QED
    BY <1>3 DEF SameTo

\* It is what FlattenSeq takes its result from.
LEMMA FlattenIsJoin ==
  ASSUME NEW s, Len(s) \in Nat \ {0}
  PROVE  \E f : Joins(f, s, Len(s)) /\ FlattenSeq(s) = f[Len(s)]
  <1> DEFINE f == CHOOSE f : Joins(f, s, Len(s))
  <1>1. Joins(f, s, Len(s))
    BY JoinExists
  <1>2. FlattenSeq(s) = f[Len(s)]
    BY DEF FlattenSeq, Joins
  <1>3. QED
    BY <1>1, <1>2

\* The first k strings of a sequence, joined: one string longer, one string more.
LEMMA FlattenGrows ==
  ASSUME NEW B, NEW s \in Seq(Seq(B))
  PROVE  /\ FlattenSeq(SubSeq(s, 1, 0)) = <<>>
         /\ \A k \in 1 .. Len(s) :
              FlattenSeq(SubSeq(s, 1, k)) = FlattenSeq(SubSeq(s, 1, k - 1)) \o s[k]
         /\ FlattenSeq(SubSeq(s, 1, Len(s))) = FlattenSeq(s)
  <1>1. Len(s) \in Nat /\ SubSeq(s, 1, 0) = <<>> /\ SubSeq(s, 1, Len(s)) = s
    BY SubSeqFull
  <1>2. FlattenSeq(<<>>) = <<>>
    BY DEF FlattenSeq
  <1>3. ASSUME NEW k \in 1 .. Len(s)
        PROVE  FlattenSeq(SubSeq(s, 1, k)) = FlattenSeq(SubSeq(s, 1, k - 1)) \o s[k]
    <2> DEFINE t == SubSeq(s, 1, k)
               u == SubSeq(s, 1, k - 1)
    <2>1. /\ Len(t) = k /\ \A i \in 1 .. k : t[i] = s[i]
          /\ Len(u) = k - 1 /\ \A i \in 1 .. k - 1 : u[i] = s[i]
          /\ k \in Nat \ {0} /\ k - 1 \in Nat /\ s[k] \in Seq(B)
      BY <1>1
    <2> HIDE DEF t, u
    <2>2. PICK g : Joins(g, t, Len(t)) /\ FlattenSeq(t) = g[Len(t)]
      BY <2>1, FlattenIsJoin
    <2>3. g[k] = IF k = 1 THEN s[k] ELSE g[k - 1] \o s[k]
      <3>1. Joins(g, t, k) /\ k \in 1 .. k /\ t[k] = s[k]
        BY <2>1, <2>2
      <3>2. g[k] = IF k = 1 THEN t[k] ELSE g[k - 1] \o t[k]
        BY <3>1 DEF Joins
      <3>3. QED
        BY <3>1, <3>2
    <2>4. CASE k = 1
      <3>1. u = <<>>
        BY <1>1, <2>4 DEF u
      <3>2. <<>> \o s[k] = s[k]
        BY <2>1
      <3>3. QED
        BY <1>2, <2>1, <2>2, <2>3, <2>4, <3>1, <3>2 DEF t, u
    <2>5. CASE k # 1
      <3>1. Len(u) \in Nat \ {0} /\ Len(t) \in Nat /\ Len(u) <= Len(t)
        BY <2>1, <2>5
      <3>2. PICK f : Joins(f, u, Len(u)) /\ FlattenSeq(u) = f[Len(u)]
        BY <3>1, FlattenIsJoin
      <3> DEFINE q == k - 1
      <3>3. q \in Nat /\ k \in Nat /\ q <= k /\ q \in 1 .. q /\ Len(u) = q /\ Len(t) = k
        BY <2>1, <2>5
      <3>4. SameTo(q, u, t)
        <4>1. ASSUME NEW i \in 1 .. q PROVE u[i] = s[i] /\ t[i] = s[i]
          <5>1. i \in 1 .. k - 1 /\ i \in 1 .. k
            BY <2>1
          <5>2. QED
            BY <2>1, <5>1
        <4>2. QED
          BY <4>1 DEF SameTo
      <3> HIDE DEF q
      <3>5. f[Len(u)] = g[q]
        <4>1. Joins(f, u, q) /\ Joins(g, t, k)
          BY <2>2, <3>2, <3>3
        <4>2. SameTo(q, f, g)
          BY <3>3, <3>4, <4>1, JoinUnique
        <4>3. QED
          BY <3>3, <4>2 DEF SameTo
      <3>6. QED
        BY <2>1, <2>2, <2>3, <2>5, <3>2, <3>5 DEF q, t, u
    <2>6. QED
      BY <2>4, <2>5
  <1>4. QED
    BY <1>1, <1>2, <1>3

\* They are a string, and a prefix of what more of them make.
LEMMA FlattenTyped ==
  ASSUME NEW B, NEW s \in Seq(Seq(B))
  PROVE  \A k \in 0 .. Len(s) : FlattenSeq(SubSeq(s, 1, k)) \in Seq(B)
  <1> DEFINE J(k) == FlattenSeq(SubSeq(s, 1, k))
             T == {k \in Nat : k <= Len(s) => J(k) \in Seq(B)}
  <1>1. J(0) = <<>> /\ \A k \in 1 .. Len(s) : J(k) = J(k - 1) \o s[k]
    BY FlattenGrows
  <1>2. Len(s) \in Nat
    OBVIOUS
  <1> HIDE DEF J
  <1>3. 0 \in T
    <2>1. <<>> \in Seq(B)
      OBVIOUS
    <2>2. QED
      BY <1>1, <2>1
  <1>4. ASSUME NEW k \in Nat, k \in T PROVE k + 1 \in T
    <2> SUFFICES ASSUME k + 1 <= Len(s) PROVE J(k + 1) \in Seq(B)
      OBVIOUS
    <2> DEFINE m == k + 1
    <2>1. m \in 1 .. Len(s) /\ m - 1 = k
      BY <1>2
    <2>2. J(k) \in Seq(B)
      BY <1>2, <1>4
    <2> HIDE DEF m
    <2>3. s[m] \in Seq(B)
      BY <2>1, ElementOfSeq
    <2>4. J(m) = J(k) \o s[m]
      BY <1>1, <2>1
    <2>5. J(m) \in Seq(B)
      BY <2>2, <2>3, <2>4, ConcatProperties
    <2>6. QED
      BY <2>5 DEF m
  <1>5. \A k \in Nat : k \in T
    <2> HIDE DEF T
    <2>1. QED
      BY <1>3, <1>4, InductionOnSets
  <1>6. QED
    BY <1>2, <1>5 DEF J

LEMMA FlattenPrefix ==
  ASSUME NEW B, NEW s \in Seq(Seq(B)), NEW k \in 0 .. Len(s)
  PROVE  \A m \in k .. Len(s) :
           /\ Len(FlattenSeq(SubSeq(s, 1, k))) <= Len(FlattenSeq(SubSeq(s, 1, m)))
           /\ \A j \in 1 .. Len(FlattenSeq(SubSeq(s, 1, k))) :
                FlattenSeq(SubSeq(s, 1, m))[j] = FlattenSeq(SubSeq(s, 1, k))[j]
  <1> DEFINE J(m) == FlattenSeq(SubSeq(s, 1, m))
             Extends(m) == Len(J(k)) <= Len(J(m)) /\ \A j \in 1 .. Len(J(k)) : J(m)[j] = J(k)[j]
             T == {m \in Nat : m \in k .. Len(s) => Extends(m)}
  <1>1. \A m \in 1 .. Len(s) : J(m) = J(m - 1) \o s[m]
    BY FlattenGrows
  <1>2. \A m \in 0 .. Len(s) : J(m) \in Seq(B) /\ Len(J(m)) \in Nat
    BY FlattenTyped, LenProperties
  <1>3. Len(s) \in Nat
    OBVIOUS
  <1> HIDE DEF J
  <1>4. Extends(k)
    BY <1>2
  <1>5. 0 \in T
    <2>1. 0 \in k .. Len(s) => k = 0
      BY <1>3
    <2>2. QED
      BY <1>4, <2>1
  <1>6. ASSUME NEW n \in Nat, n \in T PROVE n + 1 \in T
    <2> SUFFICES ASSUME n + 1 \in k .. Len(s) PROVE Extends(n + 1)
      OBVIOUS
    <2>1. CASE n + 1 = k
      BY <1>4, <2>1
    <2>2. CASE n + 1 # k
      <3> DEFINE m == n + 1
      <3>1. n \in k .. Len(s) /\ m \in 1 .. Len(s) /\ m - 1 = n /\ k \in Nat
        BY <1>3, <2>2
      <3>2. Extends(n)
        BY <1>6, <3>1
      <3> HIDE DEF m
      <3>3. J(m) = J(n) \o s[m] /\ s[m] \in Seq(B)
        BY <1>1, <3>1, ElementOfSeq
      <3>4. n \in 0 .. Len(s) /\ J(n) \in Seq(B) /\ Len(J(n)) \in Nat /\ Len(s[m]) \in Nat
            /\ Len(J(k)) \in Nat
        BY <1>2, <1>3, <3>1, <3>3, LenProperties
      <3>5. /\ Len(J(m)) = Len(J(n)) + Len(s[m])
            /\ \A j \in 1 .. Len(J(n)) : J(m)[j] = J(n)[j]
        BY <3>3, <3>4, ConcatProperties
      <3>6. Extends(m)
        BY <3>2, <3>4, <3>5
      <3>7. QED
        BY <3>6 DEF m
    <2>3. QED
      BY <2>1, <2>2
  <1>7. \A m \in Nat : m \in T
    <2> HIDE DEF T
    <2>1. QED
      BY <1>5, <1>6, InductionOnSets
  <1>8. QED
    <2>1. \A m \in k .. Len(s) : Extends(m)
      BY <1>3, <1>7
    <2>2. QED
      BY <2>1 DEF J

-----------------------------------------------------------------------------
(* The parts of an answer *)

Byte == 0 .. 255

\* A string is as long as it announces.
Framed(b) == b \in Seq(Byte) /\ b[2] \in Nat /\ Len(b) = b[2] + 2

\* A key and a length before the data.
LEMMA Frames ==
  ASSUME NEW k \in Byte, NEW d \in Seq(Byte), Len(d) \in Byte
  PROVE  /\ Framed(<<k, Len(d)>> \o d)
         /\ (<<k, Len(d)>> \o d)[1] = k /\ (<<k, Len(d)>> \o d)[2] = Len(d)
         /\ \A j \in 1 .. Len(d) : (<<k, Len(d)>> \o d)[j + 2] = d[j]
  <1> DEFINE h == <<k, Len(d)>>
             b == h \o d
  <1>1. h \in Seq(Byte) /\ Len(h) = 2 /\ h[1] = k /\ h[2] = Len(d) /\ Len(d) \in Nat
    OBVIOUS
  <1> HIDE DEF h
  <1>2. /\ b \in Seq(Byte) /\ Len(b) = Len(d) + 2
        /\ \A i \in 1 .. Len(d) + 2 : b[i] = IF i <= 2 THEN h[i] ELSE d[i - 2]
    <2>1. /\ b \in Seq(Byte) /\ Len(b) = Len(h) + Len(d)
          /\ \A i \in 1 .. Len(h) + Len(d) : b[i] = IF i <= Len(h) THEN h[i] ELSE d[i - Len(h)]
      BY <1>1, ConcatProperties
    <2> HIDE DEF b
    <2>2. Len(h) + Len(d) = Len(d) + 2
      BY <1>1
    <2>3. QED
      BY <1>1, <2>1, <2>2
  <1> HIDE DEF b
  <1>3. b[1] = k /\ b[2] = Len(d) /\ \A j \in 1 .. Len(d) : b[j + 2] = d[j]
    <2>1. \A j \in 1 .. Len(d) : j + 2 \in 1 .. Len(d) + 2 /\ ~(j + 2 <= 2) /\ (j + 2) - 2 = j
      BY <1>1
    <2>2. \A j \in 1 .. Len(d) : b[j + 2] = d[j]
      BY <1>2, <2>1
    <2>3. 1 \in 1 .. Len(d) + 2 /\ 2 \in 1 .. Len(d) + 2
      BY <1>1
    <2>4. QED
      BY <1>1, <1>2, <2>2, <2>3
  <1>4. Framed(b)
    BY <1>1, <1>2, <1>3 DEF Framed
  <1>5. QED
    BY <1>3, <1>4 DEF b, h

\* How long the value of an item is.
LEMMA ItemSizes ==
  ASSUME NEW i \in Items
  PROVE  /\ i = [key |-> i.key, value |-> i.value]
         /\ i.key \in Keys /\ i.key \in Byte /\ i.value \in Seq(Byte) /\ Len(i.value) \in Nat
         /\ i.key \in TextKeys => Len(i.value) <= 254
         /\ i.key \in OldMacKeys => Len(i.value) = 17
         /\ i.key \in ByteKeys => Len(i.value) = 1 /\ i.value[1] \in Variants(i.key)
         /\ i.key = NewMacKey => Len(i.value) = 7
  <1>1. i \in [key : Keys, value : Seq(Byte)] /\ Fits(i)
    BY ItemsAssumption DEF Byte
  <1>2. Keys \subseteq Byte
    BY DEF Keys, TextKeys, OldMacKeys, NewMacKey, ByteKeys, PowerKey, FanKey, ModeKey, CageKeys,
           Byte
  <1>3. i = [key |-> i.key, value |-> i.value] /\ i.key \in Keys /\ i.value \in Seq(Byte)
    BY <1>1
  <1>4. Len(i.value) \in Nat
    BY <1>3, LenProperties
  <1>5. QED
    BY <1>1, <1>2, <1>3, <1>4 DEF Fits

\* A key belongs to one kind only.
LEMMA Kinds ==
  ASSUME NEW k
  PROVE  /\ k \in Keys <=> \/ k \in TextKeys
                           \/ k \in OldMacKeys
                           \/ k \in ByteKeys
                           \/ k = NewMacKey
         /\ k \in TextKeys => k \notin OldMacKeys /\ k \notin ByteKeys /\ k # NewMacKey
         /\ k \in OldMacKeys => k \notin ByteKeys /\ k # NewMacKey
         /\ k \in ByteKeys => k # NewMacKey
  BY DEF Keys, TextKeys, OldMacKeys, NewMacKey, ByteKeys, PowerKey, FanKey, ModeKey, CageKeys

\* A slice is the string that its bytes are those of.
LEMMA SliceEquals ==
  ASSUME NEW b \in Seq(Byte), NEW v \in Seq(Byte), NEW m \in Nat, NEW n \in Nat,
         n = m + Len(v) - 1, 1 <= m, n <= Len(b),
         \A j \in 1 .. Len(v) : b[m + j - 1] = v[j]
  PROVE  SubSeq(b, m, n) = v
  <1> DEFINE s == SubSeq(b, m, n)
  <1>1. Len(v) \in Nat /\ n - m + 1 = Len(v) /\ m \in Int /\ n \in Int /\ Len(b) \in Nat
    BY LenProperties
  <1>2. \A j \in m .. n : b[j] \in Byte
    <2>1. \A j \in m .. n : j \in 1 .. Len(b)
      BY <1>1
    <2>2. QED
      BY <2>1, ElementOfSeq
  <1>3. /\ s \in Seq(Byte) /\ Len(s) = (IF m <= n THEN n - m + 1 ELSE 0)
        /\ \A j \in 1 .. n - m + 1 : s[j] = b[m + j - 1]
    BY <1>1, <1>2, SubSeqProperties
  <1> HIDE DEF s
  <1>4. Len(s) = Len(v)
    BY <1>1, <1>3
  <1>5. \A j \in 1 .. Len(v) : s[j] = v[j]
    BY <1>1, <1>3
  <1>6. s = v
    BY <1>3, <1>4, <1>5, SeqEqual
  <1>7. QED
    BY <1>6 DEF s

\* A text and a MAC address of the old kind: their bytes, and a null byte.
LEMMA EncodedText ==
  ASSUME NEW i \in Items, i.key \in TextKeys \/ i.key \in OldMacKeys
  PROVE  /\ Framed(Encode(i)) /\ Encode(i)[1] = i.key
         /\ Encode(i)[2] = Len(i.value) + 1 /\ Encode(i)[Len(i.value) + 3] = 0
         /\ \A j \in 1 .. Len(i.value) : Encode(i)[j + 2] = i.value[j]
  <1> DEFINE d == Data(i)
             v == i.value
  <1>1. i.key \in Keys /\ i.key \in Byte /\ v \in Seq(Byte) /\ Len(v) \in Nat
    BY ItemSizes
  <1>2. d = Append(v, 0)
    BY Kinds DEF Data
  <1>3. /\ d \in Seq(Byte) /\ Len(d) = Len(v) + 1 /\ d[Len(v) + 1] = 0
        /\ \A j \in 1 .. Len(v) : d[j] = v[j]
    <2>1. 0 \in Byte
      BY DEF Byte
    <2> HIDE DEF d, v
    <2>2. QED
      BY <1>1, <1>2, <2>1, AppendProperties
  <1>4. Len(v) <= 254
    <2>1. CASE i.key \in TextKeys
      BY <2>1, ItemSizes
    <2>2. CASE i.key \in OldMacKeys
      <3>1. Len(v) = 17
        BY <2>2, ItemSizes
      <3>2. QED
        BY <3>1
    <2>3. QED
      BY <2>1, <2>2
  <1>5. Encode(i) = <<i.key, Len(d)>> \o d
    BY DEF Encode
  <1> HIDE DEF d, v
  <1>6. Len(d) \in Byte
    <2>1. \A x \in Nat : x <= 254 => x + 1 \in Byte
      BY DEF Byte
    <2>2. QED
      BY <1>1, <1>3, <1>4, <2>1
  <1>7. /\ Framed(Encode(i)) /\ Encode(i)[1] = i.key /\ Encode(i)[2] = Len(d)
        /\ \A j \in 1 .. Len(d) : Encode(i)[j + 2] = d[j]
    BY <1>1, <1>3, <1>5, <1>6, Frames
  <1>8. Encode(i)[Len(v) + 3] = 0
    <2>1. Len(v) + 1 \in 1 .. Len(d) /\ (Len(v) + 1) + 2 = Len(v) + 3
      BY <1>1, <1>3
    <2>2. Encode(i)[(Len(v) + 1) + 2] = d[Len(v) + 1]
      BY <1>7, <2>1
    <2>3. QED
      BY <1>3, <2>1, <2>2
  <1>9. \A j \in 1 .. Len(v) : Encode(i)[j + 2] = v[j]
    <2>1. \A j \in 1 .. Len(v) : j \in 1 .. Len(d)
      BY <1>1, <1>3
    <2>2. QED
      BY <1>3, <1>7, <2>1
  <1>10. QED
    BY <1>3, <1>7, <1>8, <1>9 DEF v

\* An item of one byte.
LEMMA EncodedByte ==
  ASSUME NEW i \in Items, i.key \in ByteKeys
  PROVE  /\ Framed(Encode(i)) /\ Encode(i)[1] = i.key
         /\ Encode(i)[2] = 1 /\ Encode(i)[3] = i.value[1]
  <1> DEFINE v == i.value
  <1>1. i.key \in Byte /\ v \in Seq(Byte) /\ Len(v) = 1
    BY ItemSizes
  <1>2. Data(i) = v
    BY Kinds DEF Data
  <1>3. Encode(i) = <<i.key, Len(v)>> \o v
    BY <1>2 DEF Encode
  <1> HIDE DEF v
  <1>4. v \in Seq(Byte) /\ Len(v) \in Byte /\ 1 \in 1 .. Len(v)
    BY <1>1 DEF Byte
  <1>5. /\ Framed(Encode(i)) /\ Encode(i)[1] = i.key /\ Encode(i)[2] = Len(v)
        /\ \A j \in 1 .. Len(v) : Encode(i)[j + 2] = v[j]
    <2>1. i.key \in Byte
      BY <1>1
    <2>2. QED
      BY <1>3, <1>4, <2>1, Frames
  <1>6. Encode(i)[1 + 2] = v[1]
    BY <1>4, <1>5
  <1>7. QED
    BY <1>1, <1>5, <1>6 DEF v

\* A MAC address of the new kind: a number, a reserved byte, six bytes.
LEMMA EncodedMac ==
  ASSUME NEW i \in Items, i.key = NewMacKey
  PROVE  /\ Framed(Encode(i)) /\ Encode(i)[1] = i.key
         /\ Encode(i)[2] = 8 /\ Encode(i)[3] = i.value[1]
         /\ \A j \in 1 .. 6 : Encode(i)[j + 4] = i.value[j + 1]
  <1> DEFINE v == i.value
             h == <<Head(v), 0>>
             t == Tail(v)
             d == h \o t
  <1>1. i.key \in Byte /\ v \in Seq(Byte) /\ Len(v) = 7
    BY ItemSizes
  <1>2. v # <<>> /\ Head(v) = v[1] /\ v[1] \in Byte
    <2>1. v # <<>> /\ 1 \in 1 .. Len(v)
      <3> HIDE DEF v
      <3>1. v # <<>>
        BY <1>1, EmptySeq
      <3>2. QED
        BY <1>1, <3>1
    <2>2. QED
      BY <1>1, <2>1, ElementOfSeq
  <1>3. t \in Seq(Byte) /\ Len(t) = 6 /\ \A j \in 1 .. 6 : t[j] = v[j + 1]
    <2>1. t \in Seq(Byte) /\ Len(t) = Len(v) - 1 /\ \A j \in 1 .. Len(t) : t[j] = v[j + 1]
      BY <1>1, <1>2, HeadTailProperties
    <2> HIDE DEF t
    <2>2. Len(t) = 6
      BY <1>1, <2>1
    <2>3. QED
      BY <2>1, <2>2
  <1>4. h \in Seq(Byte) /\ Len(h) = 2 /\ h[1] = v[1]
    BY <1>2 DEF Byte
  <1>5. Encode(i) = <<i.key, Len(d)>> \o d
    BY Kinds DEF Encode, Data
  <1> HIDE DEF v, h, t
  <1>6. /\ d \in Seq(Byte) /\ Len(d) = 8
        /\ \A j \in 1 .. 8 : d[j] = IF j <= 2 THEN h[j] ELSE t[j - 2]
    <2>1. /\ d \in Seq(Byte) /\ Len(d) = Len(h) + Len(t)
          /\ \A j \in 1 .. Len(h) + Len(t) : d[j] = IF j <= Len(h) THEN h[j] ELSE t[j - Len(h)]
      BY <1>3, <1>4, ConcatProperties
    <2> HIDE DEF d
    <2>2. Len(h) + Len(t) = 8
      BY <1>3, <1>4
    <2>3. QED
      BY <1>4, <2>1, <2>2
  <1> HIDE DEF d
  <1>7. d[1] = v[1] /\ \A j \in 1 .. 6 : d[j + 2] = v[j + 1]
    <2>1. \A j \in 1 .. 6 : j + 2 \in 1 .. 8 /\ ~(j + 2 <= 2) /\ (j + 2) - 2 = j
      OBVIOUS
    <2>2. \A j \in 1 .. 6 : d[j + 2] = t[j]
      BY <1>6, <2>1
    <2>3. 1 \in 1 .. 8 /\ 1 <= 2
      OBVIOUS
    <2>4. QED
      BY <1>3, <1>4, <1>6, <2>2, <2>3
  <1>8. /\ Framed(Encode(i)) /\ Encode(i)[1] = i.key /\ Encode(i)[2] = 8
        /\ \A j \in 1 .. 8 : Encode(i)[j + 2] = d[j]
    <2>1. i.key \in Byte /\ d \in Seq(Byte) /\ Len(d) \in Byte
      BY <1>1, <1>6 DEF Byte
    <2>2. /\ Framed(Encode(i)) /\ Encode(i)[1] = i.key /\ Encode(i)[2] = Len(d)
          /\ \A j \in 1 .. Len(d) : Encode(i)[j + 2] = d[j]
      BY <1>5, <2>1, Frames
    <2>3. QED
      BY <1>6, <2>2
  <1>9. Encode(i)[3] = v[1]
    <2>1. 1 \in 1 .. 8 /\ 1 + 2 = 3
      OBVIOUS
    <2>2. Encode(i)[1 + 2] = d[1]
      BY <1>8, <2>1
    <2>3. QED
      BY <1>7, <2>1, <2>2
  <1>10. \A j \in 1 .. 6 : Encode(i)[j + 4] = v[j + 1]
    <2>1. \A j \in 1 .. 6 : j + 2 \in 1 .. 8 /\ (j + 2) + 2 = j + 4
      OBVIOUS
    <2>2. \A j \in 1 .. 6 : Encode(i)[j + 4] = d[j + 2]
      BY <1>8, <2>1
    <2>3. QED
      BY <1>7, <2>2
  <1>11. QED
    BY <1>8, <1>9, <1>10 DEF v

\* An item is parsed to itself, but for a MAC address of the old kind.
LEMMA EncodedItem ==
  ASSUME NEW i \in Items
  PROVE  /\ Framed(Encode(i)) /\ Encode(i)[1] = i.key
         /\ i.key \in OldMacKeys => ItemError(Encode(i)) = "IncorrectLength"
         /\ i.key \notin OldMacKeys => ItemError(Encode(i)) = "none" /\ ItemOf(Encode(i)) = i
  <1> DEFINE b == Encode(i)
             v == i.value
  <1>0. i = [key |-> i.key, value |-> v]
    BY ItemSizes
  <1>1. i.key \in Keys /\ i.key \in Byte /\ v \in Seq(Byte) /\ Len(v) \in Nat
    BY ItemSizes
  <1>2. CASE i.key \in TextKeys
    <2>1. /\ Framed(b) /\ b[1] = i.key /\ b[2] = Len(v) + 1 /\ b[Len(v) + 3] = 0
          /\ \A j \in 1 .. Len(v) : b[j + 2] = v[j]
      BY <1>2, EncodedText
    <2>2. b \in Seq(Byte) /\ Len(b) = Len(v) + 3
      BY <1>1, <2>1 DEF Framed
    <2> HIDE DEF b, v
    <2>3. /\ b[b[2] + 2] = 0 /\ ~(Len(b) < b[2] + 2) /\ b[2] # 0 /\ LengthFits(b[1], b[2])
      BY <1>1, <1>2, <2>1, <2>2 DEF LengthFits
    <2>4. ItemError(b) = "none"
      BY <1>1, <1>2, <2>1, <2>3, Kinds DEF ItemError
    <2>5. SubSeq(b, 3, b[2] + 1) = v
      <3>1. /\ Len(v) + 2 \in Nat /\ Len(v) + 2 = 3 + Len(v) - 1 /\ Len(v) + 2 <= Len(b)
            /\ b[2] + 1 = Len(v) + 2 /\ \A j \in 1 .. Len(v) : 3 + j - 1 = j + 2
        BY <1>1, <2>1, <2>2
      <3>2. \A j \in 1 .. Len(v) : b[3 + j - 1] = v[j]
        BY <2>1, <3>1
      <3>3. SubSeq(b, 3, Len(v) + 2) = v
        BY <1>1, <2>2, <3>1, <3>2, SliceEquals
      <3>4. QED
        BY <3>1, <3>3
    <2>6. ItemOf(b) = i
      BY <1>0, <1>2, <2>1, <2>5, Kinds DEF ItemOf, ValueOf
    <2>7. QED
      BY <1>2, <2>1, <2>4, <2>6, Kinds DEF b
  <1>3. CASE i.key \in OldMacKeys
    <2>1. Framed(b) /\ b[1] = i.key /\ b[2] = Len(v) + 1 /\ b[Len(v) + 3] = 0
      BY <1>3, EncodedText
    <2>2. Len(v) = 17
      BY <1>3, ItemSizes
    <2>3. /\ b[b[2] + 2] = 0 /\ ~(Len(b) < b[2] + 2) /\ b[2] - 1 # 16 /\ LengthFits(b[1], b[2])
      <3> HIDE DEF b, v
      <3>1. b[2] = 18 /\ b[20] = 0 /\ Len(b) = 20
        BY <2>1, <2>2 DEF Framed
      <3>2. LengthFits(b[1], b[2])
        BY <1>3, <2>1, <3>1 DEF LengthFits
      <3>3. b[2] + 2 = 20 /\ b[2] - 1 = 17
        BY <3>1
      <3>4. QED
        BY <3>1, <3>2, <3>3
    <2> HIDE DEF b, v
    <2>4. ItemError(b) = "IncorrectLength"
      BY <1>1, <1>3, <2>1, <2>3, Kinds DEF ItemError
    <2>5. QED
      BY <1>3, <2>1, <2>4 DEF b
  <1>4. CASE i.key \in ByteKeys
    <2>1. Framed(b) /\ b[1] = i.key /\ b[2] = 1 /\ b[3] = v[1]
      BY <1>4, EncodedByte
    <2>2. Len(v) = 1 /\ v[1] \in Variants(i.key)
      BY <1>4, ItemSizes
    <2> HIDE DEF b, v
    <2>3. Len(b) = 3 /\ ~(Len(b) < b[2] + 2) /\ LengthFits(b[1], b[2]) /\ b[3] \in Variants(b[1])
      BY <1>4, <2>1, <2>2 DEF LengthFits, Framed
    <2>4. ItemError(b) = "none"
      BY <1>1, <1>4, <2>1, <2>3, Kinds DEF ItemError
    <2>5. <<b[3]>> = v
      BY <1>1, <2>1, <2>2
    <2>6. ItemOf(b) = i
      BY <1>0, <1>4, <2>1, <2>5, Kinds DEF ItemOf, ValueOf
    <2>7. QED
      BY <1>4, <2>1, <2>4, <2>6, Kinds DEF b
  <1>5. CASE i.key = NewMacKey
    <2>1. /\ Framed(b) /\ b[1] = i.key /\ b[2] = 8 /\ b[3] = v[1]
          /\ \A j \in 1 .. 6 : b[j + 4] = v[j + 1]
      BY <1>5, EncodedMac
    <2>2. Len(v) = 7
      BY <1>5, ItemSizes
    <2> HIDE DEF b, v
    <2>3. b \in Seq(Byte) /\ Len(b) = 10 /\ ~(Len(b) < b[2] + 2) /\ LengthFits(b[1], b[2])
      BY <1>5, <2>1 DEF LengthFits, Framed
    <2>4. ItemError(b) = "none"
      BY <1>1, <1>5, <2>1, <2>3, Kinds DEF ItemError
    <2>5. <<b[3]>> \o SubSeq(b, 5, 10) = v
      <3> DEFINE t == Tail(v)
      <3>1. v # <<>> /\ 1 \in 1 .. Len(v)
        BY <1>1, <2>2
      <3>2. t \in Seq(Byte) /\ Len(t) = 6 /\ \A j \in 1 .. 6 : t[j] = v[j + 1]
        <4>1. t \in Seq(Byte) /\ Len(t) = Len(v) - 1 /\ \A j \in 1 .. Len(t) : t[j] = v[j + 1]
          BY <1>1, <3>1, HeadTailProperties
        <4> HIDE DEF t
        <4>2. Len(t) = 6
          BY <2>2, <4>1
        <4>3. QED
          BY <4>1, <4>2
      <3>3. v = <<v[1]>> \o t
        BY <1>1, <3>1
      <3> HIDE DEF t
      <3>4. SubSeq(b, 5, 10) = t
        <4>1. /\ 10 = 5 + Len(t) - 1 /\ 10 <= Len(b) /\ 5 \in Nat /\ 10 \in Nat /\ 1 <= 5
              /\ \A j \in 1 .. Len(t) : j \in 1 .. 6 /\ 5 + j - 1 = j + 4
          BY <2>3, <3>2
        <4>2. \A j \in 1 .. Len(t) : b[5 + j - 1] = t[j]
          BY <2>1, <3>2, <4>1
        <4>3. QED
          BY <2>3, <3>2, <4>1, <4>2, SliceEquals
      <3>5. QED
        BY <2>1, <3>3, <3>4
    <2>6. ItemOf(b) = i
      BY <1>0, <1>5, <2>1, <2>5, Kinds DEF ItemOf, ValueOf
    <2>7. QED
      BY <1>5, <2>1, <2>4, <2>6, Kinds DEF b
  <1>6. QED
    BY <1>1, <1>2, <1>3, <1>4, <1>5, Kinds

\* A part of an answer holds an item, or it is refused.
LEMMA PartFacts ==
  ASSUME NEW p \in Parts
  PROVE  /\ Framed(p.bytes) /\ Len(p.bytes) >= 2
         /\ p.ok => \E i \in Items : p.bytes = Encode(i)
         /\ ~p.ok => ItemError(p.bytes) # "none"
  <1>1. CASE p \in [bytes : {Encode(i) : i \in Items}, ok : {TRUE}]
    <2>1. PICK i \in Items : p.bytes = Encode(i)
      BY <1>1
    <2>2. Framed(Encode(i))
      BY EncodedItem
    <2>3. Len(Encode(i)) >= 2
      BY <2>2 DEF Framed
    <2>4. p.ok
      BY <1>1
    <2>5. QED
      BY <2>1, <2>2, <2>3, <2>4
  <1>2. CASE p \in [bytes : Malformed, ok : {FALSE}]
    <2>1. p.bytes \in Malformed /\ ~p.ok
      BY <1>2
    <2> DEFINE m == p.bytes
    <2>2. /\ m \in Seq(Byte) /\ Len(m) >= 2 /\ Len(m) = m[2] + 2 /\ ItemError(m) # "none"
      BY <2>1, MalformedAssumption DEF Byte
    <2>3. m[2] \in Nat
      <3> HIDE DEF m
      <3>1. 2 \in 1 .. Len(m)
        BY <2>2
      <3>2. m[2] \in Byte
        BY <2>2, <3>1, ElementOfSeq
      <3>3. QED
        BY <3>2 DEF Byte
    <2>4. QED
      BY <2>1, <2>2, <2>3 DEF Framed
  <1>3. QED
    BY <1>1, <1>2 DEF Parts

\* A string that is as long as it announces does not run out.
LEMMA FramedErrors ==
  ASSUME NEW b, Framed(b)
  PROVE  ItemError(b) \in (Errors \ {"IncompleteInput"}) \cup {"none"}
  <1>1. ~(Len(b) < b[2] + 2)
    BY DEF Framed
  <1>2. QED
    BY <1>1 DEF ItemError, Errors, ItemErrors

\* Where the k-th part of an answer ends.
At(s, k) == Len(Bytes(SubSeq(s, 1, k)))

\* The parts lie one after the other.
LEMMA Layout ==
  ASSUME NEW s \in Seq(Parts)
  PROVE  /\ Bytes(s) \in Seq(Byte)
         /\ At(s, 0) = 0 /\ At(s, Len(s)) = Len(Bytes(s))
         /\ \A k \in 0 .. Len(s) : At(s, k) \in Nat
         /\ \A k \in 1 .. Len(s) :
              /\ At(s, k) = At(s, k - 1) + Len(s[k].bytes)
              /\ \A j \in 1 .. Len(s[k].bytes) : Bytes(s)[At(s, k - 1) + j] = s[k].bytes[j]
         /\ \A k \in 0 .. Len(s) : \A m \in k .. Len(s) : At(s, k) <= At(s, m)
  <1> DEFINE t == [k \in DOMAIN s |-> s[k].bytes]
             J(k) == FlattenSeq(SubSeq(t, 1, k))
  <1>1. Len(s) \in Nat /\ DOMAIN s = 1 .. Len(s) /\ \A k \in 1 .. Len(s) : s[k] \in Parts
    BY LenProperties, ElementOfSeq
  <1>2. t \in Seq(Seq(Byte)) /\ Len(t) = Len(s) /\ \A k \in 1 .. Len(s) : t[k] = s[k].bytes
    <2>1. \A k \in 1 .. Len(s) : s[k].bytes \in Seq(Byte)
      BY <1>1, PartFacts DEF Framed
    <2>2. t = [k \in 1 .. Len(s) |-> s[k].bytes]
      BY <1>1
    <2>3. QED
      BY <1>1, <2>1, <2>2, IsASeq
  <1>3. ASSUME NEW k \in 0 .. Len(s) PROVE Bytes(SubSeq(s, 1, k)) = J(k)
    <2> DEFINE u == SubSeq(s, 1, k)
    <2>1. DOMAIN u = 1 .. k /\ \A j \in 1 .. k : u[j] = s[j]
      BY <1>1
    <2>2. SubSeq(t, 1, k) = [j \in 1 .. k |-> t[j]]
      <3> HIDE DEF t
      <3>1. QED
        BY <1>1, <1>2
    <2>3. [j \in DOMAIN u |-> u[j].bytes] = [j \in 1 .. k |-> t[j]]
      <3> HIDE DEF u
      <3>1. \A j \in 1 .. k : u[j].bytes = t[j]
        BY <1>1, <1>2, <2>1
      <3> HIDE DEF t
      <3>2. QED
        BY <2>1, <3>1
    <2>4. QED
      BY <2>2, <2>3 DEF Bytes
  <1>4. Bytes(s) = FlattenSeq(t)
    BY DEF Bytes
  <1> HIDE DEF t
  <1>5. /\ J(0) = <<>> /\ J(Len(s)) = Bytes(s)
        /\ \A k \in 1 .. Len(s) : J(k) = J(k - 1) \o t[k]
    BY <1>2, <1>4, FlattenGrows
  <1>6. \A k \in 0 .. Len(s) : J(k) \in Seq(Byte) /\ Len(J(k)) \in Nat
    BY <1>2, FlattenTyped, LenProperties
  <1>7. \A k \in 0 .. Len(s) : \A m \in k .. Len(s) :
          Len(J(k)) <= Len(J(m)) /\ \A j \in 1 .. Len(J(k)) : J(m)[j] = J(k)[j]
    BY <1>2, FlattenPrefix
  <1>8. \A k \in 0 .. Len(s) : At(s, k) = Len(J(k))
    BY <1>3 DEF At
  <1> HIDE DEF J
  <1>9. ASSUME NEW k \in 1 .. Len(s)
        PROVE  /\ At(s, k) = At(s, k - 1) + Len(s[k].bytes)
               /\ \A j \in 1 .. Len(s[k].bytes) : Bytes(s)[At(s, k - 1) + j] = s[k].bytes[j]
    <2> DEFINE a == J(k - 1)
               p == t[k]
    <2>1. /\ k - 1 \in 0 .. Len(s) /\ k \in 0 .. Len(s) /\ Len(s) \in k .. Len(s)
          /\ p = s[k].bytes
      BY <1>1, <1>2
    <2>2. a \in Seq(Byte) /\ Len(a) \in Nat /\ p \in Seq(Byte) /\ Len(p) \in Nat /\ J(k) = a \o p
      BY <1>1, <1>2, <1>5, <1>6, <2>1, ElementOfSeq, LenProperties
    <2> HIDE DEF a, p
    <2>3. /\ Len(J(k)) = Len(a) + Len(p)
          /\ \A j \in 1 .. Len(a) + Len(p) :
               J(k)[j] = IF j <= Len(a) THEN a[j] ELSE p[j - Len(a)]
      BY <2>2, ConcatProperties
    <2>4. ASSUME NEW j \in 1 .. Len(p) PROVE Bytes(s)[Len(a) + j] = p[j]
      <3>1. /\ Len(a) + j \in 1 .. Len(a) + Len(p)
            /\ ~(Len(a) + j <= Len(a)) /\ (Len(a) + j) - Len(a) = j
        BY <2>2
      <3>2. J(k)[Len(a) + j] = p[j]
        BY <2>3, <3>1
      <3>3. J(Len(s))[Len(a) + j] = J(k)[Len(a) + j]
        BY <1>7, <2>1, <2>3, <3>1
      <3>4. QED
        BY <1>5, <3>2, <3>3
    <2>5. At(s, k) = Len(J(k)) /\ At(s, k - 1) = Len(a)
      BY <1>8, <2>1 DEF a
    <2>6. QED
      BY <2>1, <2>3, <2>4, <2>5
  <1>10. Bytes(s) \in Seq(Byte) /\ At(s, Len(s)) = Len(Bytes(s)) /\ At(s, 0) = 0
    <2>1. Len(s) \in 0 .. Len(s) /\ 0 \in 0 .. Len(s) /\ Len(<<>>) = 0
      BY <1>1
    <2>2. QED
      BY <1>5, <1>6, <1>8, <2>1
  <1>11. \A k \in 0 .. Len(s) : \A m \in k .. Len(s) : At(s, k) <= At(s, m)
    <2>1. \A k \in 0 .. Len(s) : \A m \in k .. Len(s) : m \in 0 .. Len(s)
      BY <1>1
    <2>2. QED
      BY <1>7, <1>8, <2>1
  <1>12. QED
    BY <1>6, <1>8, <1>9, <1>10, <1>11

-----------------------------------------------------------------------------
(* The loop *)

\* What the host received is the answer, cut somewhere.
IsCut ==
  /\ input \in Seq(Byte) /\ Len(input) <= Len(Bytes(sent))
  /\ \A j \in 1 .. Len(input) : input[j] = Bytes(sent)[j]

\* The items parsed are the card's first, and the loop stands behind them.
Follows ==
  /\ items \in Seq(Items) /\ Len(items) <= Len(sent)
  /\ \A k \in 1 .. Len(items) : sent[k].ok /\ Encode(items[k]) = sent[k].bytes
  /\ parsed_len = At(sent, Len(items)) /\ parsed_len <= Len(input)

\* CardInfo::try_from panics only on an answer that lacks the last byte of an
\* item.
PanicsOneByteShort ==
  result = "panic" =>
    Len(items) < Len(sent) /\ At(sent, Len(items) + 1) = Len(input) + 1

\* With what the loop ends.
EndsWell ==
  /\ result \in {"parsing", "ok", "panic"} \cup (Errors \ {"IncompleteInput"})
  /\ OkLosesNoItem /\ ErrorsHaveCause /\ PanicsOneByteShort

LoopInv ==
  /\ sent \in BoundedSeq(Parts, MaxItems) /\ sent \in Seq(Parts)
  /\ IsCut /\ Follows /\ EndsWell

LEMMA LoopBegins ==
  ASSUME Init
  PROVE  LoopInv
  <1> DEFINE all == Bytes(sent)
  <1>1. sent \in BoundedSeq(Parts, MaxItems) /\ sent \in Seq(Parts)
    <2>1. sent \in BoundedSeq(Parts, MaxItems)
      BY DEF Init
    <2>2. PICK n \in 0 .. MaxItems : sent \in [1 .. n -> Parts]
      BY <2>1 DEF BoundedSeq, SeqOf
    <2>3. QED
      BY <2>1, <2>2, MaxItemsAssumption
  <1>2. all \in Seq(Byte) /\ Len(all) \in Nat /\ At(sent, 0) = 0 /\ Len(sent) \in Nat
    BY <1>1, Layout, LenProperties
  <1>3. PICK n \in 0 .. Len(all) : input = SubSeq(all, 1, n)
    BY DEF Init
  <1> HIDE DEF all
  <1>4. input \in Seq(Byte) /\ Len(input) = n /\ \A j \in 1 .. n : input[j] = all[j]
    <2>1. /\ 1 \in Int /\ n \in Int /\ \A j \in 1 .. n : all[j] \in Byte
          /\ n - 1 + 1 = n /\ \A j \in 1 .. n : 1 + j - 1 = j
      BY <1>2, <1>3, ElementOfSeq
    <2>2. /\ input \in Seq(Byte) /\ Len(input) = (IF 1 <= n THEN n - 1 + 1 ELSE 0)
          /\ \A j \in 1 .. n - 1 + 1 : input[j] = all[1 + j - 1]
      BY <1>3, <2>1, SubSeqProperties
    <2>3. QED
      BY <1>2, <1>3, <2>1, <2>2
  <1>5. IsCut
    BY <1>2, <1>3, <1>4 DEF IsCut, all
  <1>6. Follows
    <2>1. items = <<>> /\ parsed_len = 0
      BY DEF Init
    <2>2. Len(items) = 0 /\ items \in Seq(Items) /\ 1 .. Len(items) = {}
      BY <2>1
    <2>3. QED
      BY <1>2, <1>3, <1>4, <2>1, <2>2 DEF Follows
  <1>7. EndsWell
    BY DEF Init, EndsWell, OkLosesNoItem, ErrorsHaveCause, PanicsOneByteShort, Errors, ItemErrors
  <1>8. QED
    BY <1>1, <1>5, <1>6, <1>7 DEF LoopInv

\* What the loop finds: the next part, when all of it was received.
LEMMA NextPart ==
  ASSUME LoopInv, More
  PROVE  LET n == Len(items) + 1
         IN /\ n \in 1 .. Len(sent)
            /\ NextItemPos = At(sent, n) /\ NextItemPos \in Nat
            /\ NextItemPos <= Len(input) =>
                 SubSeq(input, parsed_len + 1, NextItemPos) = sent[n].bytes
  <1> DEFINE n == Len(items) + 1
             a == At(sent, n - 1)
             p == sent[n].bytes
             all == Bytes(sent)
  <1>1. /\ sent \in Seq(Parts) /\ Len(items) \in Nat /\ Len(items) <= Len(sent)
        /\ Len(sent) \in Nat /\ Len(input) \in Nat /\ input \in Seq(Byte)
        /\ Len(input) <= Len(all) /\ n - 1 = Len(items) /\ parsed_len = a
    BY LenProperties DEF LoopInv, Follows, IsCut
  <1>2. a \in Nat /\ At(sent, Len(sent)) = Len(all)
    <2>1. n - 1 \in 0 .. Len(sent)
      BY <1>1
    <2> HIDE DEF n
    <2>2. QED
      BY <1>1, <2>1, Layout
  <1>3. a + 2 < Len(input)
    BY <1>1 DEF More
  <1>4. n \in 1 .. Len(sent)
    <2>1. Len(items) # Len(sent)
      <3> HIDE DEF all, n
      <3>1. SUFFICES ASSUME Len(items) = Len(sent) PROVE FALSE
        OBVIOUS
      <3>2. a = Len(all)
        BY <1>1, <1>2, <3>1
      <3> HIDE DEF a
      <3>3. QED
        BY <1>1, <1>2, <1>3, <3>2
    <2>2. QED
      BY <1>1, <2>1
  <1>5. sent[n] \in Parts
    BY <1>1, <1>4, ElementOfSeq
  <1>6. p \in Seq(Byte) /\ p[2] \in Nat /\ Len(p) = p[2] + 2 /\ Len(p) \in Nat
    BY <1>5, PartFacts, LenProperties DEF Framed
  <1>7. At(sent, n) = a + Len(p) /\ \A j \in 1 .. Len(p) : all[a + j] = p[j]
    <2> HIDE DEF n
    <2>1. QED
      BY <1>1, <1>4, Layout
  <1>8. \A j \in 1 .. Len(input) : input[j] = all[j]
    BY DEF LoopInv, IsCut
  <1> HIDE DEF n, a, p, all
  <1>9. input[a + 2] = p[2]
    <2>1. 2 \in 1 .. Len(p) /\ a + 2 \in 1 .. Len(input)
      BY <1>1, <1>2, <1>3, <1>6
    <2>2. QED
      BY <1>7, <1>8, <2>1
  <1>10. NextItemPos = a + Len(p)
    <2>1. NextItemPos = a + p[2] + 2
      BY <1>1, <1>9 DEF NextItemPos
    <2>2. QED
      BY <1>2, <1>6, <2>1
  <1>11. ASSUME NextItemPos <= Len(input)
         PROVE  SubSeq(input, parsed_len + 1, NextItemPos) = p
    <2> DEFINE m == a + 1
               e == a + Len(p)
    <2>1. /\ m \in Nat /\ e \in Nat /\ e = m + Len(p) - 1 /\ 1 <= m /\ e <= Len(input)
      BY <1>2, <1>6, <1>10, <1>11
    <2>2. ASSUME NEW j \in 1 .. Len(p)
          PROVE  m + j - 1 = a + j /\ a + j \in 1 .. Len(input)
      <3>1. j \in Nat /\ 1 <= j /\ j <= Len(p) /\ a + Len(p) <= Len(input)
        BY <1>6, <2>1
      <3>2. QED
        BY <1>1, <1>2, <1>6, <3>1
    <2>3. parsed_len + 1 = m /\ NextItemPos = e
      BY <1>1, <1>10
    <2> HIDE DEF m, e
    <2>4. \A j \in 1 .. Len(p) : input[m + j - 1] = p[j]
      BY <1>7, <1>8, <2>2
    <2>5. SubSeq(input, m, e) = p
      BY <1>1, <1>6, <2>1, <2>4, SliceEquals
    <2>6. QED
      BY <2>3, <2>5
  <1>12. NextItemPos \in Nat /\ NextItemPos = At(sent, n)
    BY <1>2, <1>6, <1>7, <1>10
  <1>13. QED
    BY <1>4, <1>11, <1>12 DEF n, p

\* What a step that parses no item keeps.
LEMMA RestKeeps ==
  ASSUME LoopInv, UNCHANGED <<sent, input, parsed_len, items>>, EndsWell'
  PROVE  LoopInv'
  <1>1. IsCut'
    BY DEF LoopInv, IsCut, Bytes
  <1>2. Follows'
    BY DEF LoopInv, Follows, At, Bytes
  <1>3. QED
    BY <1>1, <1>2 DEF LoopInv

LEMMA RefusedKeeps ==
  ASSUME LoopInv, UNCHANGED <<sent, input, parsed_len, items>>,
         ErrorsHaveCause', PanicsOneByteShort',
         result' \in {"panic"} \cup (Errors \ {"IncompleteInput"})
  PROVE  LoopInv'
  <1>1. result' # "ok"
    BY DEF Errors, ItemErrors
  <1>2. EndsWell'
    BY <1>1 DEF EndsWell, OkLosesNoItem
  <1>3. QED
    BY <1>2, RestKeeps

\* An item is parsed, and it is the card's; or it is refused, for a reason.
LEMMA ParsingKeeps ==
  ASSUME LoopInv, ParseItem
  PROVE  LoopInv'
  <1> DEFINE n == Len(items) + 1
             b == SubSeq(input, parsed_len + 1, NextItemPos)
             p == sent[n]
  <1>1. /\ sent \in Seq(Parts) /\ Len(sent) \in Nat /\ items \in Seq(Items)
        /\ Len(items) \in Nat /\ n - 1 = Len(items)
        /\ sent' = sent /\ input' = input
    BY LenProperties DEF LoopInv, Follows, ParseItem
  <1>2. /\ n \in 1 .. Len(sent) /\ NextItemPos = At(sent, n) /\ NextItemPos <= Len(input)
        /\ b = p.bytes
    BY NextPart DEF ParseItem
  <1>3. p \in Parts
    BY <1>1, <1>2, ElementOfSeq
  <1> HIDE DEF b
  <1>4. /\ Framed(b)
        /\ ~p.ok => ItemError(b) # "none"
        /\ p.ok => \E i \in Items : b = Encode(i)
    BY <1>2, <1>3, PartFacts
  <1>5. CASE ItemError(b) = "none"
    <2>1. PICK i \in Items : b = Encode(i)
      BY <1>4, <1>5
    <2>2. p.ok /\ ItemOf(b) = i
      BY <1>4, <1>5, <2>1, EncodedItem
    <2>3. items' = Append(items, i) /\ parsed_len' = NextItemPos /\ result' = "parsing"
      BY <1>5, <2>2 DEF ParseItem, b
    <2>4. /\ items' \in Seq(Items) /\ Len(items') = n
          /\ \A k \in 1 .. n - 1 : items'[k] = items[k]
          /\ items'[n] = i
      <3>1. /\ items' \in Seq(Items) /\ Len(items') = Len(items) + 1
            /\ \A k \in 1 .. Len(items) : items'[k] = items[k]
            /\ items'[Len(items) + 1] = i
        BY <1>1, <2>1, <2>3, AppendProperties
      <3>2. QED
        BY <1>1, <3>1
    <2>5. \A k \in 1 .. n : sent[k].ok /\ Encode(items'[k]) = sent[k].bytes
      <3>1. \A k \in 1 .. n - 1 : sent[k].ok /\ Encode(items[k]) = sent[k].bytes
        BY <1>1 DEF LoopInv, Follows
      <3>2. \A k \in 1 .. n : k = n \/ k \in 1 .. n - 1
        BY <1>1
      <3>3. sent[n].ok /\ Encode(items'[n]) = sent[n].bytes
        BY <1>2, <2>1, <2>2, <2>4
      <3> HIDE DEF n, p
      <3>4. QED
        BY <2>4, <3>1, <3>2, <3>3
    <2> HIDE DEF n, p
    <2>6. At(sent', Len(items')) = At(sent, n) /\ Len(items') <= Len(sent')
      BY <1>1, <1>2, <2>4 DEF At
    <2>7. Follows'
      BY <1>1, <1>2, <2>3, <2>4, <2>5, <2>6 DEF Follows
    <2>8. EndsWell'
      BY <2>3 DEF EndsWell, OkLosesNoItem, ErrorsHaveCause, PanicsOneByteShort, Errors, ItemErrors
    <2>9. IsCut' /\ sent' \in BoundedSeq(Parts, MaxItems) /\ sent' \in Seq(Parts)
      BY <1>1 DEF LoopInv, IsCut, Bytes
    <2>10. QED
      BY <2>7, <2>8, <2>9 DEF LoopInv
  <1>6. CASE ItemError(b) # "none"
    <2>1. result' = ItemError(b) /\ items' = items /\ parsed_len' = parsed_len
      BY <1>6 DEF ParseItem, b
    <2>2. result' \in Errors \ {"IncompleteInput"}
      BY <1>4, <1>6, <2>1, FramedErrors
    <2>3. PanicsOneByteShort'
      BY <2>1, <2>2 DEF PanicsOneByteShort, Errors, ItemErrors
    <2>4. CASE p.ok
      <3>1. PICK i \in Items : b = Encode(i)
        BY <1>4, <2>4
      <3>2. i.key \in OldMacKeys /\ result' = "IncorrectLength" /\ b[1] = i.key
        BY <1>6, <2>1, <3>1, EncodedItem
      <3>3. Len(items') < Len(sent') /\ sent'[Len(items') + 1].bytes[1] \in OldMacKeys
        BY <1>1, <1>2, <2>1, <3>2
      <3>4. ErrorsHaveCause'
        BY <3>2, <3>3 DEF ErrorsHaveCause
      <3>5. QED
        BY <1>1, <2>1, <2>2, <2>3, <3>4, RefusedKeeps
    <2>5. CASE ~p.ok
      <3>1. n \in DOMAIN sent' /\ ~sent'[n].ok
        BY <1>1, <1>2, <2>5
      <3>2. ErrorsHaveCause'
        BY <3>1 DEF ErrorsHaveCause
      <3>3. QED
        BY <1>1, <2>1, <2>2, <2>3, <3>2, RefusedKeeps
    <2>6. QED
      BY <2>4, <2>5
  <1>7. QED
    BY <1>5, <1>6

\* An item that is too long is one that was cut.
LEMMA TooLongKeeps ==
  ASSUME LoopInv, More, OutOfBounds \/ NextItemPos > Len(input),
         result' \in {"ItemLengthOutOfBounds", "panic"}, result' = "panic" => ~OutOfBounds,
         UNCHANGED <<sent, input, parsed_len, items>>
  PROVE  LoopInv'
  <1> DEFINE n == Len(items) + 1
  <1>1. /\ sent \in Seq(Parts) /\ Len(sent) \in Nat /\ Len(input) \in Nat
    BY LenProperties DEF LoopInv, IsCut
  <1>2. n \in 1 .. Len(sent) /\ NextItemPos = At(sent, n) /\ NextItemPos \in Nat
    BY NextPart
  <1> HIDE DEF n
  <1>3. NextItemPos > Len(input)
    BY <1>1, <1>2 DEF OutOfBounds
  <1>4. At(sent, n) <= Len(Bytes(sent))
    <2>1. n \in 0 .. Len(sent) /\ Len(sent) \in n .. Len(sent)
      BY <1>1, <1>2
    <2>2. At(sent, n) <= At(sent, Len(sent)) /\ At(sent, Len(sent)) = Len(Bytes(sent))
      BY <1>1, <2>1, Layout
    <2>3. QED
      BY <2>2
  <1>5. Len(Bytes(sent)) \in Nat
    BY <1>1, Layout, LenProperties
  <1>6. input # Bytes(sent)
    BY <1>1, <1>2, <1>3, <1>4, <1>5
  <1>7. ErrorsHaveCause'
    <2>1. Bytes(sent') = Bytes(sent)
      OBVIOUS
    <2>2. input' # Bytes(sent')
      BY <1>6, <2>1
    <2>3. QED
      BY <2>2 DEF ErrorsHaveCause
  <1>8. result' \in {"panic"} \cup (Errors \ {"IncompleteInput"})
    BY DEF Errors
  <1>9. PanicsOneByteShort'
    <2> SUFFICES ASSUME result' = "panic" PROVE PanicsOneByteShort'
      BY DEF PanicsOneByteShort
    <2>1. NextItemPos = Len(input) + 1
      BY <1>1, <1>2, <1>3 DEF OutOfBounds
    <2>2. Len(items) < Len(sent) /\ At(sent, Len(items) + 1) = Len(input) + 1
      <3>1. Len(items) \in Nat
        BY LenProperties DEF LoopInv, Follows
      <3>2. QED
        BY <1>1, <1>2, <2>1, <3>1 DEF n
    <2>3. At(sent', Len(items') + 1) = At(sent, Len(items) + 1)
      BY DEF At, Bytes
    <2>4. QED
      BY <2>2, <2>3 DEF PanicsOneByteShort
  <1>10. QED
    BY <1>7, <1>8, <1>9, RefusedKeeps

\* What is left when the loop ends is shorter than an item.
LEMMA FinishKeeps ==
  ASSUME LoopInv, Finish
  PROVE  LoopInv'
  <1> DEFINE n == Len(items)
             Left(k) == At(sent, k) <= Len(input) => Len(sent[k].bytes) <= 2
  <1>1. /\ sent \in Seq(Parts) /\ Len(sent) \in Nat /\ n \in Nat /\ n <= Len(sent)
        /\ Len(input) \in Nat /\ parsed_len = At(sent, n)
    BY LenProperties DEF LoopInv, Follows, IsCut
  <1>2. ~(At(sent, n) + 2 < Len(input)) /\ result' = "ok"
    BY <1>1 DEF Finish, More
  <1>3. UNCHANGED <<sent, input, parsed_len, items>>
    BY DEF Finish
  <1>4. ASSUME NEW k \in n + 1 .. Len(sent) PROVE Left(k)
    <2> HIDE DEF n
    <2>1. /\ k \in 1 .. Len(sent) /\ k - 1 \in n .. Len(sent) /\ n \in 0 .. Len(sent)
          /\ k - 1 \in 0 .. Len(sent)
      BY <1>1
    <2>2. /\ At(sent, k) = At(sent, k - 1) + Len(sent[k].bytes)
          /\ At(sent, n) <= At(sent, k - 1) /\ At(sent, n) \in Nat /\ At(sent, k - 1) \in Nat
      BY <1>1, <2>1, Layout
    <2>3. Len(sent[k].bytes) \in Nat
      <3>1. sent[k] \in Parts
        BY <1>1, <2>1, ElementOfSeq
      <3>2. QED
        BY <3>1, PartFacts, LenProperties DEF Framed
    <2>4. QED
      BY <1>1, <1>2, <2>2, <2>3
  <1>5. OkLosesNoItem'
    <2> HIDE DEF n
    <2>1. \A k \in n + 1 .. Len(sent) :
            Len(Bytes(SubSeq(sent, 1, k))) <= Len(input) => Len(sent[k].bytes) <= 2
      BY <1>4 DEF At
    <2>2. \A k \in n + 1 .. Len(sent') :
            Len(Bytes(SubSeq(sent', 1, k))) <= Len(input') => Len(sent'[k].bytes) <= 2
      BY <1>3, <2>1
    <2>3. Len(items') = n
      BY <1>3 DEF n
    <2>4. QED
      BY <2>2, <2>3 DEF OkLosesNoItem
  <1>6. EndsWell'
    BY <1>2, <1>5 DEF EndsWell, ErrorsHaveCause, PanicsOneByteShort, Errors, ItemErrors
  <1>7. QED
    BY <1>3, <1>6, RestKeeps

\* The invariant that the theorems rest on: it says where the loop stands and,
\* once it is over, what its end says of the answer.
THEOREM LoopInvHolds == Spec => []LoopInv
  <1>1. Init => LoopInv
    BY LoopBegins
  <1>2. ASSUME LoopInv, [Next]_vars
        PROVE  LoopInv'
    <2>1. CASE ParseItem
      BY <1>2, <2>1, ParsingKeeps
    <2>2. CASE ItemTooLong
      BY <1>2, <2>2, TooLongKeeps DEF ItemTooLong
    <2>3. CASE SlicePanics
      BY <1>2, <2>3, TooLongKeeps DEF SlicePanics
    <2>4. CASE Finish
      BY <1>2, <2>4, FinishKeeps
    <2>5. CASE UNCHANGED vars
      <3>1. UNCHANGED <<sent, input, parsed_len, items>> /\ result' = result
        BY <2>5 DEF vars
      <3>2. EndsWell'
        BY <1>2, <3>1 DEF LoopInv, EndsWell, OkLosesNoItem, ErrorsHaveCause,
                               PanicsOneByteShort, At, Bytes
      <3>3. QED
        BY <1>2, <3>1, <3>2, RestKeeps
    <2>6. QED
      BY <1>2, <2>1, <2>2, <2>3, <2>4, <2>5 DEF Next
  <1>3. QED
    BY <1>1, <1>2, PTL DEF Spec

\* The items are of those a card reports, and the loop stays inside of the input.
THEOREM CardInfoTypeCorrect == Spec => []TypeOK
  <1>1. LoopInv => TypeOK
    <2> SUFFICES ASSUME LoopInv PROVE TypeOK
      OBVIOUS
    <2> DEFINE all == Bytes(sent)
               l == Len(input)
    <2>1. /\ input \in Seq(Byte) /\ l \in Nat /\ all \in Seq(Byte)
          /\ Len(all) \in Nat /\ l <= Len(all)
          /\ \A j \in 1 .. l : input[j] = all[j]
      BY Layout, LenProperties DEF LoopInv, IsCut
    <2>2. IsPrefix(input, all)
      <3> HIDE DEF all
      <3>1. SubSeq(input, 1, l) = input
        BY <2>1, SubSeqFull
      <3>2. SubSeq(all, 1, l) = input
        <4> HIDE DEF l
        <4>1. /\ 1 \in Nat /\ l = 1 + l - 1 /\ 1 <= 1 /\ \A j \in 1 .. l : 1 + j - 1 = j
          BY <2>1
        <4>2. l = 1 + Len(input) - 1
          BY <2>1 DEF l
        <4>3. \A j \in 1 .. Len(input) : all[1 + j - 1] = input[j]
          BY <2>1, <4>1 DEF l
        <4>4. QED
          BY <2>1, <4>1, <4>2, <4>3, SliceEquals
      <3>3. QED
        BY <2>1, <3>1, <3>2 DEF IsPrefix
    <2>3. parsed_len \in 0 .. l
      <3>1. Len(items) \in 0 .. Len(sent)
        BY LenProperties DEF LoopInv, Follows
      <3>2. At(sent, Len(items)) \in Nat
        BY <3>1, Layout DEF LoopInv
      <3>3. QED
        BY <2>1, <3>2 DEF LoopInv, Follows
    <2>4. \A k \in DOMAIN items : items[k] \in Items
      BY LenProperties, ElementOfSeq DEF LoopInv, Follows
    <2>5. sent \in BoundedSeq(Parts, MaxItems) /\ result \in {"parsing", "ok", "panic"} \cup Errors
      BY DEF LoopInv, EndsWell
    <2>6. QED
      BY <2>2, <2>3, <2>4, <2>5 DEF TypeOK
  <1>2. QED
    BY <1>1, LoopInvHolds, PTL

\* Whatever the card sends and wherever the answer is cut, the items parsed are
\* those that the card sent first, each with the value it was sent with.
THEOREM ItemsAreRight == Spec => []ItemsAreTheCards
  <1>1. LoopInv => ItemsAreTheCards
    BY DEF LoopInv, Follows, ItemsAreTheCards, At
  <1>2. QED
    BY <1>1, LoopInvHolds, PTL

\* An answer that is accepted has lost nothing of what was received but items
\* without data.
THEOREM OkIsComplete == Spec => []OkLosesNoItem
  <1>1. LoopInv => OkLosesNoItem
    BY DEF LoopInv, EndsWell
  <1>2. QED
    BY <1>1, LoopInvHolds, PTL

\* An answer that is refused was cut, or holds what is no item, or a MAC address
\* of the old kind.
THEOREM ErrorsAreCaused == Spec => []ErrorsHaveCause
  <1>1. LoopInv => ErrorsHaveCause
    BY DEF LoopInv, EndsWell
  <1>2. QED
    BY <1>1, LoopInvHolds, PTL

\* No item's parser is ever given fewer bytes than the item's length announces.
THEOREM ItemsComplete == Spec => []ItemsAreComplete
  <1>1. LoopInv => ItemsAreComplete
    BY DEF LoopInv, EndsWell, ItemsAreComplete
  <1>2. QED
    BY <1>1, LoopInvHolds, PTL

\* The panic of an item that is one byte too long: nothing else ends in it.
THEOREM PanicIsRare == Spec => []PanicsOneByteShort
  <1>1. LoopInv => PanicsOneByteShort
    BY DEF LoopInv, EndsWell
  <1>2. QED
    BY <1>1, LoopInvHolds, PTL

-----------------------------------------------------------------------------
(* Whole answers *)

\* An item of the format, but for a MAC address of the old kind.
Accepted(p) == p.ok /\ p.bytes[1] \notin OldMacKeys

\* CardInfo::try_from undoes the firmware's encoding: of an answer that is whole
\* and well-formed it returns the items, all of them and in their order.
WholeAnswerIsParsed ==
  input = Bytes(sent) /\ (\A k \in 1 .. Len(sent) : Accepted(sent[k])) =>
    /\ result \in {"parsing", "ok"}
    /\ result = "ok" =>
         /\ Len(items) = Len(sent)
         /\ \A k \in 1 .. Len(sent) : items[k] = ItemOf(sent[k].bytes)

\* What is accepted has data.
LEMMA AcceptedHasData ==
  ASSUME NEW p \in Parts, Accepted(p)
  PROVE  Len(p.bytes) > 2
  <1>1. PICK i \in Items : p.bytes = Encode(i)
    BY PartFacts DEF Accepted
  <1> DEFINE b == Encode(i)
  <1>2. Framed(b) /\ b[1] = i.key /\ i.key \notin OldMacKeys
    BY <1>1, EncodedItem DEF Accepted
  <1>3. i.key \in Keys /\ Len(i.value) \in Nat
    BY ItemSizes
  <1>4. b[2] # 0
    <2>1. CASE i.key \in TextKeys
      <3>1. b[2] = Len(i.value) + 1
        BY <2>1, EncodedText
      <3>2. QED
        BY <1>3, <3>1
    <2>2. CASE i.key \in ByteKeys
      <3>1. b[2] = 1
        BY <2>2, EncodedByte
      <3>2. QED
        BY <3>1
    <2>3. CASE i.key = NewMacKey
      <3>1. b[2] = 8
        BY <2>3, EncodedMac
      <3>2. QED
        BY <3>1
    <2>4. QED
      BY <1>2, <1>3, <2>1, <2>2, <2>3, Kinds
  <1>5. Len(b) > 2
    <2> HIDE DEF b
    <2>1. QED
      BY <1>2, <1>4 DEF Framed
  <1>6. QED
    BY <1>1, <1>5

THEOREM AnswersAreParsed == Spec => []WholeAnswerIsParsed
  <1>1. ASSUME LoopInv PROVE WholeAnswerIsParsed
    <2> DEFINE n == Len(items)
    <2> SUFFICES ASSUME input = Bytes(sent), \A k \in 1 .. Len(sent) : Accepted(sent[k])
                 PROVE  /\ result \in {"parsing", "ok"}
                        /\ result = "ok" =>
                             /\ n = Len(sent)
                             /\ \A k \in 1 .. Len(sent) : items[k] = ItemOf(sent[k].bytes)
      BY DEF WholeAnswerIsParsed
    <2>1. /\ sent \in Seq(Parts) /\ Len(sent) \in Nat /\ DOMAIN sent = 1 .. Len(sent)
          /\ items \in Seq(Items) /\ n \in Nat /\ n <= Len(sent)
      BY <1>1, LenProperties DEF LoopInv, Follows
    <2>2. result \in {"parsing", "ok"}
      <3>1. ASSUME n < Len(sent) PROVE ~(sent[n + 1].bytes[1] \in OldMacKeys)
        <4>1. n + 1 \in 1 .. Len(sent)
          BY <2>1, <3>1
        <4>2. QED
          BY <4>1 DEF Accepted
      <3>2. \A k \in DOMAIN sent : sent[k].ok
        BY <2>1 DEF Accepted
      <3>3. ~(result \in Errors \cup {"panic"})
        BY <1>1, <3>1, <3>2 DEF LoopInv, EndsWell, ErrorsHaveCause
      <3>4. QED
        BY <1>1, <3>3 DEF LoopInv, EndsWell
    <2>3. ASSUME result = "ok" PROVE n = Len(sent)
      <3> SUFFICES ASSUME n # Len(sent) PROVE FALSE
        OBVIOUS
      <3> DEFINE m == Len(sent)
      <3>1. m \in n + 1 .. Len(sent) /\ m \in 1 .. Len(sent)
        BY <2>1
      <3>2. At(sent, m) <= Len(input)
        <4>1. At(sent, m) = Len(input) /\ Bytes(sent) \in Seq(Byte)
          BY <2>1, Layout
        <4>2. QED
          BY <4>1, LenProperties
      <3>3. Len(sent[m].bytes) <= 2
        BY <1>1, <2>3, <3>1, <3>2 DEF LoopInv, EndsWell, OkLosesNoItem, At
      <3>4. sent[m] \in Parts /\ Accepted(sent[m])
        BY <2>1, <3>1, ElementOfSeq
      <3>5. Len(sent[m].bytes) > 2 /\ Len(sent[m].bytes) \in Nat
        BY <3>4, AcceptedHasData, PartFacts, LenProperties DEF Framed
      <3> HIDE DEF m
      <3>6. QED
        BY <3>3, <3>5
    <2>4. ASSUME NEW k \in 1 .. n PROVE items[k] = ItemOf(sent[k].bytes)
      <3>1. k \in 1 .. Len(sent) /\ items[k] \in Items
        BY <2>1, ElementOfSeq
      <3>2. sent[k].bytes = Encode(items[k]) /\ sent[k].bytes[1] \notin OldMacKeys
        BY <1>1, <3>1 DEF LoopInv, Follows, Accepted
      <3>3. QED
        BY <3>1, <3>2, EncodedItem
    <2>5. QED
      BY <2>2, <2>3, <2>4
  <1>2. LoopInv => WholeAnswerIsParsed
    BY <1>1
  <1>3. QED
    BY <1>2, LoopInvHolds, PTL
=============================================================================
