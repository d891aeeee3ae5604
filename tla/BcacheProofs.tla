---------------------------- MODULE BcacheProofs ----------------------------
(***************************************************************************)
(* For any number of buffers and blocks: the list of buffers stays whole   *)
(* and in the order of the releases, no buffer in use is recycled, and no  *)
(* block is in two buffers.                                                *)
(***************************************************************************)
EXTENDS Bcache, FiniteSetTheorems, SequenceTheorems, TLAPS

(***************************************************************************)
(* Facts about numbers and sequences.                                      *)
(***************************************************************************)
\* The least number of a set.
LEMMA LeastOf ==
  ASSUME NEW S \in SUBSET Nat, S # {}
  PROVE  \E x \in S : \A y \in S : x <= y
<1> DEFINE R == OpToRel(<, Nat)
<1>1. PICK x \in S : \A y \in S : ~(<<y, x>> \in R)
  BY WFMin, NatLessThanWellFounded
<1>2. ASSUME NEW y \in S PROVE x <= y
  <2>1. y < x => <<y, x>> \in R
    BY DEF OpToRel
  <2> HIDE DEF R
  <2> QED BY <1>1, <2>1
<1> QED BY <1>2

\* Induction on the numbers of a set.
LEMMA NatsOf ==
  ASSUME NEW S, 0 \in S, \A n \in Nat : n \in S => n + 1 \in S
  PROVE  Nat \subseteq S
<1> SUFFICES ASSUME NEW m \in Nat, m \notin S PROVE FALSE
  OBVIOUS
<1> DEFINE T == {n \in Nat : n \notin S}
<1>1. T \in SUBSET Nat /\ T # {}
  OBVIOUS
<1>2. PICK x \in T : \A y \in T : x <= y
  <2> HIDE DEF T
  <2> QED BY <1>1, LeastOf
<1>3. x \in Nat /\ x # 0 /\ x \notin S
  OBVIOUS
<1>4. x - 1 \in Nat /\ x - 1 \in S
  BY <1>2, <1>3
<1>5. (x - 1) + 1 \in S
  BY <1>4
<1> QED BY <1>3, <1>5

\* The end of a sequence, from one element earlier.
LEMMA EndOfSeq ==
  ASSUME NEW S, NEW s \in Seq(S), NEW i \in 1 .. Len(s)
  PROVE  SubSeq(s, i, Len(s)) = <<s[i]>> \o SubSeq(s, i + 1, Len(s))
<1> DEFINE n == Len(s)
           t == SubSeq(s, i + 1, n)
           u == SubSeq(s, i, n)
<1>1. n \in Nat /\ i \in Nat /\ i >= 1 /\ i <= n /\ s[i] \in S
  OBVIOUS
<1>2. (\A j \in i .. n : s[j] \in S) /\ (\A j \in i + 1 .. n : s[j] \in S)
  OBVIOUS
<1>3. u \in Seq(S) /\ Len(u) = n - i + 1 /\ \A j \in 1 .. n - i + 1 : u[j] = s[i + j - 1]
  BY <1>1, <1>2, SubSeqProperties
<1>4. t \in Seq(S) /\ Len(t) = n - i /\ \A j \in 1 .. n - i : t[j] = s[i + j]
  BY <1>1, <1>2, SubSeqProperties
<1>5. <<s[i]>> \in Seq(S) /\ Len(<<s[i]>>) = 1 /\ <<s[i]>>[1] = s[i]
  BY <1>1
<1> DEFINE h == <<s[i]>>
<1> HIDE DEF n, t, u, h
<1>6. /\ h \o t \in Seq(S) /\ Len(h \o t) = 1 + (n - i)
      /\ \A j \in 1 .. 1 + (n - i) : (h \o t)[j] = IF j <= 1 THEN h[j] ELSE t[j - 1]
  <2>1. h \in Seq(S) /\ Len(h) = 1
    BY <1>5 DEF h
  <2>2. /\ h \o t \in Seq(S) /\ Len(h \o t) = Len(h) + Len(t)
        /\ \A j \in 1 .. Len(h) + Len(t) :
             (h \o t)[j] = IF j <= Len(h) THEN h[j] ELSE t[j - Len(h)]
    BY <1>4, <2>1, ConcatProperties
  <2> QED BY <1>4, <2>1, <2>2
<1>7. ASSUME NEW j \in 1 .. n - i + 1 PROVE u[j] = (h \o t)[j]
  <2>1. CASE j = 1
    BY <1>1, <1>3, <1>5, <1>6, <2>1 DEF h
  <2>2. CASE j # 1
    <3>1. j - 1 \in 1 .. n - i /\ i + (j - 1) = i + j - 1 /\ ~ (j <= 1) /\ j \in 1 .. 1 + (n - i)
      BY <1>1, <2>2
    <3> QED BY <1>3, <1>4, <1>6, <3>1
  <2> QED BY <2>1, <2>2
<1>8. Len(h \o t) = n - i + 1
  BY <1>1, <1>6
<1>9. u = h \o t
  BY <1>3, <1>6, <1>7, <1>8, SeqEqual
<1> QED BY <1>9 DEF u, h, t, n

(***************************************************************************)
(* Following the list.                                                     *)
(***************************************************************************)
\* Walk(ptr) is defined by recursion on the number of steps: Steps(g, ptr, m) says
\* that g has the walks of up to m steps.
Steps(g, ptr, m) ==
    g = [k \in 0 .. m |->
            [b \in Nodes |-> IF k = 0 \/ b = Anchor THEN <<>> ELSE <<b>> \o g[k - 1][ptr[b]]]]

Walks(ptr, m) == CHOOSE g : Steps(g, ptr, m)

LEMMA WalkDef ==
  ASSUME NEW ptr
  PROVE  Walk(ptr) = Walks(ptr, NBUF)[NBUF][ptr[Anchor]]
  BY DEF Walk, Walks, Steps

\* One step more.
LEMMA OneStepMore ==
  ASSUME NEW ptr, NEW m \in Nat, NEW g, Steps(g, ptr, m)
  PROVE  \E h : Steps(h, ptr, m + 1)
<1> DEFINE F(f, k) ==
             [b \in Nodes |-> IF k = 0 \/ b = Anchor THEN <<>> ELSE <<b>> \o f[k - 1][ptr[b]]]
           h == [k \in 0 .. m + 1 |-> IF k <= m THEN g[k] ELSE F(g, m + 1)]
<1>1. \A k \in 0 .. m : g[k] = F(g, k)
  BY DEF Steps
<1>2. \A k \in 0 .. m + 1 : h[k] = IF k <= m THEN g[k] ELSE F(g, m + 1)
  OBVIOUS
<1>3. ASSUME NEW k \in 0 .. m + 1 PROVE h[k] = F(h, k)
  <2> HIDE DEF h
  <2>1. k = 0 \/ h[k - 1] = g[k - 1]
    <3>1. k # 0 => k - 1 \in 0 .. m + 1 /\ k - 1 <= m
      OBVIOUS
    <3> QED BY <1>2, <3>1
  <2>2. F(h, k) = F(g, k)
    BY <2>1
  <2>3. h[k] = F(g, k)
    <3>1. CASE k <= m
      <4>1. k \in 0 .. m
        BY <3>1
      <4>2. g[k] = F(g, k)
        BY <1>1, <4>1
      <4>3. h[k] = g[k]
        BY <1>2, <3>1
      <4> QED BY <4>2, <4>3
    <3>2. CASE ~ (k <= m)
      <4>1. k = m + 1
        BY <3>2
      <4> QED BY <1>2, <3>2, <4>1
    <3> QED BY <3>1, <3>2
  <2> QED BY <2>2, <2>3
<1>4. h = [k \in 0 .. m + 1 |-> h[k]]
  OBVIOUS
<1>5. Steps(h, ptr, m + 1)
  <2> HIDE DEF h
  <2> QED BY <1>3, <1>4 DEF Steps
<1> QED BY <1>5

\* The walks of any number of steps exist, and are as the code takes them.
LEMMA WalkSteps ==
  ASSUME NEW ptr, NEW n \in Nat
  PROVE  \A k \in 0 .. n : \A b \in Nodes :
           Walks(ptr, n)[k][b] = IF k = 0 \/ b = Anchor THEN <<>>
                                 ELSE <<b>> \o Walks(ptr, n)[k - 1][ptr[b]]
<1> DEFINE S == {m \in Nat : \E g : Steps(g, ptr, m)}
<1>1. 0 \in S
  <2> DEFINE g == [k \in 0 .. 0 |-> [b \in Nodes |-> <<>>]]
  <2>1. Steps(g, ptr, 0)
    BY DEF Steps
  <2> QED BY <2>1
<1>2. \A m \in Nat : m \in S => m + 1 \in S
  BY OneStepMore
<1>3. n \in S
  <2> HIDE DEF S
  <2> QED BY <1>1, <1>2, NatsOf
<1>4. Steps(Walks(ptr, n), ptr, n)
  BY <1>3 DEF Walks
<1>5. ASSUME NEW g, Steps(g, ptr, n)
      PROVE  \A k \in 0 .. n : \A b \in Nodes :
               g[k][b] = IF k = 0 \/ b = Anchor THEN <<>> ELSE <<b>> \o g[k - 1][ptr[b]]
  <2>1. \A k \in 0 .. n :
          g[k] = [b \in Nodes |-> IF k = 0 \/ b = Anchor THEN <<>> ELSE <<b>> \o g[k - 1][ptr[b]]]
    BY <1>5 DEF Steps
  <2> QED BY <2>1
<1> QED BY <1>4, <1>5

\* When the pointers lead through the buffers of s, the walk is s.
LEMMA WalkIs ==
  ASSUME NEW s \in Seq(Bufs), Len(s) = NBUF, NEW ptr,
         \A i \in 0 .. NBUF : ptr[IF i \in 1 .. NBUF THEN s[i] ELSE Anchor]
                                = IF i + 1 \in 1 .. NBUF THEN s[i + 1] ELSE Anchor
  PROVE  Walk(ptr) = s
<1> DEFINE P(i) == IF i \in 1 .. NBUF THEN s[i] ELSE Anchor
<1>1. NBUF \in Nat
  BY BcacheAssumption
<1>2. PICK g : g = Walks(ptr, NBUF)
  OBVIOUS
<1>3. \A k \in 0 .. NBUF : \A b \in Nodes :
        g[k][b] = IF k = 0 \/ b = Anchor THEN <<>> ELSE <<b>> \o g[k - 1][ptr[b]]
  <2>1. \A k \in 0 .. NBUF : \A b \in Nodes :
          Walks(ptr, NBUF)[k][b] = IF k = 0 \/ b = Anchor THEN <<>>
                                   ELSE <<b>> \o Walks(ptr, NBUF)[k - 1][ptr[b]]
    BY <1>1, WalkSteps, Zenon
  <2> QED BY <1>2, <2>1
<1>4. \A i \in 1 .. NBUF : s[i] \in Bufs /\ s[i] \in Nodes /\ s[i] # Anchor
  BY <1>1 DEF Bufs, Nodes, Anchor
<1>5. Anchor \in Nodes
  BY <1>1 DEF Anchor, Nodes
<1> DEFINE T == {j \in Nat : j <= NBUF =>
                     g[j][P(NBUF + 1 - j)] = SubSeq(s, NBUF + 1 - j, NBUF)}
<1>6. 0 \in T
  <2>1. SubSeq(s, NBUF + 1 - 0, NBUF) = <<>>
    BY <1>1, SubSeqEmpty
  <2>2. P(NBUF + 1 - 0) = Anchor /\ 0 \in 0 .. NBUF
    BY <1>1
  <2>3. g[0][Anchor] = <<>>
    BY <1>3, <1>5, <2>2
  <2> QED BY <1>1, <2>1, <2>2, <2>3
<1>7. ASSUME NEW j \in Nat, j \in T PROVE j + 1 \in T
  <2> SUFFICES ASSUME j + 1 <= NBUF
               PROVE  g[j + 1][P(NBUF + 1 - (j + 1))] = SubSeq(s, NBUF + 1 - (j + 1), NBUF)
    OBVIOUS
  <2>1. PICK i : i = NBUF - j
    OBVIOUS
  <2>2. i \in 1 .. NBUF /\ i + 1 = NBUF + 1 - j /\ i = NBUF + 1 - (j + 1) /\ j + 1 \in 0 .. NBUF
        /\ j <= NBUF /\ j + 1 # 0 /\ (j + 1) - 1 = j /\ i \in 0 .. NBUF
    BY <1>1, <2>1
  <2>3. g[j][P(i + 1)] = SubSeq(s, i + 1, NBUF)
    BY <1>7, <2>2
  <2>4. ptr[s[i]] = P(i + 1)
    BY <2>2
  <2>5. g[j + 1][s[i]] = <<s[i]>> \o g[j][ptr[s[i]]]
    <3>1. g[j + 1][s[i]] = IF j + 1 = 0 \/ s[i] = Anchor THEN <<>>
                           ELSE <<s[i]>> \o g[(j + 1) - 1][ptr[s[i]]]
      BY <1>3, <1>4, <2>2
    <3> QED BY <1>4, <2>2, <3>1
  <2>6. SubSeq(s, i, NBUF) = <<s[i]>> \o SubSeq(s, i + 1, NBUF)
    BY <2>2, EndOfSeq
  <2>7. P(i) = s[i]
    BY <2>2
  <2> HIDE DEF P
  <2> QED BY <2>2, <2>3, <2>4, <2>5, <2>6, <2>7
<1>8. NBUF \in T
  <2> HIDE DEF T
  <2> QED BY <1>1, <1>6, <1>7, NatsOf
<1>9. g[NBUF][P(1)] = SubSeq(s, 1, NBUF)
  BY <1>1, <1>8
<1>10. SubSeq(s, 1, NBUF) = s
  <2>1. \A i \in 1 .. NBUF : s[i] \in Bufs
    BY <1>4
  <2>2. /\ SubSeq(s, 1, NBUF) \in Seq(Bufs)
        /\ Len(SubSeq(s, 1, NBUF)) = IF 1 <= NBUF THEN NBUF - 1 + 1 ELSE 0
        /\ \A i \in 1 .. NBUF - 1 + 1 : SubSeq(s, 1, NBUF)[i] = s[1 + i - 1]
    BY <1>1, <2>1, SubSeqProperties
  <2>3. Len(SubSeq(s, 1, NBUF)) = Len(s) /\ \A i \in 1 .. NBUF : SubSeq(s, 1, NBUF)[i] = s[i]
    BY <1>1, <2>2
  <2> QED BY <2>2, <2>3, SeqEqual
<1>11. ptr[Anchor] = P(1)
  <2>1. 0 \in 0 .. NBUF /\ ~ (0 \in 1 .. NBUF) /\ 0 + 1 = 1
    BY <1>1
  <2> QED BY <2>1
<1>12. Walk(ptr) = g[NBUF][P(1)]
  BY <1>2, <1>11, WalkDef
<1> QED BY <1>9, <1>10, <1>12

(***************************************************************************)
(* The invariant.                                                          *)
(***************************************************************************)
\* The node at place i of the list, which begins and ends with the head.
Place(i) == IF i \in 1 .. NBUF THEN recent[i] ELSE Anchor

\* Every buffer is on the list once, and the pointers follow the order of the
\* releases in both directions.
ListInv ==
    /\ Len(recent) = NBUF
    /\ \A b \in Bufs : \E i \in 1 .. NBUF : recent[i] = b
    /\ \A i, j \in 1 .. NBUF : recent[i] = recent[j] => i = j
    /\ \A i \in 0 .. NBUF : next[Place(i)] = Place(i + 1) /\ prev[Place(i + 1)] = Place(i)

\* The references to a buffer are its count; those who have one find their block.
Refs(b) == {i \in DOMAIN held : held[i].buf = b}
RefsInv ==
    /\ \A b \in Bufs : refcnt[b] = Cardinality(Refs(b))
    /\ \A i \in DOMAIN held : Holds(held[i].buf, held[i].block)
    /\ Len(held) <= MaxHeld

\* Data is valid only for a block of the disk, only a buffer in use has changes
\* to be saved, and the cache is coherent.
DataInv ==
    /\ \A b \in Bufs : valid[b] => cached[b]
    /\ unsaved \subseteq InUse
    /\ CacheIsCoherent

BcacheInv == TypeOK /\ ListInv /\ RefsInv /\ DataInv

\* The walks from the head, in both directions.
LEMMA WalksOfList ==
  ASSUME TypeOK, ListInv
  PROVE  /\ Walk(next) = recent
         /\ Walk(prev) = [i \in 1 .. Len(recent) |-> recent[Len(recent) + 1 - i]]
<1>1. NBUF \in Nat /\ recent \in Seq(Bufs) /\ Len(recent) = NBUF
  BY BcacheAssumption DEF TypeOK, ListInv
<1>2. Walk(next) = recent
  <2>1. \A i \in 0 .. NBUF : next[IF i \in 1 .. NBUF THEN recent[i] ELSE Anchor]
                               = IF i + 1 \in 1 .. NBUF THEN recent[i + 1] ELSE Anchor
    BY DEF ListInv, Place
  <2> QED BY <1>1, <2>1, WalkIs
<1>3. Walk(prev) = [i \in 1 .. NBUF |-> recent[NBUF + 1 - i]]
  <2> DEFINE s == [i \in 1 .. NBUF |-> recent[NBUF + 1 - i]]
  <2>1. s \in Seq(Bufs) /\ Len(s) = NBUF /\ \A i \in 1 .. NBUF : s[i] = recent[NBUF + 1 - i]
    <3>1. \A i \in 1 .. NBUF : recent[NBUF + 1 - i] \in Bufs
      <4>1. \A i \in 1 .. NBUF : NBUF + 1 - i \in 1 .. NBUF
        BY <1>1
      <4> QED BY <1>1, <4>1
    <3> QED BY <1>1, <3>1
  <2> HIDE DEF s
  <2>2. ASSUME NEW i \in 0 .. NBUF
        PROVE  prev[IF i \in 1 .. NBUF THEN s[i] ELSE Anchor]
                 = IF i + 1 \in 1 .. NBUF THEN s[i + 1] ELSE Anchor
    <3>1. PICK k : k = NBUF - i
      OBVIOUS
    <3>2. k \in 0 .. NBUF /\ k + 1 = NBUF + 1 - i /\ k = NBUF + 1 - (i + 1)
      BY <1>1, <3>1
    <3>3. prev[Place(k + 1)] = Place(k)
      BY <3>2 DEF ListInv
    <3>4. Place(k + 1) = IF i \in 1 .. NBUF THEN s[i] ELSE Anchor
      <4>1. k + 1 \in 1 .. NBUF <=> i \in 1 .. NBUF
        BY <1>1, <3>2
      <4> QED BY <2>1, <3>2, <4>1 DEF Place
    <3>5. Place(k) = IF i + 1 \in 1 .. NBUF THEN s[i + 1] ELSE Anchor
      <4>1. k \in 1 .. NBUF <=> i + 1 \in 1 .. NBUF
        BY <1>1, <3>2
      <4> QED BY <2>1, <3>2, <4>1 DEF Place
    <3> QED BY <3>3, <3>4, <3>5
  <2>3. Walk(prev) = s
    BY <2>1, <2>2, WalkIs
  <2> QED BY <2>3 DEF s
<1> QED BY <1>1, <1>2, <1>3

\* The first element of a sequence that is in a set.
LEMMA FirstIn ==
  ASSUME NEW s \in Seq(Bufs), NEW T, \E i \in DOMAIN s : s[i] \in T
  PROVE  \E i \in DOMAIN s : s[i] \in T /\ \A j \in 1 .. i - 1 : s[j] \notin T
<1> DEFINE I == {i \in DOMAIN s : s[i] \in T}
<1>1. I \in SUBSET Nat /\ I # {}
  OBVIOUS
<1>2. PICK i \in I : \A j \in I : i <= j
  <2> HIDE DEF I
  <2> QED BY <1>1, LeastOf
<1>3. ASSUME NEW j \in 1 .. i - 1 PROVE s[j] \notin T
  <2>1. j \in DOMAIN s /\ ~ (i <= j)
    OBVIOUS
  <2> QED BY <1>2, <2>1
<1> QED BY <1>3

\* bget finds the buffer of a block, or one that nobody uses.
LEMMA FoundHolds ==
  ASSUME TypeOK, ListInv, NEW n, Hit(n)
  PROVE  Found(n) \in Bufs /\ Holds(Found(n), n)
<1>1. Walk(next) = recent /\ recent \in Seq(Bufs)
  BY WalksOfList DEF TypeOK
<1> DEFINE T == {b \in Bufs : Holds(b, n)}
<1>2. \E i \in DOMAIN recent : recent[i] \in T
  <2>1. PICK b \in Bufs : Holds(b, n)
    BY DEF Hit
  <2>2. PICK i \in 1 .. NBUF : recent[i] = b
    BY <2>1 DEF ListInv
  <2>3. i \in DOMAIN recent
    BY <1>1, <2>2 DEF ListInv
  <2>4. b \in T
    BY <2>1
  <2> HIDE DEF T
  <2> QED BY <2>2, <2>3, <2>4
<1>3. \E i \in DOMAIN recent : recent[i] \in T /\ \A j \in 1 .. i - 1 : recent[j] \notin T
  <2> HIDE DEF T
  <2> QED BY <1>1, <1>2, FirstIn
<1>4. \E i \in DOMAIN recent : Holds(recent[i], n) /\ \A j \in 1 .. i - 1 : ~ Holds(recent[j], n)
  <2>1. \A i \in DOMAIN recent : \A j \in 1 .. i - 1 : recent[j] \in Bufs
    BY <1>1
  <2> QED BY <1>3, <2>1
<1> DEFINE k == CHOOSE i \in DOMAIN recent :
                  Holds(recent[i], n) /\ \A j \in 1 .. i - 1 : ~ Holds(recent[j], n)
<1>5. k \in DOMAIN recent /\ Holds(recent[k], n)
  BY <1>4
<1>6. Found(n) = recent[k]
  BY <1>1 DEF Found, First
<1> HIDE DEF k
<1> QED BY <1>1, <1>5, <1>6

LEMMA VictimIsFree ==
  ASSUME TypeOK, ListInv, \E b \in Bufs : refcnt[b] = 0
  PROVE  Victim \in Bufs /\ refcnt[Victim] = 0
<1> DEFINE s == Walk(prev)
           T == {b \in Bufs : IsFree(b)}
<1>0. NBUF \in Nat /\ recent \in Seq(Bufs) /\ Len(recent) = NBUF
  BY BcacheAssumption DEF TypeOK, ListInv
<1>1. s = [i \in 1 .. NBUF |-> recent[NBUF + 1 - i]]
  BY <1>0, WalksOfList
<1> HIDE DEF s
<1>2. \A i \in 1 .. NBUF : NBUF + 1 - i \in 1 .. NBUF /\ NBUF + 1 - (NBUF + 1 - i) = i
  BY <1>0
<1>3. s \in Seq(Bufs) /\ DOMAIN s = 1 .. NBUF /\ \A j \in DOMAIN s : s[j] \in Bufs
  BY <1>0, <1>1, <1>2
<1>4. \E i \in DOMAIN s : s[i] \in T
  <2>1. PICK b \in Bufs : refcnt[b] = 0
    OBVIOUS
  <2>2. PICK i \in 1 .. NBUF : recent[i] = b
    BY DEF ListInv
  <2>3. s[NBUF + 1 - i] = b
    BY <1>1, <1>2, <2>2
  <2> QED BY <1>2, <1>3, <2>1, <2>3 DEF IsFree
<1>5. \E i \in DOMAIN s : s[i] \in T /\ \A j \in 1 .. i - 1 : s[j] \notin T
  <2> HIDE DEF T
  <2> QED BY <1>3, <1>4, FirstIn
<1>6. \E i \in DOMAIN s : IsFree(s[i]) /\ \A j \in 1 .. i - 1 : ~ IsFree(s[j])
  <2>1. \A i \in DOMAIN s : \A j \in 1 .. i - 1 : j \in DOMAIN s
    BY <1>0, <1>3
  <2>2. \A j \in DOMAIN s : s[j] \in Bufs
    BY <1>3
  <2> QED BY <1>5, <2>1, <2>2
<1> DEFINE k == CHOOSE i \in DOMAIN s : IsFree(s[i]) /\ \A j \in 1 .. i - 1 : ~ IsFree(s[j])
<1>7. k \in DOMAIN s /\ IsFree(s[k])
  BY <1>6
<1>8. Victim = s[k]
  BY DEF Victim, First, s
<1> HIDE DEF k
<1>9. s[k] \in Bufs
  BY <1>3, <1>7
<1> QED BY <1>7, <1>8, <1>9 DEF IsFree

(***************************************************************************)
(* References.                                                             *)
(***************************************************************************)
\* A sequence without its element i.
LEMMA WithoutIs ==
  ASSUME NEW S, NEW s \in Seq(S), NEW i \in 1 .. Len(s)
  PROVE  /\ Without(s, i) \in Seq(S) /\ Len(Without(s, i)) = Len(s) - 1
         /\ \A k \in 1 .. Len(s) - 1 : Without(s, i)[k] = IF k < i THEN s[k] ELSE s[k + 1]
<1> DEFINE n == Len(s)
           p == SubSeq(s, 1, i - 1)
           q == SubSeq(s, i + 1, n)
<1>1. n \in Nat /\ i \in Nat /\ i >= 1 /\ i <= n /\ \A j \in 1 .. n : s[j] \in S
  OBVIOUS
<1>2. (\A j \in 1 .. i - 1 : s[j] \in S) /\ (\A j \in i + 1 .. n : s[j] \in S)
  BY <1>1
<1>3. p \in Seq(S) /\ Len(p) = i - 1 /\ \A j \in 1 .. i - 1 : p[j] = s[j]
  BY <1>1, <1>2, SubSeqProperties
<1>4. q \in Seq(S) /\ Len(q) = n - i /\ \A j \in 1 .. n - i : q[j] = s[i + j]
  BY <1>1, <1>2, SubSeqProperties
<1>5. Without(s, i) = p \o q
  BY DEF Without
<1> HIDE DEF p, q
<1>6. /\ p \o q \in Seq(S) /\ Len(p \o q) = Len(p) + Len(q)
      /\ \A j \in 1 .. Len(p) + Len(q) : (p \o q)[j] = IF j <= Len(p) THEN p[j] ELSE q[j - Len(p)]
  BY <1>3, <1>4, ConcatProperties
<1> HIDE DEF n
<1>7. Len(p \o q) = n - 1
  BY <1>1, <1>3, <1>4, <1>6
<1>8. ASSUME NEW k \in 1 .. n - 1 PROVE (p \o q)[k] = IF k < i THEN s[k] ELSE s[k + 1]
  <2>1. k \in 1 .. Len(p) + Len(q)
    BY <1>1, <1>3, <1>4
  <2>2. CASE k < i
    <3>1. k \in 1 .. i - 1 /\ k <= Len(p)
      BY <1>1, <1>3, <2>2
    <3> QED BY <1>3, <1>6, <2>1, <2>2, <3>1
  <2>3. CASE ~ (k < i)
    <3>1. ~ (k <= Len(p)) /\ k - Len(p) \in 1 .. n - i /\ i + (k - Len(p)) = k + 1
      BY <1>1, <1>3, <2>3
    <3> QED BY <1>4, <1>6, <2>1, <2>3, <3>1
  <2> QED BY <2>2, <2>3
<1> QED BY <1>5, <1>6, <1>7, <1>8 DEF n

\* The references to a buffer are finitely many.
LEMMA RefsFinite ==
  ASSUME TypeOK, NEW b
  PROVE  IsFiniteSet(Refs(b)) /\ Cardinality(Refs(b)) \in Nat
         /\ Refs(b) \subseteq 1 .. Len(held) /\ Len(held) \in Nat
<1>1. held \in Seq([buf : Bufs, block : Blocks])
  BY DEF TypeOK
<1>2. Refs(b) \in SUBSET (1 .. Len(held)) /\ Len(held) \in Nat
  BY <1>1 DEF Refs
<1>3. IsFiniteSet(1 .. Len(held))
  BY <1>2, FS_Interval
<1>4. IsFiniteSet(Refs(b))
  BY <1>2, <1>3, FS_Subset
<1> QED BY <1>2, <1>4, FS_CardinalityType

\* A buffer that is not counted has no references, and the other way round.
LEMMA RefsCounted ==
  ASSUME TypeOK, RefsInv, NEW b \in Bufs
  PROVE  refcnt[b] = 0 <=> b \notin InUse
<1>1. refcnt[b] = 0 <=> Refs(b) = {}
  BY RefsFinite, FS_EmptySet DEF RefsInv
<1>2. Refs(b) = {} <=> b \notin InUse
  BY DEF Refs, InUse
<1> QED BY <1>1, <1>2

\* While fewer than NBUF references are held, a buffer is free.
LEMMA SomeFree ==
  ASSUME TypeOK, RefsInv, Len(held) < MaxHeld
  PROVE  \E b \in Bufs : refcnt[b] = 0
<1> SUFFICES ASSUME \A b \in Bufs : refcnt[b] # 0 PROVE FALSE
  OBVIOUS
<1> DEFINE D == 1 .. Len(held)
           f == [i \in D |-> held[i].buf]
<1>1. held \in Seq([buf : Bufs, block : Blocks]) /\ Len(held) \in Nat /\ NBUF \in Nat
      /\ Len(held) < NBUF
  BY BcacheAssumption DEF TypeOK
<1>2. DOMAIN held = D /\ \A i \in D : held[i].buf \in Bufs
  <2>1. \A i \in D : held[i] \in [buf : Bufs, block : Blocks]
    BY <1>1, ElementOfSeq
  <2> QED BY <1>1, <2>1
<1>3. f \in Surjection(D, Bufs)
  <2>1. \A b \in Bufs : b \in InUse
    BY RefsCounted
  <2>2. \A b \in Bufs : \E i \in D : held[i].buf = b
    BY <1>2, <2>1 DEF InUse
  <2>3. f \in [D -> Bufs] /\ \A i \in D : f[i] = held[i].buf
    BY <1>2
  <2> HIDE DEF D, f
  <2> QED BY <2>2, <2>3 DEF Surjection
<1>4. IsFiniteSet(D) /\ Cardinality(D) = Len(held)
  <2>1. PICK n \in Nat : n = Len(held)
    BY <1>1
  <2>2. IsFiniteSet(1 .. n) /\ Cardinality(1 .. n) = IF 1 > n THEN 0 ELSE n - 1 + 1
    BY FS_Interval
  <2> QED BY <2>1, <2>2
<1>5. Cardinality(Bufs) = NBUF
  <2>1. NBUF \in Int /\ 1 \in Int /\ NBUF >= 0
    BY <1>1
  <2>2. Cardinality(1 .. NBUF) = IF 1 > NBUF THEN 0 ELSE NBUF - 1 + 1
    BY <2>1, FS_Interval
  <2> QED BY <2>1, <2>2 DEF Bufs
<1>6. Cardinality(Bufs) <= Cardinality(D)
  <2> HIDE DEF f, D
  <2> QED BY <1>3, <1>4, FS_Surjection
<1> QED BY <1>1, <1>4, <1>5, <1>6

\* One reference more.
LEMMA RefsAppend ==
  ASSUME TypeOK, NEW r \in [buf : Bufs, block : Blocks], held' = Append(held, r)
  PROVE  \A x : Cardinality(Refs(x))' = IF x = r.buf THEN Cardinality(Refs(x)) + 1
                                        ELSE Cardinality(Refs(x))
<1> DEFINE n == Len(held)
<1>1. n \in Nat /\ held \in Seq([buf : Bufs, block : Blocks])
  BY DEF TypeOK
<1>2. DOMAIN held = 1 .. n /\ DOMAIN held' = 1 .. n + 1 /\ held'[n + 1] = r
      /\ \A i \in 1 .. n : held'[i] = held[i]
  BY <1>1
<1> SUFFICES ASSUME NEW x
             PROVE  Cardinality(Refs(x))' = IF x = r.buf THEN Cardinality(Refs(x)) + 1
                                            ELSE Cardinality(Refs(x))
  OBVIOUS
<1>3. IsFiniteSet(Refs(x)) /\ n + 1 \notin Refs(x)
  <2>1. n + 1 \notin 1 .. n
    BY <1>1
  <2> QED BY <2>1, RefsFinite
<1>4. CASE x = r.buf
  <2>1. Refs(x)' = Refs(x) \cup {n + 1}
    BY <1>1, <1>2, <1>4 DEF Refs
  <2> QED BY <1>3, <1>4, <2>1, FS_AddElement
<1>5. CASE x # r.buf
  <2>1. Refs(x)' = Refs(x)
    BY <1>1, <1>2, <1>5 DEF Refs
  <2> QED BY <1>5, <2>1
<1> QED BY <1>4, <1>5

\* One reference less.
LEMMA RefsWithout ==
  ASSUME TypeOK, NEW i \in DOMAIN held, held' = Without(held, i)
  PROVE  \A x : Cardinality(Refs(x))' = IF x = held[i].buf THEN Cardinality(Refs(x)) - 1
                                        ELSE Cardinality(Refs(x))
<1> DEFINE n == Len(held)
<1>1. n \in Nat /\ held \in Seq([buf : Bufs, block : Blocks]) /\ DOMAIN held = 1 .. n /\ i \in 1 .. n
  BY DEF TypeOK
<1>2. Len(held') = n - 1 /\ held' \in Seq([buf : Bufs, block : Blocks])
      /\ \A k \in 1 .. n - 1 : held'[k] = IF k < i THEN held[k] ELSE held[k + 1]
  BY <1>1, WithoutIs
<1> SUFFICES ASSUME NEW x
             PROVE  Cardinality(Refs(x))' = IF x = held[i].buf THEN Cardinality(Refs(x)) - 1
                                            ELSE Cardinality(Refs(x))
  OBVIOUS
<1> DEFINE A == Refs(x) \ {i}
           B == {k \in 1 .. n - 1 : (IF k < i THEN held[k] ELSE held[k + 1]).buf = x}
           f == [k \in A |-> IF k < i THEN k ELSE k - 1]
<1>3. Refs(x)' = B
  <2>1. DOMAIN held' = 1 .. n - 1
    BY <1>2
  <2>2. Refs(x)' = {k \in 1 .. n - 1 : held'[k].buf = x}
    BY <2>1 DEF Refs
  <2>3. \A k \in 1 .. n - 1 : held'[k].buf = (IF k < i THEN held[k] ELSE held[k + 1]).buf
    BY <1>2
  <2> HIDE DEF n
  <2> QED BY <2>2, <2>3
<1>4. A \subseteq 1 .. n /\ \A k \in A : held[k].buf = x /\ k # i
  BY <1>1 DEF Refs
<1>5. \A k \in A : (IF k < i THEN k ELSE k - 1) \in B
  <2> SUFFICES ASSUME NEW k \in A PROVE (IF k < i THEN k ELSE k - 1) \in B
    OBVIOUS
  <2>1. k \in 1 .. n /\ held[k].buf = x /\ k # i
    BY <1>4
  <2>2. CASE k < i
    <3>1. k \in 1 .. n - 1
      BY <1>1, <2>1, <2>2
    <3> QED BY <2>1, <2>2, <3>1
  <2>3. CASE ~ (k < i)
    <3>1. k - 1 \in 1 .. n - 1 /\ ~ (k - 1 < i) /\ (k - 1) + 1 = k
      BY <1>1, <2>1, <2>3
    <3> QED BY <2>1, <2>3, <3>1
  <2> QED BY <2>2, <2>3
<1>6. \A k \in B : \E j \in A : k = IF j < i THEN j ELSE j - 1
  <2> SUFFICES ASSUME NEW k \in B PROVE \E j \in A : k = IF j < i THEN j ELSE j - 1
    OBVIOUS
  <2>1. k \in 1 .. n - 1 /\ (IF k < i THEN held[k] ELSE held[k + 1]).buf = x
    OBVIOUS
  <2>2. CASE k < i
    <3>1. k \in Refs(x) /\ k # i
      BY <1>1, <2>1, <2>2 DEF Refs
    <3> QED BY <2>2, <3>1
  <2>3. CASE ~ (k < i)
    <3>1. k + 1 \in Refs(x) /\ k + 1 # i /\ ~ (k + 1 < i) /\ (k + 1) - 1 = k
      BY <1>1, <2>1, <2>3 DEF Refs
    <3> QED BY <3>1
  <2> QED BY <2>2, <2>3
<1>7. \A j, k \in A : (IF j < i THEN j ELSE j - 1) = (IF k < i THEN k ELSE k - 1) => j = k
  BY <1>1, <1>4
<1>8. \A k \in A : f[k] = IF k < i THEN k ELSE k - 1
  OBVIOUS
<1>9. f \in [A -> B]
  BY <1>5
<1> HIDE DEF A, B, f
<1>10. f \in Bijection(A, B)
  <2>1. \A j, k \in A : f[j] = f[k] => j = k
    BY <1>7, <1>8
  <2>2. \A k \in B : \E j \in A : f[j] = k
    BY <1>6, <1>8
  <2> QED BY <1>9, <2>1, <2>2 DEF Bijection, Injection, IsInjective, Surjection
<1>11. IsFiniteSet(A) /\ Cardinality(A) = IF i \in Refs(x) THEN Cardinality(Refs(x)) - 1
                                          ELSE Cardinality(Refs(x))
  BY RefsFinite, FS_RemoveElement DEF A
<1>12. Cardinality(B) = Cardinality(A)
  BY <1>10, <1>11, FS_Bijection DEF ExistsBijection
<1>13. i \in Refs(x) <=> x = held[i].buf
  BY DEF Refs
<1> QED BY <1>3, <1>11, <1>12, <1>13

(***************************************************************************)
(* The list: a released buffer goes to the front.                          *)
(***************************************************************************)
\* The list by its nodes o, from the head to the head; n is the list after the
\* node at place j was moved to the front, in the pointers as in the order.
MovesToFront(N, j, o, n, nx, pv, nx2, pv2, front, head) ==
    /\ o[0] = head /\ o[N + 1] = head
    /\ \A x \in 1 .. N : o[x] # head
    /\ \A x, y \in 1 .. N : o[x] = o[y] => x = y
    /\ \A x \in 0 .. N : nx[o[x]] = o[x + 1] /\ pv[o[x + 1]] = o[x]
    /\ n[0] = head /\ n[1] = o[j]
    /\ \A x \in 2 .. j : n[x] = o[x - 1]
    /\ \A x \in j + 1 .. N + 1 : x >= 2 => n[x] = o[x]
    /\ front = IF j = 1 THEN o[2] ELSE o[1]
    /\ \A x \in 0 .. N : nx2[o[x]] = IF o[x] = head THEN o[j] ELSE IF o[x] = o[j] THEN front
                                    ELSE IF o[x] = o[j - 1] THEN o[j + 1] ELSE nx[o[x]]
    /\ \A x \in 0 .. N : pv2[o[x]] = IF o[x] = front THEN o[j] ELSE IF o[x] = o[j] THEN head
                                    ELSE IF o[x] = o[j + 1] THEN o[j - 1] ELSE pv[o[x]]

LEMMA MovedToFront ==
  ASSUME NEW N \in Nat, NEW j \in 1 .. N, NEW o, NEW n, NEW nx, NEW pv, NEW nx2, NEW pv2,
         NEW front, NEW head, MovesToFront(N, j, o, n, nx, pv, nx2, pv2, front, head)
  PROVE  \A i \in 0 .. N : nx2[n[i]] = n[i + 1] /\ pv2[n[i + 1]] = n[i]
<1> USE DEF MovesToFront
<1> SUFFICES ASSUME NEW i \in 0 .. N PROVE nx2[n[i]] = n[i + 1] /\ pv2[n[i + 1]] = n[i]
  OBVIOUS
<1>1. CASE i = 0
  <2>1. nx2[head] = o[j]
    <3>1. 0 \in 0 .. N
      OBVIOUS
    <3> QED BY <3>1
  <2>2. front # o[j]
    <3>1. CASE j = 1 /\ j = N
      BY <3>1
    <3>2. CASE j = 1 /\ j # N
      <4>1. 2 \in 1 .. N /\ 1 \in 1 .. N
        BY <3>2
      <4> QED BY <3>2, <4>1
    <3>3. CASE j # 1
      <4>1. 1 \in 1 .. N
        OBVIOUS
      <4> QED BY <3>3, <4>1
    <3> QED BY <3>1, <3>2, <3>3
  <2>3. pv2[o[j]] = head
    <3>1. j \in 0 .. N
      OBVIOUS
    <3> QED BY <2>2, <3>1
  <2> QED BY <1>1, <2>1, <2>3
<1>2. CASE i = 1
  <2>1. n[2] = front
    <3>1. j = 1 => 2 \in j + 1 .. N + 1
      OBVIOUS
    <3>2. j # 1 => 2 \in 2 .. j /\ 2 - 1 = 1
      OBVIOUS
    <3> QED BY <3>1, <3>2
  <2>2. nx2[o[j]] = front /\ o[j] # head
    <3>1. j \in 0 .. N
      OBVIOUS
    <3> QED BY <3>1
  <2>3. \E x \in 0 .. N : front = o[x]
    <3>1. CASE j = 1 /\ j = N
      BY <3>1
    <3>2. CASE j = 1 /\ j # N
      <4>1. 2 \in 0 .. N
        BY <3>2
      <4> QED BY <3>2, <4>1
    <3>3. CASE j # 1
      <4>1. 1 \in 0 .. N
        OBVIOUS
      <4> QED BY <3>3, <4>1
    <3> QED BY <3>1, <3>2, <3>3
  <2>4. pv2[front] = o[j]
    BY <2>3
  <2> QED BY <1>2, <2>1, <2>2, <2>4
<1>3. CASE i >= 2 /\ i < j
  <2>1. n[i] = o[i - 1] /\ n[i + 1] = o[i]
    <3>1. i \in 2 .. j /\ i + 1 \in 2 .. j /\ (i + 1) - 1 = i
      BY <1>3
    <3> QED BY <3>1
  <2>2. /\ i - 1 \in 1 .. N /\ i - 1 \in 0 .. N /\ j \in 1 .. N /\ j - 1 \in 1 .. N /\ i \in 1 .. N
        /\ i \in 0 .. N /\ 1 \in 1 .. N /\ i - 1 # j /\ i - 1 # j - 1 /\ i # j /\ i # 1 /\ j # 1
        /\ (i - 1) + 1 = i
    BY <1>3
  <2>3. o[i] # o[j + 1]
    <3>1. CASE j = N
      BY <2>2, <3>1
    <3>2. CASE j # N
      <4>1. j + 1 \in 1 .. N /\ i # j + 1
        BY <1>3, <3>2
      <4> QED BY <2>2, <4>1
    <3> QED BY <3>1, <3>2
  <2>4. nx2[o[i - 1]] = nx[o[i - 1]] /\ nx[o[i - 1]] = o[i]
    BY <2>2
  <2>5. pv2[o[i]] = pv[o[i]] /\ pv[o[i]] = o[i - 1]
    BY <2>2, <2>3
  <2> QED BY <2>1, <2>4, <2>5
<1>4. CASE i >= 2 /\ i = j
  <2>1. n[i] = o[j - 1] /\ n[i + 1] = o[j + 1]
    <3>1. i \in 2 .. j /\ i + 1 \in j + 1 .. N + 1 /\ i + 1 >= 2
      BY <1>4
    <3> QED BY <1>4, <3>1
  <2>2. j - 1 \in 1 .. N /\ j - 1 \in 0 .. N /\ 1 \in 1 .. N /\ j - 1 # j /\ j # 1 /\ j \in 0 .. N
    BY <1>4
  <2>3. nx2[o[j - 1]] = o[j + 1]
    BY <2>2
  <2>4. o[j + 1] # o[1] /\ o[j + 1] # o[j] /\ \E x \in 0 .. N : o[j + 1] = o[x]
    <3>1. CASE j = N
      <4>1. 0 \in 0 .. N
        OBVIOUS
      <4> QED BY <2>2, <3>1, <4>1
    <3>2. CASE j # N
      <4>1. j + 1 \in 1 .. N /\ j + 1 # 1 /\ j + 1 # j /\ j + 1 \in 0 .. N
        BY <1>4, <3>2
      <4> QED BY <2>2, <4>1
    <3> QED BY <3>1, <3>2
  <2>5. pv2[o[j + 1]] = o[j - 1]
    BY <2>2, <2>4
  <2> QED BY <2>1, <2>3, <2>5
<1>5. CASE i >= 2 /\ i > j
  <2>1. n[i] = o[i] /\ n[i + 1] = o[i + 1]
    <3>1. i \in j + 1 .. N + 1 /\ i + 1 \in j + 1 .. N + 1 /\ i + 1 >= 2
      BY <1>5
    <3> QED BY <1>5, <3>1
  <2>2. i \in 1 .. N /\ j + 1 \in 1 .. N /\ i # j /\ 1 \in 1 .. N /\ 2 \in 1 .. N
    BY <1>5
  <2>3. o[i] # o[j - 1]
    <3>1. CASE j = 1
      BY <2>2, <3>1
    <3>2. CASE j # 1
      <4>1. j - 1 \in 1 .. N /\ i # j - 1
        BY <1>5, <3>2
      <4> QED BY <2>2, <4>1
    <3> QED BY <3>1, <3>2
  <2>4. nx2[o[i]] = o[i + 1]
    BY <2>2, <2>3
  <2>5. /\ o[i + 1] # o[1] /\ o[i + 1] # o[2] /\ o[i + 1] # o[j] /\ o[i + 1] # o[j + 1]
        /\ \E x \in 0 .. N : o[i + 1] = o[x]
    <3>1. CASE i = N
      <4>1. 0 \in 0 .. N
        OBVIOUS
      <4> QED BY <2>2, <3>1, <4>1
    <3>2. CASE i # N
      <4>1. /\ i + 1 \in 1 .. N /\ i + 1 # 1 /\ i + 1 # 2 /\ i + 1 # j /\ i + 1 # j + 1
            /\ i + 1 \in 0 .. N
        BY <1>5, <3>2
      <4> QED BY <2>2, <4>1
    <3> QED BY <3>1, <3>2
  <2>6. pv2[o[i + 1]] = pv[o[i + 1]] /\ pv[o[i + 1]] = o[i]
    BY <2>5
  <2> QED BY <2>1, <2>4, <2>6
<1> QED BY <1>1, <1>2, <1>3, <1>4, <1>5

\* brelse takes the last reference: the order of the list is that of the releases.
LEMMA ReleaseKeepsList ==
  ASSUME TypeOK, ListInv, NEW b \in Bufs,
         next' = NextAfterInsert(Unlink(b), b), prev' = PrevAfterInsert(Unlink(b), b),
         recent' = <<b>> \o Without(recent, CHOOSE i \in DOMAIN recent : recent[i] = b)
  PROVE  /\ ListInv' /\ recent' \in Seq(Bufs)
         /\ next' \in [Nodes -> Nodes] /\ prev' \in [Nodes -> Nodes]
<1>1. NBUF \in Nat /\ recent \in Seq(Bufs) /\ Len(recent) = NBUF /\ DOMAIN recent = 1 .. NBUF
  BY BcacheAssumption DEF TypeOK, ListInv
<1>2. PICK j : j = CHOOSE i \in DOMAIN recent : recent[i] = b
  OBVIOUS
<1>3. j \in 1 .. NBUF /\ recent[j] = b
  BY <1>1, <1>2 DEF ListInv
<1>4. /\ recent' \in Seq(Bufs) /\ Len(recent') = NBUF /\ recent'[1] = b
      /\ \A i \in 2 .. NBUF : recent'[i] = IF i - 1 < j THEN recent[i - 1] ELSE recent[i]
  <2> DEFINE w == Without(recent, j)
             h == <<b>>
  <2>1. w \in Seq(Bufs) /\ Len(w) = NBUF - 1
        /\ \A k \in 1 .. NBUF - 1 : w[k] = IF k < j THEN recent[k] ELSE recent[k + 1]
    BY <1>1, <1>3, WithoutIs
  <2>2. h \in Seq(Bufs) /\ Len(h) = 1 /\ h[1] = b
    OBVIOUS
  <2>3. recent' = h \o w
    BY <1>2
  <2> HIDE DEF w, h
  <2>4. /\ h \o w \in Seq(Bufs) /\ Len(h \o w) = Len(h) + Len(w)
        /\ \A i \in 1 .. Len(h) + Len(w) : (h \o w)[i] = IF i <= Len(h) THEN h[i] ELSE w[i - Len(h)]
    <3>1. h \in Seq(Bufs) /\ w \in Seq(Bufs)
      BY <2>1, <2>2
    <3> QED BY <3>1, ConcatProperties
  <2>5. Len(h) + Len(w) = NBUF
    BY <1>1, <2>1, <2>2
  <2>6. ASSUME NEW i \in 2 .. NBUF
        PROVE  recent'[i] = IF i - 1 < j THEN recent[i - 1] ELSE recent[i]
    <3>1. i \in 1 .. NBUF /\ ~ (i <= 1) /\ i - 1 \in 1 .. NBUF - 1 /\ (i - 1) + 1 = i
      BY <1>1
    <3> QED BY <2>1, <2>2, <2>3, <2>4, <2>5, <3>1
  <2>7. recent'[1] = b
    <3>1. 1 \in 1 .. NBUF
      BY <1>1, <1>3
    <3> QED BY <2>2, <2>3, <2>4, <2>5, <3>1
  <2> QED BY <2>3, <2>4, <2>5, <2>6, <2>7
<1> DEFINE P(x) == IF x \in 1 .. NBUF THEN recent[x] ELSE Anchor
           Q(x) == IF x \in 1 .. NBUF THEN recent'[x] ELSE Anchor
<1>5. PICK o : o = [x \in 0 .. NBUF + 1 |-> P(x)]
  OBVIOUS
<1>6. PICK n : n = [x \in 0 .. NBUF + 1 |-> Q(x)]
  OBVIOUS
<1>7. /\ \A x \in 0 .. NBUF + 1 : o[x] = IF x \in 1 .. NBUF THEN recent[x] ELSE Anchor
      /\ \A x \in 0 .. NBUF + 1 : n[x] = IF x \in 1 .. NBUF THEN recent'[x] ELSE Anchor
  BY <1>5, <1>6
<1> HIDE DEF P, Q
<1>8. o[0] = Anchor /\ o[NBUF + 1] = Anchor /\ (\A x \in 1 .. NBUF : o[x] # Anchor)
      /\ o[j] = b /\ \A x, y \in 1 .. NBUF : o[x] = o[y] => x = y
  <2>1. \A x \in 1 .. NBUF : recent[x] # Anchor
    <3>1. \A x \in 1 .. NBUF : recent[x] \in 1 .. NBUF
      BY <1>1, ElementOfSeq DEF Bufs
    <3> QED BY <1>1, <3>1 DEF Anchor
  <2>2. 0 \in 0 .. NBUF + 1 /\ NBUF + 1 \in 0 .. NBUF + 1 /\ 0 \notin 1 .. NBUF
        /\ NBUF + 1 \notin 1 .. NBUF /\ \A x \in 1 .. NBUF : x \in 0 .. NBUF + 1
    BY <1>1
  <2>3. \A x, y \in 1 .. NBUF : recent[x] = recent[y] => x = y
    BY DEF ListInv
  <2>4. o[0] = Anchor /\ o[NBUF + 1] = Anchor
    BY <1>7, <2>2
  <2>5. \A x \in 1 .. NBUF : o[x] = recent[x]
    BY <1>7, <2>2
  <2>6. \A x \in 1 .. NBUF : o[x] # Anchor
    BY <2>1, <2>5
  <2>7. \A x, y \in 1 .. NBUF : o[x] = o[y] => x = y
    BY <2>3, <2>5
  <2> QED BY <1>3, <2>4, <2>5, <2>6, <2>7
<1>9. \A x \in 0 .. NBUF : next[o[x]] = o[x + 1] /\ prev[o[x + 1]] = o[x]
  <2>1. \A x \in 0 .. NBUF + 1 : o[x] = Place(x)
    BY <1>7 DEF Place
  <2>2. \A x \in 0 .. NBUF : x \in 0 .. NBUF + 1 /\ x + 1 \in 0 .. NBUF + 1
    BY <1>1
  <2> QED BY <2>1, <2>2 DEF ListInv
<1>10. /\ n[0] = Anchor /\ n[1] = o[j]
       /\ \A x \in 2 .. j : n[x] = o[x - 1]
       /\ \A x \in j + 1 .. NBUF + 1 : x >= 2 => n[x] = o[x]
  <2>1. n[0] = Anchor /\ n[1] = o[j]
    <3>1. 0 \in 0 .. NBUF + 1 /\ 0 \notin 1 .. NBUF /\ 1 \in 0 .. NBUF + 1 /\ 1 \in 1 .. NBUF
      BY <1>1, <1>3
    <3> QED BY <1>4, <1>7, <1>8, <3>1
  <2>2. ASSUME NEW x \in 2 .. j PROVE n[x] = o[x - 1]
    <3>1. x \in 2 .. NBUF /\ x - 1 < j /\ x - 1 \in 1 .. NBUF /\ x \in 1 .. NBUF
          /\ x \in 0 .. NBUF + 1 /\ x - 1 \in 0 .. NBUF + 1
      BY <1>1, <1>3
    <3> QED BY <1>4, <1>7, <3>1
  <2>3. ASSUME NEW x \in j + 1 .. NBUF + 1, x >= 2 PROVE n[x] = o[x]
    <3>1. x \in 0 .. NBUF + 1 /\ ~ (x - 1 < j) /\ (x \in 1 .. NBUF => x \in 2 .. NBUF)
      BY <1>1, <1>3, <2>3
    <3> QED BY <1>4, <1>7, <3>1
  <2> QED BY <2>1, <2>2, <2>3
<1>11. next[b] = o[j + 1] /\ prev[b] = o[j - 1]
  <2>1. j \in 0 .. NBUF /\ j - 1 \in 0 .. NBUF /\ (j - 1) + 1 = j
    BY <1>1, <1>3
  <2> QED BY <1>8, <1>9, <2>1
<1>12. /\ \A x \in 0 .. NBUF + 1 : o[x] \in Nodes
       /\ b \in Nodes /\ Anchor \in Nodes /\ b # Anchor
  <2>1. Bufs \subseteq Nodes /\ Anchor \in Nodes
    BY <1>1 DEF Bufs, Nodes, Anchor
  <2>2. \A x \in 1 .. NBUF : recent[x] \in Bufs
    BY <1>1, ElementOfSeq
  <2> QED BY <1>3, <1>7, <1>8, <2>1, <2>2
<1> DEFINE nx == Unlink(b).nx
           pv == Unlink(b).pv
<1>13. /\ nx = [next EXCEPT ![o[j - 1]] = o[j + 1]]
       /\ pv = [prev EXCEPT ![o[j + 1]] = o[j - 1]]
  BY <1>11 DEF Unlink
<1>14. j - 1 \in 0 .. NBUF + 1 /\ j + 1 \in 0 .. NBUF + 1
  BY <1>1, <1>3
<1>15. /\ next \in [Nodes -> Nodes] /\ prev \in [Nodes -> Nodes]
       /\ nx \in [Nodes -> Nodes] /\ pv \in [Nodes -> Nodes]
       /\ \A x \in Nodes : nx[x] = IF x = o[j - 1] THEN o[j + 1] ELSE next[x]
       /\ \A x \in Nodes : pv[x] = IF x = o[j + 1] THEN o[j - 1] ELSE prev[x]
  <2>1. next \in [Nodes -> Nodes] /\ prev \in [Nodes -> Nodes]
    BY DEF TypeOK
  <2>2. o[j - 1] \in Nodes /\ o[j + 1] \in Nodes
    BY <1>12, <1>14
  <2> QED BY <1>13, <2>1, <2>2
<1> HIDE DEF nx, pv
<1>16. /\ next' = [[nx EXCEPT ![b] = nx[Anchor]] EXCEPT ![Anchor] = b]
       /\ prev' = [[pv EXCEPT ![b] = Anchor] EXCEPT ![nx[Anchor]] = b]
  BY <1>12, <1>15 DEF NextAfterInsert, PrevAfterInsert, nx, pv
<1>17. nx[Anchor] = IF j = 1 THEN o[2] ELSE o[1]
  <2>1. CASE j = 1
    BY <1>8, <1>12, <1>15, <2>1
  <2>2. CASE j # 1
    <3>1. j - 1 \in 1 .. NBUF /\ 0 \in 0 .. NBUF
      BY <1>1, <1>3, <2>2
    <3> QED BY <1>8, <1>9, <1>12, <1>15, <2>2, <3>1
  <2> QED BY <2>1, <2>2
<1>18. PICK front : front = nx[Anchor]
  OBVIOUS
<1>19. front \in Nodes
  BY <1>12, <1>15, <1>18
<1>20. /\ next' \in [Nodes -> Nodes] /\ prev' \in [Nodes -> Nodes]
       /\ \A x \in Nodes : next'[x] = IF x = Anchor THEN b ELSE IF x = b THEN front ELSE nx[x]
       /\ \A x \in Nodes : prev'[x] = IF x = front THEN b ELSE IF x = b THEN Anchor ELSE pv[x]
  <2>1. PICK nx1 : nx1 = [nx EXCEPT ![b] = nx[Anchor]]
    OBVIOUS
  <2>2. nx1 \in [Nodes -> Nodes] /\ \A x \in Nodes : nx1[x] = IF x = b THEN front ELSE nx[x]
    BY <1>12, <1>15, <1>18, <1>19, <2>1
  <2>3. PICK nx2 : nx2 = [nx1 EXCEPT ![Anchor] = b]
    OBVIOUS
  <2>4. nx2 \in [Nodes -> Nodes] /\ \A x \in Nodes : nx2[x] = IF x = Anchor THEN b ELSE nx1[x]
    BY <1>12, <2>2, <2>3
  <2>5. next' = nx2
    BY <1>16, <2>1, <2>3
  <2>6. PICK pv1 : pv1 = [pv EXCEPT ![b] = Anchor]
    OBVIOUS
  <2>7. pv1 \in [Nodes -> Nodes] /\ \A x \in Nodes : pv1[x] = IF x = b THEN Anchor ELSE pv[x]
    BY <1>12, <1>15, <2>6
  <2>8. PICK pv2 : pv2 = [pv1 EXCEPT ![front] = b]
    OBVIOUS
  <2>9. pv2 \in [Nodes -> Nodes] /\ \A x \in Nodes : pv2[x] = IF x = front THEN b ELSE pv1[x]
    BY <1>12, <1>19, <2>7, <2>8
  <2>10. prev' = pv2
    BY <1>16, <1>18, <2>6, <2>8
  <2> QED BY <2>2, <2>4, <2>5, <2>7, <2>9, <2>10
<1>21. \A i \in 0 .. NBUF : next'[n[i]] = n[i + 1] /\ prev'[n[i + 1]] = n[i]
  <2>1. \A x \in 0 .. NBUF : o[x] \in Nodes
    BY <1>1, <1>12
  <2>2. \A x \in 0 .. NBUF :
          next'[o[x]] = IF o[x] = Anchor THEN o[j] ELSE IF o[x] = o[j] THEN front
                        ELSE IF o[x] = o[j - 1] THEN o[j + 1] ELSE next[o[x]]
    BY <1>8, <1>15, <1>20, <2>1
  <2>3. \A x \in 0 .. NBUF :
          prev'[o[x]] = IF o[x] = front THEN o[j] ELSE IF o[x] = o[j] THEN Anchor
                        ELSE IF o[x] = o[j + 1] THEN o[j - 1] ELSE prev[o[x]]
    BY <1>8, <1>15, <1>20, <2>1
  <2>4. front = IF j = 1 THEN o[2] ELSE o[1]
    BY <1>17, <1>18
  <2>5. PICK nx2, pv2 : nx2 = next' /\ pv2 = prev'
    OBVIOUS
  <2>6. /\ \A x \in 0 .. NBUF :
             nx2[o[x]] = IF o[x] = Anchor THEN o[j] ELSE IF o[x] = o[j] THEN front
                         ELSE IF o[x] = o[j - 1] THEN o[j + 1] ELSE next[o[x]]
        /\ \A x \in 0 .. NBUF :
             pv2[o[x]] = IF o[x] = front THEN o[j] ELSE IF o[x] = o[j] THEN Anchor
                         ELSE IF o[x] = o[j + 1] THEN o[j - 1] ELSE prev[o[x]]
    BY <2>2, <2>3, <2>5
  <2>7. MovesToFront(NBUF, j, o, n, next, prev, nx2, pv2, front, Anchor)
    BY <1>8, <1>9, <1>10, <2>4, <2>6 DEF MovesToFront
  <2>8. \A i \in 0 .. NBUF : nx2[n[i]] = n[i + 1] /\ pv2[n[i + 1]] = n[i]
    BY <1>1, <1>3, <2>7, MovedToFront
  <2> QED BY <2>5, <2>8
<1>22. \A i \in 0 .. NBUF : next'[Place(i)'] = Place(i + 1)' /\ prev'[Place(i + 1)'] = Place(i)'
  <2>1. \A x \in 0 .. NBUF + 1 : n[x] = Place(x)'
    BY <1>7 DEF Place
  <2>2. \A x \in 0 .. NBUF : x \in 0 .. NBUF + 1 /\ x + 1 \in 0 .. NBUF + 1
    BY <1>1
  <2> QED BY <1>21, <2>1, <2>2
<1>23. \A c \in Bufs : \E i \in 1 .. NBUF : recent'[i] = c
  <2> SUFFICES ASSUME NEW c \in Bufs PROVE \E i \in 1 .. NBUF : recent'[i] = c
    OBVIOUS
  <2>1. PICK k \in 1 .. NBUF : recent[k] = c
    BY DEF ListInv
  <2>2. CASE k = j
    <3>1. 1 \in 1 .. NBUF
      BY <1>1, <1>3
    <3> QED BY <1>3, <1>4, <2>1, <2>2, <3>1
  <2>3. CASE k < j
    <3>1. k + 1 \in 2 .. NBUF /\ (k + 1) - 1 = k /\ k + 1 \in 1 .. NBUF
      BY <1>1, <1>3, <2>3
    <3> QED BY <1>4, <2>1, <2>3, <3>1
  <2>4. CASE k > j
    <3>1. k \in 2 .. NBUF /\ ~ (k - 1 < j)
      BY <1>1, <1>3, <2>4
    <3> QED BY <1>4, <2>1, <3>1
  <2>5. k \in Int /\ j \in Int
    BY <1>3
  <2>6. k = j \/ k < j \/ k > j
    BY <2>5
  <2> QED BY <2>2, <2>3, <2>4, <2>6
<1>24. \A x, y \in 1 .. NBUF : recent'[x] = recent'[y] => x = y
  <2> DEFINE old(x) == IF x = 1 THEN j ELSE IF x - 1 < j THEN x - 1 ELSE x
  <2>1. \A x \in 1 .. NBUF : old(x) \in 1 .. NBUF /\ recent'[x] = recent[old(x)]
    <3> SUFFICES ASSUME NEW x \in 1 .. NBUF
                 PROVE  old(x) \in 1 .. NBUF /\ recent'[x] = recent[old(x)]
      OBVIOUS
    <3>1. CASE x = 1
      BY <1>3, <1>4, <3>1
    <3>2. CASE x # 1
      <4>1. x \in 2 .. NBUF /\ (x - 1 < j => x - 1 \in 1 .. NBUF)
        BY <1>1, <3>2
      <4> QED BY <1>4, <3>2, <4>1
    <3> QED BY <3>1, <3>2
  <2>2. \A x, y \in 1 .. NBUF : old(x) = old(y) => x = y
    BY <1>1, <1>3
  <2> HIDE DEF old
  <2>3. \A x, y \in 1 .. NBUF : recent[x] = recent[y] => x = y
    BY DEF ListInv
  <2> SUFFICES ASSUME NEW x \in 1 .. NBUF, NEW y \in 1 .. NBUF, recent'[x] = recent'[y]
               PROVE  x = y
    OBVIOUS
  <2>4. recent[old(x)] = recent[old(y)] /\ old(x) \in 1 .. NBUF /\ old(y) \in 1 .. NBUF
    BY <2>1
  <2>5. old(x) = old(y)
    BY <2>3, <2>4
  <2> QED BY <2>2, <2>5
<1>25. ListInv'
  BY <1>4, <1>22, <1>23, <1>24 DEF ListInv
<1> QED BY <1>4, <1>20, <1>25

(***************************************************************************)
(* The invariant holds, action by action.                                  *)
(***************************************************************************)
\* The list is as it was.
LEMMA SameList ==
  ASSUME ListInv, UNCHANGED <<list, recent>>
  PROVE  ListInv'
<1>1. next' = next /\ prev' = prev /\ recent' = recent
  BY DEF list
<1>2. Len(recent) = NBUF /\ Len(recent') = NBUF
  BY <1>1 DEF ListInv
<1>3. \A b \in Bufs : \E i \in 1 .. NBUF : recent'[i] = b
  BY <1>1 DEF ListInv
<1>4. \A i, j \in 1 .. NBUF : recent'[i] = recent'[j] => i = j
  BY <1>1 DEF ListInv
<1>5. \A i \in 0 .. NBUF : /\ next'[Place(i)'] = Place(i + 1)'
                           /\ prev'[Place(i + 1)'] = Place(i)'
  BY <1>1 DEF ListInv, Place
<1> QED BY <1>2, <1>3, <1>4, <1>5 DEF ListInv

\* A buffer in use is a buffer, and has a block.
LEMMA InUseIs ==
  ASSUME TypeOK, RefsInv, NEW b \in InUse
  PROVE  b \in Bufs /\ cached[b] /\ \E i \in DOMAIN held : held[i].buf = b
<1>1. PICK i \in DOMAIN held : held[i].buf = b
  BY DEF InUse
<1>2. held[i] \in [buf : Bufs, block : Blocks]
  <2>1. held \in Seq([buf : Bufs, block : Blocks]) /\ i \in 1 .. Len(held)
    BY DEF TypeOK
  <2> QED BY <2>1, ElementOfSeq
<1> QED BY <1>1, <1>2 DEF RefsInv, Holds

\* bread: the buffer found has the block, the buffer recycled had no user.
LEMMA BreadKeeps ==
  ASSUME BcacheInv, NEW n \in Blocks, Bread(n)
  PROVE  BcacheInv'
<1> USE DEF BcacheInv
<1>1. PICK b : b = bget(n)
  OBVIOUS
<1>2. \E c \in Bufs : refcnt[c] = 0
  BY SomeFree DEF Bread
<1>3. b \in Bufs /\ (Hit(n) => Holds(b, n)) /\ (~ Hit(n) => refcnt[b] = 0 /\ b \notin InUse)
  <2>1. CASE Hit(n)
    BY <1>1, <2>1, FoundHolds DEF bget
  <2>2. CASE ~ Hit(n)
    <3>1. b = Victim
      BY <1>1, <2>2 DEF bget
    <3> QED BY <1>2, <2>2, <3>1, VictimIsFree, RefsCounted
  <2> QED BY <2>1, <2>2
<1>4. /\ cached' = [cached EXCEPT ![b] = TRUE] /\ blockno' = [blockno EXCEPT ![b] = n]
      /\ refcnt' = [refcnt EXCEPT ![b] = IF Hit(n) THEN @ + 1 ELSE 1]
      /\ held' = Append(held, [buf |-> b, block |-> n])
      /\ data' = IF Hit(n) /\ valid[b] THEN data ELSE [data EXCEPT ![b] = disk[n]]
      /\ valid' = [valid EXCEPT ![b] = TRUE]
      /\ abandoned' = (IF Hit(n) THEN abandoned ELSE abandoned \ {b})
      /\ UNCHANGED <<list, recent>> /\ disk' = disk /\ unsaved' = unsaved
  BY <1>1 DEF Bread, bread, RefAfterGet, ValidAfterGet
<1>5. /\ cached \in [Bufs -> BOOLEAN] /\ valid \in [Bufs -> BOOLEAN] /\ blockno \in [Bufs -> Blocks]
      /\ data \in [Bufs -> Values] /\ refcnt \in [Bufs -> Nat] /\ disk \in [Blocks -> Values]
      /\ held \in Seq([buf : Bufs, block : Blocks])
  BY DEF TypeOK
<1>6. /\ \A x \in Bufs : cached'[x] = IF x = b THEN TRUE ELSE cached[x]
      /\ \A x \in Bufs : blockno'[x] = IF x = b THEN n ELSE blockno[x]
      /\ \A x \in Bufs : valid'[x] = IF x = b THEN TRUE ELSE valid[x]
      /\ \A x \in Bufs : refcnt'[x] = IF x = b THEN (IF Hit(n) THEN refcnt[b] + 1 ELSE 1)
                                      ELSE refcnt[x]
  BY <1>3, <1>4, <1>5
<1>7. data' \in [Bufs -> Values]
      /\ \A x \in Bufs : data'[x] = IF x = b /\ ~ (Hit(n) /\ valid[b]) THEN disk[n] ELSE data[x]
  BY <1>3, <1>4, <1>5
<1>8. [buf |-> b, block |-> n] \in [buf : Bufs, block : Blocks]
  BY <1>3
<1>9. TypeOK'
  <2>1. held' \in Seq([buf : Bufs, block : Blocks])
    BY <1>4, <1>5, <1>8
  <2>2. cached' \in [Bufs -> BOOLEAN] /\ valid' \in [Bufs -> BOOLEAN] /\ blockno' \in [Bufs -> Blocks]
    BY <1>3, <1>4, <1>5
  <2>3. refcnt' \in [Bufs -> Nat]
    BY <1>3, <1>4, <1>5
  <2> QED BY <1>4, <1>7, <2>1, <2>2, <2>3 DEF TypeOK, list
<1>10. ListInv'
  BY <1>4, SameList
<1>11. Len(held) \in Nat /\ Len(held') = Len(held) + 1 /\ DOMAIN held = 1 .. Len(held)
       /\ DOMAIN held' = 1 .. Len(held) + 1 /\ held'[Len(held) + 1] = [buf |-> b, block |-> n]
       /\ \A i \in DOMAIN held : held'[i] = held[i]
  BY <1>4, <1>5
<1>12. RefsInv'
  <2>1. ASSUME NEW x \in Bufs PROVE refcnt'[x] = Cardinality(Refs(x))'
    <3>1. Cardinality(Refs(x))' = IF x = b THEN Cardinality(Refs(x)) + 1 ELSE Cardinality(Refs(x))
      BY <1>4, <1>8, RefsAppend
    <3>2. refcnt[x] = Cardinality(Refs(x))
      BY DEF RefsInv
    <3>3. refcnt'[x] = IF x = b THEN (IF Hit(n) THEN refcnt[b] + 1 ELSE 1) ELSE refcnt[x]
      BY <1>6
    <3>4. x = b /\ ~ Hit(n) => refcnt[x] = 0
      BY <1>3
    <3> QED BY <3>1, <3>2, <3>3, <3>4
  <2>2. ASSUME NEW i \in DOMAIN held' PROVE Holds(held[i].buf, held[i].block)'
    <3>1. CASE i \in DOMAIN held
      <4>1. held[i].buf \in InUse /\ held'[i] = held[i] /\ Holds(held[i].buf, held[i].block)
        BY <1>11, <3>1 DEF InUse, RefsInv
      <4>2. held[i].buf \in Bufs
        BY <4>1, InUseIs
      <4>3. held[i].buf = b => Holds(b, n)
        BY <1>3, <4>1
      <4> QED BY <1>6, <4>1, <4>2, <4>3 DEF Holds
    <3>2. CASE i \notin DOMAIN held
      <4>1. i = Len(held) + 1
        BY <1>11, <3>2
      <4>2. held'[i].buf = b /\ held'[i].block = n
        BY <1>11, <4>1
      <4> QED BY <1>3, <1>6, <4>2 DEF Holds
    <3> QED BY <3>1, <3>2
  <2>3. Len(held') <= MaxHeld
    BY <1>11, BcacheAssumption DEF Bread
  <2> QED BY <2>1, <2>2, <2>3 DEF RefsInv
<1>13. DataInv'
  <2>1. \A x \in Bufs : valid'[x] => cached'[x]
    BY <1>6 DEF DataInv
  <2>2. InUse \subseteq InUse'
    BY <1>11 DEF InUse
  <2>3. ASSUME NEW x \in Bufs, NEW y \in Bufs, cached'[x], cached'[y], blockno'[x] = blockno'[y]
        PROVE  x = y
    <3>1. ASSUME NEW z \in Bufs, z # b, cached[z], blockno[z] = n PROVE FALSE
      <4>1. Holds(b, n)
        BY <1>3, <3>1 DEF Hit, Holds
      <4> QED BY <1>3, <3>1, <4>1 DEF Holds, DataInv, CacheIsCoherent
    <3>2. (x # b => cached[x] /\ blockno'[x] = blockno[x]) /\ (x = b => blockno'[x] = n)
      BY <1>6, <2>3
    <3>3. (y # b => cached[y] /\ blockno'[y] = blockno[y]) /\ (y = b => blockno'[y] = n)
      BY <1>6, <2>3
    <3>4. x # b /\ y # b => x = y
      BY <2>3, <3>2, <3>3 DEF DataInv, CacheIsCoherent
    <3> QED BY <2>3, <3>1, <3>2, <3>3, <3>4
  <2>4. ASSUME NEW x \in Bufs, valid'[x], x \notin unsaved' \cup abandoned'
        PROVE  data'[x] = disk'[blockno'[x]]
    <3>1. CASE x # b
      <4>1. x \notin unsaved \cup abandoned /\ valid[x]
        BY <1>4, <1>6, <2>4, <3>1
      <4>2. data[x] = disk[blockno[x]]
        BY <4>1 DEF DataInv, CacheIsCoherent
      <4> QED BY <1>4, <1>6, <1>7, <3>1, <4>2
    <3>2. CASE x = b /\ Hit(n) /\ valid[b]
      <4>1. x \notin unsaved \cup abandoned /\ blockno[b] = n
        BY <1>3, <1>4, <2>4, <3>2 DEF Holds
      <4>2. data[x] = disk[blockno[x]]
        BY <3>2, <4>1 DEF DataInv, CacheIsCoherent
      <4> QED BY <1>4, <1>6, <1>7, <3>2, <4>1, <4>2
    <3>3. CASE x = b /\ ~ (Hit(n) /\ valid[b])
      BY <1>4, <1>6, <1>7, <3>3
    <3> QED BY <3>1, <3>2, <3>3
  <2>5. unsaved' \subseteq InUse'
    BY <1>4, <2>2 DEF DataInv
  <2> QED BY <2>1, <2>3, <2>4, <2>5 DEF DataInv, CacheIsCoherent
<1> QED BY <1>9, <1>10, <1>12, <1>13

\* A change of a buffer in use.
LEMMA ChangeKeeps ==
  ASSUME BcacheInv, NEW b \in InUse, NEW v \in Values, Change(b, v)
  PROVE  BcacheInv'
<1> USE DEF BcacheInv
<1>1. b \in Bufs
  BY InUseIs
<1>2. /\ data' = [data EXCEPT ![b] = v] /\ unsaved' = unsaved \cup {b} /\ UNCHANGED <<list, recent>>
      /\ cached' = cached /\ blockno' = blockno /\ valid' = valid /\ refcnt' = refcnt /\ held' = held
      /\ disk' = disk /\ abandoned' = abandoned
  BY DEF Change, usage
<1>3. data \in [Bufs -> Values]
  BY DEF TypeOK
<1>4. TypeOK'
  BY <1>1, <1>2 DEF TypeOK, list
<1>5. RefsInv'
  BY <1>2 DEF RefsInv, Refs, Holds
<1>6. DataInv'
  <2>1. \A x \in Bufs : data'[x] = IF x = b THEN v ELSE data[x]
    BY <1>1, <1>2, <1>3
  <2>2. \A x \in Bufs : valid'[x] /\ x \notin unsaved' \cup abandoned' => data'[x] = disk'[blockno'[x]]
    BY <1>2, <2>1 DEF DataInv, CacheIsCoherent
  <2>3. unsaved' \subseteq InUse'
    BY <1>2 DEF DataInv, InUse
  <2> QED BY <1>2, <2>2, <2>3 DEF DataInv, CacheIsCoherent
<1> QED BY <1>2, <1>4, <1>5, <1>6, SameList

\* bwrite: the disk has the data of the buffer, and no other buffer has its block.
LEMMA BwriteKeeps ==
  ASSUME BcacheInv, NEW b \in InUse, Bwrite(b)
  PROVE  BcacheInv'
<1> USE DEF BcacheInv
<1>1. b \in Bufs /\ cached[b]
  BY InUseIs
<1>2. /\ disk' = [disk EXCEPT ![blockno[b]] = data[b]]
      /\ unsaved' = unsaved \ {b} /\ abandoned' = abandoned \ {b} /\ UNCHANGED <<list, recent>>
      /\ cached' = cached /\ blockno' = blockno /\ valid' = valid /\ refcnt' = refcnt /\ held' = held
      /\ data' = data
  BY DEF Bwrite, usage
<1>3. data \in [Bufs -> Values] /\ disk \in [Blocks -> Values] /\ blockno \in [Bufs -> Blocks]
  BY DEF TypeOK
<1>4. \A n \in Blocks : disk'[n] = IF n = blockno[b] THEN data[b] ELSE disk[n]
  BY <1>1, <1>2, <1>3
<1>5. TypeOK'
  <2>1. disk' \in [Blocks -> Values]
    BY <1>1, <1>2, <1>3
  <2> QED BY <1>2, <2>1 DEF TypeOK, list
<1>6. RefsInv'
  BY <1>2 DEF RefsInv, Refs, Holds
<1>7. DataInv'
  <2>1. ASSUME NEW x \in Bufs, valid[x], x \notin unsaved' \cup abandoned'
        PROVE  data[x] = disk'[blockno[x]]
    <3>1. CASE x = b
      BY <1>1, <1>3, <1>4, <3>1
    <3>2. CASE x # b
      <4>1. x \notin unsaved \cup abandoned /\ cached[x]
        BY <1>2, <2>1, <3>2 DEF DataInv
      <4>2. data[x] = disk[blockno[x]] /\ blockno[x] # blockno[b]
        BY <1>1, <2>1, <3>2, <4>1 DEF DataInv, CacheIsCoherent
      <4> QED BY <1>3, <1>4, <4>2
    <3> QED BY <3>1, <3>2
  <2>2. unsaved' \subseteq InUse'
    BY <1>2 DEF DataInv, InUse
  <2> QED BY <1>2, <2>1, <2>2 DEF DataInv, CacheIsCoherent
<1> QED BY <1>2, <1>5, <1>6, <1>7, SameList

\* brelse: the count goes down with the references, and a buffer that nobody
\* uses any more goes to the front of the list.
LEMMA ReleaseKeeps ==
  ASSUME BcacheInv, NEW b \in InUse, brelse(b), b \notin unsaved,
         cached' = cached, blockno' = blockno
  PROVE  /\ next' \in [Nodes -> Nodes] /\ prev' \in [Nodes -> Nodes] /\ recent' \in Seq(Bufs)
         /\ refcnt' \in [Bufs -> Nat] /\ held' \in Seq([buf : Bufs, block : Blocks])
         /\ ListInv' /\ RefsInv' /\ unsaved \subseteq InUse'
<1> USE DEF BcacheInv
<1>1. b \in Bufs /\ \E i \in DOMAIN held : held[i].buf = b
  BY InUseIs
<1>2. PICK i : i = CHOOSE k \in DOMAIN held : held[k].buf = b
  OBVIOUS
<1>3. i \in DOMAIN held /\ held[i].buf = b
  BY <1>1, <1>2
<1>4. held' = Without(held, i) /\ refcnt' = [refcnt EXCEPT ![b] = @ - 1]
  BY <1>2 DEF brelse
<1>5. held \in Seq([buf : Bufs, block : Blocks]) /\ refcnt \in [Bufs -> Nat]
  BY DEF TypeOK
<1>6. Len(held) \in Nat /\ DOMAIN held = 1 .. Len(held) /\ i \in 1 .. Len(held)
  BY <1>3, <1>5
<1>7. /\ held' \in Seq([buf : Bufs, block : Blocks]) /\ Len(held') = Len(held) - 1
      /\ \A k \in 1 .. Len(held) - 1 : held'[k] = IF k < i THEN held[k] ELSE held[k + 1]
  BY <1>4, <1>5, <1>6, WithoutIs
<1>8. DOMAIN held' = 1 .. Len(held) - 1
  BY <1>7
<1>9. refcnt[b] >= 1
  <2>1. b \in InUse /\ refcnt[b] \in Nat
    BY <1>1, <1>5
  <2>2. refcnt[b] # 0
    BY <1>1, <2>1, RefsCounted
  <2> QED BY <2>1, <2>2
<1>10. refcnt' \in [Bufs -> Nat] /\ \A x \in Bufs : refcnt'[x] = IF x = b THEN refcnt[b] - 1 ELSE refcnt[x]
  BY <1>1, <1>4, <1>5, <1>9
<1>11. /\ next' \in [Nodes -> Nodes] /\ prev' \in [Nodes -> Nodes] /\ recent' \in Seq(Bufs)
       /\ ListInv'
  <2>1. CASE refcnt[b] = 1
    <3>1. /\ next' = NextAfterInsert(Unlink(b), b) /\ prev' = PrevAfterInsert(Unlink(b), b)
          /\ recent' = <<b>> \o Without(recent, CHOOSE k \in DOMAIN recent : recent[k] = b)
      BY <2>1 DEF brelse
    <3> QED BY <1>1, <3>1, ReleaseKeepsList
  <2>2. CASE refcnt[b] # 1
    <3>1. UNCHANGED <<list, recent>>
      BY <2>2 DEF brelse
    <3>2. next' = next /\ prev' = prev /\ recent' = recent
      BY <3>1 DEF list
    <3> QED BY <3>1, <3>2, SameList DEF TypeOK
  <2> QED BY <2>1, <2>2
<1>12. RefsInv'
  <2>1. ASSUME NEW x \in Bufs PROVE refcnt'[x] = Cardinality(Refs(x))'
    <3>1. Cardinality(Refs(x))' = IF x = b THEN Cardinality(Refs(x)) - 1 ELSE Cardinality(Refs(x))
      BY <1>3, <1>4, RefsWithout
    <3>2. refcnt[x] = Cardinality(Refs(x))
      BY DEF RefsInv
    <3> QED BY <1>10, <3>1, <3>2
  <2>2. ASSUME NEW k \in DOMAIN held' PROVE Holds(held[k].buf, held[k].block)'
    <3>1. k \in 1 .. Len(held) - 1 /\ k \in DOMAIN held /\ k + 1 \in DOMAIN held
      BY <1>6, <1>8
    <3>2. \E m \in DOMAIN held : held'[k] = held[m]
      BY <1>7, <3>1
    <3> QED BY <3>2 DEF RefsInv, Holds
  <2>3. Len(held') <= MaxHeld
    BY <1>6, <1>7, BcacheAssumption DEF RefsInv
  <2> QED BY <2>1, <2>2, <2>3 DEF RefsInv
<1>13. ASSUME NEW x \in unsaved PROVE x \in InUse'
  <2>1. x \in InUse /\ x # b
    BY DEF DataInv
  <2>2. PICK k \in DOMAIN held : held[k].buf = x
    BY <2>1 DEF InUse
  <2>3. k \in 1 .. Len(held) /\ k # i
    BY <1>3, <1>6, <2>1, <2>2
  <2>4. \E m \in DOMAIN held' : held'[m] = held[k]
    <3>1. CASE k < i
      <4>1. k \in 1 .. Len(held) - 1
        BY <1>6, <2>3, <3>1
      <4> QED BY <1>7, <1>8, <3>1, <4>1
    <3>2. CASE ~ (k < i)
      <4>1. k - 1 \in 1 .. Len(held) - 1 /\ ~ (k - 1 < i) /\ (k - 1) + 1 = k
        BY <1>6, <2>3, <3>2
      <4> QED BY <1>7, <1>8, <4>1
    <3> QED BY <3>1, <3>2
  <2> QED BY <2>2, <2>4 DEF InUse
<1> QED BY <1>7, <1>10, <1>11, <1>12, <1>13

LEMMA BrelseKeeps ==
  ASSUME BcacheInv, NEW b \in InUse, Brelse(b)
  PROVE  BcacheInv'
<1>1. b \notin unsaved /\ brelse(b) /\ cached' = cached /\ blockno' = blockno /\ valid' = valid
      /\ data' = data /\ disk' = disk /\ unsaved' = unsaved /\ abandoned' = abandoned
  BY DEF Brelse
<1>2. /\ next' \in [Nodes -> Nodes] /\ prev' \in [Nodes -> Nodes] /\ recent' \in Seq(Bufs)
      /\ refcnt' \in [Bufs -> Nat] /\ held' \in Seq([buf : Bufs, block : Blocks])
      /\ ListInv' /\ RefsInv' /\ unsaved \subseteq InUse'
  BY <1>1, ReleaseKeeps
<1>3. TypeOK'
  BY <1>1, <1>2 DEF BcacheInv, TypeOK
<1>4. DataInv'
  BY <1>1, <1>2 DEF BcacheInv, DataInv, CacheIsCoherent
<1> QED BY <1>2, <1>3, <1>4 DEF BcacheInv

\* A copy that fails half way: the buffer is released with a change that is not
\* on the disk, and is remembered as such.
LEMMA CopyinFailsKeeps ==
  ASSUME BcacheInv, NEW b \in InUse, NEW v \in Values, CopyinFails(b, v)
  PROVE  BcacheInv'
<1>1. b \notin unsaved /\ brelse(b) /\ cached' = cached /\ blockno' = blockno /\ valid' = valid
      /\ data' = [data EXCEPT ![b] = v] /\ disk' = disk /\ unsaved' = unsaved
      /\ abandoned' = abandoned \cup {b}
  BY DEF CopyinFails
<1>2. /\ next' \in [Nodes -> Nodes] /\ prev' \in [Nodes -> Nodes] /\ recent' \in Seq(Bufs)
      /\ refcnt' \in [Bufs -> Nat] /\ held' \in Seq([buf : Bufs, block : Blocks])
      /\ ListInv' /\ RefsInv' /\ unsaved \subseteq InUse'
  BY <1>1, ReleaseKeeps
<1>3. b \in Bufs
  BY InUseIs DEF BcacheInv
<1>4. data' \in [Bufs -> Values] /\ \A x \in Bufs : data'[x] = IF x = b THEN v ELSE data[x]
  BY <1>1, <1>3 DEF BcacheInv, TypeOK
<1>5. TypeOK'
  BY <1>1, <1>2, <1>3, <1>4 DEF BcacheInv, TypeOK
<1>6. DataInv'
  <2>1. \A x \in Bufs : valid'[x] /\ x \notin unsaved' \cup abandoned' => data'[x] = disk'[blockno'[x]]
    BY <1>1, <1>4 DEF BcacheInv, DataInv, CacheIsCoherent
  <2> QED BY <1>1, <1>2, <2>1 DEF BcacheInv, DataInv, CacheIsCoherent
<1> QED BY <1>2, <1>5, <1>6 DEF BcacheInv

\* binit puts the buffers on the list, each in front of those before it.
LEMMA BcacheInit == Init => BcacheInv
<1> SUFFICES ASSUME Init PROVE BcacheInv
  OBVIOUS
<1>1. NBUF \in Nat
  BY BcacheAssumption
<1>2. /\ next = [b \in Nodes |-> IF b = Anchor THEN NBUF ELSE b - 1]
      /\ prev = [b \in Nodes |-> IF b = NBUF THEN Anchor ELSE b + 1]
      /\ cached = [b \in Bufs |-> FALSE] /\ valid = [b \in Bufs |-> FALSE]
      /\ refcnt = [b \in Bufs |-> 0] /\ disk \in [Blocks -> Values]
      /\ held = <<>> /\ unsaved = {} /\ abandoned = {}
      /\ recent = [i \in Bufs |-> NBUF + 1 - i]
  BY DEF Init
<1>3. recent \in Seq(Bufs) /\ Len(recent) = NBUF /\ \A i \in 1 .. NBUF : recent[i] = NBUF + 1 - i
  <2>1. \A i \in 1 .. NBUF : NBUF + 1 - i \in Bufs
    BY <1>1 DEF Bufs
  <2> QED BY <1>1, <1>2, <2>1 DEF Bufs
<1>4. TypeOK
  <2>1. next \in [Nodes -> Nodes] /\ prev \in [Nodes -> Nodes]
    <3>1. \A b \in Nodes : (IF b = Anchor THEN NBUF ELSE b - 1) \in Nodes
      BY <1>1 DEF Nodes, Anchor
    <3>2. \A b \in Nodes : (IF b = NBUF THEN Anchor ELSE b + 1) \in Nodes
      BY <1>1 DEF Nodes, Anchor
    <3> QED BY <1>2, <3>1, <3>2
  <2>2. blockno \in [Bufs -> Blocks] /\ data \in [Bufs -> Values]
    BY DEF Init
  <2>3. held \in Seq([buf : Bufs, block : Blocks])
    BY <1>2
  <2> QED BY <1>2, <1>3, <2>1, <2>2, <2>3 DEF TypeOK
<1>5. ListInv
  <2>1. ASSUME NEW b \in Bufs PROVE \E i \in 1 .. NBUF : recent[i] = b
    <3>1. NBUF + 1 - b \in 1 .. NBUF /\ NBUF + 1 - (NBUF + 1 - b) = b
      BY <1>1 DEF Bufs
    <3> QED BY <1>3, <3>1
  <2>2. \A i, j \in 1 .. NBUF : recent[i] = recent[j] => i = j
    BY <1>1, <1>3
  <2>3. ASSUME NEW i \in 0 .. NBUF PROVE next[Place(i)] = Place(i + 1) /\ prev[Place(i + 1)] = Place(i)
    <3>1. Place(i) = IF i = 0 THEN 0 ELSE NBUF + 1 - i
      BY <1>1, <1>3 DEF Place, Anchor
    <3>2. Place(i + 1) = IF i = NBUF THEN 0 ELSE NBUF - i
      <4>1. i + 1 \in 1 .. NBUF <=> i # NBUF
        BY <1>1
      <4>2. i # NBUF => NBUF + 1 - (i + 1) = NBUF - i
        BY <1>1
      <4> QED BY <1>3, <4>1, <4>2 DEF Place, Anchor
    <3>3. Place(i) \in Nodes /\ Place(i + 1) \in Nodes
      BY <1>1, <3>1, <3>2 DEF Nodes
    <3>4. next[Place(i)] = IF Place(i) = 0 THEN NBUF ELSE Place(i) - 1
      BY <1>2, <3>3 DEF Anchor
    <3>5. prev[Place(i + 1)] = IF Place(i + 1) = NBUF THEN 0 ELSE Place(i + 1) + 1
      BY <1>2, <3>3 DEF Anchor
    <3> QED BY <1>1, <3>1, <3>2, <3>4, <3>5
  <2> QED BY <1>3, <2>1, <2>2, <2>3 DEF ListInv
<1>6. RefsInv
  <2>1. Len(held) = 0 /\ DOMAIN held = {}
    BY <1>2
  <2>2. ASSUME NEW b \in Bufs PROVE refcnt[b] = Cardinality(Refs(b))
    <3>1. Refs(b) = {}
      BY <2>1 DEF Refs
    <3>2. Cardinality(Refs(b)) = 0
      BY <3>1, FS_EmptySet
    <3> QED BY <1>2, <3>2
  <2>3. Len(held) <= MaxHeld
    BY <2>1, BcacheAssumption
  <2> QED BY <2>1, <2>2, <2>3 DEF RefsInv
<1>7. DataInv
  BY <1>2 DEF DataInv, CacheIsCoherent
<1> QED BY <1>4, <1>5, <1>6, <1>7 DEF BcacheInv

LEMMA BcacheStutter ==
  ASSUME BcacheInv, UNCHANGED vars
  PROVE  BcacheInv'
<1>1. /\ next' = next /\ prev' = prev /\ recent' = recent /\ UNCHANGED <<list, recent>>
      /\ cached' = cached /\ blockno' = blockno /\ valid' = valid /\ refcnt' = refcnt /\ held' = held
      /\ data' = data /\ disk' = disk /\ unsaved' = unsaved /\ abandoned' = abandoned
  BY DEF vars, list, usage
<1>2. TypeOK'
  BY <1>1 DEF BcacheInv, TypeOK
<1>3. ListInv'
  BY <1>1, SameList DEF BcacheInv
<1>4. RefsInv'
  BY <1>1 DEF BcacheInv, RefsInv, Refs, Holds
<1>5. DataInv'
  BY <1>1 DEF BcacheInv, DataInv, CacheIsCoherent, InUse
<1> QED BY <1>2, <1>3, <1>4, <1>5 DEF BcacheInv

LEMMA BcacheInductive == BcacheInv /\ [Next]_vars => BcacheInv'
<1> SUFFICES ASSUME BcacheInv, [Next]_vars PROVE BcacheInv'
  OBVIOUS
<1>1. CASE \E n \in Blocks : Bread(n)
  BY <1>1, BreadKeeps
<1>2. CASE \E b \in InUse : Bwrite(b)
  BY <1>2, BwriteKeeps
<1>3. CASE \E b \in InUse : Brelse(b)
  BY <1>3, BrelseKeeps
<1>4. CASE \E b \in InUse, v \in Values : Change(b, v)
  BY <1>4, ChangeKeeps
<1>5. CASE \E b \in InUse, v \in Values : CopyinFails(b, v)
  BY <1>5, CopyinFailsKeeps
<1>6. CASE UNCHANGED vars
  BY <1>6, BcacheStutter
<1> QED BY <1>1, <1>2, <1>3, <1>4, <1>5, <1>6 DEF Next

LEMMA BcacheInvariant == Spec => []BcacheInv
  BY BcacheInit, BcacheInductive, PTL DEF Spec

(***************************************************************************)
(* What the buffer cache promises.                                         *)
(***************************************************************************)
\* The variables of bio.c keep their types, whatever the file system asks for.
THEOREM BcacheTypeCorrect == Spec => []TypeOK
<1>1. BcacheInv => TypeOK
  BY DEF BcacheInv
<1> QED BY <1>1, BcacheInvariant, PTL

\* bget and bread: no block is ever in two buffers, and a valid buffer agrees
\* with the disk but for the changes its user has not written.
THEOREM CacheIsCoherentHolds == Spec => []CacheIsCoherent
<1>1. BcacheInv => CacheIsCoherent
  BY DEF BcacheInv, DataInv
<1> QED BY <1>1, BcacheInvariant, PTL

\* bget and brelse: refcnt counts the users of a buffer, who find their block in it
\* until they release it, and panic("bget: no buffers") is out of reach.
THEOREM RefsProtectHolds == Spec => []RefsProtect
<1>1. BcacheInv => RefsProtect
  <2> SUFFICES ASSUME BcacheInv PROVE RefsProtect
    OBVIOUS
  <2>1. Len(held) < MaxHeld => \E b \in Bufs : refcnt[b] = 0
    BY SomeFree DEF BcacheInv
  <2> QED BY <2>1 DEF BcacheInv, RefsInv, Refs, RefsProtect
<1> QED BY <1>1, BcacheInvariant, PTL

\* brelse: for any number of buffers the pointers, forwards and backwards, list
\* every buffer in the order of the releases.
THEOREM ListIsLRUHolds == Spec => []ListIsLRU
<1>1. BcacheInv => ListIsLRU
  BY WalksOfList DEF BcacheInv, ListIsLRU
<1> QED BY <1>1, BcacheInvariant, PTL
=============================================================================
