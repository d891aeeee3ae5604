---------------------------- MODULE VirtioProofs ----------------------------
(***************************************************************************)
(* For every number of descriptors, every width of the ring indices and    *)
(* every disk: the driver, its interrupt handler and the device together   *)
(* implement BlockDevice.                                                  *)
(***************************************************************************)
EXTENDS Virtio, FiniteSetTheorems, SequenceTheorems, TLAPS

(***************************************************************************)
(* Numbers.                                                                *)
(***************************************************************************)
\* Induction on the numbers of a set.
LEMMA AllNats ==
  ASSUME NEW S, 0 \in S, \A n \in Nat : n \in S => n + 1 \in S
  PROVE  Nat \subseteq S
<1> DEFINE T == {n \in Nat : n \notin S}
           R == OpToRel(<, Nat)
<1> SUFFICES ASSUME NEW m \in Nat, m \notin S PROVE FALSE
  OBVIOUS
<1>1. T \in SUBSET Nat /\ T # {} /\ \A x \in T : x \in Nat /\ x \notin S
  OBVIOUS
<1>2. PICK x \in T : \A y \in T : ~ (<<y, x>> \in R)
  <2> HIDE DEF T
  <2> QED BY <1>1, WFMin, NatLessThanWellFounded
<1>3. x # 0 /\ x \in Nat /\ x \notin S
  BY <1>1
<1>4. x - 1 \in Nat /\ x - 1 < x /\ (x - 1) + 1 = x
  BY <1>3
<1>5. <<x - 1, x>> \in R
  BY <1>3, <1>4 DEF OpToRel
<1>6. x - 1 \in S
  <2>1. x - 1 \notin T
    BY <1>2, <1>5
  <2> QED BY <1>4, <2>1
<1>7. (x - 1) + 1 \in S
  BY <1>4, <1>6
<1> QED BY <1>3, <1>4, <1>7

\* The next index of a ring is another one.
LEMMA NextIndex ==
  ASSUME NEW i \in 0 .. WRAP - 1
  PROVE  (i + 1) % WRAP \in 0 .. WRAP - 1 /\ (i + 1) % WRAP # i
<1>1. WRAP \in Nat /\ WRAP > 1
  BY VirtioAssumption
<1>2. CASE i + 1 < WRAP
  <2>1. (i + 1) % WRAP = i + 1
    BY <1>1, <1>2
  <2> QED BY <1>1, <1>2, <2>1
<1>3. CASE i + 1 = WRAP
  <2>1. WRAP % WRAP = 0
    BY <1>1
  <2> QED BY <1>1, <1>3, <2>1
<1> QED BY <1>1, <1>2, <1>3

LEMMA Entry ==
  ASSUME NEW i \in 0 .. WRAP - 1
  PROVE  i % NUM \in Descs
  BY VirtioAssumption DEF Descs

\* Blocks do not overlap on the disk, nor reach over its end.
LEMMA Apart ==
  ASSUME NEW m \in Nat, NEW n \in Nat, m < n
  PROVE  m * SPB + SPB <= n * SPB
<1>1. SPB \in Nat
  BY VirtioAssumption
<1>2. PICK d \in Nat : n = m + 1 + d
  <2>1. n - (m + 1) \in Nat /\ n = m + 1 + (n - (m + 1))
    OBVIOUS
  <2> QED BY <2>1
<1>3. n * SPB = (m + 1) * SPB + d * SPB
  BY <1>1, <1>2
<1>4. (m + 1) * SPB = m * SPB + SPB
  BY <1>1
<1>5. d * SPB \in Nat /\ m * SPB \in Nat
  BY <1>1
<1> QED BY <1>1, <1>3, <1>4, <1>5

LEMMA BlockSectors ==
  ASSUME NEW n \in Blocks
  PROVE  SectorOf(n) \in Sectors /\ \A k \in 1 .. SPB : SectorOf(n) + k - 1 \in Sectors
<1>1. SPB \in Nat /\ SPB > 0 /\ NBLOCKS \in Nat /\ n \in Nat /\ n < NBLOCKS
  BY VirtioAssumption DEF Blocks
<1>2. n * SPB + SPB <= NBLOCKS * SPB
  BY <1>1, Apart
<1>3. n * SPB \in Nat /\ NBLOCKS * SPB \in Nat
  BY <1>1
<1> DEFINE a == n * SPB
           z == NBLOCKS * SPB
<1>4. a \in 0 .. z - 1 /\ \A k \in 1 .. SPB : a + k - 1 \in 0 .. z - 1
  <2> HIDE DEF a, z
  <2> SUFFICES ASSUME a \in Nat, z \in Nat, a + SPB <= z
               PROVE  a \in 0 .. z - 1 /\ \A k \in 1 .. SPB : a + k - 1 \in 0 .. z - 1
    BY <1>2, <1>3 DEF a, z
  <2> QED BY <1>1
<1> QED BY <1>4 DEF SectorOf, Sectors

LEMMA OneBlock ==
  ASSUME NEW m \in Blocks, NEW n \in Blocks, NEW k \in 1 .. SPB, NEW s, s = SectorOf(m) + k - 1
  PROVE  /\ s - SectorOf(n) \in 0 .. SPB - 1 <=> m = n
         /\ m = n => s - SectorOf(n) + 1 = k
<1>1. SPB \in Nat /\ m \in Nat /\ n \in Nat
  BY VirtioAssumption DEF Blocks
<1> DEFINE a == m * SPB
           c == n * SPB
<1>2. a \in Nat /\ c \in Nat
  BY <1>1
<1>3. (m < n => a + SPB <= c) /\ (n < m => c + SPB <= a) /\ (m = n => a = c)
  BY <1>1, Apart
<1> HIDE DEF a, c
<1>4. m < n \/ n < m \/ m = n
  BY <1>1
<1>5. s = a + k - 1
  BY DEF SectorOf, a
<1>6. s - c \in 0 .. SPB - 1 <=> m = n
  BY <1>1, <1>2, <1>3, <1>4, <1>5
<1>7. m = n => s - c + 1 = k
  BY <1>1, <1>2, <1>3, <1>5
<1> QED BY <1>6, <1>7 DEF SectorOf, c

(***************************************************************************)
(* The chain of a request.                                                 *)
(***************************************************************************)
\* The recursion of ChainFrom, up to m links.
Links(g, m) ==
    g = [k \in 0 .. m |->
            [j \in Descs |-> IF k > 0 /\ "NEXT" \in desc[j].flags
                             THEN <<j>> \o g[k - 1][desc[j].next] ELSE <<j>>]]

LinksOf(m) == CHOOSE g : Links(g, m)

LEMMA ChainDef ==
  ASSUME NEW i
  PROVE  ChainFrom(i) = LinksOf(NUM)[NUM][i]
  BY DEF ChainFrom, LinksOf, Links

LEMMA OneLinkMore ==
  ASSUME NEW m \in Nat, NEW g, Links(g, m)
  PROVE  \E h : Links(h, m + 1)
<1> DEFINE F(f, k) ==
             [j \in Descs |-> IF k > 0 /\ "NEXT" \in desc[j].flags
                              THEN <<j>> \o f[k - 1][desc[j].next] ELSE <<j>>]
           h == [k \in 0 .. m + 1 |-> IF k <= m THEN g[k] ELSE F(g, m + 1)]
<1>1. \A k \in 0 .. m : g[k] = F(g, k)
  BY DEF Links
<1>2. \A k \in 0 .. m + 1 : h[k] = IF k <= m THEN g[k] ELSE F(g, m + 1)
  OBVIOUS
<1>3. ASSUME NEW k \in 0 .. m + 1 PROVE h[k] = F(h, k)
  <2> HIDE DEF h
  <2>1. ~ (k > 0) \/ h[k - 1] = g[k - 1]
    <3>1. k > 0 => k - 1 \in 0 .. m + 1 /\ k - 1 <= m
      OBVIOUS
    <3> QED BY <1>2, <3>1
  <2>2. F(h, k) = F(g, k)
    BY <2>1
  <2>3. h[k] = F(g, k)
    <3>1. CASE k <= m
      <4>1. k \in 0 .. m
        BY <3>1
      <4>2. g[k] = F(g, k)
        BY <1>1, <4>1
      <4>3. h[k] = g[k]
        BY <1>2, <3>1
      <4> QED BY <4>2, <4>3
    <3>2. CASE ~ (k <= m)
      <4>1. k = m + 1
        BY <3>2
      <4> QED BY <1>2, <3>2, <4>1
    <3> QED BY <3>1, <3>2
  <2> QED BY <2>2, <2>3
<1>4. h = [k \in 0 .. m + 1 |-> h[k]]
  OBVIOUS
<1>5. Links(h, m + 1)
  <2> HIDE DEF h
  <2> QED BY <1>3, <1>4 DEF Links
<1> QED BY <1>5

LEMMA LinksAre ==
  ASSUME NEW n \in Nat
  PROVE  \A k \in 0 .. n : \A j \in Descs :
           LinksOf(n)[k][j] = IF k > 0 /\ "NEXT" \in desc[j].flags
                              THEN <<j>> \o LinksOf(n)[k - 1][desc[j].next] ELSE <<j>>
<1> DEFINE S == {m \in Nat : \E g : Links(g, m)}
<1>1. 0 \in S
  <2> DEFINE g == [k \in 0 .. 0 |-> [j \in Descs |-> <<j>>]]
  <2>1. Links(g, 0)
    BY DEF Links
  <2> QED BY <2>1
<1>2. \A m \in Nat : m \in S => m + 1 \in S
  BY OneLinkMore
<1>3. n \in S
  <2> HIDE DEF S
  <2> QED BY <1>1, <1>2, AllNats
<1>4. Links(LinksOf(n), n)
  BY <1>3 DEF LinksOf
<1>5. ASSUME NEW g, Links(g, n)
      PROVE  \A k \in 0 .. n : \A j \in Descs :
               g[k][j] = IF k > 0 /\ "NEXT" \in desc[j].flags
                         THEN <<j>> \o g[k - 1][desc[j].next] ELSE <<j>>
  <2>1. \A k \in 0 .. n :
          g[k] = [j \in Descs |-> IF k > 0 /\ "NEXT" \in desc[j].flags
                                  THEN <<j>> \o g[k - 1][desc[j].next] ELSE <<j>>]
    BY <1>5 DEF Links
  <2> QED BY <2>1
<1> QED BY <1>4, <1>5

\* Three descriptors that are chained.
LEMMA ChainOfThree ==
  ASSUME "NEXT" \in desc[0].flags, desc[0].next = 1, "NEXT" \in desc[1].flags, desc[1].next = 2,
         "NEXT" \notin desc[2].flags
  PROVE  ChainFrom(0) = <<0, 1, 2>> /\ Freed(0) = {0, 1, 2}
<1>1. NUM \in Nat /\ NUM >= 3
  BY VirtioAssumption
<1>2. 0 \in Descs /\ 1 \in Descs /\ 2 \in Descs
  BY <1>1 DEF Descs
<1>3. PICK g : g = LinksOf(NUM)
  OBVIOUS
<1>4. \A k \in 0 .. NUM : \A j \in Descs :
        g[k][j] = IF k > 0 /\ "NEXT" \in desc[j].flags
                  THEN <<j>> \o g[k - 1][desc[j].next] ELSE <<j>>
  <2>1. \A k \in 0 .. NUM : \A j \in Descs :
          LinksOf(NUM)[k][j] = IF k > 0 /\ "NEXT" \in desc[j].flags
                               THEN <<j>> \o LinksOf(NUM)[k - 1][desc[j].next] ELSE <<j>>
    BY <1>1, LinksAre, Zenon
  <2> QED BY <1>3, <2>1
<1>5. NUM \in 0 .. NUM /\ NUM - 1 \in 0 .. NUM /\ NUM - 2 \in 0 .. NUM /\ NUM > 0 /\ NUM - 1 > 0
      /\ (NUM - 1) - 1 = NUM - 2
  BY <1>1
<1>6. g[NUM - 2][2] = <<2>>
  BY <1>2, <1>4, <1>5
<1>7. g[NUM - 1][1] = <<1>> \o g[NUM - 2][2]
  <2>1. g[NUM - 1][1] = IF NUM - 1 > 0 /\ "NEXT" \in desc[1].flags
                        THEN <<1>> \o g[(NUM - 1) - 1][desc[1].next] ELSE <<1>>
    BY <1>2, <1>4, <1>5
  <2> QED BY <1>5, <2>1
<1>8. g[NUM][0] = <<0>> \o g[NUM - 1][1]
  <2>1. g[NUM][0] = IF NUM > 0 /\ "NEXT" \in desc[0].flags
                    THEN <<0>> \o g[NUM - 1][desc[0].next] ELSE <<0>>
    BY <1>2, <1>4, <1>5
  <2> QED BY <1>5, <2>1
<1>9. <<0>> \o (<<1>> \o <<2>>) = <<0, 1, 2>>
  <2>1. PICK p, q, r : p = <<0>> /\ q = <<1>> /\ r = <<2>>
    OBVIOUS
  <2>2. p \in Seq(Nat) /\ q \in Seq(Nat) /\ r \in Seq(Nat)
        /\ Len(p) = 1 /\ Len(q) = 1 /\ Len(r) = 1 /\ p[1] = 0 /\ q[1] = 1 /\ r[1] = 2
    BY <2>1
  <2>3. /\ q \o r \in Seq(Nat) /\ Len(q \o r) = Len(q) + Len(r)
        /\ \A i \in 1 .. Len(q) + Len(r) : (q \o r)[i] = IF i <= Len(q) THEN q[i] ELSE r[i - Len(q)]
    BY <2>2, ConcatProperties
  <2>4. PICK s : s = q \o r
    OBVIOUS
  <2>5. s \in Seq(Nat) /\ Len(s) = 2 /\ s[1] = 1 /\ s[2] = 2
    BY <2>2, <2>3, <2>4
  <2>6. /\ p \o s \in Seq(Nat) /\ Len(p \o s) = Len(p) + Len(s)
        /\ \A i \in 1 .. Len(p) + Len(s) : (p \o s)[i] = IF i <= Len(p) THEN p[i] ELSE s[i - Len(p)]
    BY <2>2, <2>5, ConcatProperties
  <2>7. PICK t : t = p \o s
    OBVIOUS
  <2>8. t \in Seq(Nat) /\ Len(t) = 3 /\ t[1] = 0 /\ t[2] = 1 /\ t[3] = 2
    BY <2>2, <2>5, <2>6, <2>7
  <2>9. t = <<0, 1, 2>>
    BY <2>8
  <2> QED BY <2>1, <2>4, <2>7, <2>9
<1>10. ChainFrom(0) = <<0, 1, 2>>
  BY <1>3, <1>6, <1>7, <1>8, <1>9, ChainDef
<1>11. Freed(0) = {0, 1, 2}
  <2>1. Freed(0) = {<<0, 1, 2>>[k] : k \in 1 .. 3}
    BY <1>10 DEF Freed
  <2>2. 1 .. 3 = {1, 2, 3}
    OBVIOUS
  <2> QED BY <2>1, <2>2
<1> QED BY <1>10, <1>11

\* alloc3_desc finds the first three descriptors when all are free.
LEMMA FirstThree ==
    /\ Lowest(Descs) = 0 /\ Lowest(Descs \ {0}) = 1 /\ Lowest(Descs \ {0, 1}) = 2
    /\ {0, 1, 2} \subseteq Descs
<1>1. NUM \in Nat /\ NUM >= 3
  BY VirtioAssumption
<1>2. ASSUME NEW S \in SUBSET Nat, NEW x \in S, \A y \in S : x <= y PROVE Lowest(S) = x
  <2>1. ASSUME NEW z \in S, \A y \in S : z <= y PROVE z = x
    <3>1. z <= x /\ x <= z /\ z \in Nat /\ x \in Nat
      BY <1>2, <2>1
    <3> QED BY <3>1
  <2> QED BY <1>2, <2>1 DEF Lowest
<1>3. Descs \in SUBSET Nat /\ 0 \in Descs /\ \A y \in Descs : 0 <= y
  BY <1>1 DEF Descs
<1>4. Descs \ {0} \in SUBSET Nat /\ 1 \in Descs \ {0} /\ \A y \in Descs \ {0} : 1 <= y
  BY <1>1 DEF Descs
<1>5. Descs \ {0, 1} \in SUBSET Nat /\ 2 \in Descs \ {0, 1} /\ \A y \in Descs \ {0, 1} : 2 <= y
  BY <1>1 DEF Descs
<1>6. Lowest(Descs) = 0
  BY <1>2, <1>3
<1>7. Lowest(Descs \ {0}) = 1
  BY <1>2, <1>4
<1>8. Lowest(Descs \ {0, 1}) = 2
  BY <1>2, <1>5
<1> QED BY <1>3, <1>4, <1>5, <1>6, <1>7, <1>8

(***************************************************************************)
(* The invariant: a request goes through its stages one after the other.   *)
(***************************************************************************)
InFlight == pc \in {"notify", "wait"}

\* The device has nothing to do.
Quiet ==
    /\ ~InFlight
    /\ busy = Idle /\ seen = avail.idx /\ used.idx = used_idx
    /\ ~pending /\ ~isr /\ ~intr /\ ~halted
    /\ pc = "publish" => avail.ring[seen % NUM] = 0

\* The chain is in the avail ring, and the device has not looked.
Published ==
    /\ InFlight
    /\ busy = Idle /\ avail.idx = (seen + 1) % WRAP /\ avail.ring[seen % NUM] = 0
    /\ info[0].status = 251 /\ owned[b] /\ used.idx = used_idx
    /\ ~pending /\ ~isr /\ ~intr /\ ~halted

\* The device has it.
Taken ==
    /\ InFlight
    /\ busy = 0 /\ seen = avail.idx /\ owned[b] /\ used.idx = used_idx
    /\ ~pending /\ ~isr /\ ~intr /\ ~halted

\* It is in the used ring, and the interrupt is to be raised, to be taken or
\* being handled; the handler may have panicked on the status.
Returned ==
    /\ InFlight
    /\ busy = Idle /\ seen = avail.idx /\ owned[b] /\ info[0].status # 251
    /\ used.idx = (used_idx + 1) % WRAP /\ used.ring[used_idx % NUM] = 0
    /\ \/ pending /\ ~isr /\ ~intr /\ ~halted
       \/ ~pending /\ isr /\ ~intr /\ ~halted
       \/ ~pending /\ ~isr /\ intr /\ pc = "wait" /\ (halted => info[0].status = 1)

\* The handler has cleared b->disk; it may still run.
Completed ==
    /\ pc = "wait"
    /\ busy = Idle /\ seen = avail.idx /\ ~owned[b] /\ info[0].status = 0 /\ used.idx = used_idx
    /\ ~pending /\ ~isr /\ ~halted

Stages == Quiet \/ Published \/ Taken \/ Returned \/ Completed

\* The three descriptors, once format has filled them.
Formatted ==
    /\ ops[0] = [type |-> IF write THEN "OUT" ELSE "IN", sector |-> SectorOf(blockno)]
    /\ info[0].b = b
    /\ desc[0] = [addr |-> 0, flags |-> {"NEXT"}, next |-> 1]
    /\ desc[1] = [addr |-> b, flags |-> IF write THEN {"NEXT"} ELSE {"NEXT", "WRITE"}, next |-> 2]
    /\ desc[2] = [addr |-> 0, flags |-> {"WRITE"}, next |-> 0]

DescsInv ==
    /\ pc # "idle" => b \in Bufs
    /\ pc \in {"idle", "alloc"} => free = Descs
    /\ pc \notin {"idle", "alloc"} => free = Descs \ {0, 1, 2} /\ idx = <<0, 1, 2>>
    /\ pc \in {"offer", "publish", "notify", "wait"} => Formatted
    /\ pc \in {"offer", "publish"} => info[0].status = 251 /\ owned[b]

VirtioInv == TypeOK /\ Stages /\ DescsInv

\* Where the driver is tells the stage, and so does what the handler sees.
LEMMA StageIs ==
  ASSUME VirtioInv
  PROVE  /\ ~InFlight => Quiet
         /\ intr /\ ~halted => pc = "wait" /\ (Returned \/ Completed)
         /\ isr => Returned
         /\ pending => Returned
         /\ busy # Idle => Taken
         /\ busy = Idle /\ ~pending /\ seen # avail.idx /\ ~halted => Published
         /\ InFlight => Formatted /\ idx = <<0, 1, 2>> /\ idx[1] = 0 /\ b \in Bufs
                        /\ free = Descs \ {0, 1, 2}
<1>1. Idle # 0
  BY DEF Idle
<1>2. Stages /\ DescsInv
  BY DEF VirtioInv
<1> QED BY <1>1, <1>2 DEF Stages, Quiet, Published, Taken, Returned, Completed, DescsInv, InFlight

LEMMA InitVirtio == Init => VirtioInv
<1> SUFFICES ASSUME Init PROVE VirtioInv
  OBVIOUS
<1>1. NUM \in Nat /\ NUM >= 3 /\ WRAP \in Nat /\ WRAP > 1 /\ NBLOCKS \in Nat /\ NBLOCKS > 0
  BY VirtioAssumption
<1>2. 0 \in Descs /\ 0 \in Blocks /\ 0 \in 0 .. WRAP - 1
  BY <1>1 DEF Descs, Blocks
<1>3. 0 \in Sectors
  <2>1. SectorOf(0) = 0
    BY VirtioAssumption DEF SectorOf
  <2> QED BY <1>2, <2>1, BlockSectors
<1>4. TypeOK
  <2>1. NoDesc \in [addr : Descs \cup Bufs \cup {NoBuf}, flags : SUBSET {"NEXT", "WRITE"}, next : Descs]
        /\ NoOp \in [type : {"IN", "OUT"}, sector : Sectors]
    BY <1>2, <1>3 DEF NoDesc, NoOp
  <2>2. [idx |-> 0, ring |-> [i \in Descs |-> 0]] \in [idx : 0 .. WRAP - 1, ring : [Descs -> Descs]]
    BY <1>2
  <2>3. [b |-> NoBuf, status |-> 0] \in [b : Bufs \cup {NoBuf}, status : {0, 1, 251}]
    OBVIOUS
  <2>4. /\ desc = [i \in Descs |-> NoDesc] /\ ops = [i \in Descs |-> NoOp]
        /\ info = [i \in Descs |-> [b |-> NoBuf, status |-> 0]]
        /\ avail = [idx |-> 0, ring |-> [i \in Descs |-> 0]] /\ used = avail /\ idx = <<0, 0, 0>>
    BY DEF Init
  <2>5. /\ desc \in [Descs -> [addr : Descs \cup Bufs \cup {NoBuf},
                               flags : SUBSET {"NEXT", "WRITE"}, next : Descs]]
        /\ ops \in [Descs -> [type : {"IN", "OUT"}, sector : Sectors]]
        /\ info \in [Descs -> [b : Bufs \cup {NoBuf}, status : {0, 1, 251}]]
    BY <2>1, <2>3, <2>4
  <2>6. idx \in [1 .. 3 -> Descs]
    BY <1>2, <2>4
  <2>7. /\ avail \in [idx : 0 .. WRAP - 1, ring : [Descs -> Descs]]
        /\ used \in [idx : 0 .. WRAP - 1, ring : [Descs -> Descs]]
    BY <2>2, <2>4
  <2>8. owned \in [Bufs -> BOOLEAN] /\ free \subseteq Descs
    BY DEF Init
  <2>9. /\ data \in [Bufs -> Data] /\ pc = "idle" /\ b = NoBuf /\ blockno = 0 /\ write = FALSE
        /\ used_idx = 0 /\ seen = 0 /\ intr = FALSE /\ halted = FALSE
        /\ sectors \in [Sectors -> Bytes] /\ busy = Idle /\ pending = FALSE /\ isr = FALSE
    BY DEF Init
  <2> QED BY <1>2, <2>5, <2>6, <2>7, <2>8, <2>9 DEF TypeOK
<1>5. Stages /\ DescsInv
  BY DEF Init, Stages, Quiet, DescsInv, InFlight
<1> QED BY <1>4, <1>5 DEF VirtioInv

\* bread or bwrite.
LEMMA CallKeeps ==
  ASSUME VirtioInv, NEW x \in Bufs, NEW n \in Blocks, NEW w \in BOOLEAN, Call(x, n, w)
  PROVE  VirtioInv'
<1>1. /\ pc = "idle" /\ pc' = "alloc" /\ b' = x /\ blockno' = n /\ write' = w
      /\ desc' = desc /\ avail' = avail /\ used' = used /\ free' = free /\ used_idx' = used_idx
      /\ info' = info /\ ops' = ops /\ owned' = owned /\ idx' = idx /\ intr' = intr
      /\ halted' = halted /\ sectors' = sectors /\ seen' = seen /\ busy' = busy
      /\ pending' = pending /\ isr' = isr
  BY DEF Call, queue, device
<1>2. data' \in [Bufs -> Data]
  <2>1. data \in [Bufs -> Data]
    BY DEF VirtioInv, TypeOK
  <2>2. CASE w
    <3>1. PICK d \in Data : data' = [data EXCEPT ![x] = d]
      BY <2>2 DEF Call
    <3> QED BY <2>1, <3>1
  <2>3. CASE ~ w
    BY <2>1, <2>3 DEF Call
  <2> QED BY <2>2, <2>3
<1>3. TypeOK'
  BY <1>1, <1>2 DEF VirtioInv, TypeOK
<1>4. Quiet
  BY <1>1, StageIs DEF InFlight
<1>5. Stages'
  BY <1>1, <1>4 DEF Stages, Quiet, InFlight
<1>6. DescsInv'
  BY <1>1 DEF VirtioInv, DescsInv
<1> QED BY <1>3, <1>5, <1>6 DEF VirtioInv

\* alloc3_desc.
LEMMA AllocKeeps ==
  ASSUME VirtioInv, Alloc
  PROVE  VirtioInv'
<1>1. free = Descs /\ pc = "alloc" /\ b \in Bufs
  BY DEF VirtioInv, DescsInv, Alloc
<1>2. /\ idx' = <<0, 1, 2>> /\ free' = Descs \ {0, 1, 2} /\ pc' = "format"
      /\ desc' = desc /\ avail' = avail /\ used' = used /\ used_idx' = used_idx
      /\ info' = info /\ ops' = ops /\ owned' = owned /\ b' = b /\ blockno' = blockno
      /\ write' = write /\ data' = data /\ intr' = intr /\ halted' = halted /\ sectors' = sectors
      /\ seen' = seen /\ busy' = busy /\ pending' = pending /\ isr' = isr
  BY <1>1, FirstThree DEF Alloc, queue, device
<1>3. TypeOK'
  <2>1. idx' \in [1 .. 3 -> Descs]
    BY <1>2, FirstThree
  <2> QED BY <1>2, <2>1 DEF VirtioInv, TypeOK
<1>4. Quiet
  BY <1>1, StageIs DEF InFlight
<1>5. Stages'
  BY <1>2, <1>4 DEF Stages, Quiet, InFlight
<1>6. DescsInv'
  BY <1>1, <1>2 DEF DescsInv
<1> QED BY <1>3, <1>5, <1>6 DEF VirtioInv

\* The request is written down.
LEMMA FormatKeeps ==
  ASSUME VirtioInv, Format
  PROVE  VirtioInv'
<1>1. pc = "format" /\ idx[1] = 0 /\ idx[2] = 1 /\ idx[3] = 2 /\ idx = <<0, 1, 2>> /\ b \in Bufs
      /\ free = Descs \ {0, 1, 2}
  BY DEF VirtioInv, DescsInv, Format
<1>2. /\ ops' = [ops EXCEPT ![0] = [type |-> IF write THEN "OUT" ELSE "IN",
                                    sector |-> SectorOf(blockno)]]
      /\ desc' = Chain
      /\ info' = [info EXCEPT ![0] = [b |-> b, status |-> 251]]
      /\ owned' = [owned EXCEPT ![b] = TRUE] /\ pc' = "offer"
      /\ avail' = avail /\ used' = used /\ used_idx' = used_idx /\ free' = free /\ b' = b
      /\ blockno' = blockno /\ write' = write /\ idx' = idx /\ data' = data /\ intr' = intr
      /\ halted' = halted /\ sectors' = sectors /\ seen' = seen /\ busy' = busy
      /\ pending' = pending /\ isr' = isr
  BY <1>1 DEF Format, Marked, device
<1>3. 0 \in Descs /\ 1 \in Descs /\ 2 \in Descs
  BY FirstThree
<1> DEFINE D == [addr : Descs \cup Bufs \cup {NoBuf}, flags : SUBSET {"NEXT", "WRITE"}, next : Descs]
<1>4. /\ desc \in [Descs -> D] /\ ops \in [Descs -> [type : {"IN", "OUT"}, sector : Sectors]]
      /\ info \in [Descs -> [b : Bufs \cup {NoBuf}, status : {0, 1, 251}]]
      /\ owned \in [Bufs -> BOOLEAN] /\ write \in BOOLEAN /\ blockno \in Blocks
  BY DEF VirtioInv, TypeOK
<1>5. PICK d0, d1, d2 : /\ d0 = [addr |-> 0, flags |-> {"NEXT"}, next |-> 1]
                        /\ d1 = [addr |-> b, flags |-> IF write THEN {"NEXT"} ELSE {"NEXT", "WRITE"},
                                 next |-> 2]
                        /\ d2 = [addr |-> 0, flags |-> {"WRITE"}, next |-> 0]
  OBVIOUS
<1>6. d0 \in D /\ d1 \in D /\ d2 \in D
  BY <1>1, <1>3, <1>5
<1>7. desc' = [desc EXCEPT ![0] = d0, ![1] = d1, ![2] = d2]
  BY <1>1, <1>2, <1>5 DEF Chain
<1>8. desc' \in [Descs -> D] /\ desc'[0] = d0 /\ desc'[1] = d1 /\ desc'[2] = d2
  <2> HIDE DEF D
  <2> QED BY <1>3, <1>4, <1>6, <1>7
<1>9. ops' \in [Descs -> [type : {"IN", "OUT"}, sector : Sectors]]
      /\ ops'[0] = [type |-> IF write THEN "OUT" ELSE "IN", sector |-> SectorOf(blockno)]
  <2>1. SectorOf(blockno) \in Sectors
    BY <1>4, BlockSectors
  <2> QED BY <1>2, <1>3, <1>4, <2>1
<1>10. info' \in [Descs -> [b : Bufs \cup {NoBuf}, status : {0, 1, 251}]]
       /\ info'[0].b = b /\ info'[0].status = 251
  BY <1>1, <1>2, <1>3, <1>4
<1>11. owned' \in [Bufs -> BOOLEAN] /\ owned'[b]
  BY <1>1, <1>2, <1>4
<1>12. TypeOK'
  BY <1>2, <1>8, <1>9, <1>10, <1>11 DEF VirtioInv, TypeOK
<1>13. Quiet
  BY <1>1, StageIs DEF InFlight
<1>14. Stages'
  BY <1>2, <1>13 DEF Stages, Quiet, InFlight
<1>15. Formatted'
  BY <1>2, <1>5, <1>8, <1>9, <1>10 DEF Formatted
<1>16. DescsInv'
  BY <1>1, <1>2, <1>10, <1>11, <1>15 DEF DescsInv
<1> QED BY <1>12, <1>14, <1>16 DEF VirtioInv

\* The entry of the avail ring, and then its index.
LEMMA OfferKeeps ==
  ASSUME VirtioInv, Offer
  PROVE  VirtioInv'
<1>1. pc = "offer" /\ idx[1] = 0 /\ Quiet
  <2>1. pc = "offer"
    BY DEF Offer
  <2> QED BY <2>1, StageIs DEF VirtioInv, DescsInv, InFlight
<1>2. /\ avail' = [avail EXCEPT !.ring[avail.idx % NUM] = 0] /\ pc' = "publish"
      /\ desc' = desc /\ used' = used /\ used_idx' = used_idx /\ free' = free
      /\ info' = info /\ ops' = ops /\ owned' = owned /\ b' = b /\ blockno' = blockno
      /\ write' = write /\ idx' = idx /\ data' = data /\ intr' = intr /\ halted' = halted
      /\ sectors' = sectors /\ seen' = seen /\ busy' = busy /\ pending' = pending /\ isr' = isr
  BY <1>1 DEF Offer, device
<1>3. avail \in [idx : 0 .. WRAP - 1, ring : [Descs -> Descs]]
  BY DEF VirtioInv, TypeOK
<1>4. avail.idx % NUM \in Descs /\ 0 \in Descs
  BY <1>3, Entry, FirstThree
<1>5. avail' \in [idx : 0 .. WRAP - 1, ring : [Descs -> Descs]]
      /\ avail'.idx = avail.idx /\ avail'.ring[avail.idx % NUM] = 0
  BY <1>2, <1>3, <1>4
<1>6. TypeOK'
  BY <1>2, <1>5 DEF VirtioInv, TypeOK
<1>7. Stages'
  BY <1>1, <1>2, <1>5 DEF Stages, Quiet, InFlight
<1>8. DescsInv'
  BY <1>1, <1>2 DEF VirtioInv, DescsInv, Formatted
<1> QED BY <1>6, <1>7, <1>8 DEF VirtioInv

LEMMA PublishKeeps ==
  ASSUME VirtioInv, Publish
  PROVE  VirtioInv'
<1>1. pc = "publish" /\ Quiet /\ info[0].status = 251 /\ owned[b]
  <2>1. pc = "publish"
    BY DEF Publish
  <2> QED BY <2>1, StageIs DEF VirtioInv, DescsInv, InFlight
<1>2. /\ avail' = [avail EXCEPT !.idx = (@ + 1) % WRAP] /\ pc' = "notify"
      /\ desc' = desc /\ used' = used /\ used_idx' = used_idx /\ free' = free
      /\ info' = info /\ ops' = ops /\ owned' = owned /\ b' = b /\ blockno' = blockno
      /\ write' = write /\ idx' = idx /\ data' = data /\ intr' = intr /\ halted' = halted
      /\ sectors' = sectors /\ seen' = seen /\ busy' = busy /\ pending' = pending /\ isr' = isr
  BY DEF Publish, device
<1>3. avail \in [idx : 0 .. WRAP - 1, ring : [Descs -> Descs]]
  BY DEF VirtioInv, TypeOK
<1>4. (avail.idx + 1) % WRAP \in 0 .. WRAP - 1
  BY <1>3, NextIndex
<1>5. avail' \in [idx : 0 .. WRAP - 1, ring : [Descs -> Descs]]
      /\ avail'.idx = (avail.idx + 1) % WRAP /\ avail'.ring = avail.ring
  BY <1>2, <1>3, <1>4
<1>6. TypeOK'
  BY <1>2, <1>5 DEF VirtioInv, TypeOK
<1>7. Published'
  BY <1>1, <1>2, <1>5 DEF Quiet, Published, InFlight
<1>8. DescsInv'
  BY <1>1, <1>2 DEF VirtioInv, DescsInv, Formatted
<1> QED BY <1>6, <1>7, <1>8 DEF VirtioInv, Stages

LEMMA NotifyKeeps ==
  ASSUME VirtioInv, Notify
  PROVE  VirtioInv'
<1>1. /\ pc = "notify" /\ pc' = "wait" /\ avail' = avail
      /\ desc' = desc /\ used' = used /\ used_idx' = used_idx /\ free' = free
      /\ info' = info /\ ops' = ops /\ owned' = owned /\ b' = b /\ blockno' = blockno
      /\ write' = write /\ idx' = idx /\ data' = data /\ intr' = intr /\ halted' = halted
      /\ sectors' = sectors /\ seen' = seen /\ busy' = busy /\ pending' = pending /\ isr' = isr
  BY DEF Notify, queue, device
<1>2. TypeOK'
  BY <1>1 DEF VirtioInv, TypeOK
<1>3. Stages'
  BY <1>1 DEF VirtioInv, Stages, Quiet, Published, Taken, Returned, Completed, InFlight
<1>4. DescsInv'
  BY <1>1 DEF VirtioInv, DescsInv, Formatted
<1> QED BY <1>2, <1>3, <1>4 DEF VirtioInv

\* free_chain gives back what alloc3_desc took.
LEMMA FinishKeeps ==
  ASSUME VirtioInv, Finish
  PROVE  VirtioInv'
<1>1. InFlight /\ Formatted /\ idx = <<0, 1, 2>> /\ idx[1] = 0 /\ b \in Bufs
      /\ free = Descs \ {0, 1, 2} /\ ~ owned[b] /\ ~ intr
  BY StageIs DEF Finish, InFlight
<1>2. Freed(0) = {0, 1, 2}
  BY <1>1, ChainOfThree DEF Formatted
<1>3. /\ info' = [info EXCEPT ![0].b = NoBuf]
      /\ desc' = [i \in Descs |-> IF i \in {0, 1, 2} THEN NoDesc ELSE desc[i]]
      /\ free' = free \cup {0, 1, 2} /\ pc' = "idle"
      /\ avail' = avail /\ used' = used /\ used_idx' = used_idx
      /\ ops' = ops /\ owned' = owned /\ b' = b /\ blockno' = blockno
      /\ write' = write /\ idx' = idx /\ data' = data /\ intr' = intr /\ halted' = halted
      /\ sectors' = sectors /\ seen' = seen /\ busy' = busy /\ pending' = pending /\ isr' = isr
  BY <1>1, <1>2 DEF Finish, device
<1>4. free' = Descs
  BY <1>1, <1>3, FirstThree
<1>5. TypeOK'
  <2>1. 0 \in Descs
    BY FirstThree
  <2>2. info' \in [Descs -> [b : Bufs \cup {NoBuf}, status : {0, 1, 251}]]
    <3> DEFINE I == [b : Bufs \cup {NoBuf}, status : {0, 1, 251}]
    <3>1. info \in [Descs -> I]
      BY DEF VirtioInv, TypeOK
    <3>2. PICK i0 : i0 = [info[0] EXCEPT !.b = NoBuf]
      OBVIOUS
    <3>3. info[0] \in I
      BY <2>1, <3>1
    <3>4. i0 \in I
      BY <3>2, <3>3
    <3>5. info' = [info EXCEPT ![0] = i0]
      BY <1>3, <3>2
    <3> HIDE DEF I
    <3>6. info' \in [Descs -> I]
      BY <3>1, <3>4, <3>5
    <3> QED BY <3>6 DEF I
  <2>3. desc' \in [Descs -> [addr : Descs \cup Bufs \cup {NoBuf},
                             flags : SUBSET {"NEXT", "WRITE"}, next : Descs]]
    <3>1. NoDesc \in [addr : Descs \cup Bufs \cup {NoBuf},
                      flags : SUBSET {"NEXT", "WRITE"}, next : Descs]
      BY <2>1 DEF NoDesc
    <3> QED BY <1>3, <3>1 DEF VirtioInv, TypeOK
  <2> QED BY <1>3, <1>4, <2>2, <2>3 DEF VirtioInv, TypeOK
<1>6. Completed
  BY <1>1 DEF VirtioInv, Stages, Quiet, Published, Taken, Returned
<1>7. Stages'
  BY <1>1, <1>3, <1>6 DEF Stages, Quiet, Completed, InFlight
<1>8. DescsInv'
  BY <1>3, <1>4 DEF DescsInv
<1> QED BY <1>5, <1>7, <1>8 DEF VirtioInv

\* The handler.
LEMMA InterruptKeeps ==
  ASSUME VirtioInv, Interrupt
  PROVE  VirtioInv'
<1>1. /\ isr /\ ~intr /\ ~halted /\ pc \in {"wait", "idle"} /\ isr' = FALSE /\ intr' = TRUE
      /\ avail' = avail /\ desc' = desc /\ used' = used /\ used_idx' = used_idx /\ free' = free
      /\ info' = info /\ ops' = ops /\ owned' = owned /\ pc' = pc /\ b' = b /\ blockno' = blockno
      /\ write' = write /\ idx' = idx /\ data' = data /\ halted' = halted
      /\ sectors' = sectors /\ seen' = seen /\ busy' = busy /\ pending' = pending
  BY DEF Interrupt, queue, driver, device
<1>2. TypeOK'
  BY <1>1 DEF VirtioInv, TypeOK
<1>3. Returned /\ pc = "wait"
  BY <1>1, StageIs DEF Returned, InFlight
<1>4. Returned'
  BY <1>1, <1>3 DEF Returned, InFlight
<1>5. DescsInv'
  BY <1>1 DEF VirtioInv, DescsInv, Formatted
<1> QED BY <1>2, <1>4, <1>5 DEF VirtioInv, Stages

LEMMA CompleteKeeps ==
  ASSUME VirtioInv, Complete
  PROVE  VirtioInv'
<1>1. /\ intr /\ ~halted /\ used_idx # used.idx
      /\ avail' = avail /\ desc' = desc /\ used' = used /\ free' = free
      /\ info' = info /\ ops' = ops /\ pc' = pc /\ b' = b /\ blockno' = blockno
      /\ write' = write /\ idx' = idx /\ data' = data /\ intr' = intr
      /\ sectors' = sectors /\ seen' = seen /\ busy' = busy /\ pending' = pending /\ isr' = isr
  BY DEF Complete, More, queue, device
<1>2. Returned /\ pc = "wait" /\ b \in Bufs /\ info[0].b = b
  <2>1. pc = "wait" /\ Returned
    BY <1>1, StageIs DEF Completed
  <2> QED BY <2>1, StageIs DEF Formatted, InFlight
<1>3. used.ring[used_idx % NUM] = 0
  BY <1>2 DEF Returned
<1>4. owned \in [Bufs -> BOOLEAN] /\ used_idx \in 0 .. WRAP - 1
      /\ info \in [Descs -> [b : Bufs \cup {NoBuf}, status : {0, 1, 251}]]
  BY DEF VirtioInv, TypeOK
<1>5. CASE info[0].status = 0
  <2>1. owned' = [owned EXCEPT ![b] = FALSE] /\ used_idx' = (used_idx + 1) % WRAP /\ halted' = halted
    BY <1>2, <1>3, <1>5 DEF Complete, GoodStatus
  <2>2. owned' \in [Bufs -> BOOLEAN] /\ ~ owned'[b]
    BY <1>2, <1>4, <2>1
  <2>3. used_idx' \in 0 .. WRAP - 1
    BY <1>4, <2>1, NextIndex
  <2>4. TypeOK'
    BY <1>1, <2>1, <2>2, <2>3 DEF VirtioInv, TypeOK
  <2>5. Completed'
    BY <1>1, <1>2, <1>5, <2>1, <2>2 DEF Returned, Completed, InFlight
  <2>6. DescsInv'
    BY <1>1, <1>2 DEF VirtioInv, DescsInv, Formatted
  <2> QED BY <2>4, <2>5, <2>6 DEF VirtioInv, Stages
<1>6. CASE info[0].status # 0
  <2>1. halted' = TRUE /\ owned' = owned /\ used_idx' = used_idx
    BY <1>2, <1>3, <1>6 DEF Complete, GoodStatus
  <2>2. info[0].status = 1
    <3>1. info[0].status \in {0, 1, 251} /\ info[0].status # 251
      BY <1>2, <1>4, FirstThree DEF Returned
    <3> QED BY <1>6, <3>1
  <2>3. TypeOK'
    BY <1>1, <2>1 DEF VirtioInv, TypeOK
  <2>4. Returned'
    BY <1>1, <1>2, <2>1, <2>2 DEF Returned, InFlight
  <2>5. DescsInv'
    BY <1>1, <2>1 DEF VirtioInv, DescsInv, Formatted
  <2> QED BY <2>3, <2>4, <2>5 DEF VirtioInv, Stages
<1> QED BY <1>5, <1>6

LEMMA InterruptDoneKeeps ==
  ASSUME VirtioInv, InterruptDone
  PROVE  VirtioInv'
<1>1. /\ intr /\ ~halted /\ used_idx = used.idx /\ intr' = FALSE
      /\ avail' = avail /\ desc' = desc /\ used' = used /\ used_idx' = used_idx /\ free' = free
      /\ info' = info /\ ops' = ops /\ owned' = owned /\ pc' = pc /\ b' = b /\ blockno' = blockno
      /\ write' = write /\ idx' = idx /\ data' = data /\ halted' = halted
      /\ sectors' = sectors /\ seen' = seen /\ busy' = busy /\ pending' = pending /\ isr' = isr
  BY DEF InterruptDone, More, queue, driver, device
<1>2. TypeOK'
  BY <1>1 DEF VirtioInv, TypeOK
<1>3. Completed
  <2>1. used_idx \in 0 .. WRAP - 1
    BY DEF VirtioInv, TypeOK
  <2>2. ~ Returned
    BY <1>1, <2>1, NextIndex DEF Returned
  <2> QED BY <1>1, <2>2, StageIs
<1>4. Completed'
  BY <1>1, <1>3 DEF Completed
<1>5. DescsInv'
  BY <1>1 DEF VirtioInv, DescsInv, Formatted
<1> QED BY <1>2, <1>4, <1>5 DEF VirtioInv, Stages

\* The device.
LEMMA TakeKeeps ==
  ASSUME VirtioInv, Take
  PROVE  VirtioInv'
<1>1. /\ busy = Idle /\ ~pending /\ seen # avail.idx /\ ~halted
      /\ busy' = avail.ring[seen % NUM] /\ seen' = (seen + 1) % WRAP
      /\ avail' = avail /\ desc' = desc /\ used' = used /\ used_idx' = used_idx /\ free' = free
      /\ info' = info /\ ops' = ops /\ owned' = owned /\ pc' = pc /\ b' = b /\ blockno' = blockno
      /\ write' = write /\ idx' = idx /\ data' = data /\ halted' = halted /\ intr' = intr
      /\ sectors' = sectors /\ pending' = pending /\ isr' = isr
  BY DEF Take, queue, driver
<1>2. Published
  BY <1>1, StageIs
<1>3. busy' = 0 /\ seen' \in 0 .. WRAP - 1
  <2>1. seen \in 0 .. WRAP - 1
    BY DEF VirtioInv, TypeOK
  <2> QED BY <1>1, <1>2, <2>1, NextIndex DEF Published
<1>4. TypeOK'
  BY <1>1, <1>3, FirstThree DEF VirtioInv, TypeOK
<1>5. Taken'
  BY <1>1, <1>2, <1>3 DEF Published, Taken, InFlight
<1>6. DescsInv'
  BY <1>1 DEF VirtioInv, DescsInv, Formatted
<1> QED BY <1>4, <1>5, <1>6 DEF VirtioInv, Stages

\* What the device finds when it follows the chain is the request.
LEMMA ChainFound ==
  ASSUME VirtioInv, busy # Idle
  PROVE  /\ Taken /\ Second = 1 /\ Target = b /\ Status = 0 /\ b \in Bufs
         /\ Op = [type |-> IF write THEN "OUT" ELSE "IN", sector |-> SectorOf(blockno)]
         /\ desc[1].flags = IF write THEN {"NEXT"} ELSE {"NEXT", "WRITE"}
<1>1. Taken /\ busy = 0 /\ Formatted /\ b \in Bufs
  BY StageIs DEF Taken
<1>2. Second = 1
  BY <1>1 DEF Second, Formatted
<1> QED BY <1>1, <1>2 DEF Formatted, Target, Status, Op

\* A status byte that changes.
LEMMA StatusType ==
  ASSUME VirtioInv, NEW s \in {0, 1, 251}, info' = [info EXCEPT ![0].status = s]
  PROVE  /\ info' \in [Descs -> [b : Bufs \cup {NoBuf}, status : {0, 1, 251}]]
         /\ info'[0].status = s /\ info'[0].b = info[0].b
<1> DEFINE I == [b : Bufs \cup {NoBuf}, status : {0, 1, 251}]
<1>1. info \in [Descs -> I] /\ 0 \in Descs
  BY FirstThree DEF VirtioInv, TypeOK
<1>2. PICK i0 : i0 = [info[0] EXCEPT !.status = s]
  OBVIOUS
<1>3. info[0] \in I
  BY <1>1
<1>4. i0 \in I /\ i0.status = s /\ i0.b = info[0].b
  BY <1>2, <1>3
<1>5. info' = [info EXCEPT ![0] = i0]
  BY <1>2
<1> HIDE DEF I
<1>6. info' \in [Descs -> I] /\ info'[0] = i0
  BY <1>1, <1>4, <1>5
<1> QED BY <1>4, <1>6 DEF I

LEMMA ServeKeeps ==
  ASSUME VirtioInv, Serve
  PROVE  VirtioInv'
<1>1. /\ Taken /\ Second = 1 /\ Target = b /\ Status = 0 /\ b \in Bufs
      /\ Op = [type |-> IF write THEN "OUT" ELSE "IN", sector |-> SectorOf(blockno)]
  BY ChainFound DEF Serve
<1>2. /\ info' = [info EXCEPT ![0].status = 0]
      /\ avail' = avail /\ desc' = desc /\ used' = used /\ used_idx' = used_idx /\ free' = free
      /\ ops' = ops /\ owned' = owned /\ pc' = pc /\ b' = b /\ blockno' = blockno
      /\ write' = write /\ idx' = idx /\ halted' = halted /\ intr' = intr
      /\ seen' = seen /\ busy' = busy /\ pending' = pending /\ isr' = isr
  BY <1>1 DEF Serve, queue
<1>3. data \in [Bufs -> Data] /\ sectors \in [Sectors -> Bytes] /\ blockno \in Blocks
  BY DEF VirtioInv, TypeOK
<1>4. data' \in [Bufs -> Data] /\ sectors' \in [Sectors -> Bytes]
  <2>1. CASE Op.type = "OUT"
    <3>1. data' = data
          /\ sectors' = [s \in Sectors |-> IF s - Op.sector \in 0 .. SPB - 1
                                           THEN data[b][s - Op.sector + 1] ELSE sectors[s]]
      BY <1>1, <2>1 DEF Serve
    <3>2. ASSUME NEW s \in Sectors, s - Op.sector \in 0 .. SPB - 1
          PROVE  data[b][s - Op.sector + 1] \in Bytes
      <4>1. data[b] \in [1 .. SPB -> Bytes]
        BY <1>1, <1>3 DEF Data
      <4>2. PICK k : k = s - Op.sector
        OBVIOUS
      <4>3. k + 1 \in 1 .. SPB
        BY <3>2, <4>2, VirtioAssumption
      <4> QED BY <4>1, <4>2, <4>3
    <3> QED BY <1>3, <3>1, <3>2
  <2>2. CASE Op.type # "OUT"
    <3>1. sectors' = sectors
          /\ data' = [data EXCEPT ![b] = [k \in 1 .. SPB |-> sectors[Op.sector + k - 1]]]
      BY <1>1, <2>2 DEF Serve
    <3>2. [k \in 1 .. SPB |-> sectors[Op.sector + k - 1]] \in Data
      <4>1. Op.sector = SectorOf(blockno)
        BY <1>1
      <4>2. \A k \in 1 .. SPB : Op.sector + k - 1 \in Sectors
        BY <1>3, <4>1, BlockSectors
      <4> QED BY <1>3, <4>2 DEF Data
    <3> QED BY <1>1, <1>3, <3>1, <3>2
  <2> QED BY <2>1, <2>2
<1>5. info' \in [Descs -> [b : Bufs \cup {NoBuf}, status : {0, 1, 251}]]
      /\ info'[0].b = info[0].b
  BY <1>2, StatusType
<1>6. TypeOK'
  BY <1>2, <1>4, <1>5 DEF VirtioInv, TypeOK
<1>7. Taken'
  BY <1>1, <1>2 DEF Taken, InFlight
<1>8. DescsInv'
  BY <1>1, <1>2, <1>5 DEF VirtioInv, DescsInv, Formatted, Taken, InFlight
<1> QED BY <1>6, <1>7, <1>8 DEF VirtioInv, Stages

LEMMA ServeFailsKeeps ==
  ASSUME VirtioInv, ServeFails
  PROVE  VirtioInv'
<1>1. Taken /\ Status = 0
  BY ChainFound DEF ServeFails
<1>2. /\ info' = [info EXCEPT ![0].status = 1]
      /\ avail' = avail /\ desc' = desc /\ used' = used /\ used_idx' = used_idx /\ free' = free
      /\ ops' = ops /\ owned' = owned /\ pc' = pc /\ b' = b /\ blockno' = blockno
      /\ write' = write /\ idx' = idx /\ halted' = halted /\ intr' = intr /\ data' = data
      /\ sectors' = sectors /\ seen' = seen /\ busy' = busy /\ pending' = pending /\ isr' = isr
  BY <1>1 DEF ServeFails, queue, device
<1>3. info' \in [Descs -> [b : Bufs \cup {NoBuf}, status : {0, 1, 251}]]
      /\ info'[0].b = info[0].b
  BY <1>2, StatusType
<1>4. TypeOK'
  BY <1>2, <1>3 DEF VirtioInv, TypeOK
<1>5. Taken'
  BY <1>1, <1>2 DEF Taken, InFlight
<1>6. DescsInv'
  BY <1>1, <1>2, <1>3 DEF VirtioInv, DescsInv, Formatted, Taken, InFlight
<1> QED BY <1>4, <1>5, <1>6 DEF VirtioInv, Stages

LEMMA ReturnKeeps ==
  ASSUME VirtioInv, Return
  PROVE  VirtioInv'
<1>1. Taken /\ busy = 0 /\ info[0].status # 251
  BY ChainFound DEF Return, Taken
<1>2. /\ used' = [idx |-> (used.idx + 1) % WRAP, ring |-> [used.ring EXCEPT ![used.idx % NUM] = 0]]
      /\ busy' = Idle /\ pending' = TRUE
      /\ avail' = avail /\ desc' = desc /\ used_idx' = used_idx /\ free' = free /\ info' = info
      /\ ops' = ops /\ owned' = owned /\ pc' = pc /\ b' = b /\ blockno' = blockno
      /\ write' = write /\ idx' = idx /\ halted' = halted /\ intr' = intr /\ data' = data
      /\ sectors' = sectors /\ seen' = seen /\ isr' = isr
  BY <1>1 DEF Return, queue, driver
<1>3. used \in [idx : 0 .. WRAP - 1, ring : [Descs -> Descs]] /\ used_idx = used.idx
  BY <1>1 DEF VirtioInv, TypeOK, Taken
<1>4. used.idx % NUM \in Descs /\ (used.idx + 1) % WRAP \in 0 .. WRAP - 1 /\ 0 \in Descs
  BY <1>3, Entry, NextIndex, FirstThree
<1>5. used' \in [idx : 0 .. WRAP - 1, ring : [Descs -> Descs]]
      /\ used'.idx = (used_idx + 1) % WRAP /\ used'.ring[used_idx % NUM] = 0
  BY <1>2, <1>3, <1>4
<1>6. TypeOK'
  BY <1>2, <1>5 DEF VirtioInv, TypeOK
<1>7. Returned'
  BY <1>1, <1>2, <1>5 DEF Taken, Returned, InFlight
<1>8. DescsInv'
  BY <1>2 DEF VirtioInv, DescsInv, Formatted
<1> QED BY <1>6, <1>7, <1>8 DEF VirtioInv, Stages

LEMMA RaiseKeeps ==
  ASSUME VirtioInv, Raise
  PROVE  VirtioInv'
<1>1. /\ pending /\ ~halted /\ pending' = FALSE /\ isr' = TRUE
      /\ avail' = avail /\ desc' = desc /\ used' = used /\ used_idx' = used_idx /\ free' = free
      /\ info' = info /\ ops' = ops /\ owned' = owned /\ pc' = pc /\ b' = b /\ blockno' = blockno
      /\ write' = write /\ idx' = idx /\ data' = data /\ halted' = halted /\ intr' = intr
      /\ sectors' = sectors /\ seen' = seen /\ busy' = busy
  BY DEF Raise, queue, driver
<1>2. TypeOK'
  BY <1>1 DEF VirtioInv, TypeOK
<1>3. Returned
  BY <1>1, StageIs
<1>4. Returned'
  BY <1>1, <1>3 DEF Returned, InFlight
<1>5. DescsInv'
  BY <1>1 DEF VirtioInv, DescsInv, Formatted
<1> QED BY <1>2, <1>4, <1>5 DEF VirtioInv, Stages

LEMMA StutterKeeps ==
  ASSUME VirtioInv, UNCHANGED vars
  PROVE  VirtioInv'
<1>1. /\ avail' = avail /\ desc' = desc /\ used' = used /\ used_idx' = used_idx /\ free' = free
      /\ info' = info /\ ops' = ops /\ owned' = owned /\ pc' = pc /\ b' = b /\ blockno' = blockno
      /\ write' = write /\ idx' = idx /\ data' = data /\ halted' = halted /\ intr' = intr
      /\ sectors' = sectors /\ seen' = seen /\ busy' = busy /\ pending' = pending /\ isr' = isr
  BY DEF vars, queue, driver, device
<1>2. TypeOK'
  BY <1>1 DEF VirtioInv, TypeOK
<1>3. Stages'
  BY <1>1 DEF VirtioInv, Stages, Quiet, Published, Taken, Returned, Completed, InFlight
<1>4. DescsInv'
  BY <1>1 DEF VirtioInv, DescsInv, Formatted
<1> QED BY <1>2, <1>3, <1>4 DEF VirtioInv

LEMMA VirtioInductive == VirtioInv /\ [Next]_vars => VirtioInv'
<1> SUFFICES ASSUME VirtioInv, [Next]_vars PROVE VirtioInv'
  OBVIOUS
<1>1. CASE \E x \in Bufs, n \in Blocks, w \in BOOLEAN : Call(x, n, w)
  BY <1>1, CallKeeps
<1>2. CASE Driver
  BY <1>2, AllocKeeps, FormatKeeps, OfferKeeps, PublishKeeps, NotifyKeeps, FinishKeeps DEF Driver
<1>3. CASE Handler
  BY <1>3, InterruptKeeps, CompleteKeeps, InterruptDoneKeeps DEF Handler
<1>4. CASE Device
  BY <1>4, TakeKeeps, ServeKeeps, ServeFailsKeeps, ReturnKeeps, RaiseKeeps DEF Device
<1>5. CASE UNCHANGED vars
  BY <1>5, StutterKeeps
<1> QED BY <1>1, <1>2, <1>3, <1>4, <1>5 DEF Next

LEMMA VirtioInvariant == Spec => []VirtioInv
  BY InitVirtio, VirtioInductive, PTL DEF Spec

(***************************************************************************)
(* What the driver promises.                                               *)
(***************************************************************************)
\* The memory shared with the device and the driver's own tables keep their
\* types, for every number of descriptors.
THEOREM VirtioTypeCorrect == Spec => []TypeOK
<1>1. VirtioInv => TypeOK
  BY DEF VirtioInv
<1> QED BY <1>1, VirtioInvariant, PTL

\* alloc3_desc, the two rings and free_chain: the chain the device works on is
\* the driver's, is not free, and goes to the end without coming back; and
\* between requests all descriptors are free.
THEOREM DeviceHasTheChainHolds == Spec => []DeviceHasTheChain
<1>1. VirtioInv => DeviceHasTheChain
  <2> SUFFICES ASSUME VirtioInv PROVE DeviceHasTheChain
    OBVIOUS
  <2>1. pc \in {"idle", "alloc"} => free = Descs
    BY DEF VirtioInv, DescsInv
  <2>2. ASSUME NEW h \in Descs, busy = h \/ (seen # avail.idx /\ avail.ring[seen % NUM] = h)
        PROVE  /\ Len(ChainFrom(h)) = 3 /\ Freed(h) \cap free = {} /\ Cardinality(Freed(h)) = 3
               /\ info[h].b \in Bufs /\ owned[info[h].b] /\ desc[desc[h].next].addr = info[h].b
    <3>1. h # Idle
      BY VirtioAssumption DEF Descs, Idle
    <3>2. h = 0 /\ InFlight /\ owned[b]
      BY <2>2, <3>1 DEF VirtioInv, Stages, Quiet, Published, Taken, Returned, Completed
    <3>3. Formatted /\ b \in Bufs /\ free = Descs \ {0, 1, 2}
      BY <3>2, StageIs
    <3>4. ChainFrom(0) = <<0, 1, 2>> /\ Freed(0) = {0, 1, 2}
      BY <3>3, ChainOfThree DEF Formatted
    <3>5. Cardinality({0, 1, 2}) = 3
      <4>1. IsFiniteSet({0}) /\ Cardinality({0}) = 1
        BY FS_Singleton
      <4>2. IsFiniteSet({0, 1}) /\ Cardinality({0, 1}) = 2
        <5>1. {0, 1} = {0} \cup {1} /\ 1 \notin {0}
          OBVIOUS
        <5> QED BY <4>1, <5>1, FS_AddElement
      <4>3. {0, 1, 2} = {0, 1} \cup {2} /\ 2 \notin {0, 1}
        OBVIOUS
      <4> QED BY <4>2, <4>3, FS_AddElement
    <3> QED BY <3>2, <3>3, <3>4, <3>5 DEF Formatted
  <2> QED BY <2>1, <2>2 DEF DeviceHasTheChain
<1> QED BY <1>1, VirtioInvariant, PTL

(***************************************************************************)
(* The driver and the device implement BlockDevice.                        *)
(***************************************************************************)
\* A step that BlockDevice does not see.
LEMMA Unseen ==
  ASSUME sectors' = sectors, data' = data, b' = b, blockno' = blockno, write' = write,
         Progress' = Progress
  PROVE  UNCHANGED BD!vars
<1>1. DiskBlocks' = DiskBlocks
  BY DEF DiskBlocks
<1>2. Request' = Request
  BY DEF Request
<1> QED BY <1>1, <1>2 DEF BD!vars

\* The blocks of the disk.
LEMMA DiskIs ==
  ASSUME VirtioInv
  PROVE  /\ DiskBlocks \in [Blocks -> Data]
         /\ \A n \in Blocks : DiskBlocks[n] = [k \in 1 .. SPB |-> sectors[SectorOf(n) + k - 1]]
<1>1. sectors \in [Sectors -> Bytes]
  BY DEF VirtioInv, TypeOK
<1>2. ASSUME NEW n \in Blocks PROVE [k \in 1 .. SPB |-> sectors[SectorOf(n) + k - 1]] \in Data
  BY <1>1, <1>2, BlockSectors DEF Data
<1> QED BY <1>2 DEF DiskBlocks

\* A request that is under way in the machine is called or served.
ProgressOK ==
    /\ halted => Progress = "failed"
    /\ ~halted /\ pc = "idle" => Progress = "idle"
    /\ ~halted /\ InFlight /\ info[0].status = 0 => Progress = "served"
    /\ ~halted /\ InFlight /\ info[0].status # 0 => Progress = "called"
    /\ ~halted /\ pc # "idle" /\ ~InFlight => Progress = "called"

LEMMA ProgressIs == VirtioInv => ProgressOK
<1> SUFFICES ASSUME VirtioInv PROVE ProgressOK
  OBVIOUS
<1>1. InFlight => idx[1] = 0 /\ pc # "idle"
  BY StageIs DEF InFlight
<1>2. halted => InFlight /\ info[0].status = 1
  BY DEF VirtioInv, Stages, Quiet, Published, Taken, Returned, Completed
<1>3. CASE halted
  <2>1. pc # "idle" /\ idx[1] = 0 /\ info[0].status = 1
    BY <1>1, <1>2, <1>3
  <2>2. Progress = "failed"
    BY <1>3, <2>1 DEF Progress
  <2> QED BY <1>3, <2>2 DEF ProgressOK
<1>4. CASE ~halted
  <2>1. pc = "idle" => Progress = "idle"
    BY <1>4 DEF Progress
  <2>2. InFlight /\ info[0].status = 0 => Progress = "served"
    BY <1>1, <1>4 DEF Progress, InFlight
  <2>3. InFlight /\ info[0].status # 0 => Progress = "called"
    BY <1>1, <1>4 DEF Progress, InFlight
  <2>4. pc # "idle" /\ ~InFlight => Progress = "called"
    BY <1>4 DEF Progress, InFlight
  <2> QED BY <1>4, <2>1, <2>2, <2>3, <2>4 DEF ProgressOK
<1> QED BY <1>3, <1>4

LEMMA ProgressNext == VirtioInv' => ProgressOK'
  BY ProgressIs, PTL

LEMMA InitDevice == Init => BD!Init
<1> SUFFICES ASSUME Init PROVE BD!Init
  OBVIOUS
<1>1. DiskBlocks \in [Blocks -> Data]
  BY InitVirtio, DiskIs
<1>2. data \in [Bufs -> Data] /\ Request = [buf |-> NoBuf, block |-> 0, write |-> FALSE]
  BY DEF Init, Request
<1>3. Progress = "idle"
  BY InitVirtio, ProgressIs DEF Init, ProgressOK
<1> QED BY <1>1, <1>2, <1>3 DEF BD!Init

LEMMA CallIsCall ==
  ASSUME VirtioInv, NEW x \in Bufs, NEW n \in Blocks, NEW w \in BOOLEAN, Call(x, n, w)
  PROVE  BD!Call
<1>1. /\ pc = "idle" /\ pc' = "alloc" /\ b' = x /\ blockno' = n /\ write' = w
      /\ sectors' = sectors /\ halted' = halted /\ ~halted
  BY DEF Call, device
<1>2. Progress = "idle" /\ Progress' = "called"
  BY <1>1, CallKeeps, ProgressIs, ProgressNext DEF InFlight, ProgressOK
<1>3. Request' = [buf |-> x, block |-> n, write |-> w]
  BY <1>1 DEF Request
<1>4. \E d \in Data : data' = [data EXCEPT ![x] = d]
  <2>1. CASE w
    BY <2>1 DEF Call
  <2>2. CASE ~ w
    <3>1. data' = data /\ data \in [Bufs -> Data]
      BY <2>2 DEF Call, VirtioInv, TypeOK
    <3>2. data[x] \in Data /\ data' = [data EXCEPT ![x] = data[x]]
      BY <3>1
    <3> QED BY <3>2
  <2> QED BY <2>1, <2>2
<1>5. DiskBlocks' = DiskBlocks
  BY <1>1 DEF DiskBlocks
<1> QED BY <1>2, <1>3, <1>4, <1>5 DEF BD!Call

\* The device writes the block that was asked for, or reads it into the buffer.
LEMMA ServeIsServe ==
  ASSUME VirtioInv, Serve
  PROVE  BD!Serve
<1>1. /\ Taken /\ Second = 1 /\ Target = b /\ Status = 0 /\ b \in Bufs
      /\ Op = [type |-> IF write THEN "OUT" ELSE "IN", sector |-> SectorOf(blockno)]
  BY ChainFound DEF Serve
<1>2. /\ info[0].status = 251 /\ info' = [info EXCEPT ![0].status = 0] /\ ~halted
      /\ pc' = pc /\ b' = b /\ blockno' = blockno /\ write' = write /\ halted' = halted
  BY <1>1 DEF Serve
<1>3. Progress = "called" /\ Progress' = "served"
  <2>1. info'[0].status = 0
    BY <1>2, StatusType
  <2>2. InFlight /\ InFlight'
    BY <1>1, <1>2 DEF Taken, InFlight
  <2> QED BY <1>2, <2>1, <2>2, ServeKeeps, ProgressIs, ProgressNext DEF ProgressOK
<1>4. Request' = Request /\ Request.write = write /\ Request.block = blockno /\ Request.buf = b
  BY <1>2 DEF Request
<1>5. data \in [Bufs -> Data] /\ sectors \in [Sectors -> Bytes] /\ blockno \in Blocks
  BY DEF VirtioInv, TypeOK
<1>6. CASE write
  <2>1. data' = data
        /\ sectors' = [s \in Sectors |-> IF s - SectorOf(blockno) \in 0 .. SPB - 1
                                         THEN data[b][s - SectorOf(blockno) + 1] ELSE sectors[s]]
    BY <1>1, <1>6 DEF Serve
  <2>2. ASSUME NEW n \in Blocks, NEW k \in 1 .. SPB
        PROVE  sectors'[SectorOf(n) + k - 1]
                 = IF n = blockno THEN data[b][k] ELSE sectors[SectorOf(n) + k - 1]
    <3>1. SectorOf(n) + k - 1 \in Sectors
      BY BlockSectors
    <3>2. PICK s \in Sectors : s = SectorOf(n) + k - 1
      BY <3>1
    <3>3. sectors'[s] = IF s - SectorOf(blockno) \in 0 .. SPB - 1
                        THEN data[b][s - SectorOf(blockno) + 1] ELSE sectors[s]
      BY <2>1
    <3>4. s - SectorOf(blockno) \in 0 .. SPB - 1 <=> n = blockno
      BY <1>5, <3>2, OneBlock
    <3>5. n = blockno => s - SectorOf(blockno) + 1 = k
      BY <1>5, <3>2, OneBlock
    <3> QED BY <3>2, <3>3, <3>4, <3>5
  <2>3. DiskBlocks' = [DiskBlocks EXCEPT ![blockno] = data[b]]
    <3>1. PICK nd : nd = DiskBlocks'
      OBVIOUS
    <3>2. nd = [n \in Blocks |-> [k \in 1 .. SPB |-> sectors'[SectorOf(n) + k - 1]]]
      BY <3>1 DEF DiskBlocks, SectorOf
    <3>3. \A n \in Blocks : nd[n] = IF n = blockno THEN data[b] ELSE DiskBlocks[n]
      <4> SUFFICES ASSUME NEW n \in Blocks
                   PROVE  nd[n] = IF n = blockno THEN data[b] ELSE DiskBlocks[n]
        OBVIOUS
      <4>1. nd[n] = [k \in 1 .. SPB |-> sectors'[SectorOf(n) + k - 1]]
        BY <3>2
      <4>2. CASE n = blockno
        <5>1. data[b] = [k \in 1 .. SPB |-> data[b][k]]
          BY <1>1, <1>5 DEF Data
        <5>2. [k \in 1 .. SPB |-> sectors'[SectorOf(n) + k - 1]] = [k \in 1 .. SPB |-> data[b][k]]
          BY <2>2, <4>2
        <5> QED BY <4>1, <4>2, <5>1, <5>2
      <4>3. CASE n # blockno
        <5>1. DiskBlocks[n] = [k \in 1 .. SPB |-> sectors[SectorOf(n) + k - 1]]
          BY DiskIs
        <5>2. [k \in 1 .. SPB |-> sectors'[SectorOf(n) + k - 1]]
                = [k \in 1 .. SPB |-> sectors[SectorOf(n) + k - 1]]
          BY <2>2, <4>3
        <5> QED BY <4>1, <4>3, <5>1, <5>2
      <4> QED BY <4>2, <4>3
    <3>4. DiskBlocks \in [Blocks -> Data] /\ data[b] \in Data
      BY <1>1, <1>5, DiskIs
    <3>5. nd = [n \in Blocks |-> nd[n]]
      BY <3>2
    <3>6. nd = [DiskBlocks EXCEPT ![blockno] = data[b]]
      BY <1>5, <3>3, <3>4, <3>5
    <3> QED BY <3>1, <3>6
  <2> QED BY <1>3, <1>4, <1>6, <2>1, <2>3 DEF BD!Serve
<1>7. CASE ~ write
  <2>1. sectors' = sectors
        /\ data' = [data EXCEPT ![b] = [k \in 1 .. SPB |-> sectors[SectorOf(blockno) + k - 1]]]
    BY <1>1, <1>7 DEF Serve
  <2>2. DiskBlocks' = DiskBlocks
    BY <2>1 DEF DiskBlocks
  <2>3. data' = [data EXCEPT ![b] = DiskBlocks[blockno]]
    BY <1>5, <2>1, DiskIs
  <2> QED BY <1>3, <1>4, <1>7, <2>2, <2>3 DEF BD!Serve
<1> QED BY <1>6, <1>7

\* b->disk is clear only when the status byte says that the request was served.
LEMMA FinishIsReturn ==
  ASSUME VirtioInv, Finish
  PROVE  BD!Return
<1>1. pc = "wait" /\ ~ owned[b] /\ ~halted /\ pc' = "idle" /\ halted' = halted
      /\ sectors' = sectors /\ data' = data /\ b' = b /\ blockno' = blockno /\ write' = write
  BY DEF Finish, device
<1>2. info[0].status = 0
  BY <1>1 DEF VirtioInv, Stages, Quiet, Published, Taken, Returned, Completed, InFlight
<1>3. Progress = "served" /\ Progress' = "idle"
  BY <1>1, <1>2, FinishKeeps, ProgressIs, ProgressNext DEF InFlight, ProgressOK
<1>4. DiskBlocks' = DiskBlocks /\ Request' = Request
  BY <1>1 DEF DiskBlocks, Request
<1> QED BY <1>1, <1>3, <1>4 DEF BD!Return

\* The handler panics on a bad status, or leaves the request as it is.
LEMMA CompleteIsFail ==
  ASSUME VirtioInv, Complete
  PROVE  BD!Fail \/ UNCHANGED BD!vars
<1>1. /\ intr /\ ~halted /\ info' = info /\ pc' = pc /\ idx' = idx
      /\ sectors' = sectors /\ data' = data /\ b' = b /\ blockno' = blockno /\ write' = write
  BY DEF Complete, device
<1>2. Returned /\ pc = "wait"
  BY <1>1, StageIs DEF Complete, More, Completed
<1>3. used.ring[used_idx % NUM] = 0
  BY <1>2 DEF Returned
<1>4. CASE info[0].status = 0
  <2>1. halted' = halted
    BY <1>3, <1>4 DEF Complete, GoodStatus
  <2>2. Progress' = Progress
    BY <1>1, <2>1 DEF Progress
  <2> QED BY <1>1, <2>2, Unseen
<1>5. CASE info[0].status # 0
  <2>1. halted' = TRUE
    BY <1>3, <1>5 DEF Complete, GoodStatus
  <2>2. Progress = "called" /\ Progress' = "failed"
    BY <1>1, <1>2, <1>5, <2>1, CompleteKeeps, ProgressIs, ProgressNext DEF InFlight, ProgressOK
  <2>3. DiskBlocks' = DiskBlocks /\ Request' = Request
    BY <1>1 DEF DiskBlocks, Request
  <2> QED BY <1>1, <2>2, <2>3 DEF BD!Fail
<1> QED BY <1>4, <1>5

\* Every other step is invisible: the driver before the device can see the
\* request, the rings, the interrupt.
LEMMA DriverUnseen ==
  ASSUME VirtioInv, Alloc \/ Format \/ Offer \/ Publish \/ Notify
  PROVE  UNCHANGED BD!vars
<1>1. /\ sectors' = sectors /\ data' = data /\ b' = b /\ blockno' = blockno /\ write' = write
      /\ halted' = halted
  BY DEF Alloc, Format, Offer, Publish, Notify, device
<1>2. VirtioInv'
  BY AllocKeeps, FormatKeeps, OfferKeeps, PublishKeeps, NotifyKeeps
<1>3. CASE Alloc \/ Format \/ Offer
  <2>1. pc # "idle" /\ ~InFlight /\ pc' # "idle" /\ ~InFlight'
    BY <1>3 DEF Alloc, Format, Offer, InFlight
  <2>2. ~halted
    BY <2>1, StageIs DEF Quiet
  <2> QED BY <1>1, <1>2, <2>1, <2>2, ProgressIs, ProgressNext, Unseen DEF ProgressOK
<1>4. CASE Publish
  <2>1. pc = "publish" /\ pc' = "notify" /\ info' = info
    BY <1>4 DEF Publish
  <2>2. ~halted /\ info[0].status = 251
    BY <2>1, StageIs DEF Quiet, InFlight, VirtioInv, DescsInv
  <2>3. Progress = "called" /\ Progress' = "called"
    BY <1>1, <1>2, <2>1, <2>2, ProgressIs, ProgressNext DEF InFlight, ProgressOK
  <2> QED BY <1>1, <2>3, Unseen
<1>5. CASE Notify
  <2>1. pc = "notify" /\ pc' = "wait" /\ info' = info /\ idx' = idx
    BY <1>5 DEF Notify
  <2>2. Progress' = Progress
    BY <1>1, <2>1 DEF Progress
  <2> QED BY <1>1, <2>2, Unseen
<1> QED BY <1>3, <1>4, <1>5

LEMMA RingsUnseen ==
  ASSUME Interrupt \/ InterruptDone \/ Take \/ Return \/ Raise \/ UNCHANGED vars
  PROVE  UNCHANGED BD!vars
<1>1. /\ sectors' = sectors /\ data' = data /\ b' = b /\ blockno' = blockno /\ write' = write
      /\ halted' = halted /\ pc' = pc /\ info' = info /\ idx' = idx
  BY DEF Interrupt, InterruptDone, Take, Return, Raise, vars, driver, device
<1>2. Progress' = Progress
  BY <1>1 DEF Progress
<1> QED BY <1>1, <1>2, Unseen

LEMMA ServeFailsUnseen ==
  ASSUME VirtioInv, ServeFails
  PROVE  UNCHANGED BD!vars
<1>1. Taken /\ Status = 0
  BY ChainFound DEF ServeFails
<1>2. /\ info[0].status = 251 /\ info' = [info EXCEPT ![0].status = 1] /\ ~halted
      /\ pc' = pc /\ b' = b /\ blockno' = blockno /\ write' = write /\ halted' = halted
      /\ sectors' = sectors /\ data' = data
  BY <1>1 DEF ServeFails, device
<1>3. info'[0].status = 1
  BY <1>2, StatusType
<1>4. InFlight /\ InFlight'
  BY <1>1, <1>2 DEF Taken, InFlight
<1>5. Progress = "called" /\ Progress' = "called"
  BY <1>2, <1>3, <1>4, ServeFailsKeeps, ProgressIs, ProgressNext DEF ProgressOK
<1> QED BY <1>2, <1>5, Unseen

LEMMA StepOfDevice == VirtioInv /\ [Next]_vars => [BD!Next]_(BD!vars)
<1> SUFFICES ASSUME VirtioInv, [Next]_vars PROVE BD!Next \/ UNCHANGED BD!vars
  OBVIOUS
<1>1. CASE \E x \in Bufs, n \in Blocks, w \in BOOLEAN : Call(x, n, w)
  BY <1>1, CallIsCall DEF BD!Next
<1>2. CASE Driver
  BY <1>2, DriverUnseen, FinishIsReturn DEF Driver, BD!Next
<1>3. CASE Handler
  BY <1>3, RingsUnseen, CompleteIsFail DEF Handler, BD!Next
<1>4. CASE Device
  BY <1>4, RingsUnseen, ServeIsServe, ServeFailsUnseen DEF Device, BD!Next
<1>5. CASE UNCHANGED vars
  BY <1>5, RingsUnseen
<1> QED BY <1>1, <1>2, <1>3, <1>4, <1>5 DEF Next

\* virtio_disk_rw: to its callers, the driver, the interrupt handler and the
\* device are a disk that serves one request between call and return, once, on
\* the block and the buffer asked for; whatever the device does in between.
THEOREM IsBlockDeviceHolds == Spec => IsBlockDevice
<1>1. Spec => BD!Init /\ [][BD!Next]_(BD!vars)
  BY VirtioInvariant, InitDevice, StepOfDevice, PTL DEF Spec
<1> QED BY <1>1 DEF IsBlockDevice, BD!Spec
=============================================================================
