--------------------------- MODULE FileSysProofs ---------------------------
(***************************************************************************)
(* For any disk, any files and any programs: no block has two owners, an   *)
(* open file keeps its inode in the table, and the kernel panics in a call *)
(* of the file system only when something runs out, also when the machine  *)
(* stops between any two writes to the disk and is started again.          *)
(*                                                                         *)
(* The invariant is Inv, of FileSysInv.  The module goes up the layers of  *)
(* fs.c as the model does: for each function there is a lemma ...Is or     *)
(* ...Fields of what it does to the fields of a state, and a lemma ...Good *)
(* that it keeps the invariant, or exactly which part it gives up in       *)
(* between.  Does(s, t, x, cut) is what the functions of the directory     *)
(* share.  The loops of readi, writei, the directory and itrunc are        *)
(* functions of the turn; a lemma ...Turns says what the turns are, and    *)
(* the invariant of the loop follows by induction over the turns.  Then    *)
(* comes mkfs: the image it builds satisfies Formed after each unit it     *)
(* writes.  The open files, the calls and the theorems are last.           *)
(***************************************************************************)
EXTENDS FileSysInv, WellFoundedInduction, TLAPS

\* The least number of a set.
LEMMA LeastOf ==
  ASSUME NEW S \in SUBSET Nat, S # {}
  PROVE  \E x \in S : \A y \in S : x <= y
<1> DEFINE R == OpToRel(<, Nat)
<1>1. PICK x \in S : \A y \in S : ~(<<y, x>> \in R)  BY WFMin, NatLessThanWellFounded
<1>2. ASSUME NEW y \in S PROVE x <= y
  <2>1. y < x => <<y, x>> \in R  BY DEF OpToRel
  <2> HIDE DEF R
  <2> QED BY <1>1, <2>1
<1> QED BY <1>2

\* Induction on the numbers of a set.
LEMMA NatsOf ==
  ASSUME NEW S, 0 \in S, \A n \in Nat : n \in S => n + 1 \in S
  PROVE  Nat \subseteq S
<1> SUFFICES ASSUME NEW m \in Nat, m \notin S PROVE FALSE  OBVIOUS
<1> DEFINE T == {n \in Nat : n \notin S}
<1>1. T \in SUBSET Nat /\ T # {}  OBVIOUS
<1>2. PICK x \in T : \A y \in T : x <= y
  <2> HIDE DEF T
  <2> QED BY <1>1, LeastOf
<1>3. x \in Nat /\ x # 0 /\ x \notin S  OBVIOUS
<1>4. x - 1 \in Nat /\ x - 1 \in S  BY <1>2, <1>3
<1>5. (x - 1) + 1 \in S  BY <1>4
<1> QED BY <1>3, <1>5

\* The constants, as numbers.
LEMMA Sizes ==
  /\ NMETA \in Nat /\ NMETA > 0 /\ FSSIZE \in Nat /\ FSSIZE > NMETA
  /\ BSIZE \in Nat /\ BSIZE > 0 /\ NDIRECT \in Nat /\ NINODES \in Nat /\ NINODES > 1
  /\ NINODE \in Nat /\ NINODE > 0 /\ MAXFILE \in Nat /\ MAXFILE = NDIRECT + BSIZE
  /\ MAXFILE * BSIZE \in Nat /\ 0 \in Blocks /\ 1 \in Slots /\ ROOTINO \in Inums
  BY InodesAssumption DEF MAXFILE, NINDIRECT, Blocks, Slots, ROOTINO, Inums

LEMMA Empties ==
  /\ Zero \in UnitType /\ ZeroBlock \in Contents
  /\ NoAddrs \in [0 .. NDIRECT -> Blocks] /\ FreeInode \in InodeType /\ FreeSlot \in SlotType
<1>1. Zero \in UnitType
  <2>1. <<>> \in Seq(Nat)  OBVIOUS
  <2> QED BY <2>1 DEF Zero, Unit, UnitType
<1>2. ZeroBlock \in Contents  BY <1>1 DEF ZeroBlock, Contents
<1>3. NoAddrs \in [0 .. NDIRECT -> Blocks]  BY Sizes DEF NoAddrs
<1>4. FreeInode \in InodeType
  <2>1. 0 \in 0 .. MAXFILE * BSIZE
    <3> DEFINE m == MAXFILE * BSIZE
    <3>1. m \in Nat  BY Sizes
    <3> HIDE DEF m
    <3>2. 0 \in 0 .. m  BY <3>1
    <3> QED BY <3>2 DEF m
  <2> QED BY <1>3, <2>1 DEF FreeInode, InodeType
<1> QED BY <1>1, <1>2, <1>3, <1>4 DEF FreeSlot, SlotType

----
(* What each write to a field leaves of a state. *)
LEMMA OnDiskTyped ==
  ASSUME NEW s, Typed(s)
  PROVE  OnDisk(s) \in ImageType
  BY DEF Typed, OnDisk

\* The images in the log.
LEMMA OneMoreImage ==
  ASSUME NEW s, Typed(s), NEW image \in ImageType
  PROVE  Range(Append(s.log, image)) = Range(s.log) \cup {image}
<1>1. s.log \in Seq(ImageType) /\ Len(s.log) \in Nat  BY DEF Typed
<1> DEFINE l == Append(s.log, image)
           n == Len(s.log)
<1>2. DOMAIN l = 1 .. n + 1 /\ DOMAIN s.log = 1 .. n  BY <1>1
<1>3. l[n + 1] = image /\ \A m \in 1 .. n : l[m] = s.log[m]  BY <1>1
<1> HIDE DEF l, n
<1>4. n \in Nat  BY <1>1 DEF n
<1> SUFFICES Range(l) = Range(s.log) \cup {image}  BY DEF l
<1>5. ASSUME NEW x \in Range(l) PROVE x \in Range(s.log) \cup {image}
  <2>1. PICK m \in 1 .. n + 1 : x = l[m]  BY <1>2 DEF Range
  <2>2. CASE m = n + 1  BY <1>3, <2>1, <2>2
  <2>3. CASE m # n + 1
    <3>1. m \in 1 .. n  BY <1>4, <2>3
    <3> QED BY <1>2, <1>3, <2>1, <3>1 DEF Range
  <2> QED BY <2>2, <2>3
<1>6. ASSUME NEW x \in Range(s.log) PROVE x \in Range(l)
  <2>1. PICK m \in 1 .. n : x = s.log[m]  BY <1>2 DEF Range
  <2>2. m \in 1 .. n + 1 /\ l[m] = x  BY <1>3, <1>4, <2>1
  <2> QED BY <1>2, <2>2 DEF Range
<1>7. image \in Range(l)
  <2>1. n + 1 \in 1 .. n + 1  BY <1>4
  <2> QED BY <1>2, <1>3, <2>1 DEF Range
<1> QED BY <1>5, <1>6, <1>7

LEMMA LastImage ==
  ASSUME NEW s, Typed(s)
  PROVE  OnDisk(s) \in Range(s.log) /\ Range(s.log) \subseteq ImageType
<1>1. s.log \in Seq(ImageType) /\ Len(s.log) \in Nat /\ Len(s.log) > 0  BY DEF Typed
<1>2. DOMAIN s.log = 1 .. Len(s.log) /\ Len(s.log) \in 1 .. Len(s.log)  BY <1>1
<1>3. \A m \in 1 .. Len(s.log) : s.log[m] \in ImageType  BY <1>1
<1> QED BY <1>2, <1>3 DEF Range, OnDisk

LEMMA PanicFields ==
  ASSUME NEW s, Typed(s), NEW msg, NEW t, t = Panic(s, msg)
  PROVE  /\ Typed(t) /\ t.bmap = s.bmap /\ t.din = s.din /\ t.blk = s.blk /\ t.log = s.log
         /\ t.it = s.it /\ t.ret = s.ret /\ t.why = IF s.why = "no" THEN msg ELSE s.why
  BY DEF Typed, Panic

LEMMA RetFields ==
  ASSUME NEW s, Typed(s), NEW x, NEW t, t = Ret(s, x)
  PROVE  /\ Typed(t) /\ t.bmap = s.bmap /\ t.din = s.din /\ t.blk = s.blk /\ t.log = s.log
         /\ t.it = s.it /\ t.ret = x /\ t.why = s.why
  BY DEF Typed, Ret

LEMMA BwriteFields ==
  ASSUME NEW s, Typed(s), NEW image \in ImageType, NEW t, t = Bwrite(s, image)
  PROVE  /\ Typed(t) /\ t.bmap = s.bmap /\ t.din = s.din /\ t.blk = s.blk
         /\ t.it = s.it /\ t.ret = s.ret /\ t.why = s.why
         /\ t.log = IF s.why = "no" THEN Append(s.log, image) ELSE s.log
<1>1. Append(s.log, image) \in Seq(ImageType) /\ Len(Append(s.log, image)) = Len(s.log) + 1
      /\ Len(s.log) \in Nat  BY DEF Typed
<1>2. Len(Append(s.log, image)) > 0  BY <1>1 DEF Typed
<1> QED BY <1>1, <1>2 DEF Typed, Bwrite

\* The image that a write adds.
LEMMA Written ==
  ASSUME NEW s, Typed(s), NEW image \in ImageType, NEW t, t = Bwrite(s, image), s.why = "no"
  PROVE  OnDisk(t) = image
<1>1. t.log = Append(s.log, image)  BY BwriteFields
<1> QED BY <1>1 DEF OnDisk, Typed

----
(* What each operator of the block and inode layers does to the fields. *)
\* The three writes.
LEMMA WriteMapFields ==
  ASSUME NEW s, Typed(s), NEW t, t = BwriteMap(s)
  PROVE  /\ Typed(t) /\ t.bmap = s.bmap /\ t.din = s.din /\ t.blk = s.blk
         /\ t.it = s.it /\ t.ret = s.ret /\ t.why = s.why
         /\ s.why # "no" => t.log = s.log
         /\ s.why = "no" => /\ Range(t.log) = Range(s.log) \cup {OnDisk(t)}
                            /\ OnDisk(t) = [OnDisk(s) EXCEPT !.bmap = s.bmap]
                            /\ OnDisk(t) \in ImageType
<1> DEFINE w == OnDisk(s)
           image == [w EXCEPT !.bmap = s.bmap]
<1>1. image \in ImageType
  <2>1. w \in ImageType /\ s.bmap \in [Blocks -> BOOLEAN]  BY OnDiskTyped DEF Typed
  <2> HIDE DEF w
  <2> QED BY <2>1 DEF ImageType
<1>2. t = Bwrite(s, image)  BY DEF BwriteMap
<1> HIDE DEF image
<1>3. s.why = "no" => OnDisk(t) = image  BY <1>1, <1>2, Written
<1>4. /\ Typed(t) /\ t.bmap = s.bmap /\ t.din = s.din /\ t.blk = s.blk
      /\ t.it = s.it /\ t.ret = s.ret /\ t.why = s.why
      /\ t.log = IF s.why = "no" THEN Append(s.log, image) ELSE s.log  BY <1>1, <1>2, BwriteFields
<1>5. s.why = "no" => Range(t.log) = Range(s.log) \cup {OnDisk(t)} /\ OnDisk(t) \in ImageType
  BY <1>1, <1>3, <1>4, OneMoreImage
<1> QED BY <1>3, <1>4, <1>5 DEF image

LEMMA WriteInodeFields ==
  ASSUME NEW s, Typed(s), NEW i, NEW t, t = BwriteInode(s, i)
  PROVE  /\ Typed(t) /\ t.bmap = s.bmap /\ t.din = s.din /\ t.blk = s.blk
         /\ t.it = s.it /\ t.ret = s.ret /\ t.why = s.why
         /\ s.why # "no" => t.log = s.log
         /\ s.why = "no" => /\ Range(t.log) = Range(s.log) \cup {OnDisk(t)}
                            /\ OnDisk(t) = [OnDisk(s) EXCEPT !.din[i] = s.din[i]]
                            /\ OnDisk(t) \in ImageType
<1> DEFINE w == OnDisk(s)
           image == [w EXCEPT !.din[i] = s.din[i]]
<1>1. image \in ImageType
  <2>1. w \in ImageType /\ s.din \in [Inums -> InodeType]  BY OnDiskTyped DEF Typed
  <2> HIDE DEF w
  <2> QED BY <2>1 DEF ImageType
<1>2. t = Bwrite(s, image)  BY DEF BwriteInode
<1> HIDE DEF image
<1>3. s.why = "no" => OnDisk(t) = image  BY <1>1, <1>2, Written
<1>4. /\ Typed(t) /\ t.bmap = s.bmap /\ t.din = s.din /\ t.blk = s.blk
      /\ t.it = s.it /\ t.ret = s.ret /\ t.why = s.why
      /\ t.log = IF s.why = "no" THEN Append(s.log, image) ELSE s.log  BY <1>1, <1>2, BwriteFields
<1>5. s.why = "no" => Range(t.log) = Range(s.log) \cup {OnDisk(t)} /\ OnDisk(t) \in ImageType
  BY <1>1, <1>3, <1>4, OneMoreImage
<1> QED BY <1>3, <1>4, <1>5 DEF image

LEMMA WriteBlockFields ==
  ASSUME NEW s, Typed(s), NEW b, NEW t, t = BwriteBlock(s, b)
  PROVE  /\ Typed(t) /\ t.bmap = s.bmap /\ t.din = s.din /\ t.blk = s.blk
         /\ t.it = s.it /\ t.ret = s.ret /\ t.why = s.why
         /\ s.why # "no" => t.log = s.log
         /\ s.why = "no" => /\ Range(t.log) = Range(s.log) \cup {OnDisk(t)}
                            /\ OnDisk(t) = [OnDisk(s) EXCEPT !.blk[b] = s.blk[b]]
                            /\ OnDisk(t) \in ImageType
<1> DEFINE w == OnDisk(s)
           image == [w EXCEPT !.blk[b] = s.blk[b]]
<1>1. image \in ImageType
  <2>1. w \in ImageType /\ s.blk \in [Blocks -> Contents]  BY OnDiskTyped DEF Typed
  <2> HIDE DEF w
  <2> QED BY <2>1 DEF ImageType
<1>2. t = Bwrite(s, image)  BY DEF BwriteBlock
<1> HIDE DEF image
<1>3. s.why = "no" => OnDisk(t) = image  BY <1>1, <1>2, Written
<1>4. /\ Typed(t) /\ t.bmap = s.bmap /\ t.din = s.din /\ t.blk = s.blk
      /\ t.it = s.it /\ t.ret = s.ret /\ t.why = s.why
      /\ t.log = IF s.why = "no" THEN Append(s.log, image) ELSE s.log  BY <1>1, <1>2, BwriteFields
<1>5. s.why = "no" => Range(t.log) = Range(s.log) \cup {OnDisk(t)} /\ OnDisk(t) \in ImageType
  BY <1>1, <1>3, <1>4, OneMoreImage
<1> QED BY <1>3, <1>4, <1>5 DEF image

\* A state with other blocks, or another bitmap.
LEMMA BlkFields ==
  ASSUME NEW s, Typed(s), NEW x \in [Blocks -> Contents], NEW t, t = [s EXCEPT !.blk = x]
  PROVE  /\ Typed(t) /\ t.bmap = s.bmap /\ t.din = s.din /\ t.blk = x
         /\ t.it = s.it /\ t.ret = s.ret /\ t.why = s.why /\ t.log = s.log
  BY DEF Typed

LEMMA MapFields ==
  ASSUME NEW s, Typed(s), NEW x \in [Blocks -> BOOLEAN], NEW t, t = [s EXCEPT !.bmap = x]
  PROVE  /\ Typed(t) /\ t.bmap = x /\ t.din = s.din /\ t.blk = s.blk
         /\ t.it = s.it /\ t.ret = s.ret /\ t.why = s.why /\ t.log = s.log
  BY DEF Typed

LEMMA DinFields ==
  ASSUME NEW s, Typed(s), NEW x \in [Inums -> InodeType], NEW t, t = [s EXCEPT !.din = x]
  PROVE  /\ Typed(t) /\ t.bmap = s.bmap /\ t.din = x /\ t.blk = s.blk
         /\ t.it = s.it /\ t.ret = s.ret /\ t.why = s.why /\ t.log = s.log
  BY DEF Typed

LEMMA TableFields ==
  ASSUME NEW s, Typed(s), NEW x \in [Slots -> SlotType], NEW t, t = [s EXCEPT !.it = x]
  PROVE  /\ Typed(t) /\ t.bmap = s.bmap /\ t.din = s.din /\ t.blk = s.blk
         /\ t.it = x /\ t.ret = s.ret /\ t.why = s.why /\ t.log = s.log
  BY DEF Typed

LEMMA OutOfBlocksIsPanic == OutOfBlocks # "no"
  BY DEF OutOfBlocks

LEMMA RoomIsPanic ==
  /\ "no" \notin Room /\ OutOfBlocks \in Room /\ OutOfInodes \in Room /\ OutOfSlots \in Room
  /\ OutOfDirectory \in Room
  BY DEF Room, OutOfBlocks, OutOfInodes, OutOfSlots, OutOfDirectory

LEMMA GoesTwice ==
  ASSUME NEW s, NEW t, NEW u, NEW cut, Goes(s, t, cut), Goes(t, u, cut)
  PROVE  Goes(s, u, cut) /\ (u.why = "no" => s.why = "no" /\ t.why = "no")
  BY RoomIsPanic DEF Goes

LEMMA GoesBack ==
  ASSUME NEW s, NEW t, NEW cut, Goes(s, t, cut)
  PROVE  t.why = "no" => s.why = "no"
  BY DEF Goes

\* balloc, when there is room: a free block, marked and zeroed.
Taken(s, b) == b \in Blocks /\ ~ s.bmap[b]

LEMMA BallocFree ==
  ASSUME NEW s, Typed(s), \E b \in Blocks : ~ s.bmap[b]
  PROVE  \E b : /\ Taken(s, b)
                /\ balloc(s) = Ret(bzero(Mark(s, b), b), b)
<1> DEFINE free == {b \in Blocks : ~ s.bmap[b]}
<1>1. free \subseteq Nat /\ free # {}  BY Sizes DEF Blocks
<1>2. PICK b \in free : \A c \in free : b <= c  BY <1>1, LeastOf
<1>3. Min(free) \in free  BY <1>2 DEF Min
<1>4. balloc(s) = Ret(bzero(Mark(s, Min(free)), Min(free)), Min(free))  BY <1>1 DEF balloc
<1> QED BY <1>3, <1>4 DEF Taken

LEMMA BallocFull ==
  ASSUME NEW s, ~ \E b \in Blocks : ~ s.bmap[b]
  PROVE  balloc(s) = Ret(Panic(s, OutOfBlocks), 0)
  BY DEF balloc, OutOfBlocks

LEMMA BallocFields ==
  ASSUME NEW s, Typed(s), NEW t, t = balloc(s)
  PROVE  /\ Typed(t) /\ t.din = s.din /\ t.it = s.it /\ t.ret \in Blocks
         /\ s.bmap[0] => t.bmap[0]
         /\ \/ /\ s.why # "no" /\ t.log = s.log /\ t.why = s.why
            \/ /\ s.why = "no" /\ t.log = s.log /\ t.why = OutOfBlocks
            \/ /\ s.why = "no" /\ t.why = "no" /\ Taken(s, t.ret)
               /\ t.bmap = [s.bmap EXCEPT ![t.ret] = TRUE]
               /\ t.blk = [s.blk EXCEPT ![t.ret] = ZeroBlock]
               /\ \E w : /\ Range(t.log) = Range(s.log) \cup {w, OnDisk(t)}
                         /\ w = [OnDisk(s) EXCEPT !.bmap = t.bmap]
                         /\ OnDisk(t) = [w EXCEPT !.blk[t.ret] = ZeroBlock]
                         /\ w \in ImageType
<1>1. CASE \E b \in Blocks : ~ s.bmap[b]
  <2>1. PICK b : Taken(s, b) /\ t = Ret(bzero(Mark(s, b), b), b)  BY <1>1, BallocFree
  <2>2. b \in Blocks  BY <2>1 DEF Taken
  <2>3. PICK map : map = [s.bmap EXCEPT ![b] = TRUE]  OBVIOUS
  <2>4. PICK u1 : u1 = [s EXCEPT !.bmap = map]  OBVIOUS
  <2>5. map \in [Blocks -> BOOLEAN]  BY <2>2, <2>3 DEF Typed
  <2>6. /\ Typed(u1) /\ u1.bmap = map /\ u1.din = s.din /\ u1.blk = s.blk
        /\ u1.it = s.it /\ u1.why = s.why /\ u1.log = s.log  BY <2>4, <2>5, MapFields
  <2>7. PICK u2 : u2 = BwriteMap(u1)  OBVIOUS
  <2>8. /\ Typed(u2) /\ u2.bmap = u1.bmap /\ u2.din = u1.din /\ u2.blk = u1.blk
        /\ u2.it = u1.it /\ u2.why = u1.why
        /\ u1.why # "no" => u2.log = u1.log
        /\ u1.why = "no" => /\ Range(u2.log) = Range(u1.log) \cup {OnDisk(u2)}
                            /\ OnDisk(u2) = [OnDisk(u1) EXCEPT !.bmap = u1.bmap]
                            /\ OnDisk(u2) \in ImageType  BY <2>6, <2>7, WriteMapFields
  <2>9. PICK x : x = [u2.blk EXCEPT ![b] = ZeroBlock]  OBVIOUS
  <2>10. x \in [Blocks -> Contents] /\ x[b] = ZeroBlock  BY <2>2, <2>8, <2>9, Empties DEF Typed
  <2>11. PICK u3 : u3 = [u2 EXCEPT !.blk = x]  OBVIOUS
  <2>12. /\ Typed(u3) /\ u3.bmap = u2.bmap /\ u3.din = u2.din /\ u3.blk = x
         /\ u3.it = u2.it /\ u3.why = u2.why /\ u3.log = u2.log  BY <2>8, <2>10, <2>11, BlkFields
  <2>13. PICK u4 : u4 = BwriteBlock(u3, b)  OBVIOUS
  <2>14. /\ Typed(u4) /\ u4.bmap = u3.bmap /\ u4.din = u3.din /\ u4.blk = u3.blk
         /\ u4.it = u3.it /\ u4.why = u3.why
         /\ u3.why # "no" => u4.log = u3.log
         /\ u3.why = "no" => /\ Range(u4.log) = Range(u3.log) \cup {OnDisk(u4)}
                             /\ OnDisk(u4) = [OnDisk(u3) EXCEPT !.blk[b] = u3.blk[b]]
    BY <2>12, <2>13, WriteBlockFields
  <2>15. t = Ret(u4, b)  BY <2>1, <2>3, <2>4, <2>7, <2>9, <2>11, <2>13 DEF bzero, Mark
  <2>16. /\ Typed(t) /\ t.bmap = u4.bmap /\ t.din = u4.din /\ t.blk = u4.blk /\ t.log = u4.log
         /\ t.it = u4.it /\ t.ret = b /\ t.why = u4.why  BY <2>14, <2>15, RetFields
  <2>17. OnDisk(t) = OnDisk(u4) /\ OnDisk(u3) = OnDisk(u2) /\ OnDisk(u1) = OnDisk(s)
    BY <2>6, <2>12, <2>16 DEF OnDisk
  <2>18. /\ Typed(t) /\ t.din = s.din /\ t.it = s.it /\ t.ret = b /\ t.why = s.why
         /\ t.bmap = map /\ t.blk = x /\ u2.blk = s.blk  BY <2>6, <2>8, <2>12, <2>14, <2>16
  <2>21. s.bmap[0] => t.bmap[0]
    <3>1. s.bmap[0] => map[0]  BY <2>2, <2>3, Sizes DEF Typed
    <3> QED BY <2>18, <3>1
  <2>19. CASE s.why # "no"
    <3>1. t.log = s.log  BY <2>6, <2>8, <2>12, <2>14, <2>16, <2>19
    <3> QED BY <2>2, <2>18, <2>19, <2>21, <3>1
  <2>20. CASE s.why = "no"
    <3>1. /\ Range(t.log) = Range(s.log) \cup {OnDisk(u2), OnDisk(t)}
          /\ OnDisk(u2) = [OnDisk(s) EXCEPT !.bmap = map]
          /\ OnDisk(u2) \in ImageType  BY <2>6, <2>8, <2>12, <2>14, <2>16, <2>17, <2>20
    <3>2. OnDisk(t) = [OnDisk(u2) EXCEPT !.blk[b] = ZeroBlock]
      BY <2>8, <2>10, <2>6, <2>12, <2>14, <2>17, <2>20
    <3>3. t.bmap = [s.bmap EXCEPT ![t.ret] = TRUE] /\ t.blk = [s.blk EXCEPT ![t.ret] = ZeroBlock]
      BY <2>3, <2>9, <2>18
    <3> QED BY <2>1, <2>2, <2>18, <2>20, <2>21, <3>1, <3>2, <3>3
  <2> QED BY <2>19, <2>20
<1>2. CASE ~ \E b \in Blocks : ~ s.bmap[b]
  <2>1. PICK p : p = Panic(s, OutOfBlocks)  OBVIOUS
  <2>2. t = Ret(p, 0)  BY <1>2, <2>1, BallocFull
  <2>3. /\ Typed(p) /\ p.din = s.din /\ p.log = s.log /\ p.it = s.it /\ p.bmap = s.bmap
        /\ p.why = IF s.why = "no" THEN OutOfBlocks ELSE s.why  BY <2>1, PanicFields
  <2>4. /\ Typed(t) /\ t.din = p.din /\ t.log = p.log /\ t.it = p.it /\ t.ret = 0 /\ t.why = p.why
        /\ t.bmap = p.bmap  BY <2>2, <2>3, RetFields
  <2> QED BY <2>3, <2>4, Sizes
<1> QED BY <1>1, <1>2

----
(* Blocks and their owners. *)
\* Inodes as a disk or a table of them has them, whatever their sizes are.
LEMMA AddrTyped ==
  ASSUME NEW din \in [Inums -> InodeType], NEW blk \in [Blocks -> Contents],
         NEW i \in Inums, NEW n \in Places
  PROVE  /\ At(din, blk, i, n) \in Nat
         /\ n < NDIRECT => At(din, blk, i, n) = din[i].addrs[n]
         /\ n = MAXFILE => At(din, blk, i, n) = din[i].addrs[NDIRECT]
         /\ ~ (n < NDIRECT) /\ din[i].addrs[NDIRECT] = 0 => At(din, blk, i, n) = 0
         /\ ~ (n < NDIRECT) /\ n # MAXFILE /\ din[i].addrs[NDIRECT] # 0 =>
              /\ n - NDIRECT \in Offs
              /\ At(din, blk, i, n) = blk[din[i].addrs[NDIRECT]][n - NDIRECT][1]
<1>1. din[i].addrs \in [0 .. NDIRECT -> Blocks]  BY DEF InodeType
<1>2. NDIRECT \in 0 .. NDIRECT /\ Blocks \subseteq Nat /\ n \in Nat  BY Sizes DEF Blocks, Places
<1>3. n < NDIRECT => n \in 0 .. NDIRECT  BY <1>2, Sizes
<1>4. ~ (n < NDIRECT) /\ n # MAXFILE => n - NDIRECT \in Offs  BY <1>2, Sizes DEF Places, Offs
<1>5. ~ (MAXFILE < NDIRECT)  BY Sizes
<1>6. \A b \in Blocks, o \in Offs : blk[b][o][1] \in Nat  BY DEF Contents, UnitType
<1> QED BY <1>1, <1>2, <1>3, <1>4, <1>5, <1>6 DEF At, AddrOf

\* Taking addresses away leaves the others their owners.
LEMMA FewerAddrs ==
  ASSUME NEW bmp, NEW din, NEW blk, Sound(bmp, din, blk), NEW d, NEW c,
         \A i \in Inums, n \in Places : At(d, c, i, n) \in {0, At(din, blk, i, n)},
         \A i \in Inums : d[i].type = T_NONE => d[i].addrs = NoAddrs
  PROVE  Sound(bmp, d, c)
<1>1. OneOwner(d, c)  BY DEF Sound, OneOwner
<1>2. Marked(bmp, d, c)  BY DEF Sound, Marked
<1> QED BY <1>1, <1>2 DEF Sound

\* A block nobody names gets an owner.
LEMMA OneMoreAddr ==
  ASSUME NEW bmp, NEW din, NEW blk, Sound(bmp, din, blk), NEW d, NEW c,
         NEW i0 \in Inums, NEW n0 \in Places, NEW a \in NMETA .. FSSIZE - 1, bmp[a],
         \A i \in Inums, n \in Places : At(din, blk, i, n) # a,
         \A i \in Inums, n \in Places :
            /\ i = i0 /\ n = n0 => At(d, c, i, n) = a
            /\ ~ (i = i0 /\ n = n0) => At(d, c, i, n) \in {0, At(din, blk, i, n)},
         \A i \in Inums : d[i].type = T_NONE => d[i].addrs = NoAddrs
  PROVE  Sound(bmp, d, c)
<1>1. OneOwner(d, c)
  <2>1. ASSUME NEW i \in Inums, NEW n \in Places, At(d, c, i, n) # 0
        PROVE  At(d, c, i, n) \in NMETA .. FSSIZE - 1  BY <2>1 DEF Sound, OneOwner
  <2>2. ASSUME NEW i \in Inums, NEW j \in Inums, NEW m \in Places, NEW n \in Places,
               At(d, c, i, m) = At(d, c, j, n), At(d, c, i, m) # 0
        PROVE  i = j /\ m = n
    <3>1. CASE i = i0 /\ m = n0  BY <2>2, <3>1
    <3>2. CASE j = i0 /\ n = n0  BY <2>2, <3>2
    <3>3. CASE ~ (i = i0 /\ m = n0) /\ ~ (j = i0 /\ n = n0)  BY <2>2, <3>3 DEF Sound, OneOwner
    <3> QED BY <3>1, <3>2, <3>3
  <2> QED BY <2>1, <2>2 DEF OneOwner
<1>2. Marked(bmp, d, c)  BY DEF Sound, Marked
<1> QED BY <1>1, <1>2 DEF Sound

\* Marking blocks.
LEMMA MarkedMore ==
  ASSUME NEW bmp, NEW din, NEW blk, Sound(bmp, din, blk), NEW x,
         \A a \in Blocks : bmp[a] => x[a]
  PROVE  Sound(x, din, blk)
<1>1. 0 .. NMETA - 1 \subseteq Blocks /\ NMETA .. FSSIZE - 1 \subseteq Blocks  BY Sizes DEF Blocks
<1>2. Marked(x, din, blk)  BY <1>1 DEF Sound, Marked, OneOwner
<1> QED BY <1>2 DEF Sound

\* A change of a block that holds no addresses.
LEMMA DataChange ==
  ASSUME NEW din \in [Inums -> InodeType], NEW blk \in [Blocks -> Contents], NEW c,
         \A i \in Inums : At(din, blk, i, MAXFILE) # 0 =>
              c[At(din, blk, i, MAXFILE)] = blk[At(din, blk, i, MAXFILE)]
  PROVE  \A i \in Inums, n \in Places : At(din, c, i, n) = At(din, blk, i, n)
<1> TAKE i \in Inums, n \in Places
<1>1. At(din, blk, i, MAXFILE) = din[i].addrs[NDIRECT]  BY Sizes DEF At, AddrOf
<1>2. din[i].addrs[NDIRECT] # 0 => c[din[i].addrs[NDIRECT]] = blk[din[i].addrs[NDIRECT]]  BY <1>1
<1> QED BY <1>2 DEF At, AddrOf

----
(* Freeing the blocks of inode i, of which the first n are free by now. *)
LEMMA FreeOne ==
  ASSUME NEW bmp \in [Blocks -> BOOLEAN], NEW din, NEW blk, NEW i \in Inums, NEW n \in Places,
         Freeing(bmp, din, blk, i, n), NEW b, b = At(din, blk, i, n)
  PROVE  /\ b = 0 => Freeing(bmp, din, blk, i, n + 1)
         /\ b # 0 => bmp[b] /\ b \in Blocks /\ Freeing([bmp EXCEPT ![b] = FALSE], din, blk, i, n + 1)
<1>1. \A m \in Places : ~ (m < n + 1) => ~ (m < n) /\ m # n  BY Sizes DEF Places
<1>2. CASE b = 0  BY <1>1, <1>2 DEF Freeing
<1>3. CASE b # 0
  <2>1. b \in NMETA .. FSSIZE - 1 /\ ~ (n < n)  BY <1>3, Sizes DEF Freeing, OneOwner, Places
  <2>2. bmp[b] /\ b \in Blocks  BY <1>3, <2>1, Sizes DEF Freeing, Blocks
  <2>3. PICK x : x = [bmp EXCEPT ![b] = FALSE]  OBVIOUS
  <2>4. \A a \in Blocks : a # b => x[a] = bmp[a]  BY <2>3
  <2>5. \A a \in 0 .. NMETA - 1 : a \in Blocks /\ a # b  BY <2>1, Sizes DEF Blocks
  <2>6. ASSUME NEW j \in Inums, NEW m \in Places, At(din, blk, j, m) # 0, ~ (j = i /\ m < n + 1)
        PROVE  x[At(din, blk, j, m)]
    <3>1. ~ (j = i /\ m = n) /\ ~ (j = i /\ m < n)  BY <1>1, <2>6, Sizes DEF Places
    <3>2. At(din, blk, j, m) # b  BY <2>6, <3>1, <1>3 DEF Freeing, OneOwner
    <3>3. bmp[At(din, blk, j, m)]  BY <2>6, <3>1 DEF Freeing
    <3>4. At(din, blk, j, m) \in Blocks  BY <2>6, Sizes DEF Freeing, OneOwner, Blocks
    <3> QED BY <2>4, <3>2, <3>3, <3>4
  <2>7. \A a \in 0 .. NMETA - 1 : x[a]  BY <2>4, <2>5 DEF Freeing
  <2>8. Freeing(x, din, blk, i, n + 1)  BY <2>6, <2>7 DEF Freeing
  <2> QED BY <1>3, <2>2, <2>3, <2>8
<1> QED BY <1>2, <1>3

\* All are free, and the inode drops them.
LEMMA FreedAll ==
  ASSUME NEW bmp, NEW din \in [Inums -> InodeType], NEW blk \in [Blocks -> Contents],
         NEW i \in Inums, Freeing(bmp, din, blk, i, MAXFILE + 1),
         NEW d \in [Inums -> InodeType], d[i].addrs = NoAddrs, \A j \in Inums \ {i} : d[j] = din[j]
  PROVE  Sound(bmp, d, blk)
<1>1. \A m \in Places : m < MAXFILE + 1  BY Sizes DEF Places
<1>2. \A m \in Places : At(d, blk, i, m) = 0
  <2>1. \A n \in 0 .. NDIRECT : d[i].addrs[n] = 0  BY DEF NoAddrs
  <2>2. NDIRECT \in 0 .. NDIRECT /\ \A m \in Places : m < NDIRECT => m \in 0 .. NDIRECT
    BY Sizes DEF Places
  <2> QED BY <2>1, <2>2 DEF At, AddrOf
<1>3. \A j \in Inums \ {i}, m \in Places : At(d, blk, j, m) = At(din, blk, j, m)  BY DEF At
<1>4. OneOwner(d, blk)
  <2>1. ASSUME NEW j \in Inums, NEW m \in Places, At(d, blk, j, m) # 0
        PROVE  j # i /\ At(d, blk, j, m) = At(din, blk, j, m)  BY <1>2, <1>3, <2>1
  <2>2. \A j \in Inums : d[j].type = T_NONE => d[j].addrs = NoAddrs  BY DEF Freeing, OneOwner
  <2>3. \A j \in Inums, m \in Places : At(d, blk, j, m) # 0 => At(d, blk, j, m) \in NMETA .. FSSIZE - 1
    BY <2>1 DEF Freeing, OneOwner
  <2>4. ASSUME NEW j \in Inums, NEW l \in Inums, NEW m \in Places, NEW n \in Places,
               At(d, blk, j, m) = At(d, blk, l, n), At(d, blk, j, m) # 0
        PROVE  j = l /\ m = n
    <3>1. At(din, blk, j, m) = At(din, blk, l, n) /\ At(din, blk, j, m) # 0  BY <2>1, <2>4
    <3> QED BY <3>1 DEF Freeing, OneOwner
  <2> QED BY <2>2, <2>3, <2>4 DEF OneOwner
<1>5. Marked(bmp, d, blk)  BY <1>1, <1>2, <1>3 DEF Freeing, Marked
<1> QED BY <1>4, <1>5 DEF Sound

----
(* Entering an address. *)
WithAddr(c, n, a) == [c EXCEPT !.addrs[n] = a]
WithInodeAddr(din, i, n, a) == [din EXCEPT ![i].addrs[n] = a]
WithBlockAddr(blk, b, o, a) == [blk EXCEPT ![b][o] = Unit(a)]

\* In an inode: the block may be one of data, or, zeroed, of addresses.
LEMMA EnterDirect ==
  ASSUME NEW bmp, NEW din \in [Inums -> InodeType], NEW blk \in [Blocks -> Contents],
         Sound(bmp, din, blk), NEW i \in Inums, NEW n \in 0 .. NDIRECT, din[i].addrs[n] = 0,
         din[i].type # T_NONE, NEW a \in NMETA .. FSSIZE - 1, bmp[a], blk[a] = ZeroBlock,
         \A j \in Inums, m \in Places : At(din, blk, j, m) # a,
         NEW d
  PROVE  d = WithInodeAddr(din, i, n, a) =>
         /\ d \in [Inums -> InodeType] /\ Sound(bmp, d, blk)
         /\ \A j \in Inums, m \in Places :
              At(d, blk, j, m) = IF j = i /\ m = (IF n = NDIRECT THEN MAXFILE ELSE n) THEN a
                                 ELSE At(din, blk, j, m)
<1>0. SUFFICES ASSUME d = WithInodeAddr(din, i, n, a)
               PROVE  /\ d \in [Inums -> InodeType] /\ Sound(bmp, d, blk)
                      /\ \A j \in Inums, m \in Places :
                           At(d, blk, j, m) = IF j = i /\ m = (IF n = NDIRECT THEN MAXFILE ELSE n)
                                              THEN a ELSE At(din, blk, j, m)
  OBVIOUS
<1> DEFINE p == IF n = NDIRECT THEN MAXFILE ELSE n
<1>1. p \in Places /\ a \in Blocks /\ a # 0  BY Sizes DEF Places, Blocks
<1>2. /\ d[i].addrs = [din[i].addrs EXCEPT ![n] = a] /\ d[i].type = din[i].type
      /\ \A j \in Inums \ {i} : d[j] = din[j]
      /\ d \in [Inums -> InodeType] /\ din[i].addrs \in [0 .. NDIRECT -> Blocks]
  BY <1>0, <1>1 DEF InodeType, WithInodeAddr
<1>3. /\ d[i].addrs[n] = a
      /\ \A m \in 0 .. NDIRECT : m # n => d[i].addrs[m] = din[i].addrs[m]
  <2>1. PICK f, g : f = d[i].addrs /\ g = din[i].addrs  OBVIOUS
  <2>2. g \in [0 .. NDIRECT -> Blocks] /\ f = [g EXCEPT ![n] = a]  BY <1>2, <2>1
  <2>3. f[n] = a /\ \A m \in 0 .. NDIRECT : m # n => f[m] = g[m]  BY <2>2
  <2> QED BY <2>1, <2>3
<1>4. ASSUME NEW m \in Places
      PROVE  At(d, blk, i, m) = IF m = p THEN a ELSE At(din, blk, i, m)
  <2>0. m \in Nat /\ NDIRECT \in 0 .. NDIRECT /\ MAXFILE # NDIRECT /\ ~ (MAXFILE < NDIRECT)
        /\ ~ (NDIRECT < NDIRECT)  BY Sizes DEF Places
  <2>1. CASE m < NDIRECT
    <3>1. m \in 0 .. NDIRECT /\ m # NDIRECT /\ m # MAXFILE  BY <2>0, <2>1, Sizes
    <3> QED BY <1>3, <2>1, <3>1 DEF At, AddrOf
  <2>2. CASE ~ (m < NDIRECT)
    <3>1. CASE n = NDIRECT
      <4>1. d[i].addrs[NDIRECT] = a /\ din[i].addrs[NDIRECT] = 0  BY <1>3, <3>1
      <4>2. CASE m = MAXFILE  BY <2>0, <3>1, <4>1, <4>2 DEF At, AddrOf
      <4>3. CASE m # MAXFILE
        <5>1. m - NDIRECT \in Offs  BY <2>0, <2>2, <4>3, Sizes DEF Places, Offs
        <5>2. blk[a][m - NDIRECT][1] = 0  BY <5>1 DEF ZeroBlock, Zero, Unit
        <5> QED BY <1>1, <2>2, <3>1, <4>1, <4>3, <5>2 DEF At, AddrOf
      <4> QED BY <4>2, <4>3
    <3>2. CASE n # NDIRECT
      <4>1. d[i].addrs[NDIRECT] = din[i].addrs[NDIRECT]  BY <1>3, <2>0, <3>2
      <4>2. m # p  BY <2>0, <2>2, <3>2, Sizes
      <4> QED BY <2>2, <4>1, <4>2 DEF At, AddrOf
    <3> QED BY <3>1, <3>2
  <2> QED BY <2>1, <2>2
<1>5. \A j \in Inums \ {i}, m \in Places : At(d, blk, j, m) = At(din, blk, j, m)  BY <1>2 DEF At
<1> HIDE DEF p
<1>6. \A j \in Inums, m \in Places :
        At(d, blk, j, m) = IF j = i /\ m = p THEN a ELSE At(din, blk, j, m)
  BY <1>4, <1>5
<1>7. \A j \in Inums : d[j].type = T_NONE => d[j].addrs = NoAddrs  BY <1>2 DEF Sound, OneOwner
<1>8. Sound(bmp, d, blk)
  <2>1. \A j \in Inums, m \in Places :
          /\ j = i /\ m = p => At(d, blk, j, m) = a
          /\ ~ (j = i /\ m = p) => At(d, blk, j, m) \in {0, At(din, blk, j, m)}  BY <1>6
  <2> QED BY <1>1, <1>7, <2>1, OneMoreAddr
<1> QED BY <1>2, <1>6, <1>8 DEF p

LEMMA UnitTyped ==
  ASSUME NEW x \in Nat
  PROVE  Unit(x) \in UnitType /\ Unit(x)[1] = x
<1>1. <<>> \in Seq(Nat)  OBVIOUS
<1> QED BY <1>1 DEF Unit, UnitType

\* In the indirect block of an inode.
LEMMA EnterIndirect ==
  ASSUME NEW bmp, NEW din \in [Inums -> InodeType], NEW blk \in [Blocks -> Contents],
         Sound(bmp, din, blk), NEW i \in Inums, NEW o \in Offs, NEW b, b = din[i].addrs[NDIRECT],
         b # 0, blk[b][o][1] = 0,
         NEW a \in NMETA .. FSSIZE - 1, bmp[a],
         \A j \in Inums, m \in Places : At(din, blk, j, m) # a,
         NEW c
  PROVE  c = WithBlockAddr(blk, b, o, a) =>
         /\ c \in [Blocks -> Contents] /\ Sound(bmp, din, c)
         /\ \A j \in Inums, m \in Places :
              At(din, c, j, m) = IF j = i /\ m = NDIRECT + o THEN a ELSE At(din, blk, j, m)
<1>0. SUFFICES ASSUME c = WithBlockAddr(blk, b, o, a)
               PROVE  /\ c \in [Blocks -> Contents] /\ Sound(bmp, din, c)
                      /\ \A j \in Inums, m \in Places :
                           At(din, c, j, m) = IF j = i /\ m = NDIRECT + o THEN a
                                              ELSE At(din, blk, j, m)
  OBVIOUS
<1>1. /\ din[i].addrs \in [0 .. NDIRECT -> Blocks] /\ NDIRECT \in 0 .. NDIRECT
      /\ b \in Blocks /\ a \in Nat  BY Sizes DEF InodeType
<1>2. Unit(a) \in UnitType /\ Unit(a)[1] = a  BY <1>1, UnitTyped
<1>3. /\ c \in [Blocks -> Contents] /\ c[b] = [blk[b] EXCEPT ![o] = Unit(a)]
      /\ \A x \in Blocks \ {b} : c[x] = blk[x] /\ blk[b] \in Contents
  BY <1>0, <1>1, <1>2 DEF Contents, WithBlockAddr
<1>4. /\ c[b][o] = Unit(a) /\ \A x \in Offs \ {o} : c[b][x] = blk[b][x]  BY <1>1, <1>3 DEF Contents
<1>5. MAXFILE \in Places /\ NDIRECT + o \in Places /\ ~ (NDIRECT + o < NDIRECT) /\ NDIRECT + o # MAXFILE
      /\ (NDIRECT + o) - NDIRECT = o /\ o \in Nat  BY Sizes DEF Places, Offs
<1>6. ASSUME NEW m \in Places
      PROVE  At(din, c, i, m) = IF m = NDIRECT + o THEN a ELSE At(din, blk, i, m)
  <2>1. CASE m < NDIRECT \/ m = MAXFILE  BY <2>1, <1>5 DEF At, AddrOf
  <2>2. CASE ~ (m < NDIRECT \/ m = MAXFILE)
    <3>1. m - NDIRECT \in Offs /\ (m - NDIRECT = o <=> m = NDIRECT + o)
      BY <2>2, <1>5, Sizes DEF Places, Offs
    <3>2. At(din, c, i, m) = c[b][m - NDIRECT][1] /\ At(din, blk, i, m) = blk[b][m - NDIRECT][1]
      BY <2>2 DEF At, AddrOf
    <3>3. CASE m = NDIRECT + o  BY <1>2, <1>4, <3>1, <3>2, <3>3
    <3>4. CASE m # NDIRECT + o  BY <1>4, <3>1, <3>2, <3>4
    <3> QED BY <3>3, <3>4
  <2> QED BY <2>1, <2>2
<1>7. At(din, blk, i, MAXFILE) = b  BY <1>5, Sizes, AddrTyped
<1>8. ASSUME NEW j \in Inums \ {i}, NEW m \in Places
      PROVE  At(din, c, j, m) = At(din, blk, j, m)
  <2>1. At(din, blk, j, MAXFILE) = din[j].addrs[NDIRECT]  BY <1>5, Sizes, AddrTyped
  <2>2. din[j].addrs[NDIRECT] # b  BY <1>5, <1>7, <2>1 DEF Sound, OneOwner
  <2>3. din[j].addrs[NDIRECT] \in Blocks  BY <1>1 DEF InodeType
  <2>4. c[din[j].addrs[NDIRECT]] = blk[din[j].addrs[NDIRECT]]  BY <1>3, <2>2, <2>3
  <2> QED BY <2>4 DEF At, AddrOf
<1>9. \A j \in Inums, m \in Places :
        At(din, c, j, m) = IF j = i /\ m = NDIRECT + o THEN a ELSE At(din, blk, j, m)
  BY <1>6, <1>8
<1>10. Sound(bmp, din, c)
  <2>1. \A j \in Inums : din[j].type = T_NONE => din[j].addrs = NoAddrs  BY DEF Sound, OneOwner
  <2>2. \A j \in Inums, m \in Places :
          /\ j = i /\ m = NDIRECT + o => At(din, c, j, m) = a
          /\ ~ (j = i /\ m = NDIRECT + o) => At(din, c, j, m) \in {0, At(din, blk, j, m)}  BY <1>9
  <2> QED BY <1>5, <2>1, <2>2, OneMoreAddr
<1> QED BY <1>3, <1>9, <1>10

----
(* The inodes as the kernel knows them. *)
OneSlot(s) ==
    \A k, l \in Slots : Busy(s, k) /\ Busy(s, l) /\ s.it[k].inum = s.it[l].inum => k = l
InMemory(s, i) == {k \in Slots : Busy(s, k) /\ s.it[k].valid /\ s.it[k].inum = i}

LEMMA CurrentIn ==
  ASSUME NEW s, OneSlot(s), NEW i, NEW k \in InMemory(s, i)
  PROVE  Current(s, i) = s.it[k].copy
<1>1. InMemory(s, i) = {k}  BY DEF InMemory, OneSlot
<1>2. k \in Nat  BY Sizes DEF InMemory, Slots
<1>3. Min({k}) = k  BY <1>2 DEF Min
<1> QED BY <1>1, <1>3 DEF Current, InMemory

LEMMA CurrentOut ==
  ASSUME NEW s, NEW i, InMemory(s, i) = {}
  PROVE  Current(s, i) = s.din[i]
  BY DEF Current, InMemory

LEMMA CurIs ==
  ASSUME NEW s, OneSlot(s), NEW f \in [Inums -> InodeType],
         \A i \in Inums : \A k \in InMemory(s, i) : f[i] = s.it[k].copy,
         \A i \in Inums : InMemory(s, i) = {} => f[i] = s.din[i]
  PROVE  Cur(s) = f
<1>1. ASSUME NEW i \in Inums PROVE Current(s, i) = f[i]
  <2>1. CASE InMemory(s, i) = {}  BY <2>1, CurrentOut
  <2>2. CASE InMemory(s, i) # {}
    <3>1. PICK k : k \in InMemory(s, i)  BY <2>2
    <3> QED BY <3>1, CurrentIn
  <2> QED BY <2>1, <2>2
<1>2. Cur(s) = [i \in Inums |-> f[i]]  BY <1>1 DEF Cur
<1> QED BY <1>2

LEMMA CurTyped ==
  ASSUME NEW s, Typed(s), OneSlot(s)
  PROVE  Cur(s) \in [Inums -> InodeType]
<1>1. ASSUME NEW i \in Inums PROVE Current(s, i) \in InodeType
  <2>1. CASE InMemory(s, i) = {}  BY <2>1, CurrentOut DEF Typed
  <2>2. CASE InMemory(s, i) # {}
    <3>1. PICK k : k \in InMemory(s, i)  BY <2>2
    <3>2. k \in Slots  BY <3>1 DEF InMemory
    <3>3. s.it[k].copy \in InodeType  BY <3>2 DEF Typed, SlotType
    <3> QED BY <3>1, <3>3, CurrentIn
  <2> QED BY <2>1, <2>2
<1> QED BY <1>1 DEF Cur

\* The copies have the types the inodes have.
LEMMA CurTypes ==
  ASSUME NEW s, Typed(s), Table(s), NEW i \in Inums
  PROVE  Cur(s)[i].type = s.din[i].type /\ Cur(s)[i] = Current(s, i)
<1>1. Cur(s)[i] = Current(s, i)  BY DEF Cur
<1>2. OneSlot(s)  BY DEF Table, OneSlot
<1>3. CASE InMemory(s, i) = {}  BY <1>1, <1>3, CurrentOut
<1>4. CASE InMemory(s, i) # {}
  <2>1. PICK k : k \in InMemory(s, i)  BY <1>4
  <2>2. k \in Slots /\ Busy(s, k) /\ s.it[k].valid /\ s.it[k].inum = i  BY <2>1 DEF InMemory
  <2>3. s.it[k].copy.type = s.din[i].type  BY <2>2 DEF Table
  <2>4. Current(s, i) = s.it[k].copy  BY <1>2, <2>1, CurrentIn
  <2> QED BY <1>1, <2>3, <2>4
<1> QED BY <1>3, <1>4

\* Two states with the same table and the same inodes on the disk.
LEMMA SameCur ==
  ASSUME NEW s, NEW t, t.it = s.it, t.din = s.din
  PROVE  /\ Cur(t) = Cur(s) /\ \A k : Busy(t, k) <=> Busy(s, k)
         /\ OneSlot(s) => OneSlot(t)
         /\ \A K : Stored(s, K) => Stored(t, K)
         /\ Table(s) /\ t.din = OnDisk(t).din => Table(t)
<1>1. \A k : Busy(t, k) <=> Busy(s, k)  BY DEF Busy
<1>2. \A i : Current(t, i) = Current(s, i)  BY <1>1 DEF Current
<1> QED BY <1>1, <1>2 DEF Cur, OneSlot, Stored, Table

----
(* The invariant in a state that has panicked, and of the images. *)
LEMMA GoodIs ==
  ASSUME NEW s, NEW K, NEW cut, Good(s, K, cut)
  PROVE  /\ Typed(s) /\ LogGood(s, cut) /\ s.bmap[0]
         /\ s.why = "no" => Live(s, K, cut)
  BY DEF Good, Ordered, Owned, LogGood, Safe, Live, Whole

LEMMA GoodWhen ==
  ASSUME NEW s, NEW K, NEW cut, Typed(s), LogGood(s, cut), s.bmap[0],
         s.why = "no" => Live(s, K, cut)
  PROVE  Good(s, K, cut)
  BY DEF Good, Ordered, Owned, LogGood, Safe, Live, Whole

\* A disk that lags behind names fewer blocks.
LEMMA BehindAddrs ==
  ASSUME NEW w \in ImageType, NEW bmp, NEW din \in [Inums -> InodeType],
         NEW blk \in [Blocks -> Contents], Behind(w, bmp, din, blk),
         NEW i \in Inums, NEW n \in Places
  PROVE  At(w.din, w.blk, i, n) \in {0, At(din, blk, i, n)}
<1>9. w.din \in [Inums -> InodeType] /\ w.blk \in [Blocks -> Contents]  BY DEF ImageType
<1>0. NDIRECT \in 0 .. NDIRECT /\ MAXFILE \in Places /\ (n < NDIRECT => n \in 0 .. NDIRECT)
  BY Sizes DEF Places
<1>1. CASE n < NDIRECT
  <2>1. w.din[i].addrs[n] \in {0, din[i].addrs[n]}  BY <1>0, <1>1 DEF Behind
  <2> QED BY <1>1, <2>1 DEF At, AddrOf
<1>2. CASE ~ (n < NDIRECT)
  <2>1. w.din[i].addrs[NDIRECT] \in {0, din[i].addrs[NDIRECT]}  BY <1>0 DEF Behind
  <2>2. CASE w.din[i].addrs[NDIRECT] = 0  BY <1>2, <2>2 DEF At, AddrOf
  <2>3. CASE w.din[i].addrs[NDIRECT] # 0
    <3>1. w.din[i].addrs[NDIRECT] = din[i].addrs[NDIRECT]  BY <2>1, <2>3
    <3>2. At(din, blk, i, MAXFILE) = din[i].addrs[NDIRECT]  BY <1>0, Sizes, AddrTyped
    <3>3. w.blk[din[i].addrs[NDIRECT]] = blk[din[i].addrs[NDIRECT]]
      BY <1>0, <2>3, <3>1, <3>2 DEF Behind
    <3>4. CASE n = MAXFILE  BY <3>1, <3>4, <1>9, AddrTyped
    <3>5. CASE n # MAXFILE
      <4>1. At(w.din, w.blk, i, n) = w.blk[w.din[i].addrs[NDIRECT]][n - NDIRECT][1]
        BY <1>9, <1>2, <2>3, <3>5, AddrTyped
      <4>2. At(din, blk, i, n) = blk[din[i].addrs[NDIRECT]][n - NDIRECT][1]
        BY <1>2, <2>3, <3>1, <3>5, AddrTyped
      <4> QED BY <3>1, <3>3, <4>1, <4>2
    <3> QED BY <3>4, <3>5
  <2> QED BY <2>2, <2>3
<1> QED BY <1>1, <1>2

\* So it is sound.
LEMMA BehindSound ==
  ASSUME NEW w \in ImageType, NEW bmp, NEW din \in [Inums -> InodeType],
         NEW blk \in [Blocks -> Contents], Sound(bmp, din, blk), Behind(w, bmp, din, blk)
  PROVE  Sound(w.bmap, w.din, w.blk)
<1>1. w.din \in [Inums -> InodeType] /\ w.blk \in [Blocks -> Contents]  BY DEF ImageType
<1>2. \A i \in Inums, n \in Places : At(w.din, w.blk, i, n) \in {0, At(din, blk, i, n)}
  BY BehindAddrs
<1>3. \A i \in Inums : w.din[i].type = T_NONE => w.din[i].addrs = NoAddrs
  <2>1. SUFFICES ASSUME NEW i \in Inums, w.din[i].type = T_NONE PROVE w.din[i].addrs = NoAddrs
    OBVIOUS
  <2>2. din[i].addrs = NoAddrs  BY <2>1 DEF Behind, Sound, OneOwner
  <2>3. \A n \in 0 .. NDIRECT : w.din[i].addrs[n] = 0  BY <2>2 DEF Behind, NoAddrs
  <2>4. w.din[i].addrs \in [0 .. NDIRECT -> Blocks]  BY <1>1 DEF InodeType
  <2> QED BY <2>3, <2>4 DEF NoAddrs
<1>4. Sound(bmp, w.din, w.blk)  BY <1>2, <1>3, FewerAddrs
<1>5. w.bmap = bmp  BY DEF Behind
<1> QED BY <1>4, <1>5

\* So are the entries of its directory.
LEMMA BehindRight ==
  ASSUME NEW w \in ImageType, NEW bmp, NEW din \in [Inums -> InodeType],
         NEW blk \in [Blocks -> Contents], Right(bmp, din, blk), Behind(w, bmp, din, blk)
  PROVE  Right(w.bmap, w.din, w.blk)
<1>1. Sound(w.bmap, w.din, w.blk)  BY BehindSound DEF Right
<1>2. PICK d, c : d = w.din /\ c = w.blk  OBVIOUS
<1>3. ASSUME NEW n \in 0 .. MAXFILE - 1, NEW o \in Offs
      PROVE  EntryNames(d, DataIn(d, c, ROOTINO, n)[o])
  <2>1. n \in Places /\ ROOTINO \in Inums  BY Sizes DEF Places
  <2>2. At(d, c, ROOTINO, n) \in {0, At(din, blk, ROOTINO, n)}  BY <1>2, <2>1, BehindAddrs
  <2>3. CASE At(d, c, ROOTINO, n) = 0  BY <2>3 DEF DataIn, EntryNames, ZeroBlock, Zero, Unit
  <2>4. CASE At(d, c, ROOTINO, n) # 0
    <3>1. At(d, c, ROOTINO, n) = At(din, blk, ROOTINO, n)  BY <2>2, <2>4
    <3>2. c[At(din, blk, ROOTINO, n)] = blk[At(din, blk, ROOTINO, n)]
      BY <1>2, <2>1, <2>4, <3>1 DEF Behind
    <3>3. DataIn(d, c, ROOTINO, n) = DataIn(din, blk, ROOTINO, n)  BY <2>4, <3>1, <3>2 DEF DataIn
    <3>4. EntryNames(din, DataIn(din, blk, ROOTINO, n)[o])  BY DEF Right, Entered
    <3>5. \A i \in Inums : d[i].type = din[i].type  BY <1>2 DEF Behind
    <3> QED BY <3>3, <3>4, <3>5 DEF EntryNames, IsFile
  <2> QED BY <2>3, <2>4
<1> QED BY <1>1, <1>2, <1>3 DEF Right, Entered

LEMMA EnteredSame ==
  ASSUME NEW din, NEW blk, Entered(din, blk), NEW d, NEW c,
         \A n \in 0 .. MAXFILE - 1 : DataIn(d, c, ROOTINO, n) = DataIn(din, blk, ROOTINO, n),
         \A i \in Inums : din[i].type = T_FILE => d[i].type = T_FILE
  PROVE  Entered(d, c)
  BY DEF Entered, EntryNames, IsFile

----
(* States with the same addresses or data. *)
LEMMA EnteredStays ==
  ASSUME NEW s, Entered(Cur(s), s.blk), NEW t, SameData(s, t),
         \A i \in Inums : Cur(s)[i].type = T_FILE => Cur(t)[i].type = T_FILE
  PROVE  Entered(Cur(t), t.blk)
<1>1. \A n \in 0 .. MAXFILE - 1 :
        DataIn(Cur(t), t.blk, ROOTINO, n) = DataIn(Cur(s), s.blk, ROOTINO, n)
  BY Sizes DEF SameData, DataOf
<1> QED BY <1>1, EnteredSame

----
(* Allocating and freeing a block. *)

\* A block that nobody names yet, zeroed in the kernel and on the disk.
Fresh(s, b) ==
    /\ b \in NMETA .. FSSIZE - 1 /\ s.bmap[b]
    /\ s.blk[b] = ZeroBlock /\ OnDisk(s).blk[b] = ZeroBlock
    /\ \A i \in Inums, n \in Places : At(Cur(s), s.blk, i, n) # b

LEMMA BallocSound ==
  ASSUME NEW s, Typed(s), Table(s), Whole(s), NEW t, Typed(t), t.it = s.it, t.din = s.din,
         NEW b \in Blocks, ~ s.bmap[b], NEW w, w \in ImageType,
         t.bmap[b], \A a \in Blocks : s.bmap[a] => t.bmap[a],
         t.blk[b] = ZeroBlock, \A a \in Blocks \ {b} : t.blk[a] = s.blk[a],
         w.bmap = t.bmap, w.din = OnDisk(s).din, w.blk = OnDisk(s).blk,
         OnDisk(t).bmap = t.bmap, OnDisk(t).din = w.din, OnDisk(t).blk[b] = ZeroBlock,
         \A a \in Blocks \ {b} : OnDisk(t).blk[a] = w.blk[a]
  PROVE  /\ Right(w.bmap, w.din, w.blk) /\ Whole(t) /\ Fresh(t, b) /\ SameAddrs(s, t)
         /\ SameData(s, t)
<1>1. b \in Blocks /\ ~ s.bmap[b] /\ OneSlot(s) /\ OnDisk(s) \in ImageType /\ OnDisk(t) \in ImageType
  BY OnDiskTyped DEF Table, OneSlot
<1>2. PICK c : c = Cur(s)  OBVIOUS
<1>3. c \in [Inums -> InodeType] /\ Cur(t) = c  BY <1>1, <1>2, CurTyped, SameCur
<1>4. PICK d : d = OnDisk(s)  OBVIOUS
<1>5. d \in ImageType /\ Behind(d, s.bmap, c, s.blk) /\ Sound(s.bmap, c, s.blk)
      /\ Entered(c, s.blk)  BY <1>1, <1>2, <1>4 DEF Whole, Right
<1>6. /\ s.blk \in [Blocks -> Contents] /\ s.bmap \in [Blocks -> BOOLEAN]
      /\ t.blk \in [Blocks -> Contents] /\ t.bmap \in [Blocks -> BOOLEAN]  BY DEF Typed
<1>7. \A i \in Inums, n \in Places : At(c, s.blk, i, n) # b
  <2>1. \A a : s.bmap[a] => a # b  BY <1>1
  <2> QED BY <1>1, <1>5, <2>1, Sizes DEF Sound, Marked, OneOwner
<1>8. t.blk[b] = ZeroBlock /\ \A a \in Blocks \ {b} : t.blk[a] = s.blk[a]  OBVIOUS
<1>9. MAXFILE \in Places  BY Sizes DEF Places
<1>10. \A i \in Inums, n \in Places : At(c, s.blk, i, n) # 0 =>
          At(c, s.blk, i, n) \in Blocks \ {b}
  BY <1>5, <1>7, Sizes DEF Sound, OneOwner, Blocks
<1>11. \A i \in Inums, n \in Places : At(c, t.blk, i, n) = At(c, s.blk, i, n)
  BY <1>3, <1>6, <1>8, <1>9, <1>10, DataChange
<1>12. Sound(t.bmap, c, s.blk)  BY <1>5, MarkedMore
<1>13. Sound(t.bmap, c, t.blk)
  <2>1. \A i \in Inums : c[i].type = T_NONE => c[i].addrs = NoAddrs  BY <1>5 DEF Sound, OneOwner
  <2>2. \A i \in Inums, n \in Places : At(c, t.blk, i, n) \in {0, At(c, s.blk, i, n)}  BY <1>11
  <2> QED BY <1>12, <2>1, <2>2, FewerAddrs
<1>14. Right(w.bmap, w.din, w.blk)
  <2>1. Sound(d.bmap, d.din, d.blk) /\ Entered(d.din, d.blk)
    BY <1>3, <1>5, <1>6, BehindRight DEF Right
  <2>2. d.bmap = s.bmap  BY <1>5 DEF Behind
  <2>3. Sound(t.bmap, d.din, d.blk)  BY <2>1, <2>2, MarkedMore
  <2>4. w.bmap = t.bmap /\ w.din = d.din /\ w.blk = d.blk  BY <1>4
  <2> QED BY <2>1, <2>3, <2>4 DEF Right
<1>15. PICK e : e = OnDisk(t)  OBVIOUS
<1>16. /\ e.bmap = t.bmap /\ e.din = d.din /\ e.blk[b] = ZeroBlock
       /\ \A a \in Blocks \ {b} : e.blk[a] = d.blk[a]  BY <1>4, <1>15
<1>17. Behind(e, t.bmap, c, t.blk)
  <2>1. ASSUME NEW i \in Inums, NEW n \in Places, n = MAXFILE \/ i = ROOTINO, At(c, t.blk, i, n) # 0
        PROVE  e.blk[At(c, t.blk, i, n)] = t.blk[At(c, t.blk, i, n)]
    <3>1. PICK a : a = At(c, s.blk, i, n)  OBVIOUS
    <3>2. a # 0 /\ a = At(c, t.blk, i, n)  BY <1>11, <2>1, <3>1
    <3>3. a \in Blocks \ {b}  BY <1>10, <3>1, <3>2
    <3>4. d.blk[a] = s.blk[a]
      <4>1. At(c, s.blk, i, n) # 0  BY <3>1, <3>2
      <4>2. d.blk[At(c, s.blk, i, n)] = s.blk[At(c, s.blk, i, n)]  BY <1>5, <2>1, <4>1 DEF Behind
      <4> QED BY <3>1, <4>2
    <3> QED BY <1>8, <1>16, <3>2, <3>3, <3>4
  <2> QED BY <1>5, <1>16, <2>1 DEF Behind
<1>18. b \in NMETA .. FSSIZE - 1
  <2>1. \A a \in 0 .. NMETA - 1 : a # b  BY <1>1, <1>5 DEF Sound, Marked
  <2> QED BY <1>1, <2>1, Sizes DEF Blocks
<1>19. Fresh(t, b)
  <2>1. t.bmap[b]  OBVIOUS
  <2> QED BY <1>3, <1>7, <1>8, <1>11, <1>15, <1>16, <1>18, <2>1 DEF Fresh
<1>20. SameAddrs(s, t)  BY <1>2, <1>3, <1>11 DEF SameAddrs
<1>21. SameData(s, t)
  <2>1. ASSUME NEW i \in Inums, NEW n \in 0 .. MAXFILE - 1
        PROVE  DataIn(c, t.blk, i, n) = DataIn(c, s.blk, i, n)
    <3>1. n \in Places  BY Sizes DEF Places
    <3>2. At(c, t.blk, i, n) = At(c, s.blk, i, n)  BY <1>11, <3>1
    <3>3. At(c, s.blk, i, n) # 0 => t.blk[At(c, s.blk, i, n)] = s.blk[At(c, s.blk, i, n)]
      BY <1>8, <1>10, <3>1
    <3> QED BY <3>2, <3>3 DEF DataIn
  <2> QED BY <1>2, <1>3, <2>1 DEF SameData, DataOf
<1>22. Entered(c, t.blk)  BY <1>2, <1>3, <1>5, <1>21, EnteredStays
<1>23. Whole(t)  BY <1>3, <1>13, <1>15, <1>17, <1>22 DEF Whole, Right
<1> QED BY <1>14, <1>19, <1>20, <1>21, <1>23

Found(s, t) == Fresh(t, t.ret) /\ SameAddrs(s, t) /\ SameData(s, t)

\* The disk is as sound as the kernel.
LEMMA WholeRight ==
  ASSUME NEW s, Typed(s), Table(s), Whole(s)
  PROVE  Right(OnDisk(s).bmap, OnDisk(s).din, OnDisk(s).blk)
<1>1. Cur(s) \in [Inums -> InodeType]  BY CurTyped DEF Table, OneSlot
<1>2. s.blk \in [Blocks -> Contents] /\ OnDisk(s) \in ImageType  BY OnDiskTyped DEF Typed
<1>3. PICK w : w = OnDisk(s)  OBVIOUS
<1> QED BY <1>1, <1>2, <1>3, BehindRight DEF Whole

LEMMA BallocGood ==
  ASSUME NEW s, NEW K, NEW cut \in BOOLEAN, Good(s, K, cut), NEW t, t = balloc(s)
  PROVE  /\ Good(t, K, cut) /\ Goes(s, t, cut) /\ t.it = s.it /\ t.din = s.din /\ t.ret \in Blocks
         /\ t.why = "no" => /\ s.why = "no" /\ t.ret # 0
                            /\ \A b \in Blocks \ {t.ret} : t.blk[b] = s.blk[b]
                            /\ cut \/ Found(s, t)
<1>1. Typed(s) /\ LogGood(s, cut) /\ s.bmap[0]  BY GoodIs
<1>0. s.why = "no" => Table(s) /\ Stored(s, K) /\ (cut \/ Whole(s))  BY GoodIs DEF Live
<1>2. /\ Typed(t) /\ t.din = s.din /\ t.it = s.it /\ t.ret \in Blocks
      /\ \/ /\ s.why # "no" /\ t.log = s.log /\ t.why = s.why
         \/ /\ s.why = "no" /\ t.log = s.log /\ t.why = OutOfBlocks
         \/ /\ s.why = "no" /\ t.why = "no" /\ Taken(s, t.ret)
            /\ t.bmap = [s.bmap EXCEPT ![t.ret] = TRUE]
            /\ t.blk = [s.blk EXCEPT ![t.ret] = ZeroBlock]
            /\ \E w : /\ Range(t.log) = Range(s.log) \cup {w, OnDisk(t)}
                      /\ w = [OnDisk(s) EXCEPT !.bmap = t.bmap]
                      /\ OnDisk(t) = [w EXCEPT !.blk[t.ret] = ZeroBlock]
                      /\ w \in ImageType  BY <1>1, BallocFields
<1>5. t.bmap[0] /\ Goes(s, t, cut)  BY <1>1, <1>2, BallocFields, RoomIsPanic DEF Goes
<1>3. CASE t.why # "no"
  <2>1. t.log = s.log  BY <1>2, <1>3
  <2>2. LogGood(t, cut)  BY <1>1, <2>1 DEF LogGood
  <2>3. Good(t, K, cut)  BY <1>2, <1>3, <1>5, <2>2, GoodWhen
  <2> QED BY <1>2, <1>3, <1>5, <2>3
<1>4. CASE t.why = "no"
  <2>1. /\ s.why = "no" /\ Taken(s, t.ret)
        /\ t.bmap = [s.bmap EXCEPT ![t.ret] = TRUE]
        /\ t.blk = [s.blk EXCEPT ![t.ret] = ZeroBlock]  BY <1>2, <1>4, OutOfBlocksIsPanic
  <2>2. PICK w : /\ Range(t.log) = Range(s.log) \cup {w, OnDisk(t)}
                 /\ w = [OnDisk(s) EXCEPT !.bmap = t.bmap]
                 /\ OnDisk(t) = [w EXCEPT !.blk[t.ret] = ZeroBlock]
                 /\ w \in ImageType  BY <1>2, <1>4, OutOfBlocksIsPanic
  <2>3. Table(s) /\ Stored(s, K) /\ (cut \/ Whole(s))  BY <1>0, <2>1
  <2>4. PICK d : d = OnDisk(s)  OBVIOUS
  <2>5. d \in ImageType /\ d \in Range(s.log)  BY <1>1, <2>4, OnDiskTyped, LastImage
  <2>6. w.bmap = t.bmap /\ w.din = d.din /\ OnDisk(t).bmap = t.bmap /\ OnDisk(t).din = d.din
    BY <2>2, <2>4, <2>5 DEF ImageType
  <2>7. t.bmap[0] /\ t.ret # 0  BY <1>1, <1>2, <2>1, Sizes DEF Taken, Typed
  <2>8. Rooted(w) /\ Rooted(OnDisk(t))
    <3>1. Rooted(d)  BY <1>1, <2>5 DEF LogGood, Safe
    <3> QED BY <2>6, <2>7, <3>1 DEF Rooted
  <2>9. Table(t) /\ Stored(t, K)
    <3>1. s.din = d.din  BY <2>3, <2>4 DEF Table
    <3> QED BY <1>2, <2>3, <2>6, <3>1, SameCur
  <2>10. \A b \in Blocks \ {t.ret} : t.blk[b] = s.blk[b]  BY <1>1, <2>1 DEF Typed
  <2>11. CASE cut
    <3>1. LogGood(t, cut)  BY <1>1, <2>2, <2>8, <2>11 DEF LogGood, Safe
    <3>2. Good(t, K, cut)  BY <1>2, <1>5, <2>9, <2>11, <3>1, GoodWhen DEF Live
    <3> QED BY <1>2, <1>5, <2>1, <2>7, <2>10, <2>11, <3>2
  <2>12. CASE ~ cut
    <3>1. /\ Right(w.bmap, w.din, w.blk) /\ Whole(t) /\ Found(s, t)
      <4>1. /\ Typed(s) /\ Table(s) /\ Whole(s)
            /\ Typed(t) /\ t.it = s.it /\ t.din = s.din /\ t.ret \in Blocks /\ ~ s.bmap[t.ret]
            /\ w \in ImageType  BY <1>1, <1>2, <2>1, <2>2, <2>3, <2>12 DEF Taken
      <4>2. /\ t.bmap[t.ret] /\ \A a \in Blocks : s.bmap[a] => t.bmap[a]
            /\ t.blk[t.ret] = ZeroBlock /\ \A a \in Blocks \ {t.ret} : t.blk[a] = s.blk[a]
        BY <1>1, <1>2, <2>1 DEF Typed
      <4>3. /\ w.bmap = t.bmap /\ w.din = OnDisk(s).din /\ w.blk = OnDisk(s).blk
            /\ OnDisk(t).bmap = t.bmap /\ OnDisk(t).din = w.din  BY <2>2, <2>4, <2>5 DEF ImageType
      <4>4. OnDisk(t).blk[t.ret] = ZeroBlock /\ \A a \in Blocks \ {t.ret} : OnDisk(t).blk[a] = w.blk[a]
        BY <1>2, <2>2 DEF ImageType
      <4> QED BY <4>1, <4>2, <4>3, <4>4, BallocSound DEF Found
    <3>3. Right(OnDisk(t).bmap, OnDisk(t).din, OnDisk(t).blk)  BY <1>2, <2>9, <3>1, WholeRight
    <3>4. LogGood(t, cut)  BY <1>1, <2>2, <2>8, <3>1, <3>3 DEF LogGood, Safe
    <3>5. Good(t, K, cut)  BY <1>2, <1>5, <2>9, <3>1, <3>4, GoodWhen DEF Live
    <3> QED BY <1>2, <1>5, <2>1, <2>7, <2>10, <3>1, <3>5
  <2> QED BY <2>11, <2>12
<1> QED BY <1>3, <1>4

----
(* What the allocation of blocks leaves as it is. *)
LEMMA WidenedTwice ==
  ASSUME NEW s, NEW t, NEW u, Widened(s, t), Widened(t, u)
  PROVE  Widened(s, u)
<1>1. u.din = s.din /\ (u.why = "no" => s.why = "no")  BY DEF Widened
<1>2. ASSUME NEW l \in Slots
      PROVE  /\ SameSlot(s.it[l], u.it[l])
             /\ u.it[l].copy.type = s.it[l].copy.type /\ u.it[l].copy.size = s.it[l].copy.size
             /\ \A m \in 0 .. NDIRECT : s.it[l].copy.addrs[m] # 0 =>
                   u.it[l].copy.addrs[m] = s.it[l].copy.addrs[m]
  BY DEF Widened, SameSlot
<1> QED BY <1>1, <1>2 DEF Widened

LEMMA WidenedBusy ==
  ASSUME NEW s, NEW t, Widened(s, t)
  PROVE  \A l \in Slots : Busy(t, l) <=> Busy(s, l)
  BY DEF Widened, Busy, SameSlot

\* Only what a function returns is different.
LEMMA RetGood ==
  ASSUME NEW s, NEW K, NEW cut, Good(s, K, cut), NEW x, NEW t, t = Ret(s, x)
  PROVE  /\ Good(t, K, cut) /\ t.it = s.it /\ t.din = s.din /\ t.blk = s.blk /\ t.bmap = s.bmap
         /\ t.why = s.why /\ t.ret = x /\ t.log = s.log /\ Widened(s, t)
         /\ SameAddrs(s, t) /\ SameData(s, t) /\ Cur(t) = Cur(s)
         /\ Goes(s, t, cut)
<1>1. /\ Typed(s) /\ LogGood(s, cut) /\ s.bmap[0]
      /\ s.why = "no" => Table(s) /\ Stored(s, K) /\ (cut \/ Whole(s))  BY GoodIs DEF Live
<1>2. /\ Typed(t) /\ t.bmap = s.bmap /\ t.din = s.din /\ t.blk = s.blk /\ t.log = s.log
      /\ t.it = s.it /\ t.ret = x /\ t.why = s.why  BY <1>1, RetFields
<1>3. Cur(t) = Cur(s) /\ OnDisk(t) = OnDisk(s) /\ (Stored(s, K) => Stored(t, K))
      /\ (Table(s) => Table(t)) /\ (LogGood(s, cut) => LogGood(t, cut))
      /\ (Whole(s) => Whole(t))
  <2>1. OnDisk(t) = OnDisk(s)  BY <1>2 DEF OnDisk
  <2>2. Table(s) => t.din = OnDisk(t).din  BY <1>2, <2>1 DEF Table
  <2> QED BY <1>2, <2>1, <2>2, SameCur DEF LogGood, Whole
<1>4. Good(t, K, cut)  BY <1>1, <1>2, <1>3, GoodWhen DEF Live
<1>5. SameAddrs(s, t) /\ SameData(s, t)  BY <1>2, <1>3 DEF SameAddrs, SameData, DataOf
<1> QED BY <1>2, <1>3, <1>4, <1>5 DEF Widened, SameSlot, Goes

LEMMA PanicGood ==
  ASSUME NEW s, NEW K, NEW cut, Good(s, K, cut), NEW msg, msg # "no", NEW t, t = Panic(s, msg)
  PROVE  /\ Good(t, K, cut) /\ t.it = s.it /\ t.din = s.din /\ t.why # "no" /\ t.ret = s.ret
         /\ cut \/ msg \in Room \/ s.why # "no" => Goes(s, t, cut)
<1>1. Typed(s) /\ LogGood(s, cut) /\ s.bmap[0]  BY GoodIs
<1>2. /\ Typed(t) /\ t.bmap = s.bmap /\ t.din = s.din /\ t.log = s.log
      /\ t.it = s.it /\ t.ret = s.ret /\ t.why = IF s.why = "no" THEN msg ELSE s.why
  BY <1>1, PanicFields
<1>3. LogGood(t, cut) /\ t.why # "no"  BY <1>1, <1>2 DEF LogGood
<1> QED BY <1>1, <1>2, <1>3, GoodWhen DEF Goes

\* The data of inodes whose addresses are the same but for a new one.
LEMMA DataWithOneMore ==
  ASSUME NEW s, NEW t, Sound(s.bmap, Cur(s), s.blk),
         NEW i0 \in Inums, NEW p \in Places, NEW b, t.blk[b] = ZeroBlock,
         At(Cur(s), s.blk, i0, p) = 0,
         \A i \in Inums, n \in Places :
            At(Cur(t), t.blk, i, n) = IF i = i0 /\ n = p THEN b ELSE At(Cur(s), s.blk, i, n),
         \A i \in Inums, n \in 0 .. MAXFILE - 1 : At(Cur(s), s.blk, i, n) # 0 =>
            t.blk[At(Cur(s), s.blk, i, n)] = s.blk[At(Cur(s), s.blk, i, n)]
  PROVE  SameData(s, t)
<1> SUFFICES ASSUME NEW i \in Inums, NEW n \in 0 .. MAXFILE - 1 PROVE DataOf(t, i, n) = DataOf(s, i, n)
  BY DEF SameData
<1>1. n \in Places  BY Sizes DEF Places
<1>2. CASE i = i0 /\ n = p  BY <1>1, <1>2 DEF DataOf, DataIn
<1>3. CASE ~ (i = i0 /\ n = p)  BY <1>1, <1>3 DEF DataOf, DataIn
<1> QED BY <1>2, <1>3

----
(* A block enters an inode in memory. *)
LEMMA EnterCur ==
  ASSUME NEW s, Typed(s), Table(s), NEW k \in Slots, InUse(s, k),
         NEW n \in 0 .. NDIRECT, NEW b \in Blocks, NEW t, Typed(t), t.din = s.din,
         \A l \in Slots \ {k} : t.it[l] = s.it[l],
         SameSlot(s.it[k], t.it[k]),
         NEW i, i = s.it[k].inum
  PROVE  t.it[k].copy = WithAddr(s.it[k].copy, n, b) =>
           Cur(t) = WithInodeAddr(Cur(s), i, n, b) /\ Cur(s)[i] = s.it[k].copy
<1>0. SUFFICES ASSUME t.it[k].copy = WithAddr(s.it[k].copy, n, b)
               PROVE  Cur(t) = WithInodeAddr(Cur(s), i, n, b) /\ Cur(s)[i] = s.it[k].copy  OBVIOUS
<1>1. OneSlot(s) /\ i \in Inums  BY DEF Table, OneSlot, InUse
<1>13. \A l \in Slots : SameSlot(s.it[l], t.it[l])  BY DEF SameSlot
<1>2. \A l \in Slots : Busy(t, l) <=> Busy(s, l)  BY <1>13 DEF Busy, SameSlot
<1>3. \A j \in Inums : InMemory(t, j) = InMemory(s, j)  BY <1>2, <1>13 DEF InMemory, SameSlot
<1>4. OneSlot(t)  BY <1>1, <1>2, <1>13 DEF OneSlot, SameSlot
<1>5. k \in InMemory(s, i)  BY DEF InMemory, InUse
<1>6. Cur(s)[i] = s.it[k].copy  BY <1>1, <1>5, CurrentIn DEF Cur
<1>7. PICK f : f = WithInodeAddr(Cur(s), i, n, b)  OBVIOUS
<1>8. DOMAIN Cur(s) = Inums  BY DEF Cur
<1>9. /\ f = [j \in Inums |-> f[j]] /\ f[i] = t.it[k].copy
      /\ \A j \in Inums \ {i} : f[j] = Cur(s)[j]
  BY <1>0, <1>1, <1>6, <1>7, <1>8 DEF WithAddr, WithInodeAddr
<1>10. ASSUME NEW j \in Inums, NEW l \in InMemory(t, j) PROVE f[j] = t.it[l].copy
  <2>1. l \in InMemory(s, j) /\ l \in Slots /\ s.it[l].inum = j /\ Busy(s, l)  BY <1>3 DEF InMemory
  <2>2. CASE l = k  BY <1>9, <2>1, <2>2
  <2>3. CASE l # k
    <3>1. j # i  BY <1>1, <2>1, <2>3 DEF OneSlot, InUse
    <3>2. Current(s, j) = s.it[l].copy  BY <1>1, <2>1, CurrentIn
    <3> QED BY <1>9, <2>1, <2>3, <3>1, <3>2 DEF Cur
  <2> QED BY <2>2, <2>3
<1>11. ASSUME NEW j \in Inums, InMemory(t, j) = {} PROVE f[j] = t.din[j]
  <2>1. InMemory(s, j) = {} /\ j # i  BY <1>3, <1>5, <1>11
  <2>2. Current(s, j) = s.din[j]  BY <2>1, CurrentOut
  <2> QED BY <1>9, <2>1, <2>2 DEF Cur
<1>12. Cur(t) = f
  <2>1. \A j \in Inums : \A l \in InMemory(t, j) : f[j] = t.it[l].copy  BY <1>10
  <2>2. \A j \in Inums : InMemory(t, j) = {} => f[j] = t.din[j]  BY <1>11
  <2>3. f \in [Inums -> InodeType]
    <3>1. t.it[k].copy \in InodeType  BY DEF Typed, SlotType
    <3>2. Cur(s) \in [Inums -> InodeType]  BY <1>1, CurTyped
    <3>3. \A j \in Inums : f[j] \in InodeType  BY <1>9, <3>1, <3>2
    <3> QED BY <1>9, <3>3
  <2> QED BY <1>4, <2>1, <2>2, <2>3, CurIs
<1> QED BY <1>6, <1>7, <1>12

LEMMA EntryTyped ==
  ASSUME NEW bn \in Nat
  PROVE  EntryOf(bn) \in 0 .. NDIRECT
  BY Sizes DEF EntryOf

LEMMA BlockOf ==
  ASSUME NEW o \in Nat
  PROVE  o \div BSIZE \in Nat /\ o % BSIZE \in Offs
<1>1. BSIZE \in Nat /\ BSIZE > 0  BY Sizes
<1>2. o \div BSIZE \in Int /\ o % BSIZE \in 0 .. BSIZE - 1 /\ o \div BSIZE >= 0  BY <1>1
<1> QED BY <1>2 DEF Offs

LEMMA FilledGrows ==
  ASSUME NEW c \in InodeType, NEW d, Filled(c), d.size = c.size,
         \A m \in 0 .. NDIRECT : c.addrs[m] # 0 => d.addrs[m] = c.addrs[m]
  PROVE  Filled(d)
<1>1. SUFFICES ASSUME NEW o \in 0 .. c.size - 1 PROVE d.addrs[EntryOf(o \div BSIZE)] # 0
  BY DEF Filled
<1>2. o \in Nat  BY <1>1
<1>3. EntryOf(o \div BSIZE) \in 0 .. NDIRECT  BY <1>2, BlockOf, EntryTyped
<1>4. c.addrs[EntryOf(o \div BSIZE)] # 0  BY <1>1 DEF Filled
<1> QED BY <1>3, <1>4

\* The place of an address that is an inode's own.
PlaceOf(n) == IF n = NDIRECT THEN MAXFILE ELSE n

LEMMA EnterGood ==
  ASSUME NEW s, NEW K, NEW cut, Good(s, K, cut), NEW k \in Slots, NEW n \in 0 .. NDIRECT,
         NEW b \in Blocks, NEW t, Typed(t), t.din = s.din, t.bmap = s.bmap, t.blk = s.blk,
         t.log = s.log, t.why = s.why,
         \A l \in Slots \ {k} : t.it[l] = s.it[l],
         SameSlot(s.it[k], t.it[k]),
         s.why = "no" => /\ InUse(s, k) /\ s.it[k].copy.addrs[n] = 0 /\ b # 0
                         /\ cut \/ Fresh(s, b)
                         /\ s.it[k].inum = ROOTINO \/ k \in K
  PROVE  t.it[k].copy = WithAddr(s.it[k].copy, n, b) =>
           /\ Good(t, K, cut)
           /\ t.why = "no" => Widened(s, t)
           /\ t.why = "no" /\ ~ cut =>
                /\ SameData(s, t)
                /\ \A i \in Inums, m \in Places :
                     At(Cur(t), t.blk, i, m) = IF i = s.it[k].inum /\ m = PlaceOf(n) THEN b
                                               ELSE At(Cur(s), s.blk, i, m)
<1>0. SUFFICES ASSUME t.it[k].copy = WithAddr(s.it[k].copy, n, b)
               PROVE  /\ Good(t, K, cut)
                      /\ t.why = "no" => Widened(s, t)
                      /\ t.why = "no" /\ ~ cut =>
                           /\ SameData(s, t)
                           /\ \A i \in Inums, m \in Places :
                                At(Cur(t), t.blk, i, m) = IF i = s.it[k].inum /\ m = PlaceOf(n) THEN b
                                                          ELSE At(Cur(s), s.blk, i, m)
  OBVIOUS
<1>1. /\ Typed(s) /\ LogGood(s, cut) /\ s.bmap[0]
      /\ s.why = "no" => Table(s) /\ Stored(s, K) /\ (cut \/ Whole(s))  BY GoodIs DEF Live
<1>2. LogGood(t, cut) /\ t.bmap[0] /\ OnDisk(t) = OnDisk(s)  BY <1>1 DEF LogGood, OnDisk
<1>3. CASE t.why # "no"  BY <1>2, <1>3, GoodWhen
<1>4. CASE t.why = "no"
  <2>1. /\ Table(s) /\ Stored(s, K) /\ InUse(s, k) /\ s.it[k].copy.addrs[n] = 0 /\ b # 0
        /\ s.it[k].inum = ROOTINO \/ k \in K  BY <1>1, <1>4
  <2>2. PICK i : i = s.it[k].inum  OBVIOUS
  <2>3. i \in Inums /\ s.din[i].type # T_NONE /\ s.it[k].copy.type = s.din[i].type
    BY <2>1, <2>2 DEF Table, InUse
  <2>4. Cur(t) = WithInodeAddr(Cur(s), i, n, b) /\ Cur(s)[i] = s.it[k].copy
    BY <1>0, <1>1, <2>1, <2>2, EnterCur
  <2>5. s.it[k].copy \in InodeType  BY <1>1 DEF Typed, SlotType
  <2>6. /\ t.it[k].copy.type = s.it[k].copy.type /\ t.it[k].copy.size = s.it[k].copy.size
        /\ \A m \in 0 .. NDIRECT : s.it[k].copy.addrs[m] # 0 =>
              t.it[k].copy.addrs[m] = s.it[k].copy.addrs[m]
    <3>1. PICK c, d : c = s.it[k].copy /\ d = t.it[k].copy  OBVIOUS
    <3>2. c \in InodeType /\ d = WithAddr(c, n, b) /\ c.addrs[n] = 0  BY <1>0, <2>1, <2>5, <3>1
    <3>3. d.type = c.type /\ d.size = c.size /\ d.addrs = [c.addrs EXCEPT ![n] = b]
      BY <3>2 DEF InodeType, WithAddr
    <3>4. c.addrs \in [0 .. NDIRECT -> Blocks]  BY <3>2 DEF InodeType
    <3>5. \A m \in 0 .. NDIRECT : c.addrs[m] # 0 => d.addrs[m] = c.addrs[m]  BY <3>2, <3>3, <3>4
    <3> QED BY <3>1, <3>3, <3>5
  <2>7. Widened(s, t)
    <3>1. ASSUME NEW l \in Slots
          PROVE  /\ SameSlot(s.it[l], t.it[l])
                 /\ t.it[l].copy.type = s.it[l].copy.type /\ t.it[l].copy.size = s.it[l].copy.size
                 /\ \A m \in 0 .. NDIRECT : s.it[l].copy.addrs[m] # 0 =>
                       t.it[l].copy.addrs[m] = s.it[l].copy.addrs[m]
      <4>1. CASE l = k  BY <2>6, <4>1
      <4>2. CASE l # k  BY <4>2 DEF SameSlot
      <4> QED BY <4>1, <4>2
    <3> QED BY <3>1 DEF Widened
  <2>8. \A l \in Slots : Busy(t, l) <=> Busy(s, l)  BY <2>7, WidenedBusy
  <2>9. Table(t)
    <3>1. t.din = OnDisk(t).din  BY <1>2, <2>1 DEF Table
    <3>2. \A l \in Slots : /\ t.it[l].inum = s.it[l].inum /\ t.it[l].valid = s.it[l].valid
                           /\ t.it[l].copy.type = s.it[l].copy.type  BY <2>7 DEF Widened, SameSlot
    <3>3. ASSUME NEW l \in Slots, Busy(t, l), t.it[l].valid, t.it[l].inum # ROOTINO
          PROVE  Filled(t.it[l].copy)
      <4>1. Filled(s.it[l].copy)  BY <2>1, <2>8, <3>2, <3>3 DEF Table
      <4>2. s.it[l].copy \in InodeType  BY <1>1 DEF Typed, SlotType
      <4>3. t.it[l].copy.size = s.it[l].copy.size /\ \A m \in 0 .. NDIRECT :
              s.it[l].copy.addrs[m] # 0 => t.it[l].copy.addrs[m] = s.it[l].copy.addrs[m]
        BY <2>7 DEF Widened
      <4> QED BY <4>1, <4>2, <4>3, FilledGrows
    <3> QED BY <2>1, <2>8, <3>1, <3>2, <3>3 DEF Table
  <2>10. Stored(t, K)
    <3>1. ASSUME NEW l \in Slots \ K, Busy(t, l), t.it[l].valid, t.it[l].inum # ROOTINO
          PROVE  t.it[l].copy = t.din[t.it[l].inum]
      <4>1. l # k  BY <2>1, <3>1 DEF SameSlot
      <4> QED BY <2>1, <2>8, <3>1, <4>1 DEF Stored
    <3> QED BY <3>1 DEF Stored
  <2>11. CASE cut  BY <1>2, <2>7, <2>9, <2>10, <2>11, GoodWhen DEF Live
  <2>12. CASE ~ cut
    <3>1. Sound(s.bmap, Cur(s), s.blk) /\ Behind(OnDisk(s), s.bmap, Cur(s), s.blk) /\ Fresh(s, b)
      BY <1>1, <1>4, <2>12 DEF Whole, Right
    <3>2. PICK c, d, e : c = Cur(s) /\ d = Cur(t) /\ e = OnDisk(s)  OBVIOUS
    <3>3. c \in [Inums -> InodeType] /\ s.blk \in [Blocks -> Contents] /\ c[i] = s.it[k].copy
      BY <1>1, <2>1, <2>4, <3>2, CurTyped DEF Typed, Table, OneSlot
    <3>4. c[i].addrs[n] = 0 /\ c[i].type # T_NONE /\ b \in NMETA .. FSSIZE - 1 /\ s.bmap[b]
          /\ s.blk[b] = ZeroBlock /\ e.blk[b] = ZeroBlock
          /\ \A j \in Inums, m \in Places : At(c, s.blk, j, m) # b
      BY <2>1, <2>3, <3>1, <3>2, <3>3 DEF Fresh
    <3>5. d = WithInodeAddr(c, i, n, b)  BY <2>4, <3>2
    <3>6. /\ d \in [Inums -> InodeType] /\ Sound(s.bmap, d, s.blk)
          /\ \A j \in Inums, m \in Places :
               At(d, s.blk, j, m) = IF j = i /\ m = (IF n = NDIRECT THEN MAXFILE ELSE n) THEN b
                                    ELSE At(c, s.blk, j, m)
      BY <2>3, <3>1, <3>2, <3>3, <3>4, <3>5, EnterDirect
    <3>7. \A j \in Inums, m \in Places :
               At(d, s.blk, j, m) = IF j = i /\ m = PlaceOf(n) THEN b ELSE At(c, s.blk, j, m)
      BY <3>6 DEF PlaceOf
    <3>8. PlaceOf(n) \in Places  BY Sizes DEF PlaceOf, Places
    <3>9. At(c, s.blk, i, PlaceOf(n)) = 0
      <4>1. CASE n = NDIRECT  BY <2>3, <3>3, <3>4, <3>8, <4>1, AddrTyped DEF PlaceOf
      <4>2. CASE n # NDIRECT
        <5>1. n < NDIRECT /\ PlaceOf(n) = n  BY <4>2, Sizes DEF PlaceOf
        <5> QED BY <2>3, <3>3, <3>4, <3>8, <5>1, AddrTyped
      <4> QED BY <4>1, <4>2
    <3>10. SameData(s, t)  BY <2>3, <3>1, <3>2, <3>4, <3>7, <3>8, <3>9, DataWithOneMore
    <3>11. Behind(e, s.bmap, d, s.blk)
      <4>0. Behind(e, s.bmap, c, s.blk)  BY <3>1, <3>2
      <4>1. \A j \in Inums : d[j].type = c[j].type  BY <3>3, <3>5 DEF InodeType, WithInodeAddr
      <4>2. ASSUME NEW j \in Inums, NEW m \in 0 .. NDIRECT
            PROVE  e.din[j].addrs[m] \in {0, d[j].addrs[m]}
        <5>1. e.din[j].addrs[m] \in {0, c[j].addrs[m]}  BY <4>0 DEF Behind
        <5>2. CASE j = i /\ m = n  BY <3>4, <5>1, <5>2
        <5>3. CASE ~ (j = i /\ m = n)
          <6>1. d[j].addrs[m] = c[j].addrs[m]
            BY <2>3, <3>3, <3>5, <5>3 DEF InodeType, WithInodeAddr
          <6> QED BY <5>1, <6>1
        <5> QED BY <5>2, <5>3
      <4>3. ASSUME NEW j \in Inums, NEW m \in Places, m = MAXFILE \/ j = ROOTINO, At(d, s.blk, j, m) # 0
            PROVE  e.blk[At(d, s.blk, j, m)] = s.blk[At(d, s.blk, j, m)]
        <5>1. CASE j = i /\ m = PlaceOf(n)  BY <3>4, <3>7, <5>1
        <5>2. CASE ~ (j = i /\ m = PlaceOf(n))
          <6>1. At(d, s.blk, j, m) = At(c, s.blk, j, m)  BY <3>7, <5>2
          <6> QED BY <4>0, <4>3, <6>1 DEF Behind
        <5> QED BY <5>1, <5>2
      <4> QED BY <4>0, <4>1, <4>2, <4>3 DEF Behind
    <3>13. Whole(t)
      <4>1. Entered(Cur(s), s.blk)  BY <1>1, <1>4, <2>12 DEF Whole, Right
      <4>2. \A j \in Inums : d[j].type = c[j].type  BY <3>3, <3>5 DEF InodeType, WithInodeAddr
      <4>3. Entered(Cur(t), t.blk)  BY <3>2, <3>10, <4>1, <4>2, EnteredStays
      <4> QED BY <1>2, <3>2, <3>6, <3>11, <4>3 DEF Whole, Right
    <3>12. Good(t, K, cut)  BY <1>2, <2>9, <2>10, <3>13, GoodWhen DEF Live
    <3> QED BY <2>2, <2>7, <3>2, <3>7, <3>10, <3>12
  <2> QED BY <2>11, <2>12
<1> QED BY <1>3, <1>4

----
(* bmap: the block of an inode, which may be allocated. *)
LEMMA BmapDirectGood ==
  ASSUME NEW s, NEW K, NEW cut \in BOOLEAN, Good(s, K, cut), NEW k \in Slots, NEW n \in 0 .. NDIRECT,
         s.why = "no" => /\ InUse(s, k)
                         /\ s.it[k].inum = ROOTINO \/ k \in K \/ s.it[k].copy.addrs[n] # 0,
         NEW t, t = bmapDirect(s, k, n)
  PROVE  /\ Good(t, K, cut) /\ Goes(s, t, cut) /\ t.ret \in Blocks
         /\ t.why = "no" => /\ Widened(s, t) /\ t.ret # 0 /\ t.it[k].copy.addrs[n] = t.ret
                            /\ cut \/ SameData(s, t)
<1>1. Typed(s) /\ s.it[k].copy \in InodeType  BY GoodIs DEF Typed, SlotType
<1>2. s.it[k].copy.addrs \in [0 .. NDIRECT -> Blocks]  BY <1>1 DEF InodeType
<1>3. CASE s.it[k].copy.addrs[n] # 0
  <2>1. t = Ret(s, s.it[k].copy.addrs[n])  BY <1>3 DEF bmapDirect
  <2>2. /\ Good(t, K, cut) /\ t.it = s.it /\ t.ret = s.it[k].copy.addrs[n] /\ Widened(s, t)
        /\ SameData(s, t) /\ Goes(s, t, cut)  BY <2>1, RetGood
  <2> QED BY <1>2, <1>3, <2>2
<1>4. CASE s.it[k].copy.addrs[n] = 0
  <2>1. PICK a : a = balloc(s)  OBVIOUS
  <2>2. /\ Good(a, K, cut) /\ Goes(s, a, cut) /\ a.it = s.it /\ a.din = s.din /\ a.ret \in Blocks
        /\ a.why = "no" => s.why = "no" /\ a.ret # 0 /\ (cut \/ Found(s, a))  BY <2>1, BallocGood
  <2>3. Typed(a)  BY <2>2, GoodIs
  <2>4. PICK c : c = WithAddr(a.it[k].copy, n, a.ret)  OBVIOUS
  <2>5. PICK x : x = [a.it EXCEPT ![k].copy = c]  OBVIOUS
  <2>6. t = [a EXCEPT !.it = x]
    <3>1. t = [a EXCEPT !.it[k].copy.addrs[n] = a.ret]  BY <1>4, <2>1 DEF bmapDirect
    <3> QED BY <2>4, <2>5, <3>1 DEF WithAddr
  <2>7. c \in InodeType /\ c.addrs[n] = a.ret  BY <1>1, <2>2, <2>4 DEF WithAddr, InodeType
  <2>8. a.it \in [Slots -> SlotType]  BY <2>3 DEF Typed
  <2>9. /\ x \in [Slots -> SlotType] /\ x[k].copy = c /\ SameSlot(a.it[k], x[k])
        /\ \A l \in Slots \ {k} : x[l] = a.it[l]  BY <2>5, <2>7, <2>8 DEF SlotType, SameSlot
  <2>10. /\ Typed(t) /\ t.bmap = a.bmap /\ t.din = a.din /\ t.blk = a.blk /\ t.it = x
         /\ t.ret = a.ret /\ t.why = a.why /\ t.log = a.log  BY <2>3, <2>6, <2>9, TableFields
  <2>11. a.why = "no" => /\ InUse(a, k) /\ a.it[k].copy.addrs[n] = 0 /\ a.ret # 0
                         /\ cut \/ Fresh(a, a.ret)
                         /\ a.it[k].inum = ROOTINO \/ k \in K  BY <1>4, <2>2 DEF InUse, Busy, Found
  <2>12. /\ Good(t, K, cut)
         /\ t.why = "no" => Widened(a, t)
         /\ t.why = "no" /\ ~ cut => SameData(a, t)
    <3>1. \A l \in Slots \ {k} : t.it[l] = a.it[l]  BY <2>9, <2>10
    <3>2. SameSlot(a.it[k], t.it[k]) /\ t.it[k].copy = WithAddr(a.it[k].copy, n, a.ret)
      BY <2>4, <2>9, <2>10
    <3> HIDE DEF Good
    <3> QED BY <2>2, <2>10, <2>11, <3>1, <3>2, EnterGood
  <2>15. Goes(s, t, cut)  BY <2>2, <2>10 DEF Goes
  <2>13. CASE t.why # "no"  BY <2>2, <2>10, <2>12, <2>13, <2>15
  <2>14. CASE t.why = "no"
    <3>1. Widened(s, a)  BY <2>2 DEF Widened, SameSlot
    <3>2. Widened(s, t)  BY <2>12, <2>14, <3>1, WidenedTwice
    <3>3. t.ret # 0 /\ t.it[k].copy.addrs[n] = t.ret  BY <2>2, <2>7, <2>9, <2>10, <2>14
    <3>4. ASSUME ~ cut PROVE SameData(s, t)
      <4>1. SameData(a, t) /\ SameData(s, a)  BY <2>2, <2>10, <2>12, <2>14, <3>4 DEF Found
      <4> QED BY <4>1 DEF SameData
    <3> QED BY <2>10, <2>2, <2>12, <2>15, <3>2, <3>3, <3>4
  <2> QED BY <2>13, <2>14
<1> QED BY <1>3, <1>4

\* The kernel and the disk once address a is in an indirect block b of both.
EnteredIn(s, t, k, b, o, a) ==
    /\ b = s.it[k].copy.addrs[NDIRECT] /\ b # 0 /\ s.blk[b][o][1] = 0
    /\ t.blk = WithBlockAddr(s.blk, b, o, a)
    /\ OnDisk(t).bmap = OnDisk(s).bmap /\ OnDisk(t).din = OnDisk(s).din
    /\ OnDisk(t).blk[b] = t.blk[b]
    /\ \A x \in Blocks \ {b} : OnDisk(t).blk[x] = OnDisk(s).blk[x]

LEMMA EnterIndirectBoth ==
  ASSUME NEW s, Typed(s), Table(s), Whole(s), NEW a, Fresh(s, a),
         NEW k \in Slots, InUse(s, k), NEW b \in Blocks, NEW o \in Offs,
         NEW t, Typed(t), t.it = s.it, t.din = s.din, t.bmap = s.bmap,
         EnteredIn(s, t, k, b, o, a)
  PROVE  Whole(t) /\ SameData(s, t) /\ At(Cur(t), t.blk, s.it[k].inum, NDIRECT + o) = a
<1>0. SUFFICES ASSUME b = s.it[k].copy.addrs[NDIRECT], b # 0, s.blk[b][o][1] = 0,
                      t.blk = WithBlockAddr(s.blk, b, o, a),
                      OnDisk(t).bmap = OnDisk(s).bmap, OnDisk(t).din = OnDisk(s).din,
                      OnDisk(t).blk[b] = t.blk[b],
                      \A x \in Blocks \ {b} : OnDisk(t).blk[x] = OnDisk(s).blk[x]
               PROVE  Whole(t) /\ SameData(s, t) /\ At(Cur(t), t.blk, s.it[k].inum, NDIRECT + o) = a
  BY DEF EnteredIn
<1>1. PICK d, e, f, i, c : d = Cur(s) /\ e = OnDisk(s) /\ f = OnDisk(t) /\ i = s.it[k].inum
                           /\ c = t.blk  OBVIOUS
<1>2. OneSlot(s) /\ i \in Inums /\ k \in InMemory(s, i)  BY <1>1 DEF Table, OneSlot, InUse, InMemory
<1>3. d \in [Inums -> InodeType] /\ Cur(t) = d /\ d[i] = s.it[k].copy
  <2>1. Cur(s)[i] = s.it[k].copy  BY <1>2, CurrentIn DEF Cur
  <2> QED BY <1>1, <1>2, <2>1, CurTyped, SameCur
<1>4. /\ s.blk \in [Blocks -> Contents] /\ Sound(s.bmap, d, s.blk) /\ Behind(e, s.bmap, d, s.blk)
      /\ b = d[i].addrs[NDIRECT] /\ a \in NMETA .. FSSIZE - 1 /\ s.bmap[a] /\ s.blk[a] = ZeroBlock
      /\ e.blk[a] = ZeroBlock /\ \A j \in Inums, m \in Places : At(d, s.blk, j, m) # a
  <2>1. s.blk \in [Blocks -> Contents]  BY DEF Typed
  <2>2. Sound(s.bmap, d, s.blk) /\ Behind(e, s.bmap, d, s.blk)  BY <1>1 DEF Whole, Right
  <2>3. b = d[i].addrs[NDIRECT]  BY <1>0, <1>3
  <2>4. a \in NMETA .. FSSIZE - 1 /\ s.bmap[a] /\ s.blk[a] = ZeroBlock
      /\ e.blk[a] = ZeroBlock /\ \A j \in Inums, m \in Places : At(d, s.blk, j, m) # a
    BY <1>1 DEF Fresh
  <2> QED BY <2>1, <2>2, <2>3, <2>4
<1>20. b # 0 /\ s.blk[b][o][1] = 0 /\ c = WithBlockAddr(s.blk, b, o, a)  BY <1>0, <1>1
<1>5. /\ c \in [Blocks -> Contents] /\ Sound(s.bmap, d, c)
      /\ \A j \in Inums, m \in Places :
           At(d, c, j, m) = IF j = i /\ m = NDIRECT + o THEN a ELSE At(d, s.blk, j, m)
  <2>1. PICK m, k2, blk : m = s.bmap /\ blk = s.blk  OBVIOUS
  <2>2. /\ d \in [Inums -> InodeType] /\ blk \in [Blocks -> Contents] /\ Sound(m, d, blk)
        /\ i \in Inums /\ b = d[i].addrs[NDIRECT] /\ b # 0 /\ blk[b][o][1] = 0
        /\ a \in NMETA .. FSSIZE - 1 /\ m[a] /\ (\A j \in Inums, n \in Places : At(d, blk, j, n) # a)
        /\ c = WithBlockAddr(blk, b, o, a)  BY <1>20, <1>2, <1>3, <1>4, <2>1
  <2>3. /\ c \in [Blocks -> Contents] /\ Sound(m, d, c)
        /\ \A j \in Inums, n \in Places :
             At(d, c, j, n) = IF j = i /\ n = NDIRECT + o THEN a ELSE At(d, blk, j, n)
    BY <2>2, EnterIndirect
  <2> QED BY <2>1, <2>3
<1>6. b \in Blocks /\ MAXFILE \in Places /\ NDIRECT + o \in Places /\ NDIRECT + o # MAXFILE
      /\ ~ (NDIRECT + o < NDIRECT) /\ a \in Blocks /\ (NDIRECT + o) - NDIRECT = o
  <2>1. b \in Blocks  BY <1>2, <1>3, <1>4, Sizes DEF InodeType
  <2>2. a \in Blocks  BY <1>4, Sizes DEF Blocks
  <2>3. MAXFILE \in Places /\ NDIRECT + o \in Places /\ NDIRECT + o # MAXFILE
      /\ ~ (NDIRECT + o < NDIRECT) /\ (NDIRECT + o) - NDIRECT = o  BY Sizes DEF Places, Offs
  <2> QED BY <2>1, <2>2, <2>3
<1>7. At(d, s.blk, i, MAXFILE) = b  BY <1>2, <1>3, <1>4, <1>6, AddrTyped
<1>8. a # b  BY <1>2, <1>4, <1>6, <1>7
<1>9. \A x \in Blocks \ {b} : c[x] = s.blk[x]  BY <1>4, <1>20 DEF WithBlockAddr
<1>10. /\ f.bmap = e.bmap /\ f.din = e.din /\ f.blk[b] = c[b]
       /\ \A x \in Blocks \ {b} : f.blk[x] = e.blk[x]  BY <1>0, <1>1
<1>11. \A j \in Inums, m \in Places : At(d, s.blk, j, m) # 0 => At(d, s.blk, j, m) \in Blocks
  BY <1>4, Sizes DEF Sound, OneOwner, Blocks
<1>12. Behind(f, s.bmap, d, c)
  <2>1. ASSUME NEW j \in Inums, NEW m \in Places, m = MAXFILE \/ j = ROOTINO, At(d, c, j, m) # 0
        PROVE  f.blk[At(d, c, j, m)] = c[At(d, c, j, m)]
    <3>1. CASE j = i /\ m = NDIRECT + o
      <4>1. At(d, c, j, m) = a  BY <1>5, <3>1
      <4> QED BY <1>4, <1>6, <1>8, <1>9, <1>10, <4>1
    <3>2. CASE ~ (j = i /\ m = NDIRECT + o)
      <4>1. At(d, c, j, m) = At(d, s.blk, j, m)  BY <1>5, <3>2
      <4>2. e.blk[At(d, s.blk, j, m)] = s.blk[At(d, s.blk, j, m)] /\ At(d, s.blk, j, m) \in Blocks
        BY <1>4, <1>11, <2>1, <4>1 DEF Behind
      <4>3. CASE At(d, s.blk, j, m) = b  BY <1>10, <4>1, <4>3
      <4>4. CASE At(d, s.blk, j, m) # b  BY <1>9, <1>10, <4>1, <4>2, <4>4
      <4> QED BY <4>3, <4>4
    <3> QED BY <3>1, <3>2
  <2> QED BY <1>4, <1>10, <2>1 DEF Behind
<1>13. SameData(s, t)
  <2>1. At(d, s.blk, i, NDIRECT + o) = 0
    <3>1. At(d, s.blk, i, NDIRECT + o) = s.blk[d[i].addrs[NDIRECT]][(NDIRECT + o) - NDIRECT][1]
      <4>1. d[i].addrs[NDIRECT] # 0  BY <1>4, <1>20
      <4> QED BY <1>2, <1>3, <1>4, <1>6, <4>1, AddrTyped
    <3> QED BY <1>4, <1>6, <1>20, <3>1
  <2>2. \A j \in Inums, n \in 0 .. MAXFILE - 1 : At(d, s.blk, j, n) # 0 =>
          c[At(d, s.blk, j, n)] = s.blk[At(d, s.blk, j, n)]
    <3>1. SUFFICES ASSUME NEW j \in Inums, NEW n \in 0 .. MAXFILE - 1, At(d, s.blk, j, n) # 0
                   PROVE  c[At(d, s.blk, j, n)] = s.blk[At(d, s.blk, j, n)]  OBVIOUS
    <3>2. n \in Places /\ n # MAXFILE  BY Sizes DEF Places
    <3>3. At(d, s.blk, j, n) # b  BY <1>2, <1>4, <1>6, <1>7, <1>20, <3>1, <3>2 DEF Sound, OneOwner
    <3> QED BY <1>9, <1>11, <3>1, <3>2, <3>3
  <2>3. c[a] = ZeroBlock  BY <1>4, <1>6, <1>8, <1>9
  <2>4. Sound(s.bmap, Cur(s), s.blk) /\ Cur(s) = d /\ Cur(t) = d /\ t.blk = c  BY <1>1, <1>3, <1>4
  <2> QED BY <1>2, <1>5, <1>6, <2>1, <2>2, <2>3, <2>4, DataWithOneMore
<1>14. Whole(t)
  <2>1. Entered(Cur(s), s.blk) /\ Cur(t) = Cur(s)  BY <1>1, <1>3 DEF Whole, Right
  <2>2. Entered(Cur(t), t.blk)  BY <1>13, <2>1, EnteredStays
  <2> QED BY <1>1, <1>3, <1>5, <1>12, <2>2 DEF Whole, Right
<1>15. At(Cur(t), t.blk, s.it[k].inum, NDIRECT + o) = a  BY <1>1, <1>2, <1>3, <1>5, <1>6
<1> QED BY <1>13, <1>14, <1>15

\* The inode of an entry of the table.
LEMMA CurOf ==
  ASSUME NEW s, Table(s), NEW k \in Slots, InUse(s, k)
  PROVE  s.it[k].inum \in Inums /\ Cur(s)[s.it[k].inum] = s.it[k].copy
<1>1. OneSlot(s) /\ s.it[k].inum \in Inums /\ k \in InMemory(s, s.it[k].inum)
  BY DEF Table, OneSlot, InUse, InMemory
<1> QED BY <1>1, CurrentIn DEF Cur

LEMMA AtOf ==
  ASSUME NEW s, Table(s), NEW k \in Slots, InUse(s, k), NEW n
  PROVE  At(Cur(s), s.blk, s.it[k].inum, n) = AddrOf(s.blk, s.it[k].copy, n)
  BY CurOf DEF At

LEMMA BmapIndirectGood ==
  ASSUME NEW s, NEW K, NEW cut \in BOOLEAN, Good(s, K, cut), NEW k \in Slots, NEW o \in Offs,
         s.ret \in Blocks,
         s.why = "no" => InUse(s, k) /\ s.it[k].copy.addrs[NDIRECT] = s.ret /\ s.ret # 0,
         NEW t, t = bmapIndirect(s, o)
  PROVE  /\ Good(t, K, cut) /\ Goes(s, t, cut) /\ t.ret \in Nat /\ t.it = s.it
         /\ t.why = "no" => /\ Widened(s, t)
                            /\ cut \/ /\ SameData(s, t) /\ t.ret # 0
                                      /\ t.ret = At(Cur(t), t.blk, s.it[k].inum, NDIRECT + o)
<1>1. PICK b : b = s.ret  OBVIOUS
<1>2. Typed(s)  BY GoodIs
<1>3. s.blk[b][o][1] \in Nat /\ s.blk \in [Blocks -> Contents]
  BY <1>1, <1>2 DEF Typed, Contents, UnitType
<1>4. CASE s.blk[b][o][1] # 0
  <2>1. t = Ret(s, s.blk[b][o][1])  BY <1>1, <1>4 DEF bmapIndirect
  <2>2. /\ Good(t, K, cut) /\ t.it = s.it /\ t.ret = s.blk[b][o][1] /\ Widened(s, t) /\ SameData(s, t)
        /\ Goes(s, t, cut) /\ Cur(t) = Cur(s) /\ t.blk = s.blk  BY <2>1, RetGood
  <2>3. s.why = "no" => At(Cur(s), s.blk, s.it[k].inum, NDIRECT + o) = s.blk[b][o][1]
    <3>1. SUFFICES ASSUME s.why = "no"
                   PROVE  At(Cur(s), s.blk, s.it[k].inum, NDIRECT + o) = s.blk[b][o][1]  OBVIOUS
    <3>2. Table(s) /\ InUse(s, k) /\ s.it[k].copy.addrs[NDIRECT] = b /\ b # 0
      BY <1>1, <3>1, GoodIs DEF Live
    <3>3. At(Cur(s), s.blk, s.it[k].inum, NDIRECT + o) = AddrOf(s.blk, s.it[k].copy, NDIRECT + o)
      BY <3>2, AtOf
    <3>4. ~ (NDIRECT + o < NDIRECT) /\ NDIRECT + o # MAXFILE /\ (NDIRECT + o) - NDIRECT = o
      BY Sizes DEF Offs
    <3> QED BY <3>2, <3>3, <3>4 DEF AddrOf
  <2> QED BY <1>3, <1>4, <2>2, <2>3, GoesBack
<1>5. CASE s.blk[b][o][1] = 0
  <2>1. PICK a : a = balloc(s)  OBVIOUS
  <2>2. /\ Good(a, K, cut) /\ a.it = s.it /\ a.din = s.din /\ a.ret \in Blocks
        /\ a.why = "no" =>
             /\ s.why = "no" /\ a.ret # 0 /\ \A x \in Blocks \ {a.ret} : a.blk[x] = s.blk[x]
             /\ cut \/ Found(s, a)  BY <2>1, BallocGood
  <2>20. Goes(s, a, cut)  BY <2>1, BallocGood
  <2>3. /\ Typed(a) /\ LogGood(a, cut) /\ a.bmap[0]
        /\ a.why = "no" => Table(a) /\ Stored(a, K) /\ (cut \/ Whole(a))  BY <2>2, GoodIs DEF Live
  <2>4. PICK c : c = WithBlockAddr(a.blk, b, o, a.ret)  OBVIOUS
  <2>5. c \in [Blocks -> Contents]
    <3>1. Unit(a.ret) \in UnitType  BY <2>2, UnitTyped, Sizes DEF Blocks
    <3>2. a.blk \in [Blocks -> Contents]  BY <2>3 DEF Typed
    <3> QED BY <1>1, <2>4, <3>1, <3>2 DEF Contents, WithBlockAddr
  <2>6. PICK u : u = [a EXCEPT !.blk = c]  OBVIOUS
  <2>7. /\ Typed(u) /\ u.bmap = a.bmap /\ u.din = a.din /\ u.blk = c
        /\ u.it = a.it /\ u.ret = a.ret /\ u.why = a.why /\ u.log = a.log
    BY <2>3, <2>5, <2>6, BlkFields
  <2>8. t = BwriteBlock(u, b)  BY <1>1, <1>5, <2>1, <2>4, <2>6 DEF bmapIndirect, WithBlockAddr
  <2>9. /\ Typed(t) /\ t.bmap = u.bmap /\ t.din = u.din /\ t.blk = u.blk
        /\ t.it = u.it /\ t.ret = u.ret /\ t.why = u.why
        /\ u.why # "no" => t.log = u.log
        /\ u.why = "no" => /\ Range(t.log) = Range(u.log) \cup {OnDisk(t)}
                           /\ OnDisk(t) = [OnDisk(u) EXCEPT !.blk[b] = u.blk[b]]
                           /\ OnDisk(t) \in ImageType  BY <2>7, <2>8, WriteBlockFields
  <2>10. t.it = s.it /\ t.ret \in Nat /\ t.din = s.din /\ t.bmap[0] /\ t.ret = a.ret
    BY <2>2, <2>3, <2>7, <2>9, Sizes DEF Blocks
  <2>21. Goes(s, t, cut)  BY <2>20, <2>7, <2>9 DEF Goes
  <2>11. CASE t.why # "no"
    <3>1. LogGood(t, cut)  BY <2>3, <2>7, <2>9, <2>11 DEF LogGood
    <3> QED BY <2>9, <2>10, <2>11, <2>21, <3>1, GoodWhen
  <2>12. CASE t.why = "no"
    <3>1. a.why = "no" /\ s.why = "no" /\ u.why = "no"  BY <2>2, <2>7, <2>9, <2>12
    <3>2. PICK d, e : d = OnDisk(a) /\ e = OnDisk(t)  OBVIOUS
    <3>3. d \in ImageType /\ d \in Range(a.log) /\ OnDisk(u) = d
      BY <2>3, <2>7, <3>2, OnDiskTyped, LastImage DEF OnDisk
    <3>4. /\ e.bmap = d.bmap /\ e.din = d.din /\ e.blk[b] = c[b]
          /\ \A x \in Blocks \ {b} : e.blk[x] = d.blk[x]
      <4>1. e = [d EXCEPT !.blk[b] = c[b]]  BY <2>7, <2>9, <3>1, <3>2, <3>3
      <4> QED BY <1>1, <3>3, <4>1 DEF ImageType
    <3>5. Rooted(e)
      <4>1. Rooted(d)  BY <2>3, <3>3 DEF LogGood, Safe
      <4> QED BY <3>4, <4>1 DEF Rooted
    <3>6. Table(t) /\ Stored(t, K) /\ Table(a) /\ Stored(a, K)
      <4>1. a.din = d.din  BY <2>3, <3>1, <3>2 DEF Table
      <4> QED BY <2>3, <2>7, <2>9, <3>1, <3>2, <3>4, <4>1, SameCur
    <3>7. Widened(s, t)  BY <2>10, <3>1 DEF Widened, SameSlot
    <3>8. CASE cut
      <4>1. LogGood(t, cut)  BY <2>3, <2>7, <2>9, <3>1, <3>2, <3>5, <3>8 DEF LogGood, Safe
      <4>2. Good(t, K, cut)  BY <2>9, <2>10, <3>6, <3>8, <4>1, GoodWhen DEF Live
      <4> QED BY <2>10, <2>21, <3>7, <3>8, <4>2
    <3>9. CASE ~ cut
      <4>1. Whole(a) /\ Fresh(a, a.ret) /\ SameAddrs(s, a) /\ SameData(s, a)
        BY <2>2, <2>3, <3>1, <3>9 DEF Found
      <4>2. InUse(a, k) /\ b = a.it[k].copy.addrs[NDIRECT] /\ b # 0
        BY <1>1, <2>2, <3>1 DEF InUse, Busy
      <4>3. b # a.ret
        <5>1. OneSlot(a) /\ a.it[k].inum \in Inums /\ k \in InMemory(a, a.it[k].inum)
          BY <3>6, <4>2 DEF Table, OneSlot, InUse, InMemory
        <5>3. At(Cur(a), a.blk, a.it[k].inum, MAXFILE) = AddrOf(a.blk, a.it[k].copy, MAXFILE)
          BY <3>6, <4>2, AtOf
        <5>5. AddrOf(a.blk, a.it[k].copy, MAXFILE) = b  BY <4>2, Sizes DEF AddrOf
        <5>4. MAXFILE \in Places  BY Sizes DEF Places
        <5> QED BY <4>1, <5>1, <5>3, <5>4, <5>5 DEF Fresh
      <4>4. a.blk[b][o][1] = 0  BY <1>1, <1>5, <2>2, <3>1, <4>3
      <4>5. Whole(t) /\ SameData(a, t) /\ At(Cur(t), t.blk, a.it[k].inum, NDIRECT + o) = a.ret
        <5>1. Typed(a) /\ Table(a) /\ Typed(t) /\ t.it = a.it /\ t.din = a.din /\ t.bmap = a.bmap
              /\ t.blk = c  BY <2>3, <2>7, <2>9, <3>6
        <5>2. /\ OnDisk(t).bmap = OnDisk(a).bmap /\ OnDisk(t).din = OnDisk(a).din
              /\ OnDisk(t).blk[b] = t.blk[b]
              /\ \A x \in Blocks \ {b} : OnDisk(t).blk[x] = OnDisk(a).blk[x]  BY <3>2, <3>4, <5>1
        <5>3. t.blk = WithBlockAddr(a.blk, b, o, a.ret)  BY <2>4, <5>1
        <5>4. PICK r : r = a.ret  OBVIOUS
        <5>5. Fresh(a, r) /\ t.blk = WithBlockAddr(a.blk, b, o, r)  BY <4>1, <5>3, <5>4
        <5>6. Whole(a) /\ Typed(a) /\ Table(a) /\ Typed(t) /\ t.it = a.it /\ t.din = a.din
              /\ t.bmap = a.bmap /\ InUse(a, k)  BY <4>1, <4>2, <5>1
        <5>7. Whole(t) /\ SameData(a, t) /\ At(Cur(t), t.blk, a.it[k].inum, NDIRECT + o) = r
          <6>1. EnteredIn(a, t, k, b, o, r)  BY <4>2, <4>4, <5>2, <5>5 DEF EnteredIn
          <6>2. b \in Blocks  BY <1>1
          <6> QED BY <5>5, <5>6, <6>1, <6>2, EnterIndirectBoth
        <5> QED BY <5>4, <5>7
      <4>7. SameData(s, t)  BY <4>1, <4>5 DEF SameData
      <4>8. Right(e.bmap, e.din, e.blk)  BY <2>9, <3>2, <3>6, <4>5, WholeRight
      <4>9. LogGood(t, cut)  BY <2>3, <2>7, <2>9, <3>1, <3>2, <3>5, <4>8 DEF LogGood, Safe
      <4>10. Good(t, K, cut)  BY <2>9, <2>10, <3>6, <4>5, <4>9, GoodWhen DEF Live
      <4>11. t.ret # 0 /\ t.ret = At(Cur(t), t.blk, s.it[k].inum, NDIRECT + o)
        BY <2>2, <2>10, <3>1, <4>5
      <4> QED BY <2>10, <2>21, <3>7, <4>7, <4>10, <4>11
    <3> QED BY <3>8, <3>9
  <2> QED BY <2>11, <2>12
<1> QED BY <1>4, <1>5

\* Slot k may be asked for block bn: it has it, or may get one.
MayReach(s, K, k, bn) ==
    /\ InUse(s, k)
    /\ s.it[k].inum = ROOTINO \/ k \in K \/ s.it[k].copy.addrs[EntryOf(bn)] # 0
Reached(s, t, k, bn, cut) ==
    /\ Widened(s, t) /\ t.it[k].copy.addrs[EntryOf(bn)] # 0
    /\ cut \/ /\ SameData(s, t) /\ t.ret # 0
              /\ t.ret = At(Cur(t), t.blk, s.it[k].inum, bn)

LEMMA SameDataTwice ==
  ASSUME NEW s, NEW t, NEW u, SameData(s, t), SameData(t, u)
  PROVE  SameData(s, u)
  BY DEF SameData

LEMMA WidenedUse ==
  ASSUME NEW s, NEW t, Widened(s, t), NEW k \in Slots, InUse(s, k)
  PROVE  InUse(t, k) /\ t.it[k].inum = s.it[k].inum /\ t.it[k].copy.size = s.it[k].copy.size
         /\ t.it[k].copy.type = s.it[k].copy.type
<1>1. SameSlot(s.it[k], t.it[k]) /\ t.it[k].copy.size = s.it[k].copy.size
      /\ t.it[k].copy.type = s.it[k].copy.type  BY DEF Widened
<1> QED BY <1>1 DEF InUse, Busy, SameSlot

LEMMA BmapGood ==
  ASSUME NEW s, NEW K, NEW cut \in BOOLEAN, Good(s, K, cut), NEW k \in Slots,
         NEW bn \in 0 .. MAXFILE - 1, s.why = "no" => MayReach(s, K, k, bn),
         NEW t, t = bmap(s, k, bn)
  PROVE  /\ Good(t, K, cut) /\ Goes(s, t, cut) /\ t.ret \in Nat
         /\ t.why = "no" => Reached(s, t, k, bn, cut)
<1>0. Blocks \subseteq Nat  BY Sizes DEF Blocks
<1>1. CASE bn < NDIRECT
  <2>1. t = bmapDirect(s, k, bn) /\ bn \in 0 .. NDIRECT /\ EntryOf(bn) = bn
    BY <1>1, Sizes DEF bmap, EntryOf
  <2>2. s.why = "no" => /\ InUse(s, k)
                        /\ s.it[k].inum = ROOTINO \/ k \in K \/ s.it[k].copy.addrs[bn] # 0
    BY <2>1 DEF MayReach
  <2>3. /\ Good(t, K, cut) /\ Goes(s, t, cut) /\ t.ret \in Blocks
        /\ t.why = "no" => /\ Widened(s, t) /\ t.ret # 0 /\ t.it[k].copy.addrs[bn] = t.ret
                           /\ cut \/ SameData(s, t)  BY <2>1, <2>2, BmapDirectGood
  <2>4. t.why = "no" => t.ret = At(Cur(t), t.blk, s.it[k].inum, bn)
    <3>1. SUFFICES ASSUME t.why = "no" PROVE t.ret = At(Cur(t), t.blk, s.it[k].inum, bn)  OBVIOUS
    <3>2. s.why = "no" /\ Widened(s, t) /\ InUse(s, k)  BY <2>2, <2>3, <3>1, GoesBack
    <3>3. Table(t) /\ InUse(t, k) /\ t.it[k].inum = s.it[k].inum
      BY <2>3, <3>1, <3>2, GoodIs, WidenedUse DEF Live
    <3>4. At(Cur(t), t.blk, t.it[k].inum, bn) = AddrOf(t.blk, t.it[k].copy, bn)  BY <3>3, AtOf
    <3> QED BY <1>1, <2>3, <3>1, <3>3, <3>4 DEF AddrOf
  <2> QED BY <1>0, <2>1, <2>3, <2>4 DEF Reached
<1>2. CASE ~ (bn < NDIRECT)
  <2>0. bn < MAXFILE /\ bn - NDIRECT \in Offs /\ EntryOf(bn) = NDIRECT /\ NDIRECT \in 0 .. NDIRECT
        /\ NDIRECT + (bn - NDIRECT) = bn  BY <1>2, Sizes DEF EntryOf, Offs
  <2>1. PICK u : u = bmapDirect(s, k, NDIRECT)  OBVIOUS
  <2>2. t = bmapIndirect(u, bn - NDIRECT)  BY <1>2, <2>0, <2>1 DEF bmap
  <2>3. s.why = "no" => /\ InUse(s, k)
                        /\ s.it[k].inum = ROOTINO \/ k \in K \/ s.it[k].copy.addrs[NDIRECT] # 0
    BY <2>0 DEF MayReach
  <2>4. /\ Good(u, K, cut) /\ Goes(s, u, cut) /\ u.ret \in Blocks
        /\ u.why = "no" => /\ Widened(s, u) /\ u.ret # 0 /\ u.it[k].copy.addrs[NDIRECT] = u.ret
                           /\ cut \/ SameData(s, u)  BY <2>0, <2>1, <2>3, BmapDirectGood
  <2>5. u.why = "no" => InUse(u, k) /\ u.it[k].inum = s.it[k].inum
    BY <2>3, <2>4, GoesBack, WidenedUse
  <2>6. PICK o : o = bn - NDIRECT  OBVIOUS
  <2>7. o \in Offs /\ t = bmapIndirect(u, o)  BY <2>0, <2>2, <2>6
  <2>8. /\ Good(t, K, cut) /\ Goes(u, t, cut) /\ t.ret \in Nat /\ t.it = u.it
        /\ t.why = "no" => /\ Widened(u, t)
                           /\ cut \/ /\ SameData(u, t) /\ t.ret # 0
                                     /\ t.ret = At(Cur(t), t.blk, u.it[k].inum, NDIRECT + o)
    BY <2>4, <2>5, <2>7, BmapIndirectGood
  <2>9. Goes(s, t, cut) /\ (t.why = "no" => s.why = "no" /\ u.why = "no")  BY <2>4, <2>8, GoesTwice
  <2>10. ASSUME t.why = "no" PROVE Reached(s, t, k, bn, cut)
    <3>1. Widened(s, t)  BY <2>4, <2>8, <2>9, <2>10, WidenedTwice
    <3>2. t.it[k].copy.addrs[EntryOf(bn)] # 0  BY <2>0, <2>4, <2>8, <2>9, <2>10
    <3>3. ASSUME ~ cut
          PROVE  SameData(s, t) /\ t.ret # 0 /\ t.ret = At(Cur(t), t.blk, s.it[k].inum, bn)
      <4>1. SameData(s, u) /\ SameData(u, t) /\ t.ret # 0
            /\ t.ret = At(Cur(t), t.blk, u.it[k].inum, NDIRECT + o)
        BY <2>4, <2>8, <2>9, <2>10, <3>3
      <4> QED BY <2>0, <2>5, <2>6, <2>9, <2>10, <4>1, SameDataTwice
    <3> QED BY <3>1, <3>2, <3>3 DEF Reached
  <2> QED BY <2>8, <2>9, <2>10
<1> QED BY <1>1, <1>2

----
(* Changes of the table alone. *)
OnlyTable(s, t) ==
    t.bmap = s.bmap /\ t.din = s.din /\ t.blk = s.blk /\ t.log = s.log /\ t.why = s.why

\* An inode in memory is there as before, or as it is on the disk.
SlotStep(s, t, k) ==
    /\ Busy(t, k) => t.it[k].inum \in Inums
    /\ InUse(t, k) =>
         \/ InUse(s, k) /\ t.it[k].inum = s.it[k].inum /\ t.it[k].copy = s.it[k].copy
         \/ t.it[k].copy = s.din[t.it[k].inum] /\ t.it[k].copy.type # T_NONE

\* What the kernel knows may fall back to what the disk has.
LEMMA FallBack ==
  ASSUME NEW w \in ImageType, NEW bmp \in [Blocks -> BOOLEAN], NEW din \in [Inums -> InodeType],
         NEW blk \in [Blocks -> Contents], Right(bmp, din, blk), Behind(w, bmp, din, blk),
         NEW d \in [Inums -> InodeType], \A i \in Inums : d[i] = din[i] \/ d[i] = w.din[i]
  PROVE  Right(bmp, d, blk) /\ Behind(w, bmp, d, blk)
<1>1. PICK x : x = [magic |-> FSMAGIC, bmap |-> bmp, din |-> d, blk |-> blk]  OBVIOUS
<1>2. x \in ImageType /\ x.bmap = bmp /\ x.din = d /\ x.blk = blk  BY <1>1 DEF ImageType
<1>3. \A i \in Inums : d[i].type = din[i].type  BY DEF Behind
<1>4. \A i \in Inums, n \in 0 .. NDIRECT : d[i].addrs[n] \in {0, din[i].addrs[n]}  BY DEF Behind
<1>5. Behind(x, bmp, din, blk)  BY <1>2, <1>3, <1>4 DEF Behind
<1>6. Right(bmp, d, blk)  BY <1>2, <1>5, BehindRight
<1>7. \A i \in Inums, n \in Places : At(d, blk, i, n) \in {0, At(din, blk, i, n)}
  BY <1>2, <1>5, BehindAddrs
<1>8. Behind(w, bmp, d, blk)
  <2>1. \A i \in Inums, n \in 0 .. NDIRECT : w.din[i].addrs[n] \in {0, d[i].addrs[n]}  BY DEF Behind
  <2>2. \A i \in Inums, n \in Places : (n = MAXFILE \/ i = ROOTINO) /\ At(d, blk, i, n) # 0 =>
            w.blk[At(d, blk, i, n)] = blk[At(d, blk, i, n)]
    BY <1>7 DEF Behind
  <2>3. w.bmap = bmp /\ \A i \in Inums : w.din[i].type = d[i].type  BY <1>3 DEF Behind
  <2> QED BY <2>1, <2>2, <2>3 DEF Behind
<1> QED BY <1>6, <1>8

LEMMA TableGood ==
  ASSUME NEW s, NEW K, NEW cut, Good(s, K, cut), NEW t, Typed(t), OnlyTable(s, t),
         s.why = "no" => OneSlot(t) /\ \A k \in Slots : SlotStep(s, t, k)
  PROVE  Good(t, K, cut) /\ Goes(s, t, cut)
<1>1. /\ Typed(s) /\ LogGood(s, cut) /\ s.bmap[0]
      /\ s.why = "no" => Table(s) /\ Stored(s, K) /\ (cut \/ Whole(s))  BY GoodIs DEF Live
<1>2. LogGood(t, cut) /\ t.bmap[0] /\ OnDisk(t) = OnDisk(s) /\ Goes(s, t, cut)
  BY <1>1 DEF LogGood, OnDisk, OnlyTable, Goes
<1>3. CASE s.why # "no"  BY <1>2, <1>3, GoodWhen DEF OnlyTable
<1>4. CASE s.why = "no"
  <2>1. t.din = s.din /\ s.din = OnDisk(s).din /\ t.blk = s.blk /\ t.bmap = s.bmap
    BY <1>1, <1>4 DEF Table, OnlyTable
  <2>2. ASSUME NEW k \in Slots, InUse(t, k)
        PROVE  /\ t.it[k].copy.type = s.din[t.it[k].inum].type /\ t.it[k].copy.type # T_NONE
               /\ t.it[k].inum # ROOTINO => Filled(t.it[k].copy)
               /\ t.it[k].inum \in Inums
               /\ t.it[k].copy = Cur(s)[t.it[k].inum] \/ t.it[k].copy = s.din[t.it[k].inum]
               /\ k \notin K /\ t.it[k].inum # ROOTINO => t.it[k].copy = s.din[t.it[k].inum]
    <3>1. t.it[k].inum \in Inums  BY <1>4, <2>2 DEF SlotStep, InUse
    <3>2. CASE InUse(s, k) /\ t.it[k].inum = s.it[k].inum /\ t.it[k].copy = s.it[k].copy
      <4>1. Cur(s)[s.it[k].inum] = s.it[k].copy  BY <1>1, <1>4, <3>2, CurOf
      <4>2. /\ s.it[k].copy.type = s.din[s.it[k].inum].type /\ s.it[k].copy.type # T_NONE
            /\ s.it[k].inum # ROOTINO => Filled(s.it[k].copy)  BY <1>1, <1>4, <3>2 DEF Table, InUse
      <4>3. k \notin K /\ s.it[k].inum # ROOTINO => s.it[k].copy = s.din[s.it[k].inum]
        BY <1>1, <1>4, <3>2 DEF Stored, InUse
      <4> QED BY <3>1, <3>2, <4>1, <4>2, <4>3
    <3>3. CASE t.it[k].copy = s.din[t.it[k].inum] /\ t.it[k].copy.type # T_NONE
      <4>1. Rooted(OnDisk(s))  BY <1>1, LastImage DEF LogGood, Safe
      <4>2. t.it[k].inum # ROOTINO => Filled(t.it[k].copy)  BY <2>1, <3>1, <3>3, <4>1 DEF Rooted
      <4> QED BY <3>1, <3>3, <4>2
    <3> QED BY <1>4, <2>2, <3>2, <3>3 DEF SlotStep
  <2>3. Table(t)
    <3>1. \A k, l \in Slots : Busy(t, k) /\ Busy(t, l) /\ t.it[k].inum = t.it[l].inum => k = l
      BY <1>4 DEF OneSlot
    <3>2. \A k \in Slots : Busy(t, k) => t.it[k].inum \in Inums  BY <1>4 DEF SlotStep
    <3>3. \A k \in Slots : Busy(t, k) /\ t.it[k].valid =>
            /\ t.it[k].copy.type = t.din[t.it[k].inum].type /\ t.it[k].copy.type # T_NONE
            /\ t.it[k].inum # ROOTINO => Filled(t.it[k].copy)  BY <2>1, <2>2 DEF InUse
    <3> QED BY <1>2, <2>1, <3>1, <3>2, <3>3 DEF Table
  <2>4. Stored(t, K)  BY <2>1, <2>2 DEF Stored, InUse
  <2>5. ASSUME ~ cut PROVE Whole(t)
    <3>1. PICK c, d, w : c = Cur(s) /\ d = Cur(t) /\ w = OnDisk(s)  OBVIOUS
    <3>2. c \in [Inums -> InodeType] /\ d \in [Inums -> InodeType] /\ w \in ImageType
      BY <1>1, <1>4, <2>3, <3>1, CurTyped, OnDiskTyped DEF Table, OneSlot
    <3>3. ASSUME NEW i \in Inums PROVE d[i] = c[i] \/ d[i] = w.din[i]
      <4>1. CASE InMemory(t, i) = {}  BY <2>1, <3>1, <4>1, CurrentOut DEF Cur
      <4>2. CASE InMemory(t, i) # {}
        <5>1. PICK k : k \in InMemory(t, i)  BY <4>2
        <5>2. k \in Slots /\ InUse(t, k) /\ t.it[k].inum = i  BY <5>1 DEF InMemory, InUse
        <5>3. d[i] = t.it[k].copy  BY <2>3, <3>1, <5>2, CurOf
        <5>4. t.it[k].copy = Cur(s)[t.it[k].inum] \/ t.it[k].copy = s.din[t.it[k].inum]
          BY <2>2, <5>2
        <5> QED BY <2>1, <3>1, <5>2, <5>3, <5>4
      <4> QED BY <4>1, <4>2
    <3>4. Right(s.bmap, c, s.blk) /\ Behind(w, s.bmap, c, s.blk)
      BY <1>1, <1>4, <2>5, <3>1 DEF Whole
    <3>5. s.bmap \in [Blocks -> BOOLEAN] /\ s.blk \in [Blocks -> Contents]  BY <1>1 DEF Typed
    <3>6. Right(s.bmap, d, s.blk) /\ Behind(w, s.bmap, d, s.blk)
      BY <3>2, <3>3, <3>4, <3>5, FallBack
    <3> QED BY <1>2, <2>1, <3>1, <3>6 DEF Whole
  <2> QED BY <1>2, <2>3, <2>4, <2>5, GoodWhen DEF Live
<1> QED BY <1>3, <1>4

----
(* References. *)
LEMMA RefTyped ==
  ASSUME NEW s, Typed(s), NEW k \in Slots
  PROVE  s.it[k].ref \in Int /\ k \in Nat /\ k # 0
  BY Sizes DEF Typed, SlotType, Slots

LEMMA PinnedTwice ==
  ASSUME NEW x, NEW y, NEW z, Pinned(x, y), Pinned(y, z)
  PROVE  Pinned(x, z)
  BY Zenon DEF Pinned

LEMMA GainsTwice ==
  ASSUME NEW s, Typed(s), NEW t, NEW u, NEW x, NEW y, x = 0 \/ y = 0,
         Gains(s, t, x), Gains(t, u, y)
  PROVE  Gains(s, u, IF x = 0 THEN y ELSE x)
<1>1. SUFFICES ASSUME NEW k \in Slots
      PROVE  /\ u.it[k].ref = s.it[k].ref + (IF k = (IF x = 0 THEN y ELSE x) THEN 1 ELSE 0)
             /\ s.it[k].ref > 0 => Pinned(s.it[k], u.it[k])  BY DEF Gains
<1>2. s.it[k].ref \in Int /\ k # 0  BY RefTyped
<1>3. /\ t.it[k].ref = s.it[k].ref + (IF k = x THEN 1 ELSE 0)
      /\ u.it[k].ref = t.it[k].ref + (IF k = y THEN 1 ELSE 0)  BY DEF Gains
<1>4. u.it[k].ref = s.it[k].ref + (IF k = (IF x = 0 THEN y ELSE x) THEN 1 ELSE 0)  BY <1>2, <1>3
<1>5. ASSUME s.it[k].ref > 0 PROVE Pinned(s.it[k], u.it[k])
  <2>1. t.it[k].ref > 0  BY <1>2, <1>3, <1>5
  <2>2. Pinned(s.it[k], t.it[k]) /\ Pinned(t.it[k], u.it[k])  BY <1>5, <2>1 DEF Gains
  <2> QED BY <2>2, PinnedTwice
<1> QED BY <1>4, <1>5

\* What was taken is given back.
LEMMA GainsDrop ==
  ASSUME NEW s, Typed(s), NEW r, NEW t, NEW u, NEW x, NEW y,
         Gains(s, r, x), Gains(r, t, y), Drops(t, u, x)
  PROVE  Gains(s, u, y)
<1>1. SUFFICES ASSUME NEW k \in Slots
      PROVE  /\ u.it[k].ref = s.it[k].ref + (IF k = y THEN 1 ELSE 0)
             /\ s.it[k].ref > 0 => Pinned(s.it[k], u.it[k])  BY DEF Gains
<1>2. s.it[k].ref \in Int /\ k # 0  BY RefTyped
<1>3. /\ r.it[k].ref = s.it[k].ref + (IF k = x THEN 1 ELSE 0)
      /\ t.it[k].ref = r.it[k].ref + (IF k = y THEN 1 ELSE 0)
      /\ u.it[k].ref = t.it[k].ref - (IF k = x THEN 1 ELSE 0)  BY DEF Gains, Drops
<1>4. u.it[k].ref = s.it[k].ref + (IF k = y THEN 1 ELSE 0)  BY <1>2, <1>3
<1>5. ASSUME s.it[k].ref > 0 PROVE Pinned(s.it[k], u.it[k])
  <2>1. r.it[k].ref > 0  BY <1>2, <1>3, <1>5
  <2>2. Pinned(s.it[k], r.it[k]) /\ Pinned(r.it[k], t.it[k]) /\ Pinned(t.it[k], u.it[k])
    BY <1>5, <2>1 DEF Gains, Drops
  <2> QED BY <2>2, PinnedTwice
<1> QED BY <1>4, <1>5

LEMMA GainsNone ==
  ASSUME NEW s, Typed(s), NEW t, t.it = s.it
  PROVE  Gains(s, t, 0)
  BY RefTyped DEF Gains, Pinned

LEMMA WidenedGains ==
  ASSUME NEW s, Typed(s), NEW t, Widened(s, t)
  PROVE  Gains(s, t, 0)
<1>1. SUFFICES ASSUME NEW k \in Slots
      PROVE  t.it[k].ref = s.it[k].ref + (IF k = 0 THEN 1 ELSE 0) /\ Pinned(s.it[k], t.it[k])
  BY DEF Gains
<1>2. SameSlot(s.it[k], t.it[k]) /\ t.it[k].copy.type = s.it[k].copy.type  BY DEF Widened
<1>3. Pinned(s.it[k], t.it[k])  BY <1>2, Zenon DEF Pinned, SameSlot
<1>4. s.it[k].ref \in Int /\ k # 0 /\ t.it[k].ref = s.it[k].ref  BY <1>2, RefTyped DEF SameSlot
<1> QED BY <1>3, <1>4

LEMMA GainsCounted ==
  ASSUME NEW s, Counted(s), NEW t, NEW x, Gains(s, t, x)
  PROVE  /\ Counted(t) /\ (x \in Slots => t.it[x].ref > 0 /\ Busy(t, x))
         /\ \A k \in Slots : s.it[k].ref > 0 =>
              /\ t.it[k].ref > 0 /\ Busy(t, k) /\ t.it[k].inum = s.it[k].inum
              /\ InUse(s, k) => InUse(t, k) /\ t.it[k].copy.type = s.it[k].copy.type
<1>1. ASSUME NEW k \in Slots
      PROVE  t.it[k].ref \in Nat /\ (k = x \/ s.it[k].ref > 0 => t.it[k].ref > 0)
  <2>1. s.it[k].ref \in Nat /\ t.it[k].ref = s.it[k].ref + (IF k = x THEN 1 ELSE 0)
    BY DEF Counted, Gains
  <2> QED BY <2>1
<1>2. ASSUME NEW k \in Slots, s.it[k].ref > 0
      PROVE  /\ t.it[k].inum = s.it[k].inum
             /\ InUse(s, k) => InUse(t, k) /\ t.it[k].copy.type = s.it[k].copy.type
  <2>1. t.it[k].ref > 0 /\ Pinned(s.it[k], t.it[k])  BY <1>1, <1>2 DEF Gains
  <2> QED BY <2>1 DEF InUse, Busy, Pinned
<1> QED BY <1>1, <1>2 DEF Counted, Busy

\* An inode in memory stays there, and another comes in as it is on the disk.
LEMMA CurStays ==
  ASSUME NEW s, Typed(s), OneSlot(s), NEW t, OneSlot(t), t.din = s.din,
         \A k \in Slots : InUse(s, k) =>
            InUse(t, k) /\ t.it[k].inum = s.it[k].inum /\ t.it[k].copy = s.it[k].copy,
         \A k \in Slots : InUse(t, k) =>
            InUse(s, k) \/ (t.it[k].copy = s.din[t.it[k].inum] /\ InMemory(s, t.it[k].inum) = {})
  PROVE  Cur(t) = Cur(s)
<1>1. Cur(s) \in [Inums -> InodeType]  BY CurTyped
<1>2. ASSUME NEW i \in Inums, NEW k \in InMemory(t, i) PROVE Cur(s)[i] = t.it[k].copy
  <2>1. k \in Slots /\ InUse(t, k) /\ t.it[k].inum = i  BY <1>2 DEF InMemory, InUse
  <2>2. CASE InUse(s, k)
    <3>1. k \in InMemory(s, i)  BY <2>1, <2>2 DEF InMemory, InUse
    <3> QED BY <2>1, <2>2, <3>1, CurrentIn DEF Cur
  <2>3. CASE ~ InUse(s, k)
    <3>1. t.it[k].copy = s.din[i] /\ InMemory(s, i) = {}  BY <2>1, <2>3
    <3> QED BY <3>1, CurrentOut DEF Cur
  <2> QED BY <2>2, <2>3
<1>3. ASSUME NEW i \in Inums, InMemory(t, i) = {} PROVE Cur(s)[i] = t.din[i]
  <2>1. InMemory(s, i) = {}  BY <1>3 DEF InMemory, InUse
  <2> QED BY <2>1, CurrentOut DEF Cur
<1> QED BY <1>1, <1>2, <1>3, CurIs

----
(* The table of inodes. *)
LEMMA MinSlot ==
  ASSUME NEW S \in SUBSET Slots, S # {}
  PROVE  Min(S) \in S
<1>1. S \in SUBSET Nat  BY Sizes DEF Slots
<1>2. \E x \in S : \A y \in S : x <= y  BY <1>1, LeastOf
<1> QED BY <1>2 DEF Min

\* A slot with another entry.
Entry(s, t, k, e) == t.it = [s.it EXCEPT ![k] = e]

LEMMA EntryGood ==
  ASSUME NEW s, NEW K, NEW cut, Good(s, K, cut), NEW k \in Slots, NEW e \in SlotType,
         NEW t, t = [s EXCEPT !.it = [s.it EXCEPT ![k] = e]],
         s.why = "no" => /\ OneSlot(t)
                         /\ SlotStep(s, t, k)
  PROVE  /\ Good(t, K, cut) /\ Goes(s, t, cut) /\ OnlyTable(s, t) /\ t.ret = s.ret /\ Typed(t)
         /\ t.it = [s.it EXCEPT ![k] = e]
<1>1. PICK x : x = [s.it EXCEPT ![k] = e]  OBVIOUS
<1>2. /\ Typed(s) /\ s.it \in [Slots -> SlotType]
      /\ s.why = "no" => Table(s)  BY GoodIs DEF Typed, Live
<1>3. x \in [Slots -> SlotType] /\ \A l \in Slots \ {k} : x[l] = s.it[l]  BY <1>1, <1>2
<1>4. /\ Typed(t) /\ t.bmap = s.bmap /\ t.din = s.din /\ t.blk = s.blk
      /\ t.it = x /\ t.ret = s.ret /\ t.why = s.why /\ t.log = s.log
  BY <1>1, <1>2, <1>3, TableFields
<1>5. OnlyTable(s, t)  BY <1>4 DEF OnlyTable
<1>6. ASSUME s.why = "no", NEW l \in Slots PROVE SlotStep(s, t, l)
  <2>1. CASE l = k  BY <1>6, <2>1
  <2>2. CASE l # k
    <3>1. t.it[l] = s.it[l]  BY <1>3, <1>4, <2>2
    <3>2. Busy(s, l) => s.it[l].inum \in Inums  BY <1>2, <1>6 DEF Table
    <3> QED BY <3>1, <3>2 DEF SlotStep, InUse, Busy
  <2> QED BY <2>1, <2>2
<1>7. Good(t, K, cut) /\ Goes(s, t, cut)  BY <1>4, <1>5, <1>6, TableGood
<1> QED BY <1>1, <1>4, <1>5, <1>7

LEMMA OneSlotStays ==
  ASSUME NEW s, OneSlot(s), NEW t, NEW k \in Slots,
         \A l \in Slots \ {k} : t.it[l] = s.it[l],
         \A l \in Slots \ {k} : Busy(s, l) => s.it[l].inum # t.it[k].inum
  PROVE  OneSlot(t)
<1>1. \A l \in Slots \ {k} : Busy(t, l) <=> Busy(s, l)  BY DEF Busy
<1> QED BY <1>1 DEF OneSlot

\* iget: the entry has one reference more.
Took(s, t, i) ==
    /\ t.it[t.ret].inum = i /\ Cur(t) = Cur(s)
    /\ Counted(s) => Gains(s, t, t.ret)

LEMMA IgetHere ==
  ASSUME NEW s, NEW K, NEW cut, Good(s, K, cut), s.why = "no", NEW i \in Inums,
         NEW k \in Slots, Busy(s, k), s.it[k].inum = i,
         NEW t, t = Ret([s EXCEPT !.it[k].ref = @ + 1], k)
  PROVE  Good(t, K, cut) /\ Goes(s, t, cut) /\ t.ret = k /\ t.blk = s.blk /\ t.din = s.din
         /\ t.why = "no" /\ Took(s, t, i)
<1>1. /\ Typed(s) /\ Table(s) /\ OneSlot(s)  BY GoodIs DEF Live, Table, OneSlot
<1>2. PICK x : x = s.it[k]  OBVIOUS
<1>3. x \in SlotType /\ x.ref \in Int  BY <1>1, <1>2 DEF Typed, SlotType
<1>4. PICK e : e = [x EXCEPT !.ref = x.ref + 1]  OBVIOUS
<1>5. e \in SlotType /\ e.ref = x.ref + 1 /\ e.inum = x.inum /\ e.valid = x.valid
      /\ e.copy = x.copy /\ e.kept = x.kept  BY <1>3, <1>4 DEF SlotType
<1>6. PICK u : u = [s EXCEPT !.it = [s.it EXCEPT ![k] = e]]  OBVIOUS
<1>7. t = Ret(u, k)
  <2>1. [s EXCEPT !.it[k].ref = @ + 1] = [s EXCEPT !.it = [s.it EXCEPT ![k] = [s.it[k] EXCEPT !.ref = s.it[k].ref + 1]]]
    OBVIOUS
  <2> QED BY <1>2, <1>4, <1>6, <2>1
<1>8. s.it \in [Slots -> SlotType] /\ u.it = [s.it EXCEPT ![k] = e]  BY <1>1, <1>6 DEF Typed
<1>9. /\ u.it[k] = e /\ \A l \in Slots \ {k} : u.it[l] = s.it[l]
      /\ u.it[k].inum = i /\ u.it[k].copy = s.it[k].copy  BY <1>2, <1>5, <1>8
<1>10. \A l \in Slots \ {k} : Busy(s, l) => s.it[l].inum # u.it[k].inum  BY <1>1, <1>9 DEF OneSlot
<1>11. OneSlot(u)  BY <1>1, <1>9, <1>10, OneSlotStays
<1>12. InUse(u, k) => InUse(s, k)
  <2>1. u.it[k].valid = s.it[k].valid  BY <1>2, <1>5, <1>9
  <2> QED BY <2>1 DEF InUse
<1>13. SlotStep(s, u, k)  BY <1>9, <1>12 DEF SlotStep
<1>14. /\ Good(u, K, cut) /\ Goes(s, u, cut) /\ OnlyTable(s, u) /\ Typed(u)
  BY <1>5, <1>6, <1>11, <1>13, EntryGood
<1>15. /\ Good(t, K, cut) /\ Goes(u, t, cut) /\ t.it = u.it /\ t.din = u.din /\ t.blk = u.blk
       /\ t.why = u.why /\ t.ret = k /\ Cur(t) = Cur(u)  BY <1>7, <1>14, RetGood
<1>16. ASSUME NEW l \in Slots, InUse(s, l)
       PROVE  InUse(u, l) /\ u.it[l].inum = s.it[l].inum /\ u.it[l].copy = s.it[l].copy
  <2>1. CASE l # k  BY <1>9, <1>16, <2>1 DEF InUse, Busy
  <2>2. CASE l = k
    <3>1. u.it[k].valid = s.it[k].valid /\ u.it[k].kept = s.it[k].kept
          /\ u.it[k].ref = s.it[k].ref + 1  BY <1>2, <1>5, <1>9
    <3>2. s.it[k].ref > 0 => u.it[k].ref > 0  BY <1>2, <1>3, <3>1
    <3>3. InUse(u, k)  BY <1>16, <2>2, <3>1, <3>2 DEF InUse, Busy
    <3> QED BY <1>9, <2>2, <3>3
  <2> QED BY <2>1, <2>2
<1>17. \A l \in Slots : InUse(u, l) => InUse(s, l)  BY <1>9, <1>12 DEF InUse, Busy
<1>18. Cur(u) = Cur(s)
  <2>1. u.din = s.din  BY <1>14 DEF OnlyTable
  <2>2. \A l \in Slots : InUse(u, l) =>
            InUse(s, l) \/ (u.it[l].copy = s.din[u.it[l].inum] /\ InMemory(s, u.it[l].inum) = {})
    BY <1>17
  <2> QED BY <1>1, <1>11, <1>16, <2>1, <2>2, CurStays
<1>19. Gains(s, t, k)
  <2>1. SUFFICES ASSUME NEW l \in Slots
        PROVE  t.it[l].ref = s.it[l].ref + (IF l = k THEN 1 ELSE 0) /\ Pinned(s.it[l], t.it[l])
    BY DEF Gains
  <2>2. CASE l = k
    <3>1. Pinned(x, e)  BY <1>5, Zenon DEF Pinned
    <3> QED BY <1>2, <1>5, <1>9, <1>15, <2>2, <3>1
  <2>3. CASE l # k
    <3>1. s.it[l].ref \in Int /\ t.it[l] = s.it[l]  BY <1>1, <1>9, <1>15, <2>3, RefTyped
    <3> QED BY <2>3, <3>1 DEF Pinned
  <2> QED BY <2>2, <2>3
<1>20. Goes(s, t, cut)  BY <1>14, <1>15, GoesTwice
<1> QED BY <1>9, <1>14, <1>15, <1>18, <1>19, <1>20 DEF OnlyTable, Took

Vacant(s, k, i) == ~ Busy(s, k) /\ \A l \in Slots : Busy(s, l) => s.it[l].inum # i

Claimed(s, k, i) == Ret([s EXCEPT !.it[k] = [@ EXCEPT !.inum = i, !.ref = 1, !.valid = FALSE]], k)

LEMMA IgetFree ==
  ASSUME NEW s, NEW K, NEW cut, Good(s, K, cut), s.why = "no", NEW i \in Inums,
         NEW k \in Slots, Vacant(s, k, i),
         NEW t, t = Claimed(s, k, i)
  PROVE  Good(t, K, cut) /\ Goes(s, t, cut) /\ t.ret = k /\ t.blk = s.blk /\ t.din = s.din
         /\ t.why = "no" /\ Took(s, t, i)
<1>1. /\ Typed(s) /\ Table(s) /\ OneSlot(s)  BY GoodIs DEF Live, Table, OneSlot
<1>2. PICK x : x = s.it[k]  OBVIOUS
<1>3. x \in SlotType  BY <1>1, <1>2 DEF Typed
<1>4. PICK e : e = [x EXCEPT !.inum = i, !.ref = 1, !.valid = FALSE]  OBVIOUS
<1>50. e = [inum |-> i, ref |-> 1, kept |-> x.kept, valid |-> FALSE, copy |-> x.copy]
  BY <1>3, <1>4 DEF SlotType
<1>5. e \in SlotType /\ e.ref = 1 /\ e.inum = i  BY <1>3, <1>50 DEF SlotType
<1>51. ~ e.valid  BY <1>50
<1>6. PICK u : u = [s EXCEPT !.it = [s.it EXCEPT ![k] = e]]  OBVIOUS
<1>7. t = Ret(u, k)  BY <1>2, <1>4, <1>6 DEF Claimed
<1>8. s.it \in [Slots -> SlotType] /\ u.it = [s.it EXCEPT ![k] = e]  BY <1>1, <1>6 DEF Typed
<1>9. u.it[k] = e /\ \A l \in Slots \ {k} : u.it[l] = s.it[l]  BY <1>8
<1>10. \A l \in Slots \ {k} : Busy(s, l) => s.it[l].inum # u.it[k].inum  BY <1>5, <1>9 DEF Vacant
<1>11. OneSlot(u)  BY <1>1, <1>9, <1>10, OneSlotStays
<1>12. ~ InUse(u, k)  BY <1>51, <1>9 DEF InUse
<1>13. SlotStep(s, u, k)  BY <1>5, <1>9, <1>12 DEF SlotStep
<1>14. /\ Good(u, K, cut) /\ Goes(s, u, cut) /\ OnlyTable(s, u) /\ Typed(u)
  BY <1>5, <1>6, <1>11, <1>13, EntryGood
<1>15. /\ Good(t, K, cut) /\ Goes(u, t, cut) /\ t.it = u.it /\ t.din = u.din /\ t.blk = u.blk
       /\ t.why = u.why /\ t.ret = k /\ Cur(t) = Cur(u)  BY <1>7, <1>14, RetGood
<1>16. ASSUME NEW l \in Slots, InUse(s, l)
       PROVE  InUse(u, l) /\ u.it[l].inum = s.it[l].inum /\ u.it[l].copy = s.it[l].copy
  <2>1. l # k  BY <1>16 DEF InUse, Vacant
  <2> QED BY <1>9, <1>16, <2>1 DEF InUse, Busy
<1>17. \A l \in Slots : InUse(u, l) => InUse(s, l)  BY <1>9, <1>12 DEF InUse, Busy
<1>18. Cur(u) = Cur(s)
  <2>1. u.din = s.din  BY <1>14 DEF OnlyTable
  <2>2. \A l \in Slots : InUse(u, l) =>
            InUse(s, l) \/ (u.it[l].copy = s.din[u.it[l].inum] /\ InMemory(s, u.it[l].inum) = {})
    BY <1>17
  <2> QED BY <1>1, <1>11, <1>16, <2>1, <2>2, CurStays
<1>19. ASSUME Counted(s) PROVE Gains(s, t, k)
  <2>1. SUFFICES ASSUME NEW l \in Slots
        PROVE  /\ t.it[l].ref = s.it[l].ref + (IF l = k THEN 1 ELSE 0)
               /\ s.it[l].ref > 0 => Pinned(s.it[l], t.it[l])  BY DEF Gains
  <2>2. CASE l = k
    <3>1. s.it[k].ref \in Nat /\ ~ (s.it[k].ref > 0)  BY <1>19 DEF Counted, Busy, Vacant
    <3> QED BY <1>5, <1>9, <1>15, <2>2, <3>1
  <2>3. CASE l # k
    <3>1. s.it[l].ref \in Int /\ t.it[l] = s.it[l]  BY <1>1, <1>9, <1>15, <2>3, RefTyped
    <3> QED BY <2>3, <3>1 DEF Pinned
  <2> QED BY <2>2, <2>3
<1>20. Goes(s, t, cut)  BY <1>14, <1>15, GoesTwice
<1> QED BY <1>5, <1>9, <1>14, <1>15, <1>18, <1>19, <1>20 DEF OnlyTable, Took

LEMMA IgetGood ==
  ASSUME NEW s, NEW K, NEW cut, Good(s, K, cut), s.why = "no" => Counted(s), NEW i,
         s.why = "no" => i \in Inums, NEW t, t = iget(s, i)
  PROVE  Good(t, K, cut) /\ Goes(s, t, cut) /\ t.ret \in Slots /\ t.blk = s.blk /\ t.din = s.din
         /\ (t.why = "no" => Took(s, t, i))
<1>0. 1 \in Slots  BY Sizes
<1>1. CASE s.why # "no"
  <2>1. t = Ret(s, 1)  BY <1>1 DEF iget
  <2> QED BY <1>0, <1>1, <2>1, RetGood
<1>2. CASE s.why = "no"
  <2> DEFINE here == Here(s, i)
             free == {k \in Slots : ~Busy(s, k)}
  <2>1. CASE here # {}
    <3>1. t = Ret([s EXCEPT !.it[Min(here)].ref = @ + 1], Min(here))  BY <1>2, <2>1 DEF iget
    <3>2. PICK k : k = Min(here)  OBVIOUS
    <3>3. k \in Slots /\ Busy(s, k) /\ s.it[k].inum = i  BY <2>1, <3>2, MinSlot DEF Here
    <3>4. t = Ret([s EXCEPT !.it[k].ref = @ + 1], k)  BY <3>1, <3>2
    <3> QED BY <1>2, <3>3, <3>4, IgetHere
  <2>2. CASE here = {} /\ free # {}
    <3>1. t = Ret([s EXCEPT !.it[Min(free)] =
                     [@ EXCEPT !.inum = i, !.ref = 1, !.valid = FALSE]], Min(free))
      BY <1>2, <2>2 DEF iget
    <3>2. PICK k : k = Min(free)  OBVIOUS
    <3>3. k \in Slots /\ ~ Busy(s, k)
      <4>1. free \in SUBSET Slots /\ free # {}  BY <2>2
      <4>2. k \in free
        <5> HIDE DEF free
        <5> QED BY <3>2, <4>1, MinSlot
      <4> QED BY <4>2
    <3>4. Vacant(s, k, i)  BY <2>2, <3>3 DEF Here, Vacant
    <3>5. t = Claimed(s, k, i)  BY <3>1, <3>2 DEF Claimed
    <3>6. i \in Inums  BY <1>2
    <3> HIDE DEF here, free
    <3> QED BY <1>2, <3>3, <3>4, <3>5, <3>6, IgetFree
  <2>3. CASE here = {} /\ free = {}
    <3>1. t = Ret(Panic(s, OutOfSlots), 1)  BY <1>2, <2>3 DEF iget, OutOfSlots
    <3>2. PICK u : u = Panic(s, OutOfSlots)  OBVIOUS
    <3>3. OutOfSlots # "no" /\ OutOfSlots \in Room  BY RoomIsPanic
    <3>4. Good(u, K, cut) /\ u.it = s.it /\ u.din = s.din /\ u.why # "no" /\ Goes(s, u, cut)
      BY <3>2, <3>3, PanicGood
    <3>5. u.blk = s.blk  BY <3>2, GoodIs, PanicFields
    <3>6. /\ Good(t, K, cut) /\ t.it = u.it /\ t.din = u.din /\ t.blk = u.blk
          /\ t.why = u.why /\ t.ret = 1 /\ Goes(u, t, cut)  BY <3>1, <3>2, <3>4, RetGood
    <3> QED BY <1>0, <3>4, <3>5, <3>6, GoesTwice
  <2> QED BY <2>1, <2>2, <2>3
<1> QED BY <1>1, <1>2

\* ivalid: the inode is in memory.
HasType(s, k, cut) == Busy(s, k) /\ (cut \/ s.din[s.it[k].inum].type # T_NONE)
Loaded(s, t, k) ==
    /\ InUse(t, k) /\ t.it[k].inum = s.it[k].inum /\ Cur(t) = Cur(s) /\ Gains(s, t, 0)

LEMMA IvalidGood ==
  ASSUME NEW s, NEW K, NEW cut, Good(s, K, cut), NEW k \in Slots,
         s.why = "no" => HasType(s, k, cut), NEW t, t = ivalid(s, k)
  PROVE  Good(t, K, cut) /\ Goes(s, t, cut) /\ t.ret = s.ret /\ t.blk = s.blk /\ t.din = s.din
         /\ (t.why = "no" => Loaded(s, t, k))
<1>1. /\ Typed(s)
      /\ s.why = "no" => Table(s) /\ OneSlot(s)  BY GoodIs DEF Live, Table, OneSlot
<1>2. CASE s.it[k].valid \/ s.why # "no"
  <2>1. t = s  BY <1>2 DEF ivalid
  <2>2. Goes(s, t, cut)  BY <2>1 DEF Goes
  <2>3. t.why = "no" => Loaded(s, t, k)  BY <1>1, <1>2, <2>1, GainsNone DEF Loaded, InUse, HasType
  <2> QED BY <2>1, <2>2, <2>3
<1>3. CASE ~ s.it[k].valid /\ s.why = "no"
  <2>1. PICK i : i = s.it[k].inum  OBVIOUS
  <2>2. i \in Inums /\ Busy(s, k) /\ (cut \/ s.din[i].type # T_NONE)
    BY <1>1, <1>3, <2>1 DEF Table, HasType
  <2>3. PICK x : x = s.it[k]  OBVIOUS
  <2>4. x \in SlotType /\ s.din[i] \in InodeType  BY <1>1, <2>2, <2>3 DEF Typed
  <2>5. PICK e : e = [x EXCEPT !.copy = s.din[i], !.valid = TRUE]  OBVIOUS
  <2>6. e = [inum |-> x.inum, ref |-> x.ref, kept |-> x.kept, valid |-> TRUE, copy |-> s.din[i]]
    BY <2>4, <2>5 DEF SlotType
  <2>7. e \in SlotType /\ e.ref = x.ref /\ e.inum = i /\ e.copy = s.din[i]
    BY <2>1, <2>3, <2>4, <2>6 DEF SlotType
  <2>8. e.valid  BY <2>6
  <2>80. e.kept = x.kept  BY <2>6
  <2>9. PICK u : u = [s EXCEPT !.it = [s.it EXCEPT ![k] = e]]  OBVIOUS
  <2>10. u = [s EXCEPT !.it[k].copy = s.din[i], !.it[k].valid = TRUE]  BY <2>3, <2>5, <2>9
  <2>11. t = IF s.din[i].type = T_NONE THEN Panic(u, "ivalid: no type") ELSE u
    <3>1. t = IF s.din[s.it[k].inum].type = T_NONE
              THEN Panic([s EXCEPT !.it[k].copy = s.din[s.it[k].inum], !.it[k].valid = TRUE],
                         "ivalid: no type")
              ELSE [s EXCEPT !.it[k].copy = s.din[s.it[k].inum], !.it[k].valid = TRUE]
      BY <1>3, Zenon DEF ivalid
    <3> QED BY <2>1, <2>10, <3>1
  <2>12. PICK y : y = [s.it EXCEPT ![k] = e]  OBVIOUS
  <2>13. y \in [Slots -> SlotType] /\ y[k] = e /\ \A l \in Slots \ {k} : y[l] = s.it[l]
    BY <1>1, <2>7, <2>12 DEF Typed
  <2>14. /\ Typed(u) /\ u.bmap = s.bmap /\ u.din = s.din /\ u.blk = s.blk
         /\ u.it = y /\ u.ret = s.ret /\ u.why = s.why /\ u.log = s.log
    BY <1>1, <2>9, <2>12, <2>13, TableFields
  <2>15. CASE s.din[i].type = T_NONE
    <3>1. PICK msg : msg = "ivalid: no type"  OBVIOUS
    <3>2. t = Panic(u, msg) /\ msg # "no"  BY <2>11, <2>15, <3>1
    <3>3. /\ Typed(t) /\ t.bmap = u.bmap /\ t.din = u.din /\ t.blk = u.blk /\ t.log = u.log
          /\ t.it = u.it /\ t.ret = u.ret /\ t.why = msg  BY <1>3, <2>14, <3>2, PanicFields
    <3>4. cut  BY <2>2, <2>15
    <3>5. LogGood(t, cut) /\ t.bmap[0]  BY <2>14, <3>3, GoodIs DEF LogGood
    <3>6. Good(t, K, cut)  BY <3>2, <3>3, <3>5, GoodWhen
    <3>7. Goes(s, t, cut)  BY <1>3, <3>4 DEF Goes
    <3> QED BY <2>14, <3>2, <3>3, <3>6, <3>7
  <2>16. CASE s.din[i].type # T_NONE
    <3>1. t = u  BY <2>11, <2>16
    <3>2. \A l \in Slots \ {k} : Busy(s, l) => s.it[l].inum # u.it[k].inum
      BY <1>1, <1>3, <2>1, <2>2, <2>7, <2>13, <2>14 DEF OneSlot
    <3>3. OneSlot(u)  BY <1>1, <1>3, <2>13, <2>14, <3>2, OneSlotStays
    <3>4. SlotStep(s, u, k)  BY <2>2, <2>7, <2>13, <2>14, <2>16 DEF SlotStep
    <3>5. /\ Good(u, K, cut) /\ Goes(s, u, cut) /\ OnlyTable(s, u)
      BY <2>7, <2>9, <3>3, <3>4, EntryGood
    <3>6. ASSUME NEW l \in Slots, InUse(s, l)
          PROVE  InUse(u, l) /\ u.it[l].inum = s.it[l].inum /\ u.it[l].copy = s.it[l].copy
      <4>1. l # k  BY <1>3, <3>6 DEF InUse
      <4> QED BY <2>13, <2>14, <3>6, <4>1 DEF InUse, Busy
    <3>7. ASSUME NEW l \in Slots, InUse(u, l)
          PROVE  InUse(s, l) \/ (u.it[l].copy = s.din[u.it[l].inum] /\ InMemory(s, u.it[l].inum) = {})
      <4>1. CASE l = k
        <5>1. InMemory(s, i) = {}
          <6>1. SUFFICES ASSUME NEW m \in Slots, Busy(s, m), s.it[m].inum = i, s.it[m].valid
                PROVE FALSE  BY DEF InMemory
          <6>2. m = k  BY <1>1, <1>3, <2>1, <2>2, <6>1 DEF OneSlot
          <6> QED BY <1>3, <6>1, <6>2
        <5> QED BY <2>7, <2>13, <2>14, <4>1, <5>1
      <4>2. CASE l # k  BY <2>13, <2>14, <3>7, <4>2 DEF InUse, Busy
      <4> QED BY <4>1, <4>2
    <3>8. Cur(u) = Cur(s)  BY <1>1, <1>3, <2>14, <3>3, <3>6, <3>7, CurStays
    <3>9. InUse(u, k)
      <4>1. u.it[k].valid  BY <2>8, <2>13, <2>14
      <4>2. Busy(u, k)
        <5>1. u.it[k].ref = s.it[k].ref /\ u.it[k].kept = s.it[k].kept
          BY <2>3, <2>7, <2>80, <2>13, <2>14
        <5> QED BY <2>2, <5>1 DEF Busy
      <4> QED BY <4>1, <4>2 DEF InUse
    <3>10. Gains(s, u, 0)
      <4>1. SUFFICES ASSUME NEW l \in Slots
            PROVE u.it[l].ref = s.it[l].ref + (IF l = 0 THEN 1 ELSE 0) /\ Pinned(s.it[l], u.it[l])
        BY DEF Gains
      <4>2. s.it[l].ref \in Int /\ l # 0  BY <1>1, RefTyped
      <4>3. CASE l = k
        <5>1. u.it[k].ref = s.it[k].ref /\ u.it[k].inum = s.it[k].inum
          BY <2>1, <2>3, <2>7, <2>13, <2>14
        <5>2. Pinned(s.it[k], u.it[k])  BY <1>3, <5>1 DEF Pinned
        <5> QED BY <4>2, <4>3, <5>1, <5>2
      <4>4. CASE l # k  BY <2>13, <2>14, <4>2, <4>4 DEF Pinned
      <4> QED BY <4>3, <4>4
    <3>11. u.it[k].inum = s.it[k].inum  BY <2>1, <2>7, <2>13, <2>14
    <3> QED BY <2>14, <3>1, <3>5, <3>8, <3>9, <3>10, <3>11 DEF Loaded
  <2> QED BY <2>15, <2>16
<1> QED BY <1>2, <1>3

\* iput and Forget: the entry has one reference less.
WithSlot(s, k, e) == [s EXCEPT !.it = [s.it EXCEPT ![k] = e]]
MayDrop(s, k) == s.why = "no" => Busy(s, k)
Less(x, e) == e.ref = x.ref - 1 /\ e.inum = x.inum /\ e.valid = x.valid /\ e.copy = x.copy

LEMMA DropSlot ==
  ASSUME NEW s, NEW K, NEW cut, Good(s, K, cut), NEW k \in Slots, MayDrop(s, k),
         NEW e \in SlotType, Less(s.it[k], e),
         NEW t, t = WithSlot(s, k, e)
  PROVE  /\ Good(t, K, cut) /\ Goes(s, t, cut) /\ t.ret = s.ret /\ t.blk = s.blk /\ t.din = s.din
         /\ t.why = s.why /\ Drops(s, t, k)
<1>1. /\ Typed(s)
      /\ s.why = "no" => Table(s) /\ OneSlot(s)  BY GoodIs DEF Live, Table, OneSlot
<1>2. PICK y : y = [s.it EXCEPT ![k] = e]  OBVIOUS
<1>3. y \in [Slots -> SlotType] /\ y[k] = e /\ \A l \in Slots \ {k} : y[l] = s.it[l]
  BY <1>1, <1>2 DEF Typed
<1>4. /\ Typed(t) /\ t.bmap = s.bmap /\ t.din = s.din /\ t.blk = s.blk
      /\ t.it = y /\ t.ret = s.ret /\ t.why = s.why /\ t.log = s.log
  BY <1>1, <1>2, <1>3, TableFields DEF WithSlot
<1>5. ASSUME s.why = "no" PROVE OneSlot(t) /\ SlotStep(s, t, k)
  <2>1. \A l \in Slots \ {k} : Busy(s, l) => s.it[l].inum # t.it[k].inum
    <3>1. t.it[k].inum = s.it[k].inum  BY <1>3, <1>4 DEF Less
    <3>2. OneSlot(s) /\ Busy(s, k)  BY <1>1, <1>5 DEF MayDrop
    <3> QED BY <3>1, <3>2 DEF OneSlot
  <2>2. OneSlot(t)
    <3>1. \A l \in Slots \ {k} : t.it[l] = s.it[l]  BY <1>3, <1>4
    <3>2. OneSlot(s)  BY <1>1, <1>5
    <3> QED BY <2>1, <3>1, <3>2, OneSlotStays
  <2>3. t.it[k].inum = s.it[k].inum /\ t.it[k].copy = s.it[k].copy /\ t.it[k].valid = s.it[k].valid
    BY <1>3, <1>4 DEF Less
  <2>4. InUse(t, k) => InUse(s, k)  BY <1>5, <2>3 DEF InUse, MayDrop
  <2>5. s.it[k].inum \in Inums  BY <1>1, <1>5 DEF Table, MayDrop
  <2> QED BY <2>2, <2>3, <2>4, <2>5 DEF SlotStep
<1>6. Good(t, K, cut) /\ Goes(s, t, cut)
  <2> HIDE DEF Good
  <2> QED BY <1>5, EntryGood DEF WithSlot
<1>7. Drops(s, t, k)
  <2>1. SUFFICES ASSUME NEW l \in Slots
        PROVE  t.it[l].ref = s.it[l].ref - (IF l = k THEN 1 ELSE 0) /\ Pinned(s.it[l], t.it[l])
    BY DEF Drops
  <2>2. s.it[l].ref \in Int  BY <1>1, RefTyped
  <2>3. CASE l = k
    <3>1. Pinned(s.it[k], e)  BY Zenon DEF Pinned, Less
    <3>2. e.ref = s.it[k].ref - 1  BY DEF Less
    <3> QED BY <1>3, <1>4, <2>2, <2>3, <3>1, <3>2
  <2>4. CASE l # k  BY <1>3, <1>4, <2>2, <2>4 DEF Pinned
  <2> QED BY <2>3, <2>4
<1> QED BY <1>4, <1>6, <1>7

LEMMA DropGood ==
  ASSUME NEW s, NEW K, NEW cut, Good(s, K, cut), NEW k \in Slots, MayDrop(s, k),
         NEW t, t = iput(s, k) \/ t = Forget(s, k)
  PROVE  /\ Good(t, K, cut) /\ Goes(s, t, cut) /\ t.ret = s.ret /\ t.blk = s.blk /\ t.din = s.din
         /\ t.why = s.why /\ Drops(s, t, k)
<1>1. s.it \in [Slots -> SlotType]  BY GoodIs DEF Typed
<1>2. PICK x : x = s.it[k]  OBVIOUS
<1>3. x \in SlotType /\ x.ref \in Int  BY <1>1, <1>2 DEF SlotType
<1>4. CASE t = iput(s, k)
  <2>1. PICK e : e = [x EXCEPT !.ref = x.ref - 1]  OBVIOUS
  <2>2. e \in SlotType /\ e.ref = x.ref - 1 /\ e.inum = x.inum /\ e.copy = x.copy
    BY <1>3, <2>1 DEF SlotType
  <2>3. e.valid = x.valid  BY <1>3, <2>1 DEF SlotType
  <2>4. t = [s EXCEPT !.it = [s.it EXCEPT ![k] = e]]  BY <1>2, <1>4, <2>1 DEF iput
  <2>5. Less(s.it[k], e)  BY <1>2, <2>2, <2>3 DEF Less
  <2>6. t = WithSlot(s, k, e)  BY <2>4 DEF WithSlot
  <2> QED BY <2>2, <2>5, <2>6, DropSlot
<1>5. CASE t = Forget(s, k)
  <2>0. PICK e : e = [x EXCEPT !.ref = x.ref - 1, !.kept = TRUE]  OBVIOUS
  <2>1. e = [inum |-> x.inum, ref |-> x.ref - 1, kept |-> TRUE, valid |-> x.valid,
             copy |-> x.copy]
    BY <1>3, <2>0 DEF SlotType
  <2>2. e \in SlotType /\ e.ref = x.ref - 1 /\ e.inum = x.inum /\ e.copy = x.copy
    BY <1>3, <2>1 DEF SlotType
  <2>3. e.valid = x.valid  BY <2>1
  <2>4. t = [s EXCEPT !.it = [s.it EXCEPT ![k] = e]]
    <3>2. t = [s EXCEPT !.it = [s.it EXCEPT ![k] = [s.it[k] EXCEPT !.ref = s.it[k].ref - 1, !.kept = TRUE]]]
      BY <1>1, <1>5 DEF Forget
    <3> QED BY <1>2, <2>0, <3>2
  <2>5. Less(s.it[k], e)  BY <1>2, <2>2, <2>3 DEF Less
  <2>6. t = WithSlot(s, k, e)  BY <2>4 DEF WithSlot
  <2> QED BY <2>2, <2>5, <2>6, DropSlot
<1> QED BY <1>4, <1>5

----
(* Writing an inode. *)
\* What the kernel knows stays when an inode in memory is stored.
LEMMA CurStored ==
  ASSUME NEW s, Typed(s), OneSlot(s), NEW t, t.it = s.it, NEW i,
         NEW k \in Slots, InUse(s, k), s.it[k].inum = i,
         \A j \in Inums \ {i} : t.din[j] = s.din[j]
  PROVE  Cur(t) = Cur(s)
<1>1. Cur(s) \in [Inums -> InodeType]  BY CurTyped
<1>2. \A j : InMemory(t, j) = InMemory(s, j)  BY DEF InMemory, Busy
<1>3. ASSUME NEW j \in Inums, NEW l \in InMemory(t, j) PROVE Cur(s)[j] = t.it[l].copy
  BY <1>2, <1>3, CurrentIn DEF Cur
<1>4. ASSUME NEW j \in Inums, InMemory(t, j) = {} PROVE Cur(s)[j] = t.din[j]
  <2>1. j # i  BY <1>2, <1>4 DEF InMemory, InUse
  <2> QED BY <1>2, <1>4, <2>1, CurrentOut DEF Cur
<1>5. OneSlot(t)  BY DEF OneSlot, Busy
<1> QED BY <1>1, <1>3, <1>4, <1>5, CurIs

StoredNow(s, t, k) ==
    /\ Cur(t) = Cur(s) /\ InUse(t, k)
    /\ t.din[s.it[k].inum] = s.it[k].copy
    /\ \A j \in Inums : t.din[j].type = s.din[j].type

LEMMA IupdateGood ==
  ASSUME NEW s, NEW K, NEW cut, Good(s, K, cut), NEW k \in Slots, s.why = "no" => InUse(s, k),
         NEW t, t = iupdate(s, k)
  PROVE  /\ Good(t, K \ {k}, cut) /\ Goes(s, t, cut) /\ t.it = s.it /\ t.ret = s.ret
         /\ t.blk = s.blk /\ t.bmap = s.bmap /\ t.why = s.why
         /\ t.why = "no" => StoredNow(s, t, k)
<1>1. /\ Typed(s) /\ LogGood(s, cut) /\ s.bmap[0]
      /\ s.why = "no" => Table(s) /\ Stored(s, K) /\ (cut \/ Whole(s))  BY GoodIs DEF Live
<1>2. PICK i, c : i = s.it[k].inum /\ c = s.it[k].copy  OBVIOUS
<1>3. c \in InodeType  BY <1>1, <1>2 DEF Typed, SlotType
<1>4. PICK x : x = [s.din EXCEPT ![i] = c]  OBVIOUS
<1>5. x \in [Inums -> InodeType] /\ \A j \in Inums : x[j] = IF j = i THEN c ELSE s.din[j]
  BY <1>1, <1>3, <1>4 DEF Typed
<1>6. PICK u : u = [s EXCEPT !.din = x]  OBVIOUS
<1>7. /\ Typed(u) /\ u.bmap = s.bmap /\ u.din = x /\ u.blk = s.blk
      /\ u.it = s.it /\ u.ret = s.ret /\ u.why = s.why /\ u.log = s.log
  BY <1>1, <1>5, <1>6, DinFields
<1>8. t = BwriteInode(u, i)  BY <1>2, <1>4, <1>6 DEF iupdate
<1>9. /\ Typed(t) /\ t.bmap = s.bmap /\ t.din = x /\ t.blk = s.blk
      /\ t.it = s.it /\ t.ret = s.ret /\ t.why = s.why
      /\ s.why # "no" => t.log = s.log
      /\ s.why = "no" => /\ Range(t.log) = Range(s.log) \cup {OnDisk(t)}
                         /\ OnDisk(t) = [OnDisk(u) EXCEPT !.din[i] = x[i]]
                         /\ OnDisk(t) \in ImageType
  <2>1. /\ Typed(t) /\ t.bmap = u.bmap /\ t.din = u.din /\ t.blk = u.blk
        /\ t.it = u.it /\ t.ret = u.ret /\ t.why = u.why
        /\ u.why # "no" => t.log = u.log
        /\ u.why = "no" => /\ Range(t.log) = Range(u.log) \cup {OnDisk(t)}
                           /\ OnDisk(t) = [OnDisk(u) EXCEPT !.din[i] = u.din[i]]
                           /\ OnDisk(t) \in ImageType
    <3>1. Typed(u)  BY <1>7
    <3> QED BY <1>8, <3>1, WriteInodeFields
  <2> QED BY <1>7, <2>1
<1>10. Goes(s, t, cut)  BY <1>9 DEF Goes
<1>11. CASE s.why # "no"
  <2>1. LogGood(t, cut)  BY <1>1, <1>9, <1>11 DEF LogGood
  <2>2. Good(t, K \ {k}, cut)  BY <1>1, <1>9, <1>11, <2>1, GoodWhen
  <2> QED BY <1>9, <1>10, <1>11, <2>2
<1>12. CASE s.why = "no"
  <2>1. InUse(s, k) /\ Table(s) /\ OneSlot(s) /\ i \in Inums
    BY <1>1, <1>2, <1>12 DEF Table, OneSlot, InUse
  <2>2. PICK v, w : v = OnDisk(s) /\ w = OnDisk(t)  OBVIOUS
  <2>3. v \in ImageType /\ OnDisk(u) = v /\ v.din = s.din
    BY <1>1, <1>7, <1>12, <2>2, OnDiskTyped DEF OnDisk, Table
  <2>4. w = [v EXCEPT !.din[i] = x[i]] /\ w \in ImageType  BY <1>9, <1>12, <2>2, <2>3
  <2>5. w.bmap = v.bmap /\ w.blk = v.blk /\ w.din = [v.din EXCEPT ![i] = x[i]]
    BY <2>3, <2>4 DEF ImageType
  <2>50. w.din = x
    <3>1. v.din \in [Inums -> InodeType]  BY <2>3 DEF ImageType
    <3> QED BY <1>4, <1>5, <2>1, <2>3, <2>5, <3>1
  <2>6. /\ c.type = s.din[i].type /\ c.type # T_NONE /\ (i # ROOTINO => Filled(c))
    BY <1>2, <2>1 DEF Table, InUse
  <2>7. \A j \in Inums : x[j].type = s.din[j].type  BY <1>5, <2>6
  <2>8. Table(t)
    <3>1. t.din = OnDisk(t).din  BY <1>9, <2>2, <2>50
    <3>2. \A l \in Slots : Busy(t, l) <=> Busy(s, l)  BY <1>9 DEF Busy
    <3>3. \A l, m \in Slots : Busy(t, l) /\ Busy(t, m) /\ t.it[l].inum = t.it[m].inum => l = m
      BY <1>9, <2>1, <3>2 DEF Table
    <3>4. \A l \in Slots : Busy(t, l) => t.it[l].inum \in Inums  BY <1>9, <2>1, <3>2 DEF Table
    <3>5. \A l \in Slots : Busy(t, l) /\ t.it[l].valid =>
            /\ t.it[l].copy.type = t.din[t.it[l].inum].type /\ t.it[l].copy.type # T_NONE
            /\ t.it[l].inum # ROOTINO => Filled(t.it[l].copy)  BY <1>9, <2>1, <2>7, <3>2 DEF Table
    <3> QED BY <3>1, <3>3, <3>4, <3>5 DEF Table
  <2>9. Stored(t, K \ {k})
    <3>1. SUFFICES ASSUME NEW l \in Slots \ (K \ {k}), Busy(t, l) /\ t.it[l].valid,
                          t.it[l].inum # ROOTINO
          PROVE t.it[l].copy = t.din[t.it[l].inum]  BY DEF Stored
    <3>2. Busy(s, l) /\ s.it[l].valid /\ s.it[l].inum # ROOTINO /\ t.it[l] = s.it[l]
      BY <1>9, <3>1 DEF Busy
    <3>3. CASE l = k  BY <1>2, <1>5, <1>9, <2>1, <3>2, <3>3
    <3>4. CASE l # k
      <4>1. s.it[l].copy = s.din[s.it[l].inum]  BY <1>1, <1>12, <3>1, <3>2, <3>4 DEF Stored
      <4>2. s.it[l].inum # i /\ s.it[l].inum \in Inums  BY <1>2, <2>1, <3>2, <3>4 DEF Table, InUse
      <4> QED BY <1>5, <1>9, <3>2, <4>1, <4>2
    <3> QED BY <3>3, <3>4
  <2>10. Cur(t) = Cur(s)
    <3>1. \A j \in Inums \ {i} : t.din[j] = s.din[j]  BY <1>5, <1>9
    <3> QED BY <1>1, <1>2, <1>9, <2>1, <3>1, CurStored
  <2>11. Rooted(w)
    <3>1. Rooted(v)  BY <1>1, <2>2, LastImage DEF LogGood, Safe
    <3>2. \A j \in Inums \ {ROOTINO} : x[j].type # T_DIR /\ Filled(x[j])
      BY <1>5, <2>3, <2>6, <2>7, <3>1 DEF Rooted
    <3>3. x[ROOTINO].type = T_DIR  BY <2>3, <2>7, <3>1, Sizes DEF Rooted
    <3> QED BY <2>5, <2>50, <3>1, <3>2, <3>3 DEF Rooted
  <2>12. ASSUME ~ cut PROVE Whole(t)
    <3>1. PICK d : d = Cur(s)  OBVIOUS
    <3>2. d[i] = c  BY <1>2, <2>1, <3>1, CurOf
    <3>3. Right(s.bmap, d, s.blk) /\ Behind(v, s.bmap, d, s.blk)
      BY <1>1, <1>12, <2>2, <2>12, <3>1 DEF Whole
    <3>4. Behind(w, s.bmap, d, s.blk)
      <4>1. w.bmap = s.bmap  BY <2>5, <3>3 DEF Behind
      <4>2. \A j \in Inums : w.din[j].type = d[j].type  BY <2>3, <2>50, <2>7, <3>3 DEF Behind
      <4>3. \A j \in Inums, n \in 0 .. NDIRECT : w.din[j].addrs[n] \in {0, d[j].addrs[n]}
        BY <1>5, <2>3, <2>50, <3>2, <3>3 DEF Behind
      <4>4. \A j \in Inums, n \in Places : (n = MAXFILE \/ j = ROOTINO) /\ At(d, s.blk, j, n) # 0 =>
                w.blk[At(d, s.blk, j, n)] = s.blk[At(d, s.blk, j, n)]
        BY <2>5, <3>3 DEF Behind
      <4> QED BY <4>1, <4>2, <4>3, <4>4 DEF Behind
    <3> QED BY <1>9, <2>2, <2>10, <3>1, <3>3, <3>4 DEF Whole
  <2>13. Safe(w, cut)
    <3>1. CASE cut  BY <2>11, <3>1 DEF Safe
    <3>2. CASE ~ cut  BY <1>9, <2>2, <2>8, <2>11, <2>12, <3>2, WholeRight DEF Safe
    <3> QED BY <3>1, <3>2
  <2>14. LogGood(t, cut)  BY <1>1, <1>9, <1>12, <2>2, <2>13 DEF LogGood
  <2>15. Good(t, K \ {k}, cut)  BY <1>1, <1>9, <2>8, <2>9, <2>12, <2>14, GoodWhen DEF Live
  <2>16. StoredNow(s, t, k)  BY <1>2, <1>5, <1>9, <2>1, <2>7, <2>10 DEF StoredNow, InUse, Busy
  <2> QED BY <1>9, <1>10, <2>15, <2>16
<1> QED BY <1>11, <1>12

----
(* A new inode. *)
\* The directory, as the kernel knows it.
RootSizeOf(s) == Cur(s)[ROOTINO].size
SameRoot(s, t) ==
    /\ RootSizeOf(t) = RootSizeOf(s)
    /\ \A n \in 0 .. MAXFILE - 1 : DataOf(t, ROOTINO, n) = DataOf(s, ROOTINO, n)

LEMMA SameRootTwice ==
  ASSUME NEW s, NEW t, NEW u, SameRoot(s, t), SameRoot(t, u)
  PROVE  SameRoot(s, u)
  BY DEF SameRoot

LEMMA SameRootCur ==
  ASSUME NEW s, NEW t, Cur(t) = Cur(s), t.blk = s.blk
  PROVE  SameRoot(s, t)
  BY DEF SameRoot, RootSizeOf, DataOf

WithInode(din, i, c) == [din EXCEPT ![i] = c]
NewInode == [FreeInode EXCEPT !.type = T_FILE]

LEMMA NewInodeTyped ==
  /\ NewInode \in InodeType /\ NewInode.type = T_FILE /\ NewInode.addrs = NoAddrs
  /\ NewInode.size = 0 /\ Filled(NewInode)
<1>1. NewInode \in InodeType  BY Empties DEF NewInode, InodeType
<1>2. NewInode.type = T_FILE /\ NewInode.addrs = NoAddrs /\ NewInode.size = 0
  BY DEF NewInode, FreeInode
<1> QED BY <1>1, <1>2 DEF Filled

\* An inode that is free is nowhere in memory.
LEMMA FreeNotInMemory ==
  ASSUME NEW s, Table(s), NEW i, s.din[i].type = T_NONE
  PROVE  \A k \in Slots : InUse(s, k) => s.it[k].inum # i
  BY DEF Table, InUse

\* A new inode in the kernel.
LEMMA CurNew ==
  ASSUME NEW s, Typed(s), Table(s), NEW i \in Inums, s.din[i].type = T_NONE,
         NEW c \in InodeType, NEW t, t.it = s.it, t.din = WithInode(s.din, i, c)
  PROVE  Cur(t) = WithInode(Cur(s), i, c) /\ Cur(s)[i] = s.din[i]
<1>1. OneSlot(s) /\ OneSlot(t)  BY DEF Table, OneSlot, Busy
<1>2. PICK d : d = WithInode(Cur(s), i, c)  OBVIOUS
<1>3. Cur(s) \in [Inums -> InodeType]  BY <1>1, CurTyped
<1>4. d \in [Inums -> InodeType] /\ \A j \in Inums : d[j] = IF j = i THEN c ELSE Cur(s)[j]
  BY <1>2, <1>3 DEF WithInode
<1>5. \A j : InMemory(t, j) = InMemory(s, j)  BY DEF InMemory, Busy
<1>6. InMemory(s, i) = {}  BY FreeNotInMemory DEF InMemory, InUse
<1>7. ASSUME NEW j \in Inums, NEW l \in InMemory(t, j) PROVE d[j] = t.it[l].copy
  <2>1. l \in InMemory(s, j) /\ j # i  BY <1>5, <1>6, <1>7
  <2>2. Cur(s)[j] = s.it[l].copy  BY <1>1, <2>1, CurrentIn DEF Cur
  <2> QED BY <1>4, <2>1, <2>2
<1>8. ASSUME NEW j \in Inums, InMemory(t, j) = {} PROVE d[j] = t.din[j]
  <2>1. InMemory(s, j) = {}  BY <1>5, <1>8
  <2>2. Cur(s)[j] = s.din[j]  BY <2>1, CurrentOut DEF Cur
  <2>3. s.din \in [Inums -> InodeType]  BY DEF Typed
  <2> QED BY <1>4, <2>2, <2>3 DEF WithInode
<1>9. Cur(t) = d
  <2>1. d \in [Inums -> InodeType] /\ OneSlot(t)  BY <1>1, <1>4
  <2>2. \A j \in Inums : \A l \in InMemory(t, j) : d[j] = t.it[l].copy  BY <1>7
  <2>3. \A j \in Inums : InMemory(t, j) = {} => d[j] = t.din[j]  BY <1>8
  <2> QED BY <2>1, <2>2, <2>3, CurIs
<1>10. Cur(s)[i] = s.din[i]  BY <1>6, CurrentOut DEF Cur
<1> QED BY <1>2, <1>9, <1>10

\* It has no blocks.
LEMMA NewRight ==
  ASSUME NEW bmp, NEW din \in [Inums -> InodeType], NEW blk \in [Blocks -> Contents],
         Right(bmp, din, blk), NEW i \in Inums, din[i].type = T_NONE, i # ROOTINO,
         NEW d
  PROVE  d = WithInode(din, i, NewInode) =>
         /\ d \in [Inums -> InodeType] /\ Right(bmp, d, blk)
         /\ \A j \in Inums, n \in Places : At(d, blk, j, n) = At(din, blk, j, n)
<1> HAVE d = WithInode(din, i, NewInode)
<1>1. d \in [Inums -> InodeType] /\ \A j \in Inums : d[j] = IF j = i THEN NewInode ELSE din[j]
  BY NewInodeTyped DEF WithInode
<1>2. din[i].addrs = NoAddrs /\ d[i].addrs = NoAddrs
  BY <1>1, NewInodeTyped DEF Right, Sound, OneOwner
<1>3. ASSUME NEW j \in Inums, NEW n \in Places PROVE At(d, blk, j, n) = At(din, blk, j, n)
  <2>1. d[j].addrs = din[j].addrs  BY <1>1, <1>2
  <2> QED BY <2>1 DEF At, AddrOf
<1>4. \A j \in Inums : d[j].type = T_NONE => d[j].addrs = NoAddrs
  BY <1>1, <1>2 DEF Right, Sound, OneOwner
<1>5. Sound(bmp, d, blk)
  <2>1. \A j \in Inums, n \in Places : At(d, blk, j, n) \in {0, At(din, blk, j, n)}  BY <1>3
  <2>2. Sound(bmp, din, blk)  BY DEF Right
  <2> QED BY <1>4, <2>1, <2>2, FewerAddrs
<1>6. \A n \in 0 .. MAXFILE - 1 : DataIn(d, blk, ROOTINO, n) = DataIn(din, blk, ROOTINO, n)
  <2>1. ROOTINO \in Inums /\ \A n \in 0 .. MAXFILE - 1 : n \in Places  BY Sizes DEF Places
  <2>2. \A n \in 0 .. MAXFILE - 1 : At(d, blk, ROOTINO, n) = At(din, blk, ROOTINO, n)  BY <1>3, <2>1
  <2> QED BY <2>2 DEF DataIn
<1>7. \A j \in Inums : din[j].type = T_FILE => d[j].type = T_FILE  BY <1>1, NewInodeTyped
<1>8. Entered(d, blk)
  <2>1. Entered(din, blk)  BY DEF Right
  <2> QED BY <1>6, <1>7, <2>1, EnteredSame
<1> QED BY <1>1, <1>3, <1>5, <1>8 DEF Right

Made(s, i) == BwriteInode([s EXCEPT !.din[i] = NewInode], i)

LEMMA MadeGood ==
  ASSUME NEW s, NEW K, NEW cut, Good(s, K, cut), s.why = "no", NEW i \in Inums,
         s.din[i].type = T_NONE, NEW t, t = Made(s, i)
  PROVE  /\ Good(t, K, cut) /\ t.it = s.it /\ t.blk = s.blk /\ t.why = "no" /\ SameRoot(s, t)
         /\ t.din = WithInode(s.din, i, NewInode)
<1>1. /\ Typed(s) /\ LogGood(s, cut) /\ s.bmap[0] /\ Table(s) /\ Stored(s, K) /\ (cut \/ Whole(s))
      /\ OneSlot(s)  BY GoodIs DEF Live, Table, OneSlot
<1>2. PICK x : x = WithInode(s.din, i, NewInode)  OBVIOUS
<1>3. x \in [Inums -> InodeType] /\ \A j \in Inums : x[j] = IF j = i THEN NewInode ELSE s.din[j]
  BY <1>1, <1>2, NewInodeTyped DEF Typed, WithInode
<1>4. PICK u : u = [s EXCEPT !.din = x]  OBVIOUS
<1>5. /\ Typed(u) /\ u.bmap = s.bmap /\ u.din = x /\ u.blk = s.blk
      /\ u.it = s.it /\ u.ret = s.ret /\ u.why = "no" /\ u.log = s.log
  BY <1>1, <1>3, <1>4, DinFields
<1>6. t = BwriteInode(u, i)  BY <1>2, <1>4 DEF Made, WithInode
<1>7. /\ Typed(t) /\ t.bmap = u.bmap /\ t.din = u.din /\ t.blk = u.blk
      /\ t.it = u.it /\ t.ret = u.ret /\ t.why = u.why
      /\ Range(t.log) = Range(u.log) \cup {OnDisk(t)}
      /\ OnDisk(t) = [OnDisk(u) EXCEPT !.din[i] = u.din[i]]
      /\ OnDisk(t) \in ImageType
  <2>1. Typed(u) /\ u.why = "no"  BY <1>5
  <2>2. /\ Typed(t) /\ t.bmap = u.bmap /\ t.din = u.din /\ t.blk = u.blk
        /\ t.it = u.it /\ t.ret = u.ret /\ t.why = u.why
        /\ u.why # "no" => t.log = u.log
        /\ u.why = "no" => /\ Range(t.log) = Range(u.log) \cup {OnDisk(t)}
                           /\ OnDisk(t) = [OnDisk(u) EXCEPT !.din[i] = u.din[i]]
                           /\ OnDisk(t) \in ImageType  BY <1>6, <2>1, WriteInodeFields
  <2> QED BY <2>1, <2>2
<1>8. PICK v, w : v = OnDisk(s) /\ w = OnDisk(t)  OBVIOUS
<1>9. v \in ImageType /\ OnDisk(u) = v /\ v.din = s.din /\ Rooted(v)
  BY <1>1, <1>5, <1>8, OnDiskTyped, LastImage DEF OnDisk, Table, LogGood, Safe
<1>10. w = [v EXCEPT !.din[i] = x[i]] /\ w \in ImageType  BY <1>5, <1>7, <1>8, <1>9
<1>11. w.bmap = v.bmap /\ w.blk = v.blk /\ w.din = x
  <2>1. w.bmap = v.bmap /\ w.blk = v.blk /\ w.din = [v.din EXCEPT ![i] = x[i]]
    BY <1>9, <1>10 DEF ImageType
  <2>2. v.din \in [Inums -> InodeType]  BY <1>9 DEF ImageType
  <2> QED BY <1>2, <1>3, <1>9, <2>1, <2>2 DEF WithInode
<1>12. i # ROOTINO  BY <1>9 DEF Rooted, T_DIR, T_NONE
<1>13. Table(t)
  <2>1. t.din = OnDisk(t).din  BY <1>5, <1>7, <1>8, <1>11
  <2>2. \A l \in Slots : (Busy(t, l) <=> Busy(s, l)) /\ t.it[l] = s.it[l]  BY <1>5, <1>7 DEF Busy
  <2>3. \A l, m \in Slots : Busy(t, l) /\ Busy(t, m) /\ t.it[l].inum = t.it[m].inum => l = m
    BY <1>1, <2>2 DEF Table
  <2>4. \A l \in Slots : Busy(t, l) => t.it[l].inum \in Inums  BY <1>1, <2>2 DEF Table
  <2>5. ASSUME NEW l \in Slots, InUse(t, l)
        PROVE  /\ t.it[l].copy.type = t.din[t.it[l].inum].type /\ t.it[l].copy.type # T_NONE
               /\ t.it[l].inum # ROOTINO => Filled(t.it[l].copy)
    <3>1. InUse(s, l) /\ s.it[l].inum \in Inums  BY <1>1, <2>2, <2>5 DEF InUse, Table
    <3>2. s.it[l].inum # i  BY <1>1, <3>1, FreeNotInMemory
    <3> QED BY <1>1, <1>3, <1>5, <1>7, <2>2, <3>1, <3>2 DEF Table, InUse
  <2>6. \A l \in Slots : Busy(t, l) /\ t.it[l].valid =>
            /\ t.it[l].copy.type = t.din[t.it[l].inum].type /\ t.it[l].copy.type # T_NONE
            /\ t.it[l].inum # ROOTINO => Filled(t.it[l].copy)  BY <2>5 DEF InUse
  <2> QED BY <2>1, <2>3, <2>4, <2>6 DEF Table
<1>14. Stored(t, K)
  <2>1. SUFFICES ASSUME NEW l \in Slots \ K, InUse(t, l), t.it[l].inum # ROOTINO
        PROVE t.it[l].copy = t.din[t.it[l].inum]  BY DEF Stored, InUse
  <2>2. InUse(s, l) /\ t.it[l] = s.it[l]  BY <1>5, <1>7, <2>1 DEF InUse, Busy
  <2>3. s.it[l].inum # i /\ s.it[l].inum \in Inums  BY <1>1, <2>2, FreeNotInMemory DEF Table, InUse
  <2>4. s.it[l].copy = s.din[s.it[l].inum]  BY <1>1, <2>1, <2>2 DEF Stored, InUse
  <2> QED BY <1>3, <1>5, <1>7, <2>2, <2>3, <2>4
<1>15. Rooted(w)
  <2>1. \A j \in Inums \ {ROOTINO} : x[j].type # T_DIR /\ Filled(x[j])
    BY <1>3, <1>9, NewInodeTyped DEF Rooted, T_DIR, T_FILE
  <2>2. x[ROOTINO].type = T_DIR  BY <1>3, <1>9, <1>12, Sizes DEF Rooted
  <2> QED BY <1>9, <1>11, <2>1, <2>2 DEF Rooted
<1>16. Cur(t) = WithInode(Cur(s), i, NewInode) /\ Cur(s)[i] = s.din[i]
  BY <1>1, <1>2, <1>5, <1>7, NewInodeTyped, CurNew
<1>17. PICK c, d : c = Cur(s) /\ d = Cur(t)  OBVIOUS
<1>18. c \in [Inums -> InodeType] /\ d = WithInode(c, i, NewInode) /\ c[i].type = T_NONE
  BY <1>1, <1>16, <1>17, CurTyped
<1>20. ASSUME ~ cut PROVE Whole(t)
  <2>1. Right(s.bmap, c, s.blk) /\ Behind(v, s.bmap, c, s.blk)
    BY <1>1, <1>8, <1>17, <1>20 DEF Whole
  <2>2. s.blk \in [Blocks -> Contents]  BY <1>1 DEF Typed
  <2>3. /\ d \in [Inums -> InodeType] /\ Right(s.bmap, d, s.blk)
        /\ \A j \in Inums, n \in Places : At(d, s.blk, j, n) = At(c, s.blk, j, n)
    <3>1. PICK bmp, blk : bmp = s.bmap /\ blk = s.blk  OBVIOUS
    <3>2. Right(bmp, c, blk) /\ blk \in [Blocks -> Contents]  BY <2>1, <2>2, <3>1
    <3>3. c \in [Inums -> InodeType] /\ d = WithInode(c, i, NewInode) /\ c[i].type = T_NONE
      BY <1>18
    <3>4. /\ d \in [Inums -> InodeType] /\ Right(bmp, d, blk)
          /\ \A j \in Inums, n \in Places : At(d, blk, j, n) = At(c, blk, j, n)
      <4>1. d \in [Inums -> InodeType]  BY <1>12, <3>2, <3>3, NewRight
      <4>2. Right(bmp, d, blk)  BY <1>12, <3>2, <3>3, NewRight
      <4>3. ASSUME NEW j \in Inums, NEW n \in Places PROVE At(d, blk, j, n) = At(c, blk, j, n)
        BY <1>12, <3>2, <3>3, NewRight
      <4> QED BY <4>1, <4>2, <4>3
    <3> QED BY <3>1, <3>4
  <2>4. \A j \in Inums : d[j] = IF j = i THEN NewInode ELSE c[j]  BY <1>18, <2>3 DEF WithInode
  <2>5. Behind(w, s.bmap, d, s.blk)
    <3>1. w.bmap = s.bmap  BY <1>11, <2>1 DEF Behind
    <3>2. \A j \in Inums : w.din[j].type = d[j].type  BY <1>3, <1>9, <1>11, <2>1, <2>4 DEF Behind
    <3>3. \A j \in Inums, n \in 0 .. NDIRECT : w.din[j].addrs[n] \in {0, d[j].addrs[n]}
      BY <1>3, <1>9, <1>11, <2>1, <2>4 DEF Behind
    <3>4. \A j \in Inums, n \in Places : (n = MAXFILE \/ j = ROOTINO) /\ At(d, s.blk, j, n) # 0 =>
              w.blk[At(d, s.blk, j, n)] = s.blk[At(d, s.blk, j, n)]
      BY <1>11, <2>1, <2>3 DEF Behind
    <3> QED BY <3>1, <3>2, <3>3, <3>4 DEF Behind
  <2> QED BY <1>5, <1>7, <1>8, <1>17, <2>3, <2>5 DEF Whole
<1>21. Safe(w, cut)
  <2>1. CASE cut  BY <1>15, <2>1 DEF Safe
  <2>2. CASE ~ cut  BY <1>7, <1>8, <1>13, <1>15, <1>20, <2>2, WholeRight DEF Safe
  <2> QED BY <2>1, <2>2
<1>22. LogGood(t, cut)  BY <1>1, <1>5, <1>7, <1>8, <1>21 DEF LogGood
<1>23. Good(t, K, cut)  BY <1>1, <1>5, <1>7, <1>13, <1>14, <1>20, <1>22, GoodWhen DEF Live
<1>24. SameRoot(s, t)
  <2>1. d[ROOTINO] = c[ROOTINO]  BY <1>12, <1>18, Sizes DEF WithInode
  <2> QED BY <1>5, <1>7, <1>17, <2>1 DEF SameRoot, RootSizeOf, DataOf, DataIn, At
<1> QED BY <1>2, <1>5, <1>7, <1>23, <1>24

LEMMA MadeHalted ==
  ASSUME NEW s, NEW K, NEW cut, Good(s, K, cut), s.why # "no", NEW i \in Inums, NEW t, t = Made(s, i)
  PROVE  Good(t, K, cut) /\ t.why = s.why /\ t.blk = s.blk
<1>1. /\ Typed(s) /\ LogGood(s, cut) /\ s.bmap[0]  BY GoodIs
<1>2. PICK x : x = WithInode(s.din, i, NewInode)  OBVIOUS
<1>3. x \in [Inums -> InodeType]  BY <1>1, <1>2, NewInodeTyped DEF Typed, WithInode
<1>4. PICK u : u = [s EXCEPT !.din = x]  OBVIOUS
<1>5. /\ Typed(u) /\ u.bmap = s.bmap /\ u.din = x /\ u.blk = s.blk
      /\ u.it = s.it /\ u.ret = s.ret /\ u.why = s.why /\ u.log = s.log
  BY <1>1, <1>3, <1>4, DinFields
<1>6. t = BwriteInode(u, i)  BY <1>2, <1>4 DEF Made, WithInode
<1>7. Typed(t) /\ t.bmap = u.bmap /\ t.blk = u.blk /\ t.why = u.why /\ (u.why # "no" => t.log = u.log)
  BY <1>5, <1>6, WriteInodeFields
<1>8. t.why # "no" /\ t.log = s.log  BY <1>5, <1>7
<1>9. LogGood(t, cut)  BY <1>1, <1>8 DEF LogGood
<1>10. Good(t, K, cut)  BY <1>1, <1>5, <1>7, <1>8, <1>9, GoodWhen
<1> QED BY <1>5, <1>7, <1>10

\* ialloc: a new file, referred to.
NewFile(s, t) ==
    /\ SameRoot(s, t) /\ Gains(s, t, t.ret) /\ IsFile(t.din, t.it[t.ret].inum)

LEMMA IallocGood ==
  ASSUME NEW s, NEW K, NEW cut, Good(s, K, cut), s.why = "no" => Counted(s),
         NEW t, t = ialloc(s, T_FILE)
  PROVE  /\ Good(t, K, cut) /\ Goes(s, t, cut) /\ t.ret \in Slots
         /\ t.why = "no" => NewFile(s, t)
<1> DEFINE free == {i \in Inums : s.din[i].type = T_NONE}
<1>1. CASE free = {}
  <2>1. t = Ret(Panic(s, OutOfInodes), 1)  BY <1>1 DEF ialloc, OutOfInodes
  <2>2. PICK u : u = Panic(s, OutOfInodes)  OBVIOUS
  <2>3. OutOfInodes # "no" /\ OutOfInodes \in Room  BY RoomIsPanic
  <2>4. Good(u, K, cut) /\ u.why # "no" /\ Goes(s, u, cut)  BY <2>2, <2>3, PanicGood
  <2>5. Good(t, K, cut) /\ t.why = u.why /\ t.ret = 1 /\ Goes(u, t, cut)
    BY <2>1, <2>2, <2>4, RetGood
  <2> QED BY <2>4, <2>5, GoesTwice, Sizes
<1>2. CASE free # {}
  <2>1. PICK i : i = Min(free)  OBVIOUS
  <2>2. i \in Inums /\ s.din[i].type = T_NONE
    <3>1. free \in SUBSET Nat  BY Sizes DEF Inums
    <3>2. i \in free
      <4> HIDE DEF free
      <4>1. \E x \in free : \A y \in free : x <= y  BY <1>2, <3>1, LeastOf
      <4> QED BY <2>1, <4>1 DEF Min
    <3> QED BY <3>2
  <2>3. PICK u : u = Made(s, i)  OBVIOUS
  <2>4. t = iget(u, i)
    <3>1. t = iget(BwriteInode([s EXCEPT !.din[Min(free)] = [FreeInode EXCEPT !.type = T_FILE]],
                               Min(free)), Min(free))
      BY <1>2 DEF ialloc
    <3> QED BY <2>1, <2>3, <3>1 DEF Made, NewInode
  <2>5. CASE s.why # "no"
    <3>1. Good(u, K, cut) /\ u.why = s.why  BY <2>2, <2>3, <2>5, MadeHalted
    <3>2. Good(t, K, cut) /\ Goes(u, t, cut) /\ t.ret \in Slots  BY <2>4, <2>5, <3>1, IgetGood
    <3>3. Goes(s, t, cut) /\ t.why # "no"  BY <2>5, <3>1, <3>2 DEF Goes
    <3> QED BY <3>2, <3>3
  <2>6. CASE s.why = "no"
    <3>1. /\ Good(u, K, cut) /\ u.it = s.it /\ u.blk = s.blk /\ u.why = "no" /\ SameRoot(s, u)
          /\ u.din = WithInode(s.din, i, NewInode)  BY <2>2, <2>3, <2>6, MadeGood
    <3>2. Counted(u)  BY <2>6, <3>1 DEF Counted
    <3>3. /\ Good(t, K, cut) /\ Goes(u, t, cut) /\ t.ret \in Slots /\ t.blk = u.blk /\ t.din = u.din
          /\ (t.why = "no" => Took(u, t, i))  BY <2>2, <2>4, <3>1, <3>2, IgetGood
    <3>4. Goes(s, t, cut)  BY <2>6, <3>1, <3>3 DEF Goes
    <3>5. ASSUME t.why = "no" PROVE NewFile(s, t)
      <4>1. Typed(s) /\ s.din \in [Inums -> InodeType]  BY GoodIs DEF Typed
      <4>2. t.it[t.ret].inum = i /\ Cur(t) = Cur(u) /\ Gains(u, t, t.ret)
        BY <3>2, <3>3, <3>5 DEF Took
      <4>3. SameRoot(s, t)  BY <3>1, <3>3, <4>2, SameRootCur, SameRootTwice
      <4>4. Gains(s, t, t.ret)  BY <3>1, <4>2 DEF Gains
      <4>5. t.din[i].type = T_FILE  BY <2>2, <3>1, <3>3, <4>1, NewInodeTyped DEF WithInode
      <4> QED BY <2>2, <4>2, <4>3, <4>4, <4>5 DEF NewFile, IsFile
    <3> QED BY <3>3, <3>4, <3>5
  <2> QED BY <2>5, <2>6
<1> QED BY <1>1, <1>2

----
(* A file in memory gets larger. *)
WithSize(c, n) == [c EXCEPT !.size = n]
Grown(s, k, n) == [s EXCEPT !.it[k].copy.size = n]
MayGrow(s, K, k, n) ==
    /\ InUse(s, k)
    /\ s.it[k].inum = ROOTINO \/ (k \in K /\ Filled(WithSize(s.it[k].copy, n)))

LEMMA GrownGood ==
  ASSUME NEW s, NEW K, NEW cut, Good(s, K, cut), NEW k \in Slots, NEW n \in 0 .. MAXFILE * BSIZE,
         s.why = "no" => MayGrow(s, K, k, n), NEW t, t = Grown(s, k, n)
  PROVE  /\ Good(t, K, cut) /\ Goes(s, t, cut) /\ t.ret = s.ret /\ t.why = s.why /\ t.din = s.din
         /\ (t.why = "no" => InUse(t, k) /\ Gains(s, t, 0))
<1>1. /\ Typed(s) /\ LogGood(s, cut) /\ s.bmap[0]
      /\ s.why = "no" => Table(s) /\ Stored(s, K) /\ (cut \/ Whole(s))  BY GoodIs DEF Live
<1>2. PICK c, d : c = s.it[k].copy /\ d = WithSize(c, n)  OBVIOUS
<1>3. /\ c \in InodeType /\ d \in InodeType /\ d.type = c.type /\ d.addrs = c.addrs
  <2>1. c \in InodeType  BY <1>1, <1>2 DEF Typed, SlotType
  <2>2. PICK m : m = MAXFILE * BSIZE  OBVIOUS
  <2> QED BY <1>2, <2>1, <2>2 DEF WithSize, InodeType
<1>4. PICK e : e = [s.it[k] EXCEPT !.copy = d]  OBVIOUS
<1>5. PICK x : x = [s.it EXCEPT ![k] = e]  OBVIOUS
<1>6. t = [s EXCEPT !.it = x]  BY <1>2, <1>4, <1>5 DEF Grown, WithSize
<1>7. e \in SlotType /\ e.copy = d /\ SameSlot(s.it[k], e)
  BY <1>1, <1>3, <1>4 DEF Typed, SlotType, SameSlot
<1>8. x \in [Slots -> SlotType] /\ x[k] = e /\ \A l \in Slots \ {k} : x[l] = s.it[l]
  BY <1>1, <1>5, <1>7 DEF Typed
<1>9. /\ Typed(t) /\ t.bmap = s.bmap /\ t.din = s.din /\ t.blk = s.blk
      /\ t.it = x /\ t.ret = s.ret /\ t.why = s.why /\ t.log = s.log
  BY <1>1, <1>6, <1>8, TableFields
<1>10. Goes(s, t, cut)  BY <1>9 DEF Goes
<1>11. LogGood(t, cut)  BY <1>1, <1>9 DEF LogGood
<1>12. ASSUME s.why = "no" PROVE Live(t, K, cut) /\ InUse(t, k) /\ Gains(s, t, 0)
  <2>1. Table(s) /\ OneSlot(s) /\ InUse(s, k) /\ Stored(s, K)
    BY <1>1, <1>12 DEF Table, OneSlot, MayGrow
  <2>2. \A l \in Slots : SameSlot(s.it[l], t.it[l])  BY <1>7, <1>8, <1>9 DEF SameSlot
  <2>3. \A l \in Slots : t.it[l].copy.type = s.it[l].copy.type  BY <1>2, <1>3, <1>7, <1>8, <1>9
  <2>4. \A l \in Slots : (Busy(t, l) <=> Busy(s, l)) /\ (InUse(t, l) <=> InUse(s, l))
    BY <2>2 DEF Busy, InUse, SameSlot
  <2>5. OnDisk(t) = OnDisk(s)  BY <1>9 DEF OnDisk
  <2>6. \A l \in Slots : t.it[l].inum = s.it[l].inum  BY <2>2 DEF SameSlot
  <2>7. OneSlot(t)  BY <2>1, <2>4, <2>6 DEF OneSlot
  <2>8. Table(t)
    <3>1. t.din = OnDisk(t).din  BY <1>9, <2>1, <2>5 DEF Table
    <3>2. \A l \in Slots : Busy(t, l) => t.it[l].inum \in Inums  BY <2>1, <2>4, <2>6 DEF Table
    <3>3. ASSUME NEW l \in Slots, InUse(t, l)
          PROVE  /\ t.it[l].copy.type = t.din[t.it[l].inum].type /\ t.it[l].copy.type # T_NONE
                 /\ t.it[l].inum # ROOTINO => Filled(t.it[l].copy)
      <4>1. /\ s.it[l].copy.type = s.din[s.it[l].inum].type /\ s.it[l].copy.type # T_NONE
            /\ s.it[l].inum # ROOTINO => Filled(s.it[l].copy)  BY <2>1, <2>4, <3>3 DEF Table, InUse
      <4>2. t.it[l].copy.type = t.din[t.it[l].inum].type /\ t.it[l].copy.type # T_NONE
        BY <1>9, <2>3, <2>6, <4>1
      <4>3. CASE l = k
        <5>1. s.it[k].inum # ROOTINO => Filled(d)  BY <1>2, <1>12 DEF MayGrow
        <5> QED BY <1>7, <1>8, <1>9, <2>6, <4>2, <4>3, <5>1
      <4>4. CASE l # k  BY <1>8, <1>9, <4>1, <4>2, <4>4
      <4> QED BY <4>3, <4>4
    <3>4. \A l \in Slots : Busy(t, l) /\ t.it[l].valid =>
            /\ t.it[l].copy.type = t.din[t.it[l].inum].type /\ t.it[l].copy.type # T_NONE
            /\ t.it[l].inum # ROOTINO => Filled(t.it[l].copy)  BY <3>3 DEF InUse
    <3> QED BY <2>7, <3>1, <3>2, <3>4 DEF Table, OneSlot
  <2>9. Stored(t, K)
    <3>1. SUFFICES ASSUME NEW l \in Slots \ K, InUse(t, l), t.it[l].inum # ROOTINO
          PROVE t.it[l].copy = t.din[t.it[l].inum]  BY DEF Stored, InUse
    <3>2. l # k  BY <1>12, <2>6, <3>1 DEF MayGrow
    <3>3. s.it[l].copy = s.din[s.it[l].inum]  BY <2>1, <2>4, <2>6, <3>1 DEF Stored, InUse
    <3> QED BY <1>8, <1>9, <3>2, <3>3
  <2>10. ASSUME ~ cut PROVE Whole(t)
    <3>1. PICK a, b : a = Cur(s) /\ b = Cur(t)  OBVIOUS
    <3>2. a \in [Inums -> InodeType] /\ b \in [Inums -> InodeType]
      BY <1>1, <1>9, <2>1, <2>7, <3>1, CurTyped
    <3>3. ASSUME NEW i \in Inums PROVE b[i].type = a[i].type /\ b[i].addrs = a[i].addrs
      <4>1. \A l : l \in InMemory(t, i) <=> l \in InMemory(s, i)  BY <2>4, <2>6 DEF InMemory, InUse
      <4>2. CASE InMemory(s, i) = {}  BY <1>9, <3>1, <4>1, <4>2, CurrentOut DEF Cur
      <4>3. CASE InMemory(s, i) # {}
        <5>1. PICK l : l \in InMemory(s, i)  BY <4>3
        <5>2. l \in Slots /\ b[i] = t.it[l].copy /\ a[i] = s.it[l].copy
          BY <2>1, <2>7, <3>1, <4>1, <5>1, CurrentIn DEF Cur, InMemory
        <5> QED BY <1>2, <1>3, <1>7, <1>8, <1>9, <5>2
      <4> QED BY <4>2, <4>3
    <3>4. \A i \in Inums, m \in Places : At(b, s.blk, i, m) = At(a, s.blk, i, m)
      BY <3>3 DEF At, AddrOf
    <3>5. Right(s.bmap, a, s.blk) /\ Behind(OnDisk(s), s.bmap, a, s.blk)
      BY <1>1, <1>12, <2>10, <3>1 DEF Whole
    <3>6. Sound(s.bmap, b, s.blk)
      <4>1. \A i \in Inums, m \in Places : At(b, s.blk, i, m) \in {0, At(a, s.blk, i, m)}  BY <3>4
      <4>2. \A i \in Inums : b[i].type = T_NONE => b[i].addrs = NoAddrs
        BY <3>3, <3>5 DEF Right, Sound, OneOwner
      <4>3. Sound(s.bmap, a, s.blk)  BY <3>5 DEF Right
      <4> QED BY <4>1, <4>2, <4>3, FewerAddrs
    <3>7. Entered(b, s.blk)
      <4>1. \A m \in 0 .. MAXFILE - 1 : m \in Places /\ ROOTINO \in Inums  BY Sizes DEF Places
      <4>2. \A m \in 0 .. MAXFILE - 1 : DataIn(b, s.blk, ROOTINO, m) = DataIn(a, s.blk, ROOTINO, m)
        BY <3>4, <4>1 DEF DataIn
      <4>3. Entered(a, s.blk)  BY <3>5 DEF Right
      <4>4. \A i \in Inums : a[i].type = T_FILE => b[i].type = T_FILE  BY <3>3
      <4> QED BY <4>2, <4>3, <4>4, EnteredSame
    <3>8. Behind(OnDisk(s), s.bmap, b, s.blk)  BY <3>3, <3>4, <3>5 DEF Behind
    <3> QED BY <1>9, <2>5, <3>1, <3>6, <3>7, <3>8 DEF Whole, Right
  <2>11. Gains(s, t, 0)
    <3>1. SUFFICES ASSUME NEW l \in Slots
          PROVE  t.it[l].ref = s.it[l].ref + (IF l = 0 THEN 1 ELSE 0) /\ Pinned(s.it[l], t.it[l])
      BY DEF Gains
    <3>2. s.it[l].ref \in Int /\ l # 0 /\ t.it[l].ref = s.it[l].ref
      BY <1>1, <2>2, RefTyped DEF SameSlot
    <3>3. Pinned(s.it[l], t.it[l])  BY <2>2, <2>3, Zenon DEF Pinned, SameSlot
    <3> QED BY <3>2, <3>3
  <2> QED BY <2>1, <2>4, <2>8, <2>9, <2>10, <2>11 DEF Live
<1>13. Good(t, K, cut)  BY <1>1, <1>9, <1>11, <1>12, GoodWhen
<1> QED BY <1>9, <1>10, <1>12, <1>13

----
(* Writing a block of data. *)
Poked(s, b, x) == [s EXCEPT !.blk[b] = x]
PokedBlk(blk, b, x) == [blk EXCEPT ![b] = x]
Poke(s, b, x, saved) == IF saved THEN BwriteBlock(Poked(s, b, x), b) ELSE Poked(s, b, x)

\* Block b is block bn of inode i, and what is written to the directory are entries.
MayPoke(s, i, bn, b, x, saved) ==
    /\ b # 0 /\ b = At(Cur(s), s.blk, i, bn)
    /\ i = ROOTINO => saved /\ \A o \in Offs : EntryNames(Cur(s), x[o])

\* Such a write changes no address.
LEMMA PokeRight ==
  ASSUME NEW bmp, NEW din \in [Inums -> InodeType], NEW blk \in [Blocks -> Contents],
         Right(bmp, din, blk), NEW i \in Inums, NEW bn \in 0 .. MAXFILE - 1, NEW b \in Blocks,
         b = At(din, blk, i, bn), b # 0, NEW x \in Contents,
         i = ROOTINO => \A o \in Offs : EntryNames(din, x[o]),
         NEW y
  PROVE  y = PokedBlk(blk, b, x) =>
         /\ y \in [Blocks -> Contents] /\ Right(bmp, din, y)
         /\ \A j \in Inums, n \in Places : At(din, y, j, n) = At(din, blk, j, n)
         /\ \A j \in Inums, n \in Places : At(din, blk, j, n) = b => j = i /\ n = bn
<1> HAVE y = PokedBlk(blk, b, x)
<1>1. y \in [Blocks -> Contents] /\ y[b] = x /\ \A a \in Blocks \ {b} : y[a] = blk[a]
  BY DEF PokedBlk
<1>2. bn \in Places /\ MAXFILE \in Places /\ bn # MAXFILE  BY Sizes DEF Places
<1>3. \A j \in Inums, n \in Places : At(din, blk, j, n) = b => j = i /\ n = bn
  BY <1>2 DEF Right, Sound, OneOwner
<1>4. \A j \in Inums, n \in Places : At(din, blk, j, n) # 0 => At(din, blk, j, n) \in Blocks
  BY Sizes DEF Right, Sound, OneOwner, Blocks
<1>5. ASSUME NEW j \in Inums, At(din, blk, j, MAXFILE) # 0
      PROVE  y[At(din, blk, j, MAXFILE)] = blk[At(din, blk, j, MAXFILE)]
  BY <1>1, <1>2, <1>3, <1>4, <1>5
<1>6. \A j \in Inums, n \in Places : At(din, y, j, n) = At(din, blk, j, n)  BY <1>5, DataChange
<1>7. Sound(bmp, din, y)
  <2>1. \A j \in Inums, n \in Places : At(din, y, j, n) \in {0, At(din, blk, j, n)}  BY <1>6
  <2>2. Sound(bmp, din, blk) /\ \A j \in Inums : din[j].type = T_NONE => din[j].addrs = NoAddrs
    BY DEF Right, Sound, OneOwner
  <2> QED BY <2>1, <2>2, FewerAddrs
<1>8. ASSUME NEW n \in 0 .. MAXFILE - 1, NEW o \in Offs
      PROVE  EntryNames(din, DataIn(din, y, ROOTINO, n)[o])
  <2>1. n \in Places /\ ROOTINO \in Inums  BY Sizes DEF Places
  <2>2. PICK a : a = At(din, blk, ROOTINO, n)  OBVIOUS
  <2>3. At(din, y, ROOTINO, n) = a  BY <1>6, <2>1, <2>2
  <2>4. CASE a = 0  BY <2>3, <2>4 DEF DataIn, EntryNames, ZeroBlock, Zero, Unit
  <2>5. CASE a = b
    <3>1. i = ROOTINO  BY <1>3, <2>1, <2>2, <2>5
    <3>2. DataIn(din, y, ROOTINO, n) = x  BY <1>1, <2>3, <2>5 DEF DataIn
    <3> QED BY <3>1, <3>2
  <2>6. CASE a # 0 /\ a # b
    <3>1. a \in Blocks  BY <1>4, <2>1, <2>2, <2>6
    <3>2. DataIn(din, y, ROOTINO, n) = DataIn(din, blk, ROOTINO, n)
      BY <1>1, <2>2, <2>3, <2>6, <3>1 DEF DataIn
    <3>3. EntryNames(din, DataIn(din, blk, ROOTINO, n)[o])  BY DEF Right, Entered
    <3> QED BY <3>2, <3>3
  <2> QED BY <2>4, <2>5, <2>6
<1> QED BY <1>1, <1>3, <1>6, <1>7, <1>8 DEF Right, Entered

\* The conditions of such a write, and what it leaves as it is.
PokeFits(s, K, cut, b, x, saved, i, bn) ==
    /\ Good(s, K, cut) /\ b \in Nat /\ (b \in Blocks => x \in Contents) /\ saved \in BOOLEAN
    /\ i \in Inums \cup {0} /\ bn \in 0 .. MAXFILE - 1
    /\ s.why = "no" /\ ~ cut => i \in Inums /\ MayPoke(s, i, bn, b, x, saved)
OnlyBlocks(s, t) == t.it = s.it /\ t.din = s.din /\ t.ret = s.ret /\ t.why = s.why

LEMMA PokeGood ==
  ASSUME NEW s, NEW K, NEW cut, Good(s, K, cut), NEW b \in Nat, NEW x,
         b \in Blocks => x \in Contents, NEW saved \in BOOLEAN,
         NEW i \in Inums \cup {0}, NEW bn \in 0 .. MAXFILE - 1,
         s.why = "no" /\ ~ cut => i \in Inums /\ MayPoke(s, i, bn, b, x, saved),
         NEW t, t = Poke(s, b, x, saved)
  PROVE  Good(t, K, cut) /\ Goes(s, t, cut) /\ OnlyBlocks(s, t)
<1>1. /\ Typed(s) /\ LogGood(s, cut) /\ s.bmap[0]
      /\ s.why = "no" => Table(s) /\ Stored(s, K) /\ (cut \/ Whole(s))  BY GoodIs DEF Live
<1>2. PICK y : y = PokedBlk(s.blk, b, x)  OBVIOUS
<1>3. y \in [Blocks -> Contents]  BY <1>1, <1>2 DEF Typed, PokedBlk
<1>4. PICK u : u = [s EXCEPT !.blk = y]  OBVIOUS
<1>5. u = Poked(s, b, x)  BY <1>2, <1>4 DEF Poked, PokedBlk
<1>6. /\ Typed(u) /\ u.bmap = s.bmap /\ u.din = s.din /\ u.blk = y
      /\ u.it = s.it /\ u.ret = s.ret /\ u.why = s.why /\ u.log = s.log
  BY <1>1, <1>3, <1>4, BlkFields
<1>7. /\ Typed(t) /\ t.bmap = s.bmap /\ t.din = s.din /\ t.blk = y
      /\ t.it = s.it /\ t.ret = s.ret /\ t.why = s.why
      /\ s.why # "no" => t.log = s.log
  <2>1. CASE saved
    <3>1. t = BwriteBlock(u, b)  BY <1>5, <2>1 DEF Poke
    <3>2. /\ Typed(t) /\ t.bmap = u.bmap /\ t.din = u.din /\ t.blk = u.blk
          /\ t.it = u.it /\ t.ret = u.ret /\ t.why = u.why
          /\ u.why # "no" => t.log = u.log  BY <1>6, <3>1, WriteBlockFields
    <3> QED BY <1>6, <3>2
  <2>2. CASE ~ saved  BY <1>5, <1>6, <2>2 DEF Poke
  <2> QED BY <2>1, <2>2
<1>8. ASSUME s.why = "no"
      PROVE  /\ Range(t.log) = Range(s.log) \cup {OnDisk(t)}
             /\ OnDisk(t).bmap = OnDisk(s).bmap /\ OnDisk(t).din = OnDisk(s).din
             /\ \A a \in Blocks \ {b} : OnDisk(t).blk[a] = OnDisk(s).blk[a]
             /\ saved /\ b \in Blocks => OnDisk(t).blk[b] = y[b]
  <2>0. PICK v, w : v = OnDisk(s) /\ w = OnDisk(t)  OBVIOUS
  <2>00. v \in ImageType /\ v = OnDisk(u)  BY <1>1, <1>6, <2>0, OnDiskTyped DEF OnDisk
  <2>1. CASE saved
    <3>1. t = BwriteBlock(u, b)  BY <1>5, <2>1 DEF Poke
    <3>2. /\ Typed(t) /\ t.bmap = u.bmap /\ t.din = u.din /\ t.blk = u.blk
          /\ t.it = u.it /\ t.ret = u.ret /\ t.why = u.why
          /\ u.why # "no" => t.log = u.log
          /\ u.why = "no" => /\ Range(t.log) = Range(u.log) \cup {OnDisk(t)}
                             /\ OnDisk(t) = [OnDisk(u) EXCEPT !.blk[b] = u.blk[b]]
                             /\ OnDisk(t) \in ImageType
      <4>1. Typed(u)  BY <1>6
      <4> QED BY <3>1, <4>1, WriteBlockFields
    <3>3. w = [v EXCEPT !.blk[b] = y[b]] /\ Range(t.log) = Range(s.log) \cup {OnDisk(t)}
      BY <1>6, <1>8, <2>0, <2>00, <3>2
    <3>4. w.bmap = v.bmap /\ w.din = v.din /\ w.blk = [v.blk EXCEPT ![b] = y[b]]
      BY <2>00, <3>3 DEF ImageType
    <3>5. v.blk \in [Blocks -> Contents]  BY <2>00 DEF ImageType
    <3> QED BY <2>0, <3>3, <3>4, <3>5
  <2>2. CASE ~ saved
    <3>1. t = u  BY <1>5, <2>2 DEF Poke
    <3>2. OnDisk(t) = OnDisk(s) /\ Range(t.log) = Range(s.log)  BY <1>6, <3>1 DEF OnDisk
    <3> QED BY <1>1, <2>2, <3>2, LastImage
  <2> QED BY <2>1, <2>2
<1>9. Goes(s, t, cut)  BY <1>7 DEF Goes
<1>10. CASE s.why # "no"
  <2>1. LogGood(t, cut)  BY <1>1, <1>7, <1>10 DEF LogGood
  <2>2. Good(t, K, cut)  BY <1>1, <1>7, <1>10, <2>1, GoodWhen
  <2> QED BY <1>7, <1>9, <2>2 DEF OnlyBlocks
<1>11. CASE s.why = "no"
  <2>1. Table(s) /\ Stored(s, K)  BY <1>1, <1>11
  <2>2. PICK v, w : v = OnDisk(s) /\ w = OnDisk(t)  OBVIOUS
  <2>3. v \in ImageType /\ w \in ImageType /\ w.bmap = v.bmap /\ w.din = v.din /\ Rooted(v)
    BY <1>1, <1>7, <1>8, <1>11, <2>2, OnDiskTyped, LastImage DEF LogGood, Safe
  <2>4. s.din = v.din  BY <2>1, <2>2 DEF Table
  <2>5. Cur(t) = Cur(s) /\ Stored(t, K) /\ Table(t)  BY <1>7, <2>1, <2>2, <2>3, <2>4, SameCur
  <2>6. Rooted(w)  BY <2>3 DEF Rooted
  <2>7. ASSUME ~ cut PROVE Whole(t)
    <3>1. PICK d, bmp, blk : d = Cur(s) /\ bmp = s.bmap /\ blk = s.blk  OBVIOUS
    <3>2. d \in [Inums -> InodeType] /\ blk \in [Blocks -> Contents]
      BY <1>1, <2>1, <3>1, CurTyped DEF Typed, Table, OneSlot
    <3>3. Right(bmp, d, blk) /\ Behind(v, bmp, d, blk)  BY <1>1, <1>11, <2>2, <2>7, <3>1 DEF Whole
    <3>4. i \in Inums /\ b # 0 /\ b = At(d, blk, i, bn)
          /\ (i = ROOTINO => saved /\ \A o \in Offs : EntryNames(d, x[o]))
      BY <1>11, <2>7, <3>1 DEF MayPoke
    <3>5. b \in Blocks
      <4>1. bn \in Places  BY Sizes DEF Places
      <4>2. b \in NMETA .. FSSIZE - 1  BY <3>3, <3>4, <4>1 DEF Right, Sound, OneOwner
      <4> QED BY <4>2, Sizes DEF Blocks
    <3>6. y = PokedBlk(blk, b, x) /\ x \in Contents  BY <1>2, <3>1, <3>5
    <3>70. i = ROOTINO => \A o \in Offs : EntryNames(d, x[o])  BY <3>4
    <3>7. Right(bmp, d, y)  BY <3>2, <3>3, <3>4, <3>5, <3>6, <3>70, PokeRight
    <3>8. ASSUME NEW j \in Inums, NEW n \in Places PROVE At(d, y, j, n) = At(d, blk, j, n)
      BY <3>2, <3>3, <3>4, <3>5, <3>6, <3>70, PokeRight
    <3>9. \A j \in Inums, n \in Places : At(d, blk, j, n) = b => j = i /\ n = bn
      <4>1. bn \in Places  BY Sizes DEF Places
      <4> QED BY <3>3, <3>4, <4>1 DEF Right, Sound, OneOwner
    <3>10. y[b] = x /\ \A a \in Blocks \ {b} : y[a] = blk[a]  BY <3>2, <3>5, <3>6 DEF PokedBlk
    <3>11. ASSUME NEW j \in Inums, NEW n \in Places, n = MAXFILE \/ j = ROOTINO,
                  At(d, y, j, n) # 0
           PROVE  w.blk[At(d, y, j, n)] = y[At(d, y, j, n)]
      <4>1. PICK a : a = At(d, blk, j, n)  OBVIOUS
      <4>2. At(d, y, j, n) = a /\ a # 0  BY <3>8, <3>11, <4>1
      <4>3. v.blk[a] = blk[a]  BY <3>3, <3>11, <4>1, <4>2 DEF Behind
      <4>4. CASE a = b
        <5>1. saved
          <6>1. j = i /\ n = bn  BY <3>9, <4>1, <4>4
          <6>2. bn # MAXFILE  BY Sizes
          <6> QED BY <3>4, <3>11, <6>1, <6>2
        <5> QED BY <1>8, <1>11, <2>2, <3>5, <4>2, <4>4, <5>1
      <4>5. CASE a # b
        <5>1. a \in Blocks  BY <3>3, <4>1, <4>2, Sizes DEF Right, Sound, OneOwner, Blocks
        <5>2. w.blk[a] = v.blk[a]  BY <1>8, <1>11, <2>2, <4>5, <5>1
        <5> QED BY <3>10, <4>2, <4>3, <4>5, <5>1, <5>2
      <4> QED BY <4>4, <4>5
    <3>12. Behind(w, bmp, d, y)  BY <2>3, <3>3, <3>11 DEF Behind
    <3> QED BY <1>7, <2>2, <2>5, <3>1, <3>7, <3>12 DEF Whole
  <2>8. Safe(w, cut)
    <3>1. CASE cut  BY <2>6, <3>1 DEF Safe
    <3>2. CASE ~ cut  BY <1>7, <2>2, <2>5, <2>6, <2>7, <3>2, WholeRight DEF Safe
    <3> QED BY <3>1, <3>2
  <2>9. LogGood(t, cut)  BY <1>1, <1>8, <1>11, <2>2, <2>8 DEF LogGood
  <2>10. Good(t, K, cut)  BY <1>1, <1>7, <2>5, <2>7, <2>9, GoodWhen DEF Live
  <2> QED BY <1>7, <1>9, <2>10 DEF OnlyBlocks
<1> QED BY <1>10, <1>11

----
(* readi.  The loop is a function; turn m follows turn m - 1. *)
ReadTurn(u, k, off, m) == bmap(u, k, (off + m - 1) \div BSIZE)
ReadLoop(s, k, off, len) ==
    CHOOSE f : f = [m \in 0 .. len |-> IF m = 0 THEN s ELSE ReadTurn(f[m - 1], k, off, m)]

LEMMA ReadTurns ==
  ASSUME NEW s, NEW k, NEW off, NEW len \in Nat, NEW f, f = ReadLoop(s, k, off, len)
  PROVE  f[0] = s /\ \A m \in 1 .. len : f[m] = ReadTurn(f[m - 1], k, off, m)
<1> DEFINE S == {n \in Nat : \E g : g = [m \in 0 .. n |->
                                IF m = 0 THEN s ELSE ReadTurn(g[m - 1], k, off, m)]}
<1>1. 0 \in S
  <2>1. PICK g : g = [m \in 0 .. 0 |-> s]  OBVIOUS
  <2>2. g = [m \in 0 .. 0 |-> IF m = 0 THEN s ELSE ReadTurn(g[m - 1], k, off, m)]  BY <2>1
  <2> QED BY <2>2
<1>2. ASSUME NEW n \in Nat, n \in S PROVE n + 1 \in S
  <2>1. PICK g : g = [m \in 0 .. n |-> IF m = 0 THEN s ELSE ReadTurn(g[m - 1], k, off, m)]  BY <1>2
  <2>2. PICK h : h = [m \in 0 .. n + 1 |-> IF m = n + 1 THEN ReadTurn(g[n], k, off, n + 1) ELSE g[m]]
    OBVIOUS
  <2>3. ASSUME NEW m \in 0 .. n + 1
        PROVE  h[m] = IF m = 0 THEN s ELSE ReadTurn(h[m - 1], k, off, m)
    <3>1. CASE m = n + 1
      <4>1. h[m] = ReadTurn(g[n], k, off, n + 1) /\ h[n] = g[n] /\ m - 1 = n /\ m # 0  BY <2>2, <3>1
      <4> QED BY <3>1, <4>1
    <3>2. CASE m # n + 1
      <4>1. h[m] = g[m] /\ m \in 0 .. n  BY <2>2, <3>2
      <4>2. m # 0 => h[m - 1] = g[m - 1]  BY <2>2, <3>2
      <4> QED BY <2>1, <4>1, <4>2
    <3> QED BY <3>1, <3>2
  <2>4. h = [m \in 0 .. n + 1 |-> IF m = 0 THEN s ELSE ReadTurn(h[m - 1], k, off, m)]  BY <2>2, <2>3
  <2> QED BY <2>4
<1>3. len \in S
  <2> HIDE DEF S
  <2>1. \A n \in Nat : n \in S => n + 1 \in S  BY <1>2
  <2> QED BY <1>1, <2>1, NatsOf
<1>4. f = [m \in 0 .. len |-> IF m = 0 THEN s ELSE ReadTurn(f[m - 1], k, off, m)]
  BY <1>3 DEF ReadLoop
<1> QED BY <1>4

ReadLen(s, k, off, n) == IF off > s.it[k].copy.size THEN 0 ELSE Least(n, s.it[k].copy.size - off)
ReadUnits(t, k, off, len) == [m \in 1 .. len |-> UnitOf(t, t.it[k].copy, off + m - 1)]

LEMMA ReadiIs ==
  ASSUME NEW s, NEW k, NEW off, NEW n, NEW len, len = ReadLen(s, k, off, n),
         NEW u, u = ReadLoop(s, k, off, len)[len]
  PROVE  readi(s, k, off, n) = Ret(u, ReadUnits(u, k, off, len))
<1>1. readi(s, k, off, n) =
        Ret(ReadLoop(s, k, off, ReadLen(s, k, off, n))[ReadLen(s, k, off, n)],
            ReadUnits(ReadLoop(s, k, off, ReadLen(s, k, off, n))[ReadLen(s, k, off, n)], k, off,
                      ReadLen(s, k, off, n)))
  BY DEF readi, ReadLen, ReadLoop, ReadTurn, ReadUnits
<1> QED BY <1>1

\* Division.
LEMMA DivIs ==
  ASSUME NEW o \in Nat
  PROVE  o = (o \div BSIZE) * BSIZE + (o % BSIZE) /\ o % BSIZE \in 0 .. BSIZE - 1
         /\ o \div BSIZE \in Nat
  BY Sizes

LEMMA DivLess ==
  ASSUME NEW o \in Nat, NEW M \in Nat, o < M * BSIZE
  PROVE  o \div BSIZE \in 0 .. M - 1
<1>1. BSIZE \in Nat /\ BSIZE > 0  BY Sizes
<1>2. o \div BSIZE < M  BY <1>1
<1>3. o \div BSIZE \in Nat  BY DivIs
<1> QED BY <1>2, <1>3

\* Reading leaves all as it is, except that it may fill a hole in the directory.
Same(s, t, cut) == Widened(s, t) /\ (cut \/ SameData(s, t))

LEMMA SameTwice ==
  ASSUME NEW s, NEW t, NEW u, NEW cut, Same(s, t, cut), Same(t, u, cut)
  PROVE  Same(s, u, cut)
  BY WidenedTwice, SameDataTwice DEF Same

LEMMA SameSelf ==
  ASSUME NEW s, NEW cut
  PROVE  Same(s, s, cut)
  BY DEF Same, Widened, SameSlot, SameData

Reading(s, t, K, cut) == Good(t, K, cut) /\ Goes(s, t, cut) /\ (t.why = "no" => Same(s, t, cut))

LEMMA ReadsTwice ==
  ASSUME NEW s, NEW t, NEW u, NEW K, NEW cut, Reading(s, t, K, cut), Reading(t, u, K, cut)
  PROVE  Reading(s, u, K, cut)
<1>1. Goes(s, u, cut) /\ (u.why = "no" => t.why = "no")  BY GoesTwice DEF Reading
<1>2. u.why = "no" => Same(s, u, cut)  BY <1>1, SameTwice DEF Reading
<1> QED BY <1>1, <1>2 DEF Reading

LEMMA ReadTurnGood ==
  ASSUME NEW s, NEW K, NEW cut \in BOOLEAN, Good(s, K, cut), NEW k \in Slots,
         s.why = "no" => InUse(s, k), NEW o \in 0 .. s.it[k].copy.size - 1,
         NEW u, u = bmap(s, k, o \div BSIZE)
  PROVE  Reading(s, u, K, cut)
<1>1. Typed(s) /\ (s.why = "no" => Table(s))  BY GoodIs DEF Live
<1>2. PICK c : c = s.it[k].copy  OBVIOUS
<1>3. c.size \in 0 .. MAXFILE * BSIZE  BY <1>1, <1>2 DEF Typed, SlotType, InodeType
<1>4. PICK m : m = MAXFILE * BSIZE  OBVIOUS
<1>5. m \in Nat /\ MAXFILE \in Nat  BY <1>4, Sizes
<1>6. o \in Nat /\ o < MAXFILE * BSIZE /\ o \in 0 .. c.size - 1  BY <1>2, <1>3, <1>4, <1>5
<1>7. o \div BSIZE \in 0 .. MAXFILE - 1  BY <1>5, <1>6, DivLess
<1>8. ASSUME s.why = "no" PROVE MayReach(s, K, k, o \div BSIZE)
  <2>1. InUse(s, k) /\ (s.it[k].inum # ROOTINO => Filled(c))  BY <1>1, <1>2, <1>8 DEF Table, InUse
  <2>2. s.it[k].inum = ROOTINO \/ c.addrs[EntryOf(o \div BSIZE)] # 0  BY <1>6, <2>1 DEF Filled
  <2> QED BY <1>2, <2>1, <2>2 DEF MayReach
<1>9. PICK bn : bn = o \div BSIZE  OBVIOUS
<1>10. bn \in 0 .. MAXFILE - 1 /\ (s.why = "no" => MayReach(s, K, k, bn)) /\ u = bmap(s, k, bn)
  BY <1>7, <1>8, <1>9
<1>11. Good(u, K, cut) /\ Goes(s, u, cut) /\ (u.why = "no" => Reached(s, u, k, bn, cut))
  BY <1>10, BmapGood
<1> QED BY <1>11 DEF Reading, Same, Reached

LEMMA ReadLenTyped ==
  ASSUME NEW s, Typed(s), NEW k \in Slots, NEW off \in Nat, NEW n \in Nat
  PROVE  /\ ReadLen(s, k, off, n) \in 0 .. n
         /\ ReadLen(s, k, off, n) > 0 => off + ReadLen(s, k, off, n) <= s.it[k].copy.size
         /\ s.it[k].copy.size \in 0 .. MAXFILE * BSIZE /\ s.it[k].copy.size \in Nat
<1>1. PICK z : z = s.it[k].copy.size  OBVIOUS
<1>2. PICK m : m = MAXFILE * BSIZE  OBVIOUS
<1>3. z \in 0 .. m /\ m \in Nat  BY <1>1, <1>2, Sizes DEF Typed, SlotType, InodeType
<1> QED BY <1>1, <1>2, <1>3 DEF ReadLen, Least

LEMMA ReadiGood ==
  ASSUME NEW s, NEW K, NEW cut \in BOOLEAN, Good(s, K, cut), NEW k \in Slots,
         s.why = "no" => InUse(s, k), NEW off \in Nat, NEW n \in Nat,
         NEW t, t = readi(s, k, off, n)
  PROVE  /\ Reading(s, t, K, cut)
         /\ t.ret = ReadUnits(t, k, off, ReadLen(s, k, off, n))
<1>1. PICK len : len = ReadLen(s, k, off, n)  OBVIOUS
<1>2. Typed(s)  BY GoodIs
<1>3. PICK z : z = s.it[k].copy.size  OBVIOUS
<1>4. len \in Nat /\ z \in Nat /\ (len > 0 => off + len <= z)  BY <1>1, <1>2, <1>3, ReadLenTyped
<1>5. PICK f : f = ReadLoop(s, k, off, len)  OBVIOUS
<1>6. f[0] = s /\ \A m \in 1 .. len : f[m] = ReadTurn(f[m - 1], k, off, m)  BY <1>4, <1>5, ReadTurns
<1> DEFINE S == {m \in Nat : m <= len => Reading(s, f[m], K, cut)}
<1>7. Reading(s, s, K, cut)  BY SameSelf DEF Reading, Goes
<1>8. ASSUME NEW m \in Nat, m \in S PROVE m + 1 \in S
  <2>1. SUFFICES ASSUME m + 1 <= len PROVE Reading(s, f[m + 1], K, cut)  OBVIOUS
  <2>2. PICK u, v : u = f[m] /\ v = f[m + 1]  OBVIOUS
  <2>3. Reading(s, u, K, cut)  BY <1>4, <1>8, <2>1, <2>2
  <2>4. v = ReadTurn(u, k, off, m + 1)  BY <1>4, <1>6, <2>1, <2>2
  <2>5. PICK o : o = off + m  OBVIOUS
  <2>6. v = bmap(u, k, o \div BSIZE)
    <3>1. off + (m + 1) - 1 = o  BY <2>5
    <3> QED BY <2>4, <3>1 DEF ReadTurn
  <2>7. o \in 0 .. z - 1  BY <1>4, <2>1, <2>5
  <2>8. CASE u.why # "no"
    <3>1. Typed(u) /\ Good(u, K, cut)  BY <2>3, GoodIs DEF Reading
    <3>2. CASE o \in 0 .. u.it[k].copy.size - 1
      <4>1. Reading(u, v, K, cut)  BY <2>6, <2>8, <3>1, <3>2, ReadTurnGood
      <4> QED BY <2>2, <2>3, <4>1, ReadsTwice
    <3>3. CASE ~ (o \in 0 .. u.it[k].copy.size - 1)
      <4>1. PICK bn : bn = o \div BSIZE  OBVIOUS
      <4>2. bn \in 0 .. MAXFILE - 1
        <5>1. z \in 0 .. MAXFILE * BSIZE  BY <1>2, <1>3, ReadLenTyped
        <5>2. PICK b : b = MAXFILE * BSIZE  OBVIOUS
        <5>3. o \in Nat /\ o < MAXFILE * BSIZE  BY <2>7, <5>1, <5>2, Sizes
        <5> QED BY <4>1, <5>3, DivLess, Sizes
      <4>3. Good(v, K, cut) /\ Goes(u, v, cut)  BY <2>6, <2>8, <3>1, <4>1, <4>2, BmapGood
      <4>4. Reading(u, v, K, cut)  BY <2>8, <4>3 DEF Reading, Goes
      <4> QED BY <2>2, <2>3, <4>4, ReadsTwice
    <3> QED BY <3>2, <3>3
  <2>9. CASE u.why = "no"
    <3>1. s.why = "no" /\ Widened(s, u) /\ Good(u, K, cut)
      BY <2>3, <2>9, GoesBack DEF Reading, Same
    <3>2. InUse(u, k) /\ u.it[k].copy.size = z  BY <1>3, <3>1, WidenedUse
    <3>3. Reading(u, v, K, cut)  BY <2>6, <2>7, <3>1, <3>2, ReadTurnGood
    <3> QED BY <2>2, <2>3, <3>3, ReadsTwice
  <2> QED BY <2>8, <2>9
<1>9. len \in S
  <2>1. 0 \in S  BY <1>6, <1>7
  <2> HIDE DEF S
  <2>2. \A m \in Nat : m \in S => m + 1 \in S  BY <1>8
  <2> QED BY <1>4, <2>1, <2>2, NatsOf
<1>10. PICK u : u = f[len]  OBVIOUS
<1>11. Reading(s, u, K, cut)  BY <1>4, <1>9, <1>10
<1>12. t = Ret(u, ReadUnits(u, k, off, len))  BY <1>1, <1>5, <1>10, ReadiIs
<1>13. /\ Good(t, K, cut) /\ t.it = u.it /\ t.blk = u.blk /\ t.why = u.why
       /\ t.ret = ReadUnits(u, k, off, len) /\ Widened(u, t) /\ SameData(u, t) /\ Goes(u, t, cut)
  BY <1>11, <1>12, RetGood DEF Reading
<1>14. Reading(u, t, K, cut)  BY <1>13 DEF Reading, Same
<1>15. ReadUnits(t, k, off, len) = ReadUnits(u, k, off, len)  BY <1>13 DEF ReadUnits, UnitOf
<1> QED BY <1>1, <1>11, <1>13, <1>14, <1>15, ReadsTwice

----
(* One turn of the loop of writei. *)
Lo(off, bn) == IF bn * BSIZE < off THEN off ELSE bn * BSIZE
Hi(off, n, bn) == Least(off + n, (bn + 1) * BSIZE)
Got(off, n, good, bn) == copyin(good, Lo(off, bn) - off, Hi(off, n, bn) - Lo(off, bn))
Piece(off, n, src, good, bn, old) ==
    [o \in Offs |-> IF bn * BSIZE + o - off + 1 \in
                        Lo(off, bn) - off + 1 .. Lo(off, bn) - off + Got(off, n, good, bn)
                    THEN src[bn * BSIZE + o - off + 1] ELSE old[o]]
All(off, n, good, bn) == Got(off, n, good, bn) = Hi(off, n, bn) - Lo(off, bn)

LEMMA WriteBlockIs ==
  ASSUME NEW s, NEW k, NEW off, NEW src, NEW good, NEW bn, NEW n, n = Len(src),
         NEW t, t = bmap(s, k, bn), NEW x, x = Piece(off, n, src, good, bn, t.blk[t.ret]),
         NEW saved, saved = All(off, n, good, bn), NEW lo, lo = Lo(off, bn), NEW hi, hi = Hi(off, n, bn)
  PROVE  /\ s.ret < lo - off => WriteBlock(s, k, off, src, good, bn) = s
         /\ ~ (s.ret < lo - off) => WriteBlock(s, k, off, src, good, bn) =
              IF All(off, n, good, bn) THEN Ret(BwriteBlock(Poked(t, t.ret, x), t.ret), hi - off)
              ELSE Ret(Poked(t, t.ret, x), s.ret)
<1>1. WriteBlock(s, k, off, src, good, bn) =
        IF s.ret < Lo(off, bn) - off THEN s
        ELSE IF All(off, Len(src), good, bn)
             THEN Ret(BwriteBlock(Poked(bmap(s, k, bn), bmap(s, k, bn).ret,
                        Piece(off, Len(src), src, good, bn, bmap(s, k, bn).blk[bmap(s, k, bn).ret])),
                        bmap(s, k, bn).ret), Hi(off, Len(src), bn) - off)
             ELSE Ret(Poked(bmap(s, k, bn), bmap(s, k, bn).ret,
                        Piece(off, Len(src), src, good, bn, bmap(s, k, bn).blk[bmap(s, k, bn).ret])),
                      s.ret)
  BY DEF WriteBlock, Lo, Hi, Got, Piece, All, Save, Poked
<1> QED BY <1>1

\* The part of block bn that is written.
LEMMA Bounds ==
  ASSUME NEW off \in Nat, NEW n \in Nat, n > 0,
         NEW bn \in off \div BSIZE .. (off + n - 1) \div BSIZE,
         NEW lo, lo = Lo(off, bn), NEW hi, hi = Hi(off, n, bn)
  PROVE  /\ bn \in Nat /\ lo \in off .. off + n /\ hi \in off .. off + n /\ lo <= hi
         /\ \A o \in lo .. hi - 1 : o \div BSIZE = bn
<1>1. PICK B : B = BSIZE  OBVIOUS
<1>2. B \in Nat /\ B > 0  BY <1>1, Sizes
<1>3. PICK q, r, p : q = off \div B /\ r = off % B /\ p = (off + n - 1) \div B  OBVIOUS
<1>4. off = q * B + r /\ r \in 0 .. B - 1 /\ q \in Nat  BY <1>2, <1>3
<1>5. p \in Nat /\ p * B <= off + n - 1  BY <1>2, <1>3
<1>6. bn \in q .. p /\ bn \in Nat  BY <1>1, <1>3, <1>4, <1>5
<1>7. bn * B \in Nat /\ (bn + 1) * B = bn * B + B /\ bn * B <= p * B /\ q * B <= bn * B
      /\ q * B \in Nat /\ p * B \in Nat  BY <1>2, <1>4, <1>5, <1>6
<1>8. PICK z, y, x : z = bn * B /\ y = q * B /\ x = p * B  OBVIOUS
<1>9. lo = (IF z < off THEN off ELSE z) /\ hi = (IF off + n < z + B THEN off + n ELSE z + B)
  BY <1>1, <1>7, <1>8 DEF Lo, Hi, Least
<1>10. z \in Nat /\ z <= x /\ y <= z /\ x <= off + n - 1 /\ off = y + r /\ x \in Nat /\ y \in Nat
  BY <1>4, <1>5, <1>7, <1>8
<1>11. lo \in off .. off + n /\ hi \in off .. off + n /\ lo <= hi  BY <1>2, <1>4, <1>9, <1>10
<1>12. ASSUME NEW o \in lo .. hi - 1 PROVE o \div B = bn
  <2>1. o \in Nat /\ z <= o /\ o < z + B  BY <1>2, <1>9, <1>10, <1>12
  <2>2. PICK e : e = o - z  OBVIOUS
  <2>3. e \in 0 .. B - 1 /\ o = bn * B + e  BY <1>2, <1>8, <1>10, <2>1, <2>2
  <2> QED BY <1>2, <1>6, <2>3
<1> QED BY <1>1, <1>6, <1>11, <1>12

LEMMA GotTyped ==
  ASSUME NEW off \in Nat, NEW n \in Nat, n > 0,
         NEW bn \in off \div BSIZE .. (off + n - 1) \div BSIZE, NEW good \in Nat,
         NEW got, got = Got(off, n, good, bn)
  PROVE  /\ got \in Int /\ Lo(off, bn) - off + got <= n
         /\ good = n => All(off, n, good, bn)
<1>1. PICK lo, hi : lo = Lo(off, bn) /\ hi = Hi(off, n, bn)  OBVIOUS
<1>2. lo \in off .. off + n /\ hi \in off .. off + n /\ lo <= hi  BY <1>1, Bounds
<1>3. got = Least(hi - lo, good - (lo - off))  BY <1>1 DEF Got, copyin
<1>4. got \in Int /\ got <= hi - lo  BY <1>2, <1>3 DEF Least
<1>5. good = n => got = hi - lo  BY <1>2, <1>3 DEF Least
<1> QED BY <1>1, <1>2, <1>4, <1>5 DEF All

\* What the block is written with: units of the source, or what was there.
LEMMA PieceTyped ==
  ASSUME NEW off \in Nat, NEW src \in Seq(UnitType), NEW n, n = Len(src), n > 0,
         NEW bn \in off \div BSIZE .. (off + n - 1) \div BSIZE, NEW good \in Nat,
         NEW old, NEW x, x = Piece(off, n, src, good, bn, old)
  PROVE  /\ \A o \in Offs : x[o] = old[o] \/ \E j \in 1 .. n : x[o] = src[j]
         /\ old \in Contents => x \in Contents
<1>0. n \in Nat /\ \A j \in 1 .. n : src[j] \in UnitType  OBVIOUS
<1>1. PICK lo, got, B : lo = Lo(off, bn) /\ got = Got(off, n, good, bn) /\ B = bn * BSIZE  OBVIOUS
<1>2. lo \in off .. off + n /\ got \in Int /\ lo - off + got <= n  BY <1>0, <1>1, Bounds, GotTyped
<1>3. x = [o \in Offs |-> IF B + o - off + 1 \in lo - off + 1 .. lo - off + got
                          THEN src[B + o - off + 1] ELSE old[o]]
  BY <1>1 DEF Piece
<1>4. B \in Nat
  <2>1. off \div BSIZE \in Nat /\ (off + n - 1) \div BSIZE \in Nat
    <3>1. off + n - 1 \in Nat  BY <1>0
    <3> QED BY <3>1, DivIs
  <2>2. bn \in Nat /\ BSIZE \in Nat  BY <2>1, Sizes
  <2> QED BY <1>1, <2>2
<1>5. ASSUME NEW o \in Offs PROVE x[o] = old[o] \/ \E j \in 1 .. n : x[o] = src[j]
  <2>1. CASE B + o - off + 1 \in lo - off + 1 .. lo - off + got
    <3>1. B + o - off + 1 \in 1 .. n  BY <1>0, <1>2, <1>4, <2>1
    <3>2. x[o] = src[B + o - off + 1]  BY <1>3, <2>1
    <3> QED BY <3>1, <3>2
  <2>2. CASE ~ (B + o - off + 1 \in lo - off + 1 .. lo - off + got)  BY <1>3, <2>2
  <2> QED BY <2>1, <2>2
<1>6. ASSUME old \in Contents PROVE x \in Contents
  <2>1. \A o \in Offs : x[o] \in UnitType  BY <1>0, <1>5, <1>6 DEF Contents
  <2>2. x = [o \in Offs |-> x[o]]  BY <1>3
  <2> QED BY <2>1, <2>2 DEF Contents
<1> QED BY <1>5, <1>6

----
(* writei.  What it has written so far lies in blocks that are there; only
   the names of files are written to the directory. *)
Covered(s, k, z) ==
    s.it[k].inum # ROOTINO => \A o \in 0 .. z - 1 : s.it[k].copy.addrs[EntryOf(o \div BSIZE)] # 0
MayWrite(s, K, k, src, good, cut) ==
    /\ InUse(s, k) /\ (s.it[k].inum = ROOTINO \/ k \in K)
    /\ s.it[k].inum = ROOTINO /\ ~ cut =>
         good = Len(src) /\ \A j \in 1 .. Len(src) : EntryNames(s.din, src[j])

Within(lo, hi, bn) == \A o \in lo .. hi - 1 : o \div BSIZE = bn
FromSource(x, old, src) == \A o \in Offs : x[o] = old[o] \/ \E j \in 1 .. Len(src) : x[o] = src[j]

LEMMA CoveredMore ==
  ASSUME NEW s, NEW t, Widened(s, t), NEW k \in Slots, NEW lo \in Nat, NEW hi \in Nat,
         NEW y \in Nat, lo <= y, Covered(s, k, y), NEW bn \in Nat, Within(lo, hi, bn),
         t.it[k].copy.addrs[EntryOf(bn)] # 0
  PROVE  Covered(t, k, y) /\ Covered(t, k, hi)
<1>1. SUFFICES ASSUME t.it[k].inum # ROOTINO
               PROVE  /\ \A o \in 0 .. y - 1 : t.it[k].copy.addrs[EntryOf(o \div BSIZE)] # 0
                      /\ \A o \in 0 .. hi - 1 : t.it[k].copy.addrs[EntryOf(o \div BSIZE)] # 0
  BY DEF Covered
<1>2. s.it[k].inum # ROOTINO  BY <1>1 DEF Widened, SameSlot
<1>3. ASSUME NEW o \in 0 .. y - 1 PROVE t.it[k].copy.addrs[EntryOf(o \div BSIZE)] # 0
  <2>1. s.it[k].copy.addrs[EntryOf(o \div BSIZE)] # 0  BY <1>2, <1>3 DEF Covered
  <2>2. EntryOf(o \div BSIZE) \in 0 .. NDIRECT
    <3>1. o \div BSIZE \in Nat  BY <1>3, DivIs
    <3> QED BY <3>1, EntryTyped
  <2> QED BY <2>1, <2>2 DEF Widened
<1>4. ASSUME NEW o \in 0 .. hi - 1 PROVE t.it[k].copy.addrs[EntryOf(o \div BSIZE)] # 0
  <2>1. CASE o < lo
    <3>1. o \in 0 .. y - 1  BY <1>4, <2>1
    <3> QED BY <1>3, <3>1
  <2>2. CASE ~ (o < lo)
    <3>1. o \in lo .. hi - 1  BY <1>4, <2>2
    <3> QED BY <3>1 DEF Within
  <2> QED BY <2>1, <2>2
<1> QED BY <1>3, <1>4

\* What is written to a block of the directory are names of files.
LEMMA MayPokeIt ==
  ASSUME NEW s, NEW K, NEW k \in Slots, NEW src, NEW good,
         MayWrite(s, K, k, src, good, FALSE),
         NEW t, NEW bn \in 0 .. MAXFILE - 1, Good(t, K, FALSE), t.why = "no",
         Reached(s, t, k, bn, FALSE), NEW b, b = t.ret,
         NEW x, FromSource(x, t.blk[b], src),
         NEW saved, good = Len(src) => saved, NEW i, i = s.it[k].inum
  PROVE  MayPoke(t, i, bn, b, x, saved)
<1>1. b # 0 /\ b = At(Cur(t), t.blk, i, bn) /\ t.din = s.din  BY DEF Reached, Widened
<1>2. ASSUME i = ROOTINO PROVE saved /\ \A o \in Offs : EntryNames(Cur(t), x[o])
  <2>1. saved /\ \A j \in 1 .. Len(src) : EntryNames(t.din, src[j])  BY <1>1, <1>2 DEF MayWrite
  <2>2. Typed(t) /\ Table(t) /\ Entered(Cur(t), t.blk)  BY GoodIs DEF Live, Whole, Right
  <2>3. \A j \in Inums : Cur(t)[j].type = t.din[j].type  BY <2>2, CurTypes
  <2>4. \A e : EntryNames(t.din, e) => EntryNames(Cur(t), e)  BY <2>3 DEF EntryNames, IsFile
  <2>5. \A o \in Offs : EntryNames(Cur(t), t.blk[b][o])
    <3>1. DataIn(Cur(t), t.blk, ROOTINO, bn) = t.blk[b]  BY <1>1, <1>2 DEF DataIn
    <3> QED BY <2>2, <3>1 DEF Entered
  <2> QED BY <2>1, <2>4, <2>5 DEF FromSource
<1> QED BY <1>1, <1>2 DEF MayPoke

\* A write to a block.
LEMMA PokeStep ==
  ASSUME NEW s, NEW K, NEW cut, NEW b, NEW x, NEW saved, NEW i, NEW bn,
         PokeFits(s, K, cut, b, x, saved, i, bn), NEW t, t = Poke(s, b, x, saved)
  PROVE  Good(t, K, cut) /\ Goes(s, t, cut) /\ OnlyBlocks(s, t)
<1>1. /\ Good(s, K, cut) /\ b \in Nat /\ (b \in Blocks => x \in Contents) /\ saved \in BOOLEAN
      /\ i \in Inums \cup {0} /\ bn \in 0 .. MAXFILE - 1
      /\ s.why = "no" /\ ~ cut => i \in Inums /\ MayPoke(s, i, bn, b, x, saved)  BY DEF PokeFits
<1>2. Good(t, K, cut)  BY <1>1, PokeGood
<1>3. Goes(s, t, cut)  BY <1>1, PokeGood
<1>4. OnlyBlocks(s, t)  BY <1>1, PokeGood
<1> QED BY <1>2, <1>3, <1>4

LEMMA WriteTurnGood ==
  ASSUME NEW s, NEW K, NEW cut \in BOOLEAN, Good(s, K, cut), NEW k \in Slots,
         NEW off \in Nat, NEW src \in Seq(UnitType), NEW n, n = Len(src), n > 0,
         off + n <= MAXFILE * BSIZE, NEW good \in Nat,
         NEW bn \in off \div BSIZE .. (off + n - 1) \div BSIZE,
         s.ret \in 0 .. n,
         s.why = "no" => MayWrite(s, K, k, src, good, cut) /\ Covered(s, k, off + s.ret),
         NEW t, t = WriteBlock(s, k, off, src, good, bn)
  PROVE  /\ Good(t, K, cut) /\ Goes(s, t, cut) /\ t.ret \in 0 .. n
         /\ t.why = "no" => Widened(s, t) /\ Covered(t, k, off + t.ret)
<1>1. PICK lo, hi, r : lo = Lo(off, bn) /\ hi = Hi(off, n, bn) /\ r = s.ret  OBVIOUS
<1>2. n \in Nat /\ off + n - 1 \in Nat  OBVIOUS
<1>3. /\ bn \in Nat /\ lo \in off .. off + n /\ hi \in off .. off + n /\ lo <= hi
      /\ \A o \in lo .. hi - 1 : o \div BSIZE = bn  BY <1>1, <1>2, Bounds
<1>4. bn \in 0 .. MAXFILE - 1
  <2>1. PICK m, p : m = MAXFILE * BSIZE /\ p = (off + n - 1) \div BSIZE  OBVIOUS
  <2>2. off + n - 1 < MAXFILE * BSIZE  BY <1>2, <2>1, Sizes
  <2>3. p \in 0 .. MAXFILE - 1  BY <1>2, <2>1, <2>2, DivLess, Sizes
  <2>4. bn <= p
    <3>1. off \div BSIZE \in Nat  BY DivIs
    <3> QED BY <2>1, <2>3, <3>1
  <2> QED BY <1>3, <2>3, <2>4, Sizes
<1>5. PICK u : u = bmap(s, k, bn)  OBVIOUS
<1>6. s.why = "no" => MayReach(s, K, k, bn)  BY DEF MayWrite, MayReach
<1>7. /\ Good(u, K, cut) /\ Goes(s, u, cut) /\ u.ret \in Nat
      /\ u.why = "no" => Reached(s, u, k, bn, cut)  BY <1>4, <1>5, <1>6, BmapGood
<1>8. PICK b, x, saved : b = u.ret /\ x = Piece(off, n, src, good, bn, u.blk[b])
                         /\ saved = All(off, n, good, bn)  OBVIOUS
<1>9. /\ \A o \in Offs : x[o] = u.blk[b][o] \/ \E j \in 1 .. n : x[o] = src[j]
      /\ u.blk[b] \in Contents => x \in Contents
  <2>1. PICK old : old = u.blk[b]  OBVIOUS
  <2>2. x = Piece(off, n, src, good, bn, old)  BY <1>8, <2>1
  <2>3. /\ \A o \in Offs : x[o] = old[o] \/ \E j \in 1 .. n : x[o] = src[j]
        /\ old \in Contents => x \in Contents  BY <2>2, PieceTyped
  <2> QED BY <2>1, <2>3
<1>10. saved \in BOOLEAN /\ (good = n => saved)
  <2>1. good = n => All(off, n, good, bn)  BY <1>2, GotTyped
  <2> QED BY <1>8, <2>1 DEF All
<1>11. CASE r < lo - off
  <2>1. t = s  BY <1>1, <1>5, <1>8, <1>11, WriteBlockIs
  <2> QED BY <2>1 DEF Goes, Widened, SameSlot
<1>12. CASE ~ (r < lo - off)
  <2>1. PICK v : v = Poke(u, b, x, saved)  OBVIOUS
  <2>2. t = Ret(v, IF saved THEN hi - off ELSE r)
    <3>1. t = IF All(off, n, good, bn) THEN Ret(BwriteBlock(Poked(u, u.ret, x), u.ret), hi - off)
              ELSE Ret(Poked(u, u.ret, x), s.ret)
      BY <1>1, <1>5, <1>8, <1>12, WriteBlockIs
    <3> QED BY <1>1, <1>8, <2>1, <3>1 DEF Poke
  <2>3. PICK i : i = IF s.it[k].inum \in Inums THEN s.it[k].inum ELSE 0  OBVIOUS
  <2>4. i \in Inums \cup {0} /\ (b \in Blocks => x \in Contents) /\ b \in Nat
    <3>1. Typed(u)  BY <1>7, GoodIs
    <3> QED BY <1>7, <1>8, <1>9, <2>3, <3>1 DEF Typed
  <2>5. ASSUME u.why = "no", ~ cut PROVE i \in Inums /\ MayPoke(u, i, bn, b, x, saved)
    <3>1. s.why = "no" /\ Reached(s, u, k, bn, FALSE) /\ Good(u, K, FALSE) /\ cut = FALSE
      BY <1>7, <2>5, GoesBack
    <3>2. Typed(s) /\ Table(s) /\ InUse(s, k) /\ MayWrite(s, K, k, src, good, FALSE)
      BY <3>1, GoodIs DEF Live, MayWrite
    <3>3. s.it[k].inum \in Inums /\ i = s.it[k].inum  BY <2>3, <3>2 DEF Table, InUse
    <3>4. MayPoke(u, i, bn, b, x, saved)
      <4>1. FromSource(x, u.blk[b], src)  BY <1>9 DEF FromSource
      <4>2. good = Len(src) => saved  BY <1>10
      <4>3. b = u.ret /\ i = s.it[k].inum /\ u.why = "no"  BY <1>8, <2>5, <3>3
      <4>4. /\ MayWrite(s, K, k, src, good, FALSE) /\ Reached(s, u, k, bn, FALSE)
            /\ Good(u, K, FALSE)  BY <3>1, <3>2
      <4> QED BY <1>4, <4>1, <4>2, <4>3, <4>4, MayPokeIt
    <3> QED BY <3>3, <3>4
  <2>6. /\ Good(v, K, cut) /\ Goes(u, v, cut) /\ v.it = u.it /\ v.din = u.din /\ v.why = u.why
    <3>1. saved \in BOOLEAN /\ Good(u, K, cut)  BY <1>7, <1>10
    <3>2. u.why = "no" /\ ~ cut => i \in Inums /\ MayPoke(u, i, bn, b, x, saved)  BY <2>5
    <3>3. i \in Inums \cup {0} /\ b \in Nat /\ (b \in Blocks => x \in Contents)  BY <2>4
    <3>4. PokeFits(u, K, cut, b, x, saved, i, bn)  BY <1>4, <3>1, <3>2, <3>3 DEF PokeFits
    <3> QED BY <2>1, <3>4, PokeStep DEF OnlyBlocks
  <2>7. PICK z : z = IF saved THEN hi - off ELSE r  OBVIOUS
  <2>8. /\ Good(t, K, cut) /\ t.it = v.it /\ t.din = v.din /\ t.why = v.why /\ t.ret = z
        /\ Goes(v, t, cut)  BY <2>2, <2>6, <2>7, RetGood
  <2>9. Goes(s, t, cut) /\ (t.why = "no" => s.why = "no" /\ u.why = "no")
    BY <1>7, <2>6, <2>8, GoesTwice
  <2>10. z \in 0 .. n  BY <1>1, <1>2, <1>3, <2>7
  <2>11. ASSUME t.why = "no" PROVE Widened(s, t) /\ Covered(t, k, off + t.ret)
    <3>1. Widened(s, u) /\ u.it[k].copy.addrs[EntryOf(bn)] # 0 /\ Covered(s, k, off + r)
      BY <1>1, <1>7, <2>9, <2>11 DEF Reached
    <3>2. t.it = u.it /\ t.din = u.din  BY <2>6, <2>8
    <3>3. Widened(s, t)  BY <2>9, <2>11, <3>1, <3>2 DEF Widened
    <3>4. PICK y : y = off + r  OBVIOUS
    <3>5. y \in Nat /\ lo <= y /\ lo \in Nat /\ hi \in Nat  BY <1>1, <1>2, <1>3, <1>12, <3>4
    <3>6. Covered(s, k, y) /\ t.it[k].copy.addrs[EntryOf(bn)] # 0  BY <3>1, <3>2, <3>4
    <3>7. Covered(t, k, y) /\ Covered(t, k, hi)
      <4>1. bn \in Nat /\ Within(lo, hi, bn)  BY <1>3 DEF Within
      <4> QED BY <3>3, <3>5, <3>6, <4>1, CoveredMore
    <3>8. off + z = hi \/ off + z = y  BY <1>1, <1>2, <1>3, <2>7, <3>4
    <3> QED BY <2>8, <3>3, <3>7, <3>8
  <2> QED BY <2>8, <2>9, <2>10, <2>11
<1> QED BY <1>11, <1>12

\* The loop of writei.
WriteTurn(u, k, off, src, good, m) == WriteBlock(u, k, off, src, good, off \div BSIZE + m - 1)
WriteLoop(s, k, off, src, good, len) ==
    CHOOSE f : f = [m \in 0 .. len |->
                      IF m = 0 THEN Ret(s, 0) ELSE WriteTurn(f[m - 1], k, off, src, good, m)]

LEMMA WriteTurns ==
  ASSUME NEW s, NEW k, NEW off, NEW src, NEW good, NEW len \in Nat,
         NEW f, f = WriteLoop(s, k, off, src, good, len)
  PROVE  f[0] = Ret(s, 0) /\ \A m \in 1 .. len : f[m] = WriteTurn(f[m - 1], k, off, src, good, m)
<1> DEFINE S == {n \in Nat : \E g : g = [m \in 0 .. n |->
                   IF m = 0 THEN Ret(s, 0) ELSE WriteTurn(g[m - 1], k, off, src, good, m)]}
<1>1. 0 \in S
  <2>1. PICK g : g = [m \in 0 .. 0 |-> Ret(s, 0)]  OBVIOUS
  <2>2. g = [m \in 0 .. 0 |-> IF m = 0 THEN Ret(s, 0) ELSE WriteTurn(g[m - 1], k, off, src, good, m)]
    BY <2>1
  <2> QED BY <2>2
<1>2. ASSUME NEW n \in Nat, n \in S PROVE n + 1 \in S
  <2>1. PICK g : g = [m \in 0 .. n |->
                        IF m = 0 THEN Ret(s, 0) ELSE WriteTurn(g[m - 1], k, off, src, good, m)]
    BY <1>2
  <2>2. PICK h : h = [m \in 0 .. n + 1 |->
                        IF m = n + 1 THEN WriteTurn(g[n], k, off, src, good, n + 1) ELSE g[m]]
    OBVIOUS
  <2>3. ASSUME NEW m \in 0 .. n + 1
        PROVE  h[m] = IF m = 0 THEN Ret(s, 0) ELSE WriteTurn(h[m - 1], k, off, src, good, m)
    <3>1. CASE m = n + 1
      <4>1. h[m] = WriteTurn(g[n], k, off, src, good, n + 1) /\ h[n] = g[n] /\ m - 1 = n /\ m # 0
        BY <2>2, <3>1
      <4> QED BY <3>1, <4>1
    <3>2. CASE m # n + 1
      <4>1. h[m] = g[m] /\ m \in 0 .. n  BY <2>2, <3>2
      <4>2. m # 0 => h[m - 1] = g[m - 1]  BY <2>2, <3>2
      <4> QED BY <2>1, <4>1, <4>2
    <3> QED BY <3>1, <3>2
  <2>4. h = [m \in 0 .. n + 1 |->
               IF m = 0 THEN Ret(s, 0) ELSE WriteTurn(h[m - 1], k, off, src, good, m)]
    BY <2>2, <2>3
  <2> QED BY <2>4
<1>3. len \in S
  <2> HIDE DEF S
  <2>1. \A n \in Nat : n \in S => n + 1 \in S  BY <1>2
  <2> QED BY <1>1, <2>1, NatsOf
<1>4. f = [m \in 0 .. len |-> IF m = 0 THEN Ret(s, 0) ELSE WriteTurn(f[m - 1], k, off, src, good, m)]
  BY <1>3 DEF WriteLoop
<1> QED BY <1>4

TurnsOf(off, n) == IF n = 0 THEN 0 ELSE (off + n - 1) \div BSIZE + 1 - off \div BSIZE
NewSize(u, k, off) == IF off + u.ret > u.it[k].copy.size THEN off + u.ret ELSE u.it[k].copy.size
OutOfReach(s, k, off, n) == off > s.it[k].copy.size \/ off + n > MAXFILE * BSIZE

LEMMA WriteiIs ==
  ASSUME NEW s, NEW k, NEW off, NEW src, NEW good, NEW n, n = Len(src),
         NEW len, len = TurnsOf(off, n), NEW u, u = WriteLoop(s, k, off, src, good, len)[len]
  PROVE  writei(s, k, off, src, good) =
           IF OutOfReach(s, k, off, n) THEN Ret(s, -1)
           ELSE iupdate(Grown(u, k, NewSize(u, k, off)), k)
<1>1. writei(s, k, off, src, good) =
        IF OutOfReach(s, k, off, Len(src)) THEN Ret(s, -1)
        ELSE iupdate(Grown(WriteLoop(s, k, off, src, good, TurnsOf(off, Len(src)))[TurnsOf(off, Len(src))],
                           k, NewSize(WriteLoop(s, k, off, src, good, TurnsOf(off, Len(src)))
                                        [TurnsOf(off, Len(src))], k, off)), k)
  BY DEF writei, OutOfReach, Grown, WriteLoop, WriteTurn, TurnsOf, NewSize
<1> QED BY <1>1

LEMMA GoodWithMore ==
  ASSUME NEW s, NEW K, NEW L, NEW cut, Good(s, K, cut), K \subseteq L
  PROVE  Good(s, L, cut)
<1>1. \A k \in Slots \ L : k \in Slots \ K  OBVIOUS
<1> QED BY <1>1 DEF Good, Ordered, Stored

\* How far a write has come.
Writing(s, u, K, k, off, n, cut) ==
    /\ Good(u, K, cut) /\ Goes(s, u, cut) /\ u.ret \in 0 .. n
    /\ u.why = "no" => Widened(s, u) /\ Covered(u, k, off + u.ret)

LEMMA MayStillWrite ==
  ASSUME NEW s, NEW K, NEW k \in Slots, NEW src, NEW good, NEW cut,
         MayWrite(s, K, k, src, good, cut), NEW u, Widened(s, u)
  PROVE  MayWrite(u, K, k, src, good, cut)
<1>1. InUse(u, k) /\ u.it[k].inum = s.it[k].inum  BY WidenedUse DEF MayWrite
<1>2. u.din = s.din  BY DEF Widened
<1> QED BY <1>1, <1>2 DEF MayWrite

LEMMA WriteLoopTurn ==
  ASSUME NEW s, NEW K, NEW cut \in BOOLEAN, NEW k \in Slots,
         NEW off \in Nat, NEW src \in Seq(UnitType), NEW n, n = Len(src), n > 0,
         off + n <= MAXFILE * BSIZE, NEW good \in Nat,
         NEW bn \in off \div BSIZE .. (off + n - 1) \div BSIZE,
         s.why = "no" => MayWrite(s, K, k, src, good, cut),
         NEW u, Writing(s, u, K, k, off, n, cut),
         NEW t, t = WriteBlock(u, k, off, src, good, bn)
  PROVE  Writing(s, t, K, k, off, n, cut)
<1>1. /\ Good(u, K, cut) /\ Goes(s, u, cut) /\ u.ret \in 0 .. n
      /\ u.why = "no" => Widened(s, u) /\ Covered(u, k, off + u.ret)  BY DEF Writing
<1>2. u.why = "no" => MayWrite(u, K, k, src, good, cut) /\ Covered(u, k, off + u.ret)
  BY <1>1, GoesBack, MayStillWrite
<1>3. /\ Good(t, K, cut) /\ Goes(u, t, cut) /\ t.ret \in 0 .. n
      /\ t.why = "no" => Widened(u, t) /\ Covered(t, k, off + t.ret)
  <2>1. Good(u, K, cut) /\ u.ret \in 0 .. n /\ off + n <= MAXFILE * BSIZE  BY <1>1
  <2>2. Good(t, K, cut)  BY <1>2, <2>1, WriteTurnGood
  <2>3. Goes(u, t, cut)  BY <1>2, <2>1, WriteTurnGood
  <2>4. t.ret \in 0 .. n  BY <1>2, <2>1, WriteTurnGood
  <2>5. t.why = "no" => Widened(u, t) /\ Covered(t, k, off + t.ret)  BY <1>2, <2>1, WriteTurnGood
  <2> QED BY <2>2, <2>3, <2>4, <2>5
<1>4. Goes(s, t, cut) /\ (t.why = "no" => u.why = "no")  BY <1>1, <1>3, GoesTwice
<1>5. t.why = "no" => Widened(s, t)  BY <1>1, <1>3, <1>4, WidenedTwice
<1> QED BY <1>3, <1>4, <1>5 DEF Writing

\* The turns of the loop are the blocks from the first to the last.
LEMMA TurnsTyped ==
  ASSUME NEW off \in Nat, NEW n \in Nat
  PROVE  /\ TurnsOf(off, n) \in Nat
         /\ \A m \in 1 .. TurnsOf(off, n) :
              n > 0 /\ off \div BSIZE + m - 1 \in off \div BSIZE .. (off + n - 1) \div BSIZE
<1>1. CASE n = 0  BY <1>1 DEF TurnsOf
<1>2. CASE n # 0
  <2>1. PICK p, q : p = off \div BSIZE /\ q = (off + n - 1) \div BSIZE  OBVIOUS
  <2>2. p \in Nat /\ q \in Nat
    <3>1. off + n - 1 \in Nat  BY <1>2
    <3> QED BY <2>1, <3>1, DivIs
  <2>3. p <= q
    <3>1. PICK B : B = BSIZE  OBVIOUS
    <3>2. B \in Nat /\ B > 0  BY <3>1, Sizes
    <3>3. p = off \div B /\ q = (off + n - 1) \div B  BY <2>1, <3>1
    <3> QED BY <1>2, <3>2, <3>3
  <2>4. TurnsOf(off, n) = q + 1 - p  BY <1>2, <2>1 DEF TurnsOf
  <2> QED BY <1>2, <2>1, <2>2, <2>3, <2>4
<1> QED BY <1>1, <1>2

LEMMA WriteLoopGood ==
  ASSUME NEW s, NEW K, NEW cut \in BOOLEAN, Good(s, K, cut), NEW k \in Slots,
         NEW off \in Nat, NEW src \in Seq(UnitType), NEW n, n = Len(src),
         off + n <= MAXFILE * BSIZE, NEW good \in Nat,
         s.why = "no" => MayWrite(s, K, k, src, good, cut) /\ Covered(s, k, off),
         NEW len, len = TurnsOf(off, n),
         NEW u, u = WriteLoop(s, k, off, src, good, len)[len]
  PROVE  Writing(s, u, K, k, off, n, cut)
<1>1. n \in Nat /\ len \in Nat
      /\ \A m \in 1 .. len : n > 0 /\ off \div BSIZE + m - 1 \in off \div BSIZE .. (off + n - 1) \div BSIZE
  <2>1. n \in Nat  OBVIOUS
  <2> QED BY <2>1, TurnsTyped
<1>2. PICK f : f = WriteLoop(s, k, off, src, good, len)  OBVIOUS
<1>3. f[0] = Ret(s, 0) /\ \A m \in 1 .. len : f[m] = WriteTurn(f[m - 1], k, off, src, good, m)
  BY <1>1, <1>2, WriteTurns
<1> DEFINE S == {m \in Nat : m <= len => Writing(s, f[m], K, k, off, n, cut)}
<1>4. Writing(s, f[0], K, k, off, n, cut)
  <2>1. PICK v : v = f[0]  OBVIOUS
  <2>2. v = Ret(s, 0)  BY <1>3, <2>1
  <2>3. Good(v, K, cut) /\ v.it = s.it /\ v.why = s.why /\ v.ret = 0 /\ Widened(s, v) /\ Goes(s, v, cut)
    BY <2>2, RetGood
  <2>4. off + v.ret = off  BY <2>3
  <2>5. v.why = "no" => Covered(v, k, off)  BY <2>3 DEF Covered
  <2> QED BY <1>1, <2>1, <2>3, <2>4, <2>5 DEF Writing
<1>5. ASSUME NEW m \in Nat, m \in S PROVE m + 1 \in S
  <2>1. SUFFICES ASSUME m + 1 <= len PROVE Writing(s, f[m + 1], K, k, off, n, cut)  OBVIOUS
  <2>2. PICK v, w, bn : v = f[m] /\ w = f[m + 1] /\ bn = off \div BSIZE + (m + 1) - 1  OBVIOUS
  <2>3. Writing(s, v, K, k, off, n, cut) /\ m + 1 \in 1 .. len /\ (m + 1) - 1 = m
    BY <1>1, <1>5, <2>1, <2>2
  <2>4. w = WriteTurn(v, k, off, src, good, m + 1)  BY <1>3, <2>2, <2>3
  <2>5. w = WriteBlock(v, k, off, src, good, bn)  BY <2>2, <2>4 DEF WriteTurn
  <2>6. n > 0 /\ bn \in off \div BSIZE .. (off + n - 1) \div BSIZE  BY <1>1, <2>2, <2>3
  <2>7. Writing(s, w, K, k, off, n, cut)  BY <2>3, <2>5, <2>6, WriteLoopTurn
  <2> QED BY <2>2, <2>7
<1>6. len \in S
  <2>1. 0 \in S  BY <1>4
  <2> HIDE DEF S
  <2>2. \A m \in Nat : m \in S => m + 1 \in S  BY <1>5
  <2> QED BY <1>1, <2>1, <2>2, NatsOf
<1> QED BY <1>1, <1>2, <1>6

LEMMA WriteiGood ==
  ASSUME NEW s, NEW cut \in BOOLEAN, Good(s, {}, cut), NEW k \in Slots,
         NEW off \in Nat, NEW src \in Seq(UnitType), NEW good \in Nat,
         s.why = "no" => MayWrite(s, {k}, k, src, good, cut),
         NEW t, t = writei(s, k, off, src, good)
  PROVE  /\ Good(t, {}, cut) /\ Goes(s, t, cut)
         /\ t.ret \in {-1} \cup (0 .. Len(src))
         /\ t.ret # -1 => off + t.ret <= MAXFILE * BSIZE
         /\ t.why = "no" => Gains(s, t, 0)
<1>0. PICK n, M : n = Len(src) /\ M = MAXFILE * BSIZE  OBVIOUS
<1>00. n \in Nat /\ M \in Nat /\ Typed(s)  BY <1>0, GoodIs, Sizes
<1>1. PICK len : len = TurnsOf(off, n)  OBVIOUS
<1>2. PICK u : u = WriteLoop(s, k, off, src, good, len)[len]  OBVIOUS
<1>3. PICK z : z = NewSize(u, k, off)  OBVIOUS
<1>4. t = IF OutOfReach(s, k, off, n) THEN Ret(s, -1) ELSE iupdate(Grown(u, k, z), k)
  BY <1>0, <1>1, <1>2, <1>3, WriteiIs
<1>5. CASE OutOfReach(s, k, off, n)
  <2>1. t = Ret(s, -1)  BY <1>4, <1>5
  <2>2. Good(t, {}, cut) /\ Goes(s, t, cut) /\ t.ret = -1 /\ t.it = s.it  BY <2>1, RetGood
  <2> QED BY <1>00, <2>2, GainsNone
<1>6. CASE ~ OutOfReach(s, k, off, n)
  <2>1. PICK y : y = s.it[k].copy.size  OBVIOUS
  <2>2. y \in Nat /\ off <= y /\ off + n <= M
    <3>1. s.it[k].copy.size \in Nat
      <4>1. s.it[k].copy.size \in 0 .. M  BY <1>0, <1>00 DEF Typed, SlotType, InodeType
      <4> QED BY <1>00, <4>1
    <3>2. off <= y /\ off + n <= M  BY <1>0, <1>00, <1>6, <2>1, <3>1 DEF OutOfReach
    <3> QED BY <2>1, <3>1, <3>2
  <2>3. Good(s, {k}, cut)  BY GoodWithMore
  <2>4. ASSUME s.why = "no" PROVE Covered(s, k, off)
    <3>1. InUse(s, k) /\ Table(s)  BY <2>4, GoodIs DEF MayWrite, Live
    <3>2. s.it[k].inum # ROOTINO => Filled(s.it[k].copy)  BY <3>1 DEF Table, InUse
    <3>3. \A o \in 0 .. off - 1 : o \in 0 .. s.it[k].copy.size - 1  BY <2>1, <2>2
    <3> QED BY <3>2, <3>3 DEF Covered, Filled
  <2>5. Writing(s, u, {k}, k, off, n, cut)
    <3>1. off + n <= MAXFILE * BSIZE  BY <1>0, <2>2
    <3> QED BY <1>0, <1>1, <1>2, <2>3, <2>4, <3>1, WriteLoopGood
  <2>6. /\ Good(u, {k}, cut) /\ Goes(s, u, cut) /\ u.ret \in 0 .. n
        /\ u.why = "no" => Widened(s, u) /\ Covered(u, k, off + u.ret)  BY <2>5 DEF Writing
  <2>7. PICK x, r : x = u.it[k].copy.size /\ r = u.ret  OBVIOUS
  <2>8. x \in 0 .. M
    <3>1. Typed(u)  BY <2>6, GoodIs
    <3> QED BY <1>0, <2>7, <3>1 DEF Typed, SlotType, InodeType
  <2>9. z = (IF off + r > x THEN off + r ELSE x) /\ z \in 0 .. M
    <3>1. z = IF off + r > x THEN off + r ELSE x  BY <1>3, <2>7 DEF NewSize
    <3> QED BY <1>00, <2>2, <2>6, <2>7, <2>8, <3>1
  <2>10. ASSUME u.why = "no" PROVE MayGrow(u, {k}, k, z)
    <3>1. s.why = "no" /\ MayWrite(s, {k}, k, src, good, cut)  BY <2>6, <2>10, GoesBack
    <3>2. InUse(u, k) /\ Table(u)  BY <2>6, <2>10, <3>1, GoodIs, WidenedUse DEF MayWrite, Live
    <3>3. ASSUME u.it[k].inum # ROOTINO PROVE Filled(WithSize(u.it[k].copy, z))
      <4>1. Filled(u.it[k].copy) /\ u.it[k].copy \in InodeType
        <5>1. Typed(u)  BY <2>6, GoodIs
        <5> QED BY <3>2, <3>3, <5>1 DEF Table, InUse, Typed, SlotType
      <4>2. PICK c, d : c = u.it[k].copy /\ d = WithSize(u.it[k].copy, z)  OBVIOUS
      <4>3. d.size = z /\ d.addrs = c.addrs /\ c.size = x
        BY <2>7, <4>1, <4>2 DEF WithSize, InodeType
      <4>4. \A o \in 0 .. x - 1 : c.addrs[EntryOf(o \div BSIZE)] # 0  BY <4>1, <4>2, <4>3 DEF Filled
      <4>5. \A o \in 0 .. off + r - 1 : c.addrs[EntryOf(o \div BSIZE)] # 0
        BY <2>6, <2>7, <2>10, <3>3, <4>2 DEF Covered
      <4>6. \A o \in 0 .. z - 1 : c.addrs[EntryOf(o \div BSIZE)] # 0
        BY <1>00, <2>2, <2>6, <2>7, <2>8, <2>9, <4>4, <4>5
      <4> QED BY <4>2, <4>3, <4>6 DEF Filled
    <3> QED BY <3>2, <3>3 DEF MayGrow
  <2>11. PICK v : v = Grown(u, k, z)  OBVIOUS
  <2>12. /\ Good(v, {k}, cut) /\ Goes(u, v, cut) /\ v.ret = u.ret /\ v.why = u.why
         /\ (v.why = "no" => InUse(v, k) /\ Gains(u, v, 0))
    <3>1. z \in 0 .. MAXFILE * BSIZE  BY <1>0, <2>9
    <3> QED BY <2>6, <2>10, <2>11, <3>1, GrownGood
  <2>13. t = iupdate(v, k)  BY <1>4, <1>6, <2>11
  <2>14. Good(t, {k} \ {k}, cut) /\ Goes(v, t, cut) /\ t.it = v.it /\ t.ret = v.ret /\ t.why = v.why
    BY <2>12, <2>13, IupdateGood
  <2>15. Good(t, {}, cut)
    <3>1. {k} \ {k} = {}  OBVIOUS
    <3> QED BY <2>14, <3>1
  <2>16. Goes(s, t, cut)  BY <2>6, <2>12, <2>14, GoesTwice
  <2>17. ASSUME t.why = "no" PROVE Gains(s, t, 0)
    <3>1. Typed(u) /\ Widened(s, u) /\ Gains(u, v, 0) /\ Typed(v)
      BY <2>6, <2>12, <2>14, <2>17, GoodIs
    <3>2. Gains(s, u, 0) /\ Gains(v, t, 0)  BY <1>00, <2>14, <3>1, WidenedGains, GainsNone
    <3>3. Gains(s, v, 0)  BY <1>00, <3>1, <3>2, GainsTwice
    <3> QED BY <1>00, <3>2, <3>3, GainsTwice
  <2>18. t.ret = r /\ r \in 0 .. n /\ off + r <= M  BY <1>00, <2>2, <2>6, <2>7, <2>12, <2>14
  <2> QED BY <1>0, <2>15, <2>16, <2>17, <2>18
<1> QED BY <1>5, <1>6

----
(* itrunc.  While it frees the blocks of a file, the disk has an inode
   that names blocks its bitmap has as free. *)
TruncTurn(u, blk, c, m) ==
    IF AddrOf(blk, c, m - 1) = 0 THEN u ELSE bfree(u, AddrOf(blk, c, m - 1))
TruncLoop(s, k) ==
    CHOOSE f : f = [m \in 0 .. MAXFILE + 1 |->
                      IF m = 0 THEN s ELSE TruncTurn(f[m - 1], s.blk, s.it[k].copy, m)]
Clear(t, k) == iupdate([t EXCEPT !.it[k].copy = Emptied(@)], k)

LEMMA TruncIs ==
  ASSUME NEW s, NEW k, NEW u, u = TruncLoop(s, k)[MAXFILE + 1]
  PROVE  itrunc(s, k) = Clear(u, k)
<1>1. itrunc(s, k) = Clear(TruncLoop(s, k)[MAXFILE + 1], k)
  BY DEF itrunc, TruncLoop, TruncTurn, Clear
<1> QED BY <1>1

LEMMA TruncTurns ==
  ASSUME NEW s, NEW k, NEW f, f = TruncLoop(s, k)
  PROVE  f[0] = s /\ \A m \in 1 .. MAXFILE + 1 : f[m] = TruncTurn(f[m - 1], s.blk, s.it[k].copy, m)
<1> DEFINE T(u, m) == TruncTurn(u, s.blk, s.it[k].copy, m)
           S == {n \in Nat : \E g : g = [m \in 0 .. n |-> IF m = 0 THEN s ELSE T(g[m - 1], m)]}
<1> HIDE DEF T
<1>1. 0 \in S
  <2>1. PICK g : g = [m \in 0 .. 0 |-> s]  OBVIOUS
  <2>2. g = [m \in 0 .. 0 |-> IF m = 0 THEN s ELSE T(g[m - 1], m)]  BY <2>1
  <2> QED BY <2>2
<1>2. ASSUME NEW n \in Nat, n \in S PROVE n + 1 \in S
  <2>1. PICK g : g = [m \in 0 .. n |-> IF m = 0 THEN s ELSE T(g[m - 1], m)]  BY <1>2
  <2>2. PICK h : h = [m \in 0 .. n + 1 |-> IF m = n + 1 THEN T(g[n], n + 1) ELSE g[m]]  OBVIOUS
  <2>3. ASSUME NEW m \in 0 .. n + 1
        PROVE  h[m] = IF m = 0 THEN s ELSE T(h[m - 1], m)
    <3>1. CASE m = n + 1
      <4>1. h[m] = T(g[n], n + 1) /\ h[n] = g[n] /\ m - 1 = n /\ m # 0  BY <2>2, <3>1
      <4> QED BY <3>1, <4>1
    <3>2. CASE m # n + 1
      <4>1. h[m] = g[m] /\ m \in 0 .. n  BY <2>2, <3>2
      <4>2. m # 0 => h[m - 1] = g[m - 1]  BY <2>2, <3>2
      <4> QED BY <2>1, <4>1, <4>2
    <3> QED BY <3>1, <3>2
  <2>4. h = [m \in 0 .. n + 1 |-> IF m = 0 THEN s ELSE T(h[m - 1], m)]  BY <2>2, <2>3
  <2> QED BY <2>4
<1>3. PICK len : len = MAXFILE + 1  OBVIOUS
<1>4. len \in S
  <2> HIDE DEF S
  <2>1. \A n \in Nat : n \in S => n + 1 \in S  BY <1>2
  <2> QED BY <1>1, <1>3, <2>1, NatsOf, Sizes
<1>5. f = [m \in 0 .. len |-> IF m = 0 THEN s ELSE T(f[m - 1], m)]  BY <1>3, <1>4 DEF TruncLoop, T
<1>6. f[0] = s /\ \A m \in 1 .. len : f[m] = T(f[m - 1], m)
  <2>1. len \in Nat  BY <1>3, Sizes
  <2> QED BY <1>5, <2>1
<1> QED BY <1>3, <1>6 DEF T

Truncs(s, k, cut) ==
    /\ Good(s, {}, cut) /\ k \in Slots
    /\ s.why = "no" => InUse(s, k) /\ s.it[k].copy.type = T_FILE

LEMMA FileOnDisk ==
  ASSUME NEW s, NEW k, NEW cut, Truncs(s, k, cut), s.why = "no", NEW i, i = s.it[k].inum,
         NEW c, c = s.it[k].copy
  PROVE  /\ i \in Inums /\ i # ROOTINO /\ OnDisk(s).din[i] = c /\ s.din[i] = c
         /\ c \in InodeType /\ c.type = T_FILE
         /\ Cur(s)[i] = c
         /\ ~ cut => \A n \in Places : AddrOf(OnDisk(s).blk, c, n) = AddrOf(s.blk, c, n)
<1>1. Typed(s) /\ Table(s) /\ Stored(s, {}) /\ InUse(s, k) /\ c.type = T_FILE /\ k \in Slots
      /\ (cut \/ Whole(s)) /\ Rooted(OnDisk(s))
  BY GoodIs, LastImage DEF Truncs, Live, LogGood, Safe
<1>2. i \in Inums /\ Cur(s)[i] = c /\ s.din[i].type = c.type  BY <1>1, CurOf DEF Table, InUse
<1>3. i # ROOTINO  BY <1>1, <1>2 DEF Table, Rooted, T_DIR, T_FILE
<1>4. s.din[i] = c /\ OnDisk(s).din[i] = c  BY <1>1, <1>3 DEF Stored, InUse, Table
<1>5. c \in InodeType  BY <1>1 DEF Typed, SlotType
<1>6. ASSUME ~ cut, NEW n \in Places PROVE AddrOf(OnDisk(s).blk, c, n) = AddrOf(s.blk, c, n)
  <2>1. PICK a : a = c.addrs[NDIRECT]  OBVIOUS
  <2>2. At(Cur(s), s.blk, i, MAXFILE) = a /\ MAXFILE \in Places
    BY <1>2, <2>1, Sizes DEF At, AddrOf, Places
  <2>3. a # 0 => OnDisk(s).blk[a] = s.blk[a]  BY <1>1, <1>2, <1>6, <2>2 DEF Whole, Behind
  <2> QED BY <2>1, <2>3 DEF AddrOf
<1> QED BY <1>1, <1>2, <1>3, <1>4, <1>5, <1>6

Emptying(s, u, k, n, cut) ==
    /\ Typed(u) /\ u.bmap[0] /\ u.it = s.it /\ u.din = s.din /\ u.blk = s.blk
    /\ \A w \in Range(u.log) : Legal(w, cut)
    /\ OnDisk(u).din = OnDisk(s).din /\ OnDisk(u).blk = OnDisk(s).blk
    /\ s.why # "no" => u.why = s.why /\ u.log = s.log
    /\ ~ cut => u.why = s.why
    /\ s.why = "no" /\ ~ cut => /\ Freeing(u.bmap, Cur(s), s.blk, s.it[k].inum, n)
                                /\ OnDisk(u).bmap = u.bmap

Bfreed(s, t, b) ==
    /\ Typed(t) /\ t.it = s.it /\ t.din = s.din /\ t.blk = s.blk
    /\ b # 0 /\ s.bmap[0] => t.bmap[0]
    /\ s.why # "no" => t.why = s.why /\ t.log = s.log
    /\ s.why = "no" /\ s.bmap[b] =>
         /\ t.why = "no" /\ t.bmap = [s.bmap EXCEPT ![b] = FALSE]
         /\ Range(t.log) = Range(s.log) \cup {OnDisk(t)}
         /\ OnDisk(t) = [OnDisk(s) EXCEPT !.bmap = t.bmap]
    /\ ~ s.bmap[b] => t.log = s.log

LEMMA BfreeFields ==
  ASSUME NEW s, Typed(s), NEW b \in Nat, NEW t, t = bfree(s, b)
  PROVE  Bfreed(s, t, b)
<1>1. CASE s.bmap[b]
  <2>1. PICK x : x = [s.bmap EXCEPT ![b] = FALSE]  OBVIOUS
  <2>2. x \in [Blocks -> BOOLEAN] /\ (b # 0 /\ s.bmap[0] => x[0])  BY <2>1, Sizes DEF Typed
  <2>3. PICK u : u = [s EXCEPT !.bmap = x]  OBVIOUS
  <2>4. t = BwriteMap(u)  BY <1>1, <2>1, <2>3 DEF bfree
  <2>5. /\ Typed(u) /\ u.bmap = x /\ u.din = s.din /\ u.blk = s.blk
        /\ u.it = s.it /\ u.ret = s.ret /\ u.why = s.why /\ u.log = s.log  BY <2>2, <2>3, MapFields
  <2>6. /\ Typed(t) /\ t.bmap = u.bmap /\ t.din = u.din /\ t.blk = u.blk
        /\ t.it = u.it /\ t.ret = u.ret /\ t.why = u.why
        /\ u.why # "no" => t.log = u.log
        /\ u.why = "no" => /\ Range(t.log) = Range(u.log) \cup {OnDisk(t)}
                           /\ OnDisk(t) = [OnDisk(u) EXCEPT !.bmap = u.bmap]
                           /\ OnDisk(t) \in ImageType
    <3>1. Typed(u)  BY <2>5
    <3> QED BY <2>4, <3>1, WriteMapFields
  <2>7. OnDisk(u) = OnDisk(s)  BY <2>5 DEF OnDisk
  <2> QED BY <1>1, <2>1, <2>2, <2>5, <2>6, <2>7 DEF Bfreed
<1>2. CASE ~ s.bmap[b]
  <2>1. PICK msg : msg = "freeing free block"  OBVIOUS
  <2>2. t = Panic(s, msg)  BY <1>2, <2>1 DEF bfree
  <2> QED BY <1>2, <2>2, PanicFields DEF Bfreed
<1> QED BY <1>1, <1>2

\* A block of the file that is free on a disk which still has the file as it was.
LEMMA FreedIsUnmarked ==
  ASSUME NEW s, NEW k, NEW cut, cut = FALSE, Truncs(s, k, cut), s.why = "no", NEW n \in Places,
         NEW b, b = AddrOf(s.blk, s.it[k].copy, n), b # 0,
         NEW w, w.din = OnDisk(s).din, w.blk = OnDisk(s).blk, ~ w.bmap[b]
  PROVE  Unmarked(w)
<1>1. PICK i, c : i = s.it[k].inum /\ c = s.it[k].copy  OBVIOUS
<1>2. /\ i \in Inums /\ OnDisk(s).din[i] = c /\ c.type = T_FILE
      /\ AddrOf(OnDisk(s).blk, c, n) = b  BY <1>1, FileOnDisk
<1>3. b \in BlocksOf(w.blk, w.din[i]) /\ w.din[i].type # T_NONE
  BY <1>2 DEF BlocksOf, T_FILE, T_NONE
<1> QED BY <1>2, <1>3 DEF Unmarked

LEMMA EmptyOne ==
  ASSUME NEW s, NEW k, NEW cut \in BOOLEAN, Truncs(s, k, cut), NEW n \in Places,
         NEW u, Emptying(s, u, k, n, cut),
         NEW t, t = TruncTurn(u, s.blk, s.it[k].copy, n + 1)
  PROVE  Emptying(s, t, k, n + 1, cut)
<1>1. /\ Typed(u) /\ u.bmap[0] /\ u.it = s.it /\ u.din = s.din /\ u.blk = s.blk
      /\ \A w \in Range(u.log) : Legal(w, cut)
      /\ OnDisk(u).din = OnDisk(s).din /\ OnDisk(u).blk = OnDisk(s).blk
      /\ s.why # "no" => u.why = s.why /\ u.log = s.log
      /\ ~ cut => u.why = s.why  BY DEF Emptying
<1>2. s.why = "no" /\ ~ cut => /\ Freeing(u.bmap, Cur(s), s.blk, s.it[k].inum, n)
                               /\ OnDisk(u).bmap = u.bmap  BY DEF Emptying
<1>3. PICK b : b = AddrOf(s.blk, s.it[k].copy, n)  OBVIOUS
<1>4. n + 1 - 1 = n /\ n \in Nat  BY Sizes DEF Places
<1>5. t = IF b = 0 THEN u ELSE bfree(u, b)  BY <1>3, <1>4 DEF TruncTurn
<1>6. b \in Nat
  <2>1. PICK c, a : c = s.it[k].copy /\ a = c.addrs[NDIRECT]  OBVIOUS
  <2>2. Typed(s) /\ k \in Slots  BY GoodIs DEF Truncs
  <2>3. c.addrs \in [0 .. NDIRECT -> Blocks]  BY <2>1, <2>2 DEF Typed, SlotType, InodeType
  <2>4. NDIRECT \in 0 .. NDIRECT /\ a \in Blocks /\ Blocks \subseteq Nat
    BY <2>1, <2>3, Sizes DEF Blocks
  <2>5. CASE n < NDIRECT
    <3>1. n \in 0 .. NDIRECT  BY <1>4, <2>5, Sizes
    <3>2. b = c.addrs[n]  BY <1>3, <2>1, <2>5 DEF AddrOf
    <3> QED BY <2>3, <2>4, <3>1, <3>2
  <2>6. CASE ~ (n < NDIRECT) /\ (n = MAXFILE \/ a = 0)  BY <1>3, <2>1, <2>4, <2>6 DEF AddrOf
  <2>7. CASE ~ (n < NDIRECT) /\ ~ (n = MAXFILE \/ a = 0)
    <3>1. b = s.blk[a][n - NDIRECT][1]  BY <1>3, <2>1, <2>7 DEF AddrOf
    <3>2. n - NDIRECT \in Offs  BY <1>4, <2>7, Sizes DEF Offs, Places
    <3>3. s.blk[a][n - NDIRECT] \in Nat \X Seq(Nat)
      BY <2>2, <2>4, <3>2 DEF Typed, Contents, UnitType
    <3> QED BY <3>1, <3>3
  <2> QED BY <2>5, <2>6, <2>7
<1>7. ASSUME s.why = "no", ~ cut
      PROVE  /\ b = At(Cur(s), s.blk, s.it[k].inum, n) /\ s.it[k].inum \in Inums
             /\ b = 0 => Freeing(u.bmap, Cur(s), s.blk, s.it[k].inum, n + 1)
             /\ b # 0 => /\ u.bmap[b] /\ b \in Blocks
                         /\ Freeing([u.bmap EXCEPT ![b] = FALSE], Cur(s), s.blk, s.it[k].inum, n + 1)
  <2>1. PICK i : i = s.it[k].inum  OBVIOUS
  <2>2. i \in Inums /\ Cur(s)[i] = s.it[k].copy  BY <1>7, <2>1, FileOnDisk
  <2>3. b = At(Cur(s), s.blk, i, n)  BY <1>3, <2>2 DEF At
  <2>4. u.bmap \in [Blocks -> BOOLEAN] /\ Freeing(u.bmap, Cur(s), s.blk, i, n)
    BY <1>1, <1>2, <1>7, <2>1 DEF Typed
  <2> QED BY <2>1, <2>2, <2>3, <2>4, FreeOne
<1>8. CASE b = 0
  <2>1. t = u  BY <1>5, <1>8
  <2> QED BY <1>1, <1>2, <1>7, <1>8, <2>1 DEF Emptying
<1>9. CASE b # 0
  <2>1. t = bfree(u, b) /\ Typed(u)  BY <1>1, <1>5, <1>9
  <2>2. /\ Typed(t) /\ t.it = u.it /\ t.din = u.din /\ t.blk = u.blk
        /\ b # 0 /\ u.bmap[0] => t.bmap[0]
        /\ u.why # "no" => t.why = u.why /\ t.log = u.log
        /\ u.why = "no" /\ u.bmap[b] =>
             /\ t.why = "no" /\ t.bmap = [u.bmap EXCEPT ![b] = FALSE]
             /\ Range(t.log) = Range(u.log) \cup {OnDisk(t)}
             /\ OnDisk(t) = [OnDisk(u) EXCEPT !.bmap = t.bmap]
        /\ ~ u.bmap[b] => t.log = u.log
    <3>1. Bfreed(u, t, b)  BY <1>6, <2>1, BfreeFields
    <3> QED BY <3>1 DEF Bfreed
  <2>3. PICK v, w : v = OnDisk(u) /\ w = OnDisk(t)  OBVIOUS
  <2>4. v \in ImageType  BY <1>1, <2>3, OnDiskTyped
  <2>5. CASE u.why = "no" /\ u.bmap[b]
    <3>1. w = [v EXCEPT !.bmap = t.bmap] /\ t.bmap = [u.bmap EXCEPT ![b] = FALSE] /\ t.why = "no"
          /\ Range(t.log) = Range(u.log) \cup {w}  BY <2>2, <2>3, <2>5
    <3>2. w.bmap = t.bmap /\ w.din = v.din /\ w.blk = v.blk  BY <2>4, <3>1 DEF ImageType
    <3>3. s.why = "no"  BY <1>1, <2>5
    <3>4. Legal(w, cut)
      <4>1. Rooted(w)
        <5>1. Rooted(v)  BY <1>1, <2>3, LastImage DEF Legal
        <5>2. t.bmap[0]  BY <1>1, <1>9, <2>2
        <5> QED BY <3>2, <5>1, <5>2 DEF Rooted
      <4>2. ASSUME ~ cut PROVE Unmarked(w)
        <5>1. b \in Blocks /\ cut = FALSE  BY <1>7, <1>9, <3>3, <4>2
        <5>2. ~ w.bmap[b]  BY <1>1, <3>1, <3>2, <5>1 DEF Typed
        <5>3. w.din = OnDisk(s).din /\ w.blk = OnDisk(s).blk  BY <1>1, <2>3, <3>2
        <5> QED BY <1>3, <1>9, <3>3, <5>1, <5>2, <5>3, FreedIsUnmarked
      <4> QED BY <4>1, <4>2 DEF Legal
    <3>5. \A x \in Range(t.log) : Legal(x, cut)  BY <1>1, <3>1, <3>4
    <3>6. s.why = "no" /\ ~ cut => /\ Freeing(t.bmap, Cur(s), s.blk, s.it[k].inum, n + 1)
                                   /\ OnDisk(t).bmap = t.bmap  BY <1>7, <1>9, <2>3, <3>1, <3>2
    <3> QED BY <1>1, <1>9, <2>2, <2>3, <2>5, <3>1, <3>2, <3>3, <3>5, <3>6 DEF Emptying
  <2>6. CASE ~ (u.why = "no" /\ u.bmap[b])
    <3>1. t.log = u.log  BY <2>2, <2>6
    <3>2. OnDisk(t) = OnDisk(u)  BY <3>1 DEF OnDisk
    <3>3. ~ (s.why = "no" /\ ~ cut)  BY <1>1, <1>7, <1>9, <2>6
    <3>4. ~ cut => t.why = s.why  BY <1>1, <2>2, <3>3
    <3>5. s.why # "no" => t.why = s.why /\ t.log = s.log  BY <1>1, <2>2
    <3> QED BY <1>1, <1>9, <2>2, <3>1, <3>2, <3>3, <3>4, <3>5 DEF Emptying
  <2> QED BY <2>5, <2>6
<1> QED BY <1>8, <1>9

\* The inode drops its blocks.
LEMMA EmptiedTyped ==
  ASSUME NEW c \in InodeType, NEW d, d = Emptied(c)
  PROVE  d \in InodeType /\ d.type = c.type /\ d.addrs = NoAddrs /\ d.size = 0 /\ Filled(d)
<1>1. NoAddrs \in [0 .. NDIRECT -> Blocks]  BY Empties
<1>2. PICK m : m = MAXFILE * BSIZE  OBVIOUS
<1>3. 0 \in 0 .. m  BY <1>2, Sizes
<1>4. d \in InodeType /\ d.type = c.type /\ d.addrs = NoAddrs /\ d.size = 0
  BY <1>1, <1>2, <1>3 DEF Emptied, InodeType
<1>5. Filled(d)  BY <1>4 DEF Filled
<1> QED BY <1>4, <1>5

\* Slot k and its inode i have c instead of what they had.
Replaced(s, t, k, i, c) ==
    /\ \A l \in Slots : SameSlot(s.it[l], t.it[l])
    /\ t.it[k].copy = c /\ \A l \in Slots \ {k} : t.it[l] = s.it[l]
    /\ t.din = WithInode(s.din, i, c)

Cleared(u, t, k, i, c) ==
    /\ Typed(t) /\ Replaced(u, t, k, i, c) /\ t.bmap = u.bmap /\ t.blk = u.blk /\ t.why = u.why
    /\ u.why # "no" => t.log = u.log
    /\ u.why = "no" =>
         /\ Range(t.log) = Range(u.log) \cup {OnDisk(t)} /\ OnDisk(t) \in ImageType
         /\ OnDisk(t).bmap = OnDisk(u).bmap /\ OnDisk(t).blk = OnDisk(u).blk
         /\ i \in Inums => OnDisk(t).din = WithInode(OnDisk(u).din, i, c)

LEMMA ClearFields ==
  ASSUME NEW u, Typed(u), NEW k \in Slots, NEW t, t = Clear(u, k)
  PROVE  Cleared(u, t, k, u.it[k].inum, Emptied(u.it[k].copy))
<1>0. PICK i, c : i = u.it[k].inum /\ c = Emptied(u.it[k].copy)  OBVIOUS
<1>1. c \in InodeType  BY <1>0, EmptiedTyped DEF Typed, SlotType
<1>2. PICK e : e = [u.it[k] EXCEPT !.copy = c]  OBVIOUS
<1>3. PICK x : x = [u.it EXCEPT ![k] = e]  OBVIOUS
<1>4. e \in SlotType /\ e.copy = c /\ SameSlot(u.it[k], e)
  BY <1>1, <1>2 DEF Typed, SlotType, SameSlot
<1>5. x \in [Slots -> SlotType] /\ x[k] = e /\ \A l \in Slots \ {k} : x[l] = u.it[l]
  BY <1>3, <1>4 DEF Typed
<1>6. PICK v : v = [u EXCEPT !.it = x]  OBVIOUS
<1>7. /\ Typed(v) /\ v.bmap = u.bmap /\ v.din = u.din /\ v.blk = u.blk
      /\ v.it = x /\ v.ret = u.ret /\ v.why = u.why /\ v.log = u.log  BY <1>5, <1>6, TableFields
<1>8. t = iupdate(v, k)  BY <1>0, <1>2, <1>3, <1>6 DEF Clear
<1>9. v.it[k].inum = i /\ v.it[k].copy = c  BY <1>0, <1>4, <1>5, <1>7 DEF SameSlot
<1>10. PICK y : y = [u.din EXCEPT ![i] = c]  OBVIOUS
<1>11. y \in [Inums -> InodeType]  BY <1>1, <1>10 DEF Typed
<1>12. PICK w : w = [v EXCEPT !.din = y]  OBVIOUS
<1>13. /\ Typed(w) /\ w.bmap = v.bmap /\ w.din = y /\ w.blk = v.blk
       /\ w.it = v.it /\ w.ret = v.ret /\ w.why = v.why /\ w.log = v.log
  BY <1>7, <1>11, <1>12, DinFields
<1>14. t = BwriteInode(w, i)  BY <1>7, <1>8, <1>9, <1>10, <1>12 DEF iupdate
<1>15. /\ Typed(t) /\ t.bmap = w.bmap /\ t.din = w.din /\ t.blk = w.blk
       /\ t.it = w.it /\ t.ret = w.ret /\ t.why = w.why
       /\ w.why # "no" => t.log = w.log
       /\ w.why = "no" => /\ Range(t.log) = Range(w.log) \cup {OnDisk(t)}
                          /\ OnDisk(t) = [OnDisk(w) EXCEPT !.din[i] = w.din[i]]
                          /\ OnDisk(t) \in ImageType
  <2>1. Typed(w)  BY <1>13
  <2> QED BY <1>14, <2>1, WriteInodeFields
<1>16. Replaced(u, t, k, i, c)
  <2>1. t.it = x /\ t.din = y  BY <1>7, <1>13, <1>15
  <2>2. \A l \in Slots : SameSlot(u.it[l], x[l])  BY <1>4, <1>5 DEF SameSlot
  <2> QED BY <1>4, <1>5, <1>10, <2>1, <2>2 DEF Replaced, WithInode
<1>17. ASSUME u.why = "no"
       PROVE  /\ Range(t.log) = Range(u.log) \cup {OnDisk(t)} /\ OnDisk(t) \in ImageType
              /\ OnDisk(t).bmap = OnDisk(u).bmap /\ OnDisk(t).blk = OnDisk(u).blk
              /\ i \in Inums => OnDisk(t).din = WithInode(OnDisk(u).din, i, c)
  <2>1. PICK a, b : a = OnDisk(u) /\ b = OnDisk(t)  OBVIOUS
  <2>2. OnDisk(w) = a /\ a \in ImageType  BY <1>7, <1>13, <2>1, OnDiskTyped DEF OnDisk
  <2>3. b = [a EXCEPT !.din[i] = y[i]]  BY <1>7, <1>13, <1>15, <1>17, <2>1, <2>2
  <2>4. b.bmap = a.bmap /\ b.blk = a.blk /\ b.din = [a.din EXCEPT ![i] = y[i]]
    BY <2>2, <2>3 DEF ImageType
  <2>5. i \in Inums => y[i] = c  BY <1>10 DEF Typed
  <2> QED BY <1>7, <1>13, <1>15, <1>17, <2>1, <2>4, <2>5 DEF WithInode
<1> QED BY <1>0, <1>7, <1>13, <1>15, <1>16, <1>17 DEF Cleared

\* What the kernel knows of the other inodes is as it was.
LEMMA ReplacedCur ==
  ASSUME NEW s, Typed(s), Table(s), NEW t, NEW k \in Slots, InUse(s, k),
         NEW c \in InodeType, Replaced(s, t, k, s.it[k].inum, c)
  PROVE  /\ Cur(t) = WithInode(Cur(s), s.it[k].inum, c) /\ OneSlot(t)
         /\ \A l \in Slots : (Busy(t, l) <=> Busy(s, l)) /\ (InUse(t, l) <=> InUse(s, l))
         /\ \A l \in Slots : t.it[l].inum = s.it[l].inum
<1>0. PICK i : i = s.it[k].inum  OBVIOUS
<1>1. \A l \in Slots : (Busy(t, l) <=> Busy(s, l)) /\ (InUse(t, l) <=> InUse(s, l))
  BY DEF Replaced, Busy, InUse, SameSlot
<1>2. \A l \in Slots : t.it[l].inum = s.it[l].inum  BY DEF Replaced, SameSlot
<1>3. OneSlot(s) /\ OneSlot(t)  BY <1>1, <1>2 DEF Table, OneSlot
<1>4. i \in Inums  BY <1>0 DEF Table, InUse
<1>5. PICK f : f = WithInode(Cur(s), i, c)  OBVIOUS
<1>6. f \in [Inums -> InodeType] /\ f[i] = c /\ \A j \in Inums \ {i} : f[j] = Cur(s)[j]
  BY <1>3, <1>4, <1>5, CurTyped DEF WithInode
<1>7. \A j : \A l : l \in InMemory(t, j) <=> l \in InMemory(s, j)  BY <1>1, <1>2 DEF InMemory, InUse
<1>8. ASSUME NEW j \in Inums, NEW l \in InMemory(t, j) PROVE f[j] = t.it[l].copy
  <2>1. l \in Slots /\ Busy(s, l) /\ s.it[l].inum = j /\ l \in InMemory(s, j)
    BY <1>7, <1>8 DEF InMemory
  <2>2. CASE j = i
    <3>1. l = k  BY <1>0, <1>3, <2>1, <2>2 DEF OneSlot, InUse
    <3> QED BY <1>6, <2>2, <3>1 DEF Replaced
  <2>3. CASE j # i
    <3>1. l # k  BY <1>0, <2>1, <2>3
    <3>2. t.it[l] = s.it[l]  BY <2>1, <3>1 DEF Replaced
    <3>3. Cur(s)[j] = s.it[l].copy  BY <1>3, <2>1, CurrentIn DEF Cur
    <3> QED BY <1>6, <2>3, <3>2, <3>3
  <2> QED BY <2>2, <2>3
<1>9. ASSUME NEW j \in Inums, InMemory(t, j) = {} PROVE f[j] = t.din[j]
  <2>1. k \in InMemory(s, i)  BY <1>0 DEF InMemory, InUse
  <2>2. j # i  BY <1>7, <1>9, <2>1
  <2>3. InMemory(s, j) = {}  BY <1>7, <1>9
  <2>4. t.din[j] = s.din[j]  BY <1>0, <2>2 DEF Replaced, WithInode, Typed
  <2> QED BY <1>6, <2>2, <2>3, <2>4, CurrentOut DEF Cur
<1>10. Cur(t) = f  BY <1>3, <1>6, <1>8, <1>9, CurIs
<1> QED BY <1>0, <1>1, <1>2, <1>3, <1>5, <1>10

\* The file is empty in the kernel, on the disk and in the table.
LEMMA ClearedLive ==
  ASSUME NEW s, NEW k, NEW cut \in BOOLEAN, Truncs(s, k, cut), s.why = "no",
         NEW u, Emptying(s, u, k, MAXFILE + 1, cut), u.why = "no", NEW t, t = Clear(u, k)
  PROVE  Live(t, {}, cut) /\ Safe(OnDisk(t), cut) /\ Gains(s, t, 0)
<1>1. /\ Typed(s) /\ Table(s) /\ Stored(s, {}) /\ InUse(s, k) /\ k \in Slots
      /\ (cut \/ Whole(s)) /\ Rooted(OnDisk(s))
  BY GoodIs, LastImage DEF Truncs, Live, LogGood, Safe
<1>2. PICK i, c, d : i = s.it[k].inum /\ c = s.it[k].copy /\ d = Emptied(c)  OBVIOUS
<1>3. /\ i \in Inums /\ i # ROOTINO /\ OnDisk(s).din[i] = c /\ s.din[i] = c
      /\ c \in InodeType /\ c.type = T_FILE /\ Cur(s)[i] = c  BY <1>2, FileOnDisk
<1>4. d \in InodeType /\ d.type = c.type /\ d.addrs = NoAddrs /\ d.size = 0 /\ Filled(d)
  BY <1>2, <1>3, EmptiedTyped
<1>5. /\ Typed(u) /\ u.bmap[0] /\ u.it = s.it /\ u.din = s.din /\ u.blk = s.blk
      /\ OnDisk(u).din = OnDisk(s).din /\ OnDisk(u).blk = OnDisk(s).blk
      /\ ~ cut => Freeing(u.bmap, Cur(s), s.blk, i, MAXFILE + 1) /\ OnDisk(u).bmap = u.bmap
      /\ Rooted(OnDisk(u))  BY <1>2, LastImage DEF Emptying, Legal
<1>6. Cleared(u, t, k, i, d)  BY <1>1, <1>2, <1>5, ClearFields
<1>7. PICK w : w = OnDisk(t)  OBVIOUS
<1>8. /\ Typed(t) /\ t.bmap = u.bmap /\ t.blk = s.blk /\ t.why = "no"
      /\ w \in ImageType /\ w.bmap = OnDisk(u).bmap /\ w.blk = OnDisk(s).blk
      /\ w.din = WithInode(s.din, i, d) /\ t.din = w.din
  BY <1>1, <1>3, <1>5, <1>6, <1>7 DEF Cleared, Replaced, Table
<1>9. Replaced(s, t, k, i, d)  BY <1>5, <1>6 DEF Cleared, Replaced
<1>10. /\ Cur(t) = WithInode(Cur(s), i, d) /\ OneSlot(t)
       /\ \A l \in Slots : (Busy(t, l) <=> Busy(s, l)) /\ (InUse(t, l) <=> InUse(s, l))
       /\ \A l \in Slots : t.it[l].inum = s.it[l].inum  BY <1>1, <1>2, <1>4, <1>9, ReplacedCur
<1>11. w.din[i] = d /\ \A j \in Inums \ {i} : w.din[j] = s.din[j]
  BY <1>1, <1>3, <1>8 DEF WithInode, Typed
<1>12. t.it[k].copy = d /\ \A l \in Slots \ {k} : t.it[l] = s.it[l]  BY <1>9 DEF Replaced
<1>13. \A l \in Slots : InUse(s, l) /\ l # k => s.it[l].inum # i  BY <1>1, <1>2 DEF Table, InUse
<1>14. \A l \in Slots : InUse(s, l) => s.it[l].inum \in Inums  BY <1>1 DEF Table, InUse
<1>15. Table(t)
  <2>1. ASSUME NEW l \in Slots, InUse(t, l)
        PROVE  /\ t.it[l].copy.type = t.din[t.it[l].inum].type /\ t.it[l].copy.type # T_NONE
               /\ t.it[l].inum # ROOTINO => Filled(t.it[l].copy)
    <3>1. CASE l = k  BY <1>2, <1>3, <1>4, <1>8, <1>10, <1>11, <1>12, <3>1 DEF T_FILE, T_NONE
    <3>2. CASE l # k
      <4>1. InUse(s, l) /\ t.it[l] = s.it[l] /\ s.it[l].inum # i /\ s.it[l].inum \in Inums
        BY <1>10, <1>12, <1>13, <1>14, <2>1, <3>2
      <4>2. t.din[s.it[l].inum] = s.din[s.it[l].inum]  BY <1>8, <1>11, <4>1
      <4> QED BY <1>1, <4>1, <4>2 DEF Table, InUse
    <3> QED BY <3>1, <3>2
  <2>2. \A l \in Slots : Busy(t, l) => t.it[l].inum \in Inums  BY <1>1, <1>10 DEF Table
  <2>3. \A l \in Slots : Busy(t, l) /\ t.it[l].valid =>
          /\ t.it[l].copy.type = t.din[t.it[l].inum].type /\ t.it[l].copy.type # T_NONE
          /\ t.it[l].inum # ROOTINO => Filled(t.it[l].copy)  BY <2>1 DEF InUse
  <2>4. t.din = OnDisk(t).din  BY <1>7, <1>8
  <2> QED BY <1>10, <2>2, <2>3, <2>4 DEF Table, OneSlot
<1>16. Stored(t, {})
  <2>1. SUFFICES ASSUME NEW l \in Slots, InUse(t, l), t.it[l].inum # ROOTINO
        PROVE t.it[l].copy = t.din[t.it[l].inum]  BY DEF Stored, InUse
  <2>2. CASE l = k  BY <1>2, <1>8, <1>10, <1>11, <1>12, <2>2
  <2>3. CASE l # k
    <3>1. InUse(s, l) /\ t.it[l] = s.it[l] /\ s.it[l].inum # i /\ s.it[l].inum \in Inums
      BY <1>10, <1>12, <1>13, <1>14, <2>1, <2>3
    <3>2. s.it[l].copy = s.din[s.it[l].inum]  BY <1>1, <2>1, <3>1 DEF Stored, InUse
    <3> QED BY <1>8, <1>11, <3>1, <3>2
  <2> QED BY <2>2, <2>3
<1>17. Rooted(w)
  <2>1. w.bmap[0]  BY <1>5, <1>8 DEF Rooted
  <2>2. s.din = OnDisk(s).din  BY <1>1 DEF Table
  <2>3. w.din[ROOTINO].type = T_DIR  BY <1>1, <1>3, <1>11, <2>2, Sizes DEF Rooted
  <2>4. ASSUME NEW j \in Inums \ {ROOTINO} PROVE w.din[j].type # T_DIR /\ Filled(w.din[j])
    <3>1. CASE j = i  BY <1>3, <1>4, <1>11, <3>1 DEF T_FILE, T_DIR
    <3>2. CASE j # i  BY <1>1, <1>11, <2>2, <3>2 DEF Rooted
    <3> QED BY <3>1, <3>2
  <2> QED BY <2>1, <2>3, <2>4 DEF Rooted
<1>18. ASSUME ~ cut PROVE Whole(t)
  <2>1. PICK a, b : a = Cur(s) /\ b = Cur(t)  OBVIOUS
  <2>2. OneSlot(s)  BY <1>1 DEF Table, OneSlot
  <2>3. a \in [Inums -> InodeType] /\ b \in [Inums -> InodeType]
    BY <1>1, <1>8, <1>10, <2>1, <2>2, CurTyped
  <2>4. b[i] = d /\ \A j \in Inums \ {i} : b[j] = a[j]  BY <1>3, <1>10, <2>1, <2>3 DEF WithInode
  <2>5. s.blk \in [Blocks -> Contents] /\ b[i].addrs = NoAddrs /\ a[i] = c
    BY <1>1, <1>3, <1>4, <2>1, <2>4 DEF Typed
  <2>6. Freeing(u.bmap, a, s.blk, i, MAXFILE + 1)  BY <1>5, <1>18, <2>1
  <2>7. Sound(u.bmap, b, s.blk)  BY <1>3, <2>3, <2>4, <2>5, <2>6, FreedAll
  <2>8. Right(s.bmap, a, s.blk) /\ Behind(OnDisk(s), s.bmap, a, s.blk)
    BY <1>1, <1>18, <2>1 DEF Whole
  <2>9. \A j \in Inums : b[j].type = a[j].type  BY <1>4, <2>4, <2>5
  <2>10. \A j \in Inums \ {i}, n \in Places : At(b, s.blk, j, n) = At(a, s.blk, j, n)
    BY <2>4 DEF At
  <2>11. Entered(b, s.blk)
    <3>1. \A n \in 0 .. MAXFILE - 1 : n \in Places /\ ROOTINO \in Inums \ {i}
      BY <1>3, Sizes DEF Places
    <3>2. \A n \in 0 .. MAXFILE - 1 : DataIn(b, s.blk, ROOTINO, n) = DataIn(a, s.blk, ROOTINO, n)
      BY <2>10, <3>1 DEF DataIn
    <3>3. Entered(a, s.blk)  BY <2>8 DEF Right
    <3>4. \A j \in Inums : a[j].type = T_FILE => b[j].type = T_FILE  BY <2>9
    <3> QED BY <3>2, <3>3, <3>4, EnteredSame
  <2>12. \A n \in Places : At(b, s.blk, i, n) = 0
    <3>1. \A m \in 0 .. NDIRECT : b[i].addrs[m] = 0  BY <2>5 DEF NoAddrs
    <3>2. NDIRECT \in 0 .. NDIRECT /\ \A m \in Places : m < NDIRECT => m \in 0 .. NDIRECT
      BY Sizes DEF Places
    <3> QED BY <3>1, <3>2 DEF At, AddrOf
  <2>13. s.din = OnDisk(s).din  BY <1>1 DEF Table
  <2>14. Behind(w, u.bmap, b, s.blk)
    <3>1. w.bmap = u.bmap  BY <1>5, <1>8, <1>18
    <3>2. ASSUME NEW j \in Inums
          PROVE  /\ w.din[j].type = b[j].type
                 /\ \A n \in 0 .. NDIRECT : w.din[j].addrs[n] \in {0, b[j].addrs[n]}
      <4>1. CASE j = i  BY <1>11, <2>4, <4>1
      <4>2. CASE j # i  BY <1>11, <2>4, <2>8, <2>13, <4>2 DEF Behind
      <4> QED BY <4>1, <4>2
    <3>3. ASSUME NEW j \in Inums, NEW n \in Places, n = MAXFILE \/ j = ROOTINO,
                 At(b, s.blk, j, n) # 0
          PROVE  w.blk[At(b, s.blk, j, n)] = s.blk[At(b, s.blk, j, n)]
      <4>1. j # i  BY <2>12, <3>3
      <4>2. At(b, s.blk, j, n) = At(a, s.blk, j, n)  BY <2>10, <4>1
      <4> QED BY <1>8, <2>8, <3>3, <4>2 DEF Behind
    <3> QED BY <3>1, <3>2, <3>3 DEF Behind
  <2> QED BY <1>7, <1>8, <2>1, <2>7, <2>11, <2>14 DEF Whole, Right
<1>19. Safe(w, cut)
  <2>1. CASE cut  BY <1>17, <2>1 DEF Safe
  <2>2. CASE ~ cut  BY <1>7, <1>8, <1>15, <1>17, <1>18, <2>2, WholeRight DEF Safe
  <2> QED BY <2>1, <2>2
<1>20. Gains(s, t, 0)
  <2>1. SUFFICES ASSUME NEW l \in Slots
        PROVE  t.it[l].ref = s.it[l].ref + (IF l = 0 THEN 1 ELSE 0) /\ Pinned(s.it[l], t.it[l])
    BY DEF Gains
  <2>2. SameSlot(s.it[l], t.it[l])  BY <1>9 DEF Replaced
  <2>3. s.it[l].ref \in Int /\ l # 0 /\ t.it[l].ref = s.it[l].ref
    BY <1>1, <2>2, RefTyped DEF SameSlot
  <2>4. t.it[l].copy.type = s.it[l].copy.type  BY <1>2, <1>4, <1>12
  <2>5. Pinned(s.it[l], t.it[l])  BY <2>2, <2>4, Zenon DEF Pinned, SameSlot
  <2> QED BY <2>3, <2>5
<1> QED BY <1>7, <1>15, <1>16, <1>18, <1>19, <1>20 DEF Live

LEMMA SafeIsLegal ==
  ASSUME NEW w, NEW cut, Safe(w, cut)
  PROVE  Legal(w, cut)
  BY DEF Safe, Legal

LEMMA GoodEnds ==
  ASSUME NEW s, NEW cut, Good(s, {}, cut)
  PROVE  Ended(s, cut) /\ LogGood(s, cut)
<1>1. /\ Typed(s) /\ LogGood(s, cut) /\ s.bmap[0]
      /\ s.why = "no" => Live(s, {}, cut)  BY GoodIs
<1>2. Safe(OnDisk(s), cut)  BY <1>1, LastImage DEF LogGood
<1>3. \A w \in Range(s.log) : Legal(w, cut)  BY <1>1, SafeIsLegal DEF LogGood
<1> QED BY <1>1, <1>2, <1>3 DEF Ended

LEMMA EmptyFirst ==
  ASSUME NEW s, NEW k, NEW cut, Truncs(s, k, cut)
  PROVE  Emptying(s, s, k, 0, cut)
<1>1. /\ Typed(s) /\ LogGood(s, cut) /\ s.bmap[0]
      /\ s.why = "no" => Live(s, {}, cut)  BY GoodIs DEF Truncs
<1>2. \A w \in Range(s.log) : Legal(w, cut)  BY <1>1, SafeIsLegal DEF LogGood
<1>3. ASSUME s.why = "no", ~ cut
      PROVE  Freeing(s.bmap, Cur(s), s.blk, s.it[k].inum, 0) /\ OnDisk(s).bmap = s.bmap
  <2>1. Whole(s)  BY <1>1, <1>3 DEF Live
  <2>2. OnDisk(s).bmap = s.bmap /\ Sound(s.bmap, Cur(s), s.blk)  BY <2>1 DEF Whole, Behind, Right
  <2> QED BY <2>2 DEF Sound, Marked, Freeing
<1> QED BY <1>1, <1>2, <1>3 DEF Emptying

LEMMA EmptyAll ==
  ASSUME NEW s, NEW k, NEW cut \in BOOLEAN, Truncs(s, k, cut),
         NEW u, u = TruncLoop(s, k)[MAXFILE + 1]
  PROVE  Emptying(s, u, k, MAXFILE + 1, cut)
<1>1. PICK f : f = TruncLoop(s, k)  OBVIOUS
<1>2. f[0] = s /\ \A m \in 1 .. MAXFILE + 1 : f[m] = TruncTurn(f[m - 1], s.blk, s.it[k].copy, m)
  BY <1>1, TruncTurns
<1>3. PICK len : len = MAXFILE + 1  OBVIOUS
<1>4. len \in Nat  BY <1>3, Sizes
<1> DEFINE S == {m \in Nat : m <= len => Emptying(s, f[m], k, m, cut)}
<1>5. 0 \in S  BY <1>2, EmptyFirst
<1>6. ASSUME NEW m \in Nat, m \in S PROVE m + 1 \in S
  <2>1. SUFFICES ASSUME m + 1 <= len PROVE Emptying(s, f[m + 1], k, m + 1, cut)  OBVIOUS
  <2>2. PICK v, w : v = f[m] /\ w = f[m + 1]  OBVIOUS
  <2>3. Emptying(s, v, k, m, cut) /\ m + 1 \in 1 .. len /\ (m + 1) - 1 = m
    BY <1>4, <1>6, <2>1, <2>2
  <2>4. w = TruncTurn(v, s.blk, s.it[k].copy, m + 1)  BY <1>2, <1>3, <2>2, <2>3
  <2>5. m \in Places  BY <1>3, <2>1, Sizes DEF Places
  <2>6. Emptying(s, w, k, m + 1, cut)  BY <2>3, <2>4, <2>5, EmptyOne
  <2> QED BY <2>2, <2>6
<1>7. len \in S
  <2> HIDE DEF S
  <2>1. \A m \in Nat : m \in S => m + 1 \in S  BY <1>6
  <2> QED BY <1>4, <1>5, <2>1, NatsOf
<1> QED BY <1>1, <1>3, <1>4, <1>7

LEMMA ItruncGood ==
  ASSUME NEW s, NEW k, NEW cut \in BOOLEAN, Truncs(s, k, cut), NEW t, t = itrunc(s, k)
  PROVE  /\ Ended(t, cut) /\ Goes(s, t, cut)
         /\ t.why = "no" => Gains(s, t, 0)
<1>1. PICK u : u = TruncLoop(s, k)[MAXFILE + 1]  OBVIOUS
<1>2. Emptying(s, u, k, MAXFILE + 1, cut)  BY <1>1, EmptyAll
<1>3. t = Clear(u, k) /\ k \in Slots  BY <1>1, TruncIs DEF Truncs
<1>4. /\ Typed(u) /\ u.bmap[0] /\ \A w \in Range(u.log) : Legal(w, cut)
      /\ OnDisk(u).din = OnDisk(s).din
      /\ s.why # "no" => u.why = s.why /\ u.log = s.log
      /\ ~ cut => u.why = s.why  BY <1>2 DEF Emptying
<1>5. PICK i, d : i = u.it[k].inum /\ d = Emptied(u.it[k].copy)  OBVIOUS
<1>6. Cleared(u, t, k, i, d)  BY <1>3, <1>4, <1>5, ClearFields
<1>7. Typed(t) /\ t.bmap[0] /\ t.why = u.why /\ (u.why # "no" => t.log = u.log)
  BY <1>4, <1>6 DEF Cleared
<1>8. Goes(s, t, cut)  BY <1>4, <1>7 DEF Goes
<1>9. CASE u.why # "no"
  <2>1. Safe(OnDisk(t), cut)
    <3>1. CASE cut
      <4>1. OnDisk(t) = OnDisk(u) /\ Legal(OnDisk(u), cut)
        BY <1>4, <1>7, <1>9, LastImage DEF OnDisk
      <4> QED BY <3>1, <4>1 DEF Safe, Legal
    <3>2. CASE ~ cut
      <4>1. s.why # "no" /\ OnDisk(t) = OnDisk(s)  BY <1>4, <1>7, <1>9, <3>2 DEF OnDisk
      <4>2. Safe(OnDisk(s), cut)  BY GoodEnds DEF Truncs, Ended
      <4> QED BY <4>1, <4>2
    <3> QED BY <3>1, <3>2
  <2>2. \A w \in Range(t.log) : Legal(w, cut)  BY <1>4, <1>7, <1>9
  <2> QED BY <1>7, <1>8, <1>9, <2>1, <2>2 DEF Ended
<1>10. CASE u.why = "no"
  <2>1. s.why = "no"  BY <1>4, <1>10
  <2>2. Live(t, {}, cut) /\ Safe(OnDisk(t), cut) /\ Gains(s, t, 0)
    BY <1>2, <1>3, <1>10, <2>1, ClearedLive
  <2>3. Range(t.log) = Range(u.log) \cup {OnDisk(t)}  BY <1>6, <1>10 DEF Cleared
  <2>4. \A w \in Range(t.log) : Legal(w, cut)  BY <1>4, <2>2, <2>3, SafeIsLegal
  <2> QED BY <1>7, <1>8, <2>2, <2>4 DEF Ended
<1> QED BY <1>9, <1>10

----
(* The directory.  No state, panicked or not, has another size of an inode
   than the one before a block of it was asked for. *)
SizeOf(s, k) == s.it[k].copy.size

LEMMA BmapDirectSize ==
  ASSUME NEW s, Typed(s), NEW k \in Slots, NEW n, NEW t, t = bmapDirect(s, k, n)
  PROVE  SizeOf(t, k) = SizeOf(s, k) /\ (s.it[k].copy.addrs[n] # 0 => t = Ret(s, s.it[k].copy.addrs[n]))
<1>1. CASE s.it[k].copy.addrs[n] # 0
  <2>1. t = Ret(s, s.it[k].copy.addrs[n])  BY <1>1 DEF bmapDirect
  <2>2. t.it = s.it  BY <2>1, RetFields
  <2> QED BY <1>1, <2>1, <2>2 DEF SizeOf
<1>2. CASE ~ (s.it[k].copy.addrs[n] # 0)
  <2>1. PICK a : a = balloc(s)  OBVIOUS
  <2>2. Typed(a) /\ a.it = s.it  BY <2>1, BallocFields
  <2>3. t = [a EXCEPT !.it[k].copy.addrs[n] = a.ret]  BY <1>2, <2>1 DEF bmapDirect
  <2>4. t.it[k].copy.size = a.it[k].copy.size  BY <2>2, <2>3 DEF Typed, SlotType, InodeType
  <2> QED BY <1>2, <2>2, <2>4 DEF SizeOf
<1> QED BY <1>1, <1>2

LEMMA BmapSize ==
  ASSUME NEW s, NEW K, NEW cut \in BOOLEAN, Good(s, K, cut), NEW k \in Slots,
         NEW bn \in 0 .. MAXFILE - 1, s.why = "no" => MayReach(s, K, k, bn),
         NEW t, t = bmap(s, k, bn)
  PROVE  SizeOf(t, k) = SizeOf(s, k)
<1>0. Typed(s)  BY GoodIs
<1>1. CASE bn < NDIRECT
  <2>1. t = bmapDirect(s, k, bn)  BY <1>1 DEF bmap
  <2> QED BY <1>0, <2>1, BmapDirectSize
<1>2. CASE ~ (bn < NDIRECT)
  <2>0. bn < MAXFILE /\ bn - NDIRECT \in Offs /\ EntryOf(bn) = NDIRECT /\ NDIRECT \in 0 .. NDIRECT
    BY <1>2, Sizes DEF EntryOf, Offs
  <2>1. PICK u : u = bmapDirect(s, k, NDIRECT)  OBVIOUS
  <2>2. t = bmapIndirect(u, bn - NDIRECT)  BY <1>2, <2>0, <2>1 DEF bmap
  <2>3. s.why = "no" => /\ InUse(s, k)
                        /\ s.it[k].inum = ROOTINO \/ k \in K \/ s.it[k].copy.addrs[NDIRECT] # 0
    BY <2>0 DEF MayReach
  <2>4. /\ Good(u, K, cut) /\ Goes(s, u, cut) /\ u.ret \in Blocks
        /\ u.why = "no" => /\ Widened(s, u) /\ u.ret # 0 /\ u.it[k].copy.addrs[NDIRECT] = u.ret
                           /\ cut \/ SameData(s, u)  BY <2>0, <2>1, <2>3, BmapDirectGood
  <2>5. u.why = "no" => InUse(u, k)  BY <2>3, <2>4, GoesBack, WidenedUse
  <2>6. PICK o : o = bn - NDIRECT  OBVIOUS
  <2>7. o \in Offs /\ t = bmapIndirect(u, o)  BY <2>0, <2>2, <2>6
  <2>8. t.it = u.it  BY <2>4, <2>5, <2>7, BmapIndirectGood
  <2>9. SizeOf(u, k) = SizeOf(s, k)  BY <1>0, <2>1, BmapDirectSize
  <2> QED BY <2>8, <2>9 DEF SizeOf
<1> QED BY <1>1, <1>2

\* Reading one unit that lies within an inode.
LEMMA ReadOne ==
  ASSUME NEW s, NEW K, NEW cut \in BOOLEAN, Good(s, K, cut), NEW k \in Slots,
         s.why = "no" => InUse(s, k), NEW o \in 0 .. SizeOf(s, k) - 1,
         NEW t, t = readi(s, k, o, 1)
  PROVE  /\ Reading(s, t, K, cut) /\ SizeOf(t, k) = SizeOf(s, k)
         /\ Len(t.ret) = 1 /\ t.ret[1] = UnitOf(t, t.it[k].copy, o)
<1>0. PICK z, len : z = SizeOf(s, k) /\ len = ReadLen(s, k, o, 1)  OBVIOUS
<1>1. Typed(s) /\ z \in Nat /\ z \in 0 .. MAXFILE * BSIZE  BY <1>0, GoodIs, ReadLenTyped DEF SizeOf
<1>2. o \in Nat /\ o < z /\ o \in 0 .. z - 1  BY <1>0, <1>1
<1>3. len = 1  BY <1>0, <1>1, <1>2 DEF ReadLen, Least, SizeOf
<1>4. Reading(s, t, K, cut) /\ t.ret = ReadUnits(t, k, o, 1)  BY <1>0, <1>2, <1>3, ReadiGood
<1>5. t.ret = [m \in 1 .. 1 |-> UnitOf(t, t.it[k].copy, o + m - 1)]  BY <1>4 DEF ReadUnits
<1>6. Len(t.ret) = 1 /\ t.ret[1] = UnitOf(t, t.it[k].copy, o)
  <2>1. o + 1 - 1 = o  BY <1>2
  <2>2. t.ret[1] = UnitOf(t, t.it[k].copy, o)  BY <1>5, <2>1
  <2>3. DOMAIN t.ret = 1 .. 1  BY <1>5
  <2>4. Len(t.ret) = 1  BY <1>5
  <2> QED BY <2>2, <2>4
<1>7. SizeOf(t, k) = SizeOf(s, k)
  <2>1. PICK f : f = ReadLoop(s, k, o, 1)  OBVIOUS
  <2>2. f[0] = s /\ f[1] = ReadTurn(f[0], k, o, 1)  BY <2>1, ReadTurns
  <2>3. PICK u : u = f[1]  OBVIOUS
  <2>4. t = Ret(u, ReadUnits(u, k, o, 1))  BY <1>0, <1>3, <2>1, <2>3, ReadiIs
  <2>5. o + 1 - 1 = o  BY <1>2
  <2>6. PICK bn : bn = o \div BSIZE  OBVIOUS
  <2>7. u = bmap(s, k, bn)  BY <2>2, <2>3, <2>5, <2>6 DEF ReadTurn
  <2>8. bn \in 0 .. MAXFILE - 1
    <3>1. PICK b : b = MAXFILE * BSIZE  OBVIOUS
    <3>2. o < MAXFILE * BSIZE  BY <1>1, <1>2, <3>1, Sizes
    <3> QED BY <1>2, <2>6, <3>2, DivLess, Sizes
  <2>9. ASSUME s.why = "no" PROVE MayReach(s, K, k, bn)
    <3>1. InUse(s, k) /\ (s.it[k].inum # ROOTINO => Filled(s.it[k].copy))
      BY <2>9, GoodIs DEF Live, Table, InUse
    <3>2. o \in 0 .. s.it[k].copy.size - 1  BY <1>0, <1>2 DEF SizeOf
    <3> QED BY <2>6, <3>1, <3>2 DEF MayReach, Filled
  <2>10. SizeOf(u, k) = SizeOf(s, k)  BY <2>7, <2>8, <2>9, BmapSize
  <2>11. Good(u, K, cut)  BY <2>7, <2>8, <2>9, BmapGood
  <2>12. t.it = u.it  BY <2>4, <2>11, GoodIs, RetFields
  <2> QED BY <2>10, <2>12 DEF SizeOf
<1> QED BY <1>4, <1>6, <1>7

\* A unit of the directory.
RootUnit(s, o) == DataOf(s, ROOTINO, o \div BSIZE)[o % BSIZE]

LEMMA RootUnitIs ==
  ASSUME NEW s, Table(s), NEW k \in Slots, InUse(s, k), s.it[k].inum = ROOTINO, NEW o \in Nat
  PROVE  UnitOf(s, s.it[k].copy, o) = RootUnit(s, o)
<1>1. PICK n, b : n = o \div BSIZE /\ b = AddrOf(s.blk, s.it[k].copy, n)  OBVIOUS
<1>2. b = At(Cur(s), s.blk, ROOTINO, n)  BY <1>1, AtOf
<1>3. o % BSIZE \in Offs  BY BlockOf
<1>4. UnitOf(s, s.it[k].copy, o) = IF b = 0 THEN Zero ELSE s.blk[b][o % BSIZE]  BY <1>1 DEF UnitOf
<1>5. RootUnit(s, o) = (IF b = 0 THEN ZeroBlock ELSE s.blk[b])[o % BSIZE]
  BY <1>1, <1>2 DEF RootUnit, DataOf, DataIn
<1> QED BY <1>3, <1>4, <1>5 DEF ZeroBlock

LEMMA RootUnitSame ==
  ASSUME NEW s, NEW t, SameData(s, t), NEW o \in Nat, o < MAXFILE * BSIZE
  PROVE  RootUnit(t, o) = RootUnit(s, o)
<1>1. o \div BSIZE \in 0 .. MAXFILE - 1 /\ ROOTINO \in Inums  BY DivLess, Sizes
<1> QED BY <1>1 DEF RootUnit, SameData

\* One turn of a loop over the directory.
ScanCompare(u, hits, o) ==
    IF Len(u.ret) # 1 THEN Ret(Panic(u, "dirlookup read"), o + 1)
    ELSE Ret(u, IF u.ret[1] \in hits THEN o ELSE o + 1)
ScanTurn(t, dp, hits, o) == IF t.ret < o THEN t ELSE ScanCompare(readi(t, dp, o, 1), hits, o)

IsRoot(s, k) == InUse(s, k) /\ s.it[k].inum = ROOTINO
Scanned(s, u, dp, hits, o, cut) ==
    /\ Reading(s, u, {}, cut) /\ u.ret \in 0 .. o /\ SizeOf(u, dp) = SizeOf(s, dp)
    /\ u.ret < o => EntryAt(u, dp) \in hits
    /\ u.why = "no" /\ ~ cut =>
         /\ \A j \in 0 .. u.ret - 1 : RootUnit(s, j) \notin hits
         /\ u.ret < o => RootUnit(s, u.ret) \in hits

LEMMA ScanTurnGood ==
  ASSUME NEW s, NEW cut \in BOOLEAN, NEW dp \in Slots, NEW hits,
         Typed(s), s.why = "no" => IsRoot(s, dp),
         NEW o \in 0 .. SizeOf(s, dp) - 1, NEW u, Scanned(s, u, dp, hits, o, cut),
         NEW t, t = ScanTurn(u, dp, hits, o)
  PROVE  Scanned(s, t, dp, hits, o + 1, cut)
<1>0. PICK z, M : z = SizeOf(s, dp) /\ M = MAXFILE * BSIZE  OBVIOUS
<1>1. z \in Nat /\ z <= M /\ o \in Nat /\ o < z /\ M \in Nat
  <2>1. z \in 0 .. MAXFILE * BSIZE  BY <1>0, ReadLenTyped DEF SizeOf
  <2> QED BY <1>0, <2>1, Sizes
<1>2. /\ Reading(s, u, {}, cut) /\ Good(u, {}, cut) /\ u.ret \in 0 .. o /\ SizeOf(u, dp) = z
      /\ u.ret < o => EntryAt(u, dp) \in hits
      /\ u.why = "no" /\ ~ cut =>
           /\ \A j \in 0 .. u.ret - 1 : RootUnit(s, j) \notin hits
           /\ u.ret < o => RootUnit(s, u.ret) \in hits  BY <1>0 DEF Scanned, Reading
<1>3. CASE u.ret < o
  <2>1. t = u  BY <1>3 DEF ScanTurn
  <2>2. u.ret \in 0 .. o + 1 /\ u.ret < o + 1  BY <1>1, <1>2
  <2> QED BY <1>0, <1>2, <1>3, <2>1, <2>2 DEF Scanned
<1>4. CASE ~ (u.ret < o)
  <2>0. u.ret = o  BY <1>1, <1>2, <1>4
  <2>1. PICK r : r = readi(u, dp, o, 1)  OBVIOUS
  <2>2. ASSUME u.why = "no" PROVE IsRoot(u, dp)
    <3>1. s.why = "no" /\ Widened(s, u)  BY <1>2, <2>2, GoesBack DEF Reading, Same
    <3> QED BY <3>1, WidenedUse DEF IsRoot
  <2>3. /\ Reading(u, r, {}, cut) /\ SizeOf(r, dp) = z
        /\ Len(r.ret) = 1 /\ r.ret[1] = UnitOf(r, r.it[dp].copy, o)
    <3>1. o \in 0 .. SizeOf(u, dp) - 1  BY <1>1, <1>2
    <3>2. u.why = "no" => InUse(u, dp)  BY <2>2 DEF IsRoot
    <3> QED BY <1>2, <2>1, <3>1, <3>2, ReadOne
  <2>4. PICK hit : hit = UnitOf(r, r.it[dp].copy, o)  OBVIOUS
  <2>5. PICK x : x = IF hit \in hits THEN o ELSE o + 1  OBVIOUS
  <2>6. t = Ret(r, x)
    <3>1. t = ScanCompare(r, hits, o)  BY <1>4, <2>1 DEF ScanTurn
    <3> QED BY <2>3, <2>4, <2>5, <3>1 DEF ScanCompare
  <2>7. Reading(s, r, {}, cut) /\ Good(r, {}, cut)  BY <1>2, <2>3, ReadsTwice DEF Reading
  <2>8. /\ Good(t, {}, cut) /\ t.it = r.it /\ t.blk = r.blk /\ t.why = r.why /\ t.ret = x
        /\ Widened(r, t) /\ SameData(r, t) /\ Goes(r, t, cut)  BY <2>6, <2>7, RetGood
  <2>9. Reading(s, t, {}, cut)
    <3>1. Reading(r, t, {}, cut)  BY <2>8 DEF Reading, Same
    <3> QED BY <2>7, <3>1, ReadsTwice
  <2>10. SizeOf(t, dp) = z  BY <2>3, <2>8 DEF SizeOf
  <2>11. x \in 0 .. o + 1 /\ (x < o + 1 => x = o /\ hit \in hits)  BY <1>1, <2>5
  <2>12. x < o + 1 => EntryAt(t, dp) \in hits
    <3>1. UnitOf(t, t.it[dp].copy, o) = hit  BY <2>4, <2>8 DEF UnitOf
    <3> QED BY <2>8, <2>11, <3>1 DEF EntryAt
  <2>13. ASSUME t.why = "no", ~ cut
         PROVE  /\ \A j \in 0 .. x - 1 : RootUnit(s, j) \notin hits
                /\ x < o + 1 => RootUnit(s, x) \in hits
    <3>1. r.why = "no" /\ u.why = "no" /\ Same(u, r, cut) /\ Same(s, u, cut)
      BY <1>2, <2>3, <2>8, <2>13, GoesBack DEF Reading
    <3>2. IsRoot(r, dp) /\ Table(r)
      <4>1. Widened(u, r)  BY <3>1 DEF Same
      <4>2. IsRoot(r, dp)  BY <2>2, <3>1, <4>1, WidenedUse DEF IsRoot
      <4> QED BY <2>7, <3>1, <4>2, GoodIs DEF Live
    <3>3. hit = RootUnit(r, o)  BY <1>1, <2>4, <3>2, RootUnitIs DEF IsRoot
    <3>4. RootUnit(r, o) = RootUnit(s, o)
      <4>1. SameData(s, u) /\ SameData(u, r)  BY <2>13, <3>1 DEF Same
      <4>2. SameData(s, r)  BY <4>1, SameDataTwice
      <4>3. o < MAXFILE * BSIZE  BY <1>0, <1>1
      <4> QED BY <1>1, <4>2, <4>3, RootUnitSame
    <3>5. \A j \in 0 .. o - 1 : RootUnit(s, j) \notin hits  BY <1>2, <2>0, <2>13, <3>1
    <3>6. CASE hit \in hits  BY <2>5, <2>11, <3>3, <3>4, <3>5, <3>6
    <3>7. CASE hit \notin hits
      <4>1. x = o + 1 /\ \A j \in 0 .. x - 1 : j \in 0 .. o - 1 \/ j = o  BY <1>1, <2>5, <3>7
      <4> QED BY <1>1, <3>3, <3>4, <3>5, <3>7, <4>1
    <3> QED BY <3>6, <3>7
  <2> QED BY <1>0, <2>8, <2>9, <2>10, <2>11, <2>12, <2>13 DEF Scanned
<1> QED BY <1>3, <1>4

\* The loop over the directory.
ScanLoop(s, dp, hits, len) ==
    CHOOSE f : f = [m \in 0 .. len |->
                      IF m = 0 THEN Ret(s, 0) ELSE ScanTurn(f[m - 1], dp, hits, m - 1)]

LEMMA ScanTurns ==
  ASSUME NEW s, NEW dp, NEW hits, NEW len \in Nat, NEW f, f = ScanLoop(s, dp, hits, len)
  PROVE  f[0] = Ret(s, 0) /\ \A m \in 1 .. len : f[m] = ScanTurn(f[m - 1], dp, hits, m - 1)
<1> DEFINE S == {n \in Nat : \E g : g = [m \in 0 .. n |->
                   IF m = 0 THEN Ret(s, 0) ELSE ScanTurn(g[m - 1], dp, hits, m - 1)]}
<1>1. 0 \in S
  <2>1. PICK g : g = [m \in 0 .. 0 |-> Ret(s, 0)]  OBVIOUS
  <2>2. g = [m \in 0 .. 0 |-> IF m = 0 THEN Ret(s, 0) ELSE ScanTurn(g[m - 1], dp, hits, m - 1)]
    BY <2>1
  <2> QED BY <2>2
<1>2. ASSUME NEW n \in Nat, n \in S PROVE n + 1 \in S
  <2>1. PICK g : g = [m \in 0 .. n |->
                        IF m = 0 THEN Ret(s, 0) ELSE ScanTurn(g[m - 1], dp, hits, m - 1)]
    BY <1>2
  <2>2. PICK h : h = [m \in 0 .. n + 1 |->
                        IF m = n + 1 THEN ScanTurn(g[n], dp, hits, n) ELSE g[m]]
    OBVIOUS
  <2>3. ASSUME NEW m \in 0 .. n + 1
        PROVE  h[m] = IF m = 0 THEN Ret(s, 0) ELSE ScanTurn(h[m - 1], dp, hits, m - 1)
    <3>1. CASE m = n + 1
      <4>1. h[m] = ScanTurn(g[n], dp, hits, n) /\ h[n] = g[n] /\ m - 1 = n /\ m # 0  BY <2>2, <3>1
      <4> QED BY <3>1, <4>1
    <3>2. CASE m # n + 1
      <4>1. h[m] = g[m] /\ m \in 0 .. n  BY <2>2, <3>2
      <4>2. m # 0 => h[m - 1] = g[m - 1]  BY <2>2, <3>2
      <4> QED BY <2>1, <4>1, <4>2
    <3> QED BY <3>1, <3>2
  <2>4. h = [m \in 0 .. n + 1 |->
               IF m = 0 THEN Ret(s, 0) ELSE ScanTurn(h[m - 1], dp, hits, m - 1)]
    BY <2>2, <2>3
  <2> QED BY <2>4
<1>3. len \in S
  <2> HIDE DEF S
  <2>1. \A n \in Nat : n \in S => n + 1 \in S  BY <1>2
  <2> QED BY <1>1, <2>1, NatsOf
<1>4. f = [m \in 0 .. len |-> IF m = 0 THEN Ret(s, 0) ELSE ScanTurn(f[m - 1], dp, hits, m - 1)]
  BY <1>3 DEF ScanLoop
<1>5. f[0] = Ret(s, 0)  BY <1>4
<1>6. ASSUME NEW m \in 1 .. len PROVE f[m] = ScanTurn(f[m - 1], dp, hits, m - 1)
  <2>1. m \in 0 .. len /\ m # 0  OBVIOUS
  <2> QED BY <1>4, <2>1
<1> QED BY <1>5, <1>6

LEMMA ScanIs ==
  ASSUME NEW s, NEW dp, NEW hits, NEW len, len = SizeOf(s, dp)
  PROVE  Scan(s, dp, hits) = ScanLoop(s, dp, hits, len)[len]
<1>1. Scan(s, dp, hits) = ScanLoop(s, dp, hits, SizeOf(s, dp))[SizeOf(s, dp)]
  BY DEF Scan, ScanLoop, ScanTurn, ScanCompare, SizeOf
<1> QED BY <1>1

LEMMA ScanGood ==
  ASSUME NEW s, NEW cut \in BOOLEAN, Good(s, {}, cut), NEW dp \in Slots, NEW hits,
         s.why = "no" => IsRoot(s, dp), NEW t, t = Scan(s, dp, hits)
  PROVE  Scanned(s, t, dp, hits, SizeOf(s, dp), cut)
<1>1. PICK len : len = SizeOf(s, dp)  OBVIOUS
<1>2. Typed(s)  BY DEF Good, Ordered
<1>3. len \in Nat  BY <1>1, <1>2, ReadLenTyped DEF SizeOf
<1>4. PICK f : f = ScanLoop(s, dp, hits, len)  OBVIOUS
<1>5. f[0] = Ret(s, 0) /\ \A m \in 1 .. len : f[m] = ScanTurn(f[m - 1], dp, hits, m - 1)
  BY <1>3, <1>4, ScanTurns
<1> DEFINE S == {n \in Nat : n <= len => Scanned(s, f[n], dp, hits, n, cut)}
<1>6. 0 \in S
  <2>1. PICK u : u = Ret(s, 0)  OBVIOUS
  <2>2. /\ Good(u, {}, cut) /\ u.it = s.it /\ u.why = s.why /\ u.ret = 0
        /\ Widened(s, u) /\ SameData(s, u) /\ Goes(s, u, cut)  BY <2>1, RetGood
  <2>3. Reading(s, u, {}, cut) /\ SizeOf(u, dp) = SizeOf(s, dp)  BY <2>2 DEF Reading, Same, SizeOf
  <2>4. u.ret \in 0 .. 0 /\ ~ (u.ret < 0) /\ \A j \in 0 .. u.ret - 1 : FALSE  BY <2>2
  <2>5. Scanned(s, u, dp, hits, 0, cut)  BY <2>3, <2>4 DEF Scanned
  <2> QED BY <1>5, <2>1, <2>5
<1>7. ASSUME NEW n \in Nat, n \in S PROVE n + 1 \in S
  <2>1. SUFFICES ASSUME n + 1 <= len PROVE Scanned(s, f[n + 1], dp, hits, n + 1, cut)  OBVIOUS
  <2>2. n <= len /\ n + 1 \in 1 .. len /\ (n + 1) - 1 = n /\ n \in 0 .. SizeOf(s, dp) - 1
    BY <1>1, <1>3, <2>1
  <2>3. Scanned(s, f[n], dp, hits, n, cut)  BY <1>7, <2>2
  <2>4. f[n + 1] = ScanTurn(f[n], dp, hits, n)  BY <1>5, <2>2
  <2> HIDE DEF S
  <2> QED BY <1>2, <2>2, <2>3, <2>4, ScanTurnGood
<1>8. len \in S
  <2> HIDE DEF S
  <2>1. \A n \in Nat : n \in S => n + 1 \in S  BY <1>7
  <2> QED BY <1>3, <1>6, <2>1, NatsOf
<1>9. Scanned(s, f[len], dp, hits, len, cut)  BY <1>3, <1>8
<1>10. t = f[len]  BY <1>1, <1>4, ScanIs
<1> QED BY <1>1, <1>9, <1>10

----
(* Functions that leave the file system good. *)
LEMMA DoesNothing ==
  ASSUME NEW s, NEW cut, Good(s, {}, cut), NEW t, Good(t, {}, cut), Goes(s, t, cut), t.it = s.it
  PROVE  Does(s, t, 0, cut)
<1>1. Typed(s)  BY DEF Good, Ordered
<1>2. Gains(s, t, 0)  BY <1>1, GainsNone
<1> QED BY <1>2 DEF Does

LEMMA DoesTwice ==
  ASSUME NEW s, NEW cut, Good(s, {}, cut), NEW t, NEW u, NEW x, NEW y, x = 0 \/ y = 0,
         Does(s, t, x, cut), Does(t, u, y, cut)
  PROVE  Does(s, u, IF x = 0 THEN y ELSE x, cut)
<1>1. Typed(s)  BY DEF Good, Ordered
<1>2. Good(u, {}, cut) /\ Goes(s, u, cut) /\ (u.why = "no" => t.why = "no")  BY GoesTwice DEF Does
<1>3. ASSUME u.why = "no" PROVE Gains(s, u, IF x = 0 THEN y ELSE x)
  <2>1. Gains(s, t, x) /\ Gains(t, u, y)  BY <1>2, <1>3 DEF Does
  <2> QED BY <1>1, <2>1, GainsTwice
<1> QED BY <1>2, <1>3 DEF Does

\* First a reference is taken, then none, or the other way round.
LEMMA DoesMore ==
  ASSUME NEW s, NEW cut, Good(s, {}, cut), NEW t, NEW u, NEW x,
         Does(s, t, x, cut), Does(t, u, 0, cut)
  PROVE  Does(s, u, x, cut)
<1>1. Does(s, u, IF x = 0 THEN 0 ELSE x, cut)  BY DoesTwice
<1>2. (IF x = 0 THEN 0 ELSE x) = x  OBVIOUS
<1> QED BY <1>1, <1>2

LEMMA DoesThen ==
  ASSUME NEW s, NEW cut, Good(s, {}, cut), NEW t, NEW u, NEW x,
         Does(s, t, 0, cut), Does(t, u, x, cut)
  PROVE  Does(s, u, x, cut)
<1>1. Does(s, u, IF 0 = 0 THEN x ELSE 0, cut)  BY DoesTwice
<1>2. (IF 0 = 0 THEN x ELSE 0) = x  OBVIOUS
<1> QED BY <1>1, <1>2

AllCounted(s) == s.why = "no" => Counted(s)

\* What was taken is given back.
LEMMA DoesDrop ==
  ASSUME NEW s, NEW cut, Good(s, {}, cut), AllCounted(s), NEW r, NEW t, NEW x \in Slots, NEW y,
         Does(s, r, x, cut), Does(r, t, y, cut), NEW u, u = iput(t, x) \/ u = Forget(t, x)
  PROVE  Does(s, u, y, cut) /\ u.ret = t.ret /\ u.blk = t.blk /\ u.din = t.din /\ u.why = t.why
         /\ Drops(t, u, x)
<1>1. Typed(s) /\ Good(t, {}, cut)  BY DEF Good, Ordered, Does
<1>2. Goes(s, t, cut) /\ (t.why = "no" => s.why = "no" /\ r.why = "no")  BY GoesTwice DEF Does
<1>3. ASSUME t.why = "no" PROVE Busy(t, x) /\ Gains(s, r, x) /\ Gains(r, t, y)
  <2>1. Gains(s, r, x) /\ Gains(r, t, y) /\ Counted(s)  BY <1>2, <1>3 DEF Does, AllCounted
  <2>2. Counted(r) /\ r.it[x].ref > 0  BY <2>1, GainsCounted
  <2>3. Busy(t, x)  BY <2>1, <2>2, GainsCounted
  <2> QED BY <2>1, <2>3
<1>4. MayDrop(t, x)  BY <1>3 DEF MayDrop
<1>5. /\ Good(u, {}, cut) /\ Goes(t, u, cut) /\ u.ret = t.ret /\ u.blk = t.blk /\ u.din = t.din
      /\ u.why = t.why /\ Drops(t, u, x)  BY <1>1, <1>4, DropGood
<1>6. Goes(s, u, cut)  BY <1>2, <1>5, GoesTwice
<1>7. ASSUME u.why = "no" PROVE Gains(s, u, y)
  <2>1. Gains(s, r, x) /\ Gains(r, t, y)  BY <1>3, <1>5, <1>7
  <2> QED BY <1>1, <1>5, <2>1, GainsDrop
<1> QED BY <1>5, <1>6, <1>7 DEF Does

LEMMA CountedStays ==
  ASSUME NEW s, NEW t, NEW x, NEW cut, AllCounted(s), Does(s, t, x, cut)
  PROVE  AllCounted(t)
<1>1. SUFFICES ASSUME t.why = "no" PROVE Counted(t)  BY DEF AllCounted
<1>2. Counted(s) /\ Gains(s, t, x)  BY <1>1, GoesBack DEF Does, AllCounted
<1> QED BY <1>2, GainsCounted

----
(* Slot dp has the directory. *)
Dir(s, dp) == AllCounted(s) /\ dp \in Slots /\ (s.why = "no" => IsRoot(s, dp) /\ s.it[dp].ref > 0)

LEMMA DirStays ==
  ASSUME NEW s, NEW t, NEW dp, NEW x, NEW cut, Dir(s, dp), Does(s, t, x, cut)
  PROVE  Dir(t, dp)
<1>1. AllCounted(t)  BY CountedStays DEF Dir
<1>2. ASSUME t.why = "no" PROVE IsRoot(t, dp) /\ t.it[dp].ref > 0
  <2>1. Counted(s) /\ Gains(s, t, x) /\ IsRoot(s, dp) /\ s.it[dp].ref > 0 /\ dp \in Slots
    BY <1>2, GoesBack DEF Does, Dir, AllCounted
  <2>2. InUse(s, dp) /\ s.it[dp].inum = ROOTINO  BY <2>1 DEF IsRoot
  <2>3. t.it[dp].ref > 0 /\ t.it[dp].inum = ROOTINO /\ InUse(t, dp)  BY <2>1, <2>2, GainsCounted
  <2> QED BY <2>3 DEF IsRoot
<1> QED BY <1>1, <1>2 DEF Dir

LEMMA RootType ==
  ASSUME NEW s, NEW K, NEW cut, Good(s, K, cut), s.why = "no"
  PROVE  s.din[ROOTINO].type = T_DIR
<1>1. Typed(s) /\ LogGood(s, cut) /\ Table(s)  BY GoodIs DEF Live
<1>2. OnDisk(s) \in Range(s.log)  BY <1>1, LastImage
<1>3. Rooted(OnDisk(s)) /\ s.din = OnDisk(s).din  BY <1>1, <1>2 DEF LogGood, Safe, Table
<1> QED BY <1>3 DEF Rooted

LEMMA RootDirGood ==
  ASSUME NEW s, NEW cut \in BOOLEAN, Good(s, {}, cut), AllCounted(s), NEW t, t = root_dir(s)
  PROVE  /\ Does(s, t, t.ret, cut) /\ Dir(t, t.ret)
         /\ t.why = "no" => SameRoot(s, t)
<1>1. PICK r : r = iget(s, ROOTINO)  OBVIOUS
<1>2. /\ Good(r, {}, cut) /\ Goes(s, r, cut) /\ r.ret \in Slots /\ r.blk = s.blk /\ r.din = s.din
      /\ r.why = "no" => Took(s, r, ROOTINO)  BY <1>1, IgetGood, Sizes DEF AllCounted
<1>3. t = ivalid(r, r.ret)  BY <1>1 DEF root_dir
<1>4. PICK k : k = r.ret  OBVIOUS
<1>5. r.why = "no" => s.why = "no"  BY <1>2, GoesBack
<1>6. ASSUME r.why = "no" PROVE Gains(s, r, k) /\ r.it[k].inum = ROOTINO /\ Cur(r) = Cur(s) /\ Busy(r, k)
  <2>1. Gains(s, r, k) /\ r.it[k].inum = ROOTINO /\ Cur(r) = Cur(s) /\ Counted(s)
    BY <1>2, <1>4, <1>5, <1>6 DEF Took, AllCounted
  <2> QED BY <1>2, <1>4, <2>1, GainsCounted
<1>7. r.why = "no" => HasType(r, k, cut)
  <2>1. r.why = "no" => r.din[ROOTINO].type = T_DIR  BY <1>2, RootType
  <2>2. T_DIR # T_NONE  BY DEF T_DIR, T_NONE
  <2> QED BY <1>6, <2>1, <2>2 DEF HasType
<1>8. /\ Good(t, {}, cut) /\ Goes(r, t, cut) /\ t.ret = k /\ t.blk = r.blk /\ t.din = r.din
      /\ t.why = "no" => Loaded(r, t, k)  BY <1>2, <1>3, <1>4, <1>7, IvalidGood
<1>9. Does(s, r, k, cut) /\ Does(r, t, 0, cut)  BY <1>2, <1>6, <1>8 DEF Does, Loaded
<1>10. Does(s, t, k, cut)  BY <1>9, DoesMore
<1>11. ASSUME t.why = "no"
       PROVE  IsRoot(t, k) /\ t.it[k].ref > 0 /\ SameRoot(s, t)
  <2>1. r.why = "no" /\ s.why = "no"  BY <1>5, <1>8, <1>11, GoesBack
  <2>2. InUse(t, k) /\ t.it[k].inum = ROOTINO /\ Cur(t) = Cur(s)
    BY <1>6, <1>8, <1>11, <2>1 DEF Loaded
  <2>3. t.it[k].ref > 0
    <3>1. Counted(s) /\ Gains(s, t, k)  BY <1>10, <1>11, <2>1 DEF Does, AllCounted
    <3> QED BY <1>2, <1>4, <3>1, GainsCounted
  <2>4. t.blk = s.blk  BY <1>2, <1>8
  <2>5. SameRoot(s, t)  BY <2>2, <2>4, SameRootCur
  <2> QED BY <2>2, <2>3, <2>5 DEF IsRoot
<1>12. AllCounted(t)  BY <1>10, CountedStays
<1> QED BY <1>2, <1>4, <1>8, <1>10, <1>11, <1>12 DEF Dir

\* No entry of the directory is in hits.
Absent(s, hits) == \A j \in 0 .. RootSizeOf(s) - 1 : RootUnit(s, j) \notin hits

LEMMA RootSizeIs ==
  ASSUME NEW s, Typed(s), Table(s)
  PROVE  /\ RootSizeOf(s) \in 0 .. MAXFILE * BSIZE
         /\ \A k \in Slots : IsRoot(s, k) => SizeOf(s, k) = RootSizeOf(s)
<1>1. Cur(s) \in [Inums -> InodeType]  BY CurTyped DEF Table, OneSlot
<1>2. Cur(s)[ROOTINO] \in InodeType  BY <1>1, Sizes
<1>3. RootSizeOf(s) \in 0 .. MAXFILE * BSIZE  BY <1>2 DEF RootSizeOf, InodeType
<1>4. ASSUME NEW k \in Slots, IsRoot(s, k) PROVE SizeOf(s, k) = RootSizeOf(s)
  <2>1. Cur(s)[s.it[k].inum] = s.it[k].copy /\ s.it[k].inum = ROOTINO  BY <1>4, CurOf DEF IsRoot
  <2> QED BY <2>1 DEF SizeOf, RootSizeOf
<1> QED BY <1>3, <1>4

LEMMA AbsentStays ==
  ASSUME NEW s, Typed(s), Table(s), NEW t, SameRoot(s, t), NEW hits, Absent(s, hits)
  PROVE  Absent(t, hits)
<1>1. PICK M : M = MAXFILE * BSIZE  OBVIOUS
<1>2. RootSizeOf(s) \in 0 .. M /\ RootSizeOf(t) = RootSizeOf(s) /\ M \in Nat
  BY <1>1, RootSizeIs, Sizes DEF SameRoot
<1>3. ASSUME NEW j \in 0 .. RootSizeOf(t) - 1 PROVE RootUnit(t, j) \notin hits
  <2>1. j \in 0 .. RootSizeOf(s) - 1 /\ j \in Nat /\ j < M  BY <1>2
  <2>2. j \div BSIZE \in 0 .. MAXFILE - 1  BY <1>1, <2>1, DivLess, Sizes
  <2>3. RootUnit(t, j) = RootUnit(s, j)  BY <2>2 DEF SameRoot, RootUnit
  <2> QED BY <2>1, <2>3 DEF Absent
<1> QED BY <1>3 DEF Absent

\* The entry a scan has stopped at names a file that was made.
LEMMA EntryIsFile ==
  ASSUME NEW u, Good(u, {}, FALSE), u.why = "no", NEW dp \in Slots, IsRoot(u, dp),
         NEW o \in Nat, o < MAXFILE * BSIZE, NEW e, e = UnitOf(u, u.it[dp].copy, o)
  PROVE  EntryNames(u.din, e)
<1>1. Typed(u) /\ Table(u) /\ Whole(u)  BY GoodIs DEF Live
<1>2. Entered(Cur(u), u.blk)  BY <1>1 DEF Whole, Right
<1>3. e = RootUnit(u, o)  BY <1>1, RootUnitIs DEF IsRoot
<1>4. o \div BSIZE \in 0 .. MAXFILE - 1 /\ o % BSIZE \in Offs  BY DivLess, BlockOf, Sizes
<1>5. EntryNames(Cur(u), e)  BY <1>2, <1>3, <1>4 DEF Entered, RootUnit, DataOf
<1>6. e[1] \in Inums => Cur(u)[e[1]].type = u.din[e[1]].type  BY <1>1, CurTypes
<1> QED BY <1>5, <1>6 DEF EntryNames, IsFile

LEMMA ScanFinds ==
  ASSUME NEW s, NEW cut \in BOOLEAN, Good(s, {}, cut), NEW dp, Dir(s, dp), NEW hits,
         NEW u, u = Scan(s, dp, hits)
  PROVE  /\ Does(s, u, 0, cut) /\ Dir(u, dp) /\ u.ret \in 0 .. MAXFILE * BSIZE
         /\ ~ AtEnd(u, dp) => EntryAt(u, dp) \in hits
         /\ u.why = "no" => u.din = s.din
         /\ u.why = "no" /\ ~ cut =>
              /\ SameRoot(s, u) /\ (AtEnd(u, dp) <=> Absent(s, hits))
              /\ ~ AtEnd(u, dp) => EntryNames(u.din, EntryAt(u, dp))
<1>1. PICK z, M : z = SizeOf(s, dp) /\ M = MAXFILE * BSIZE  OBVIOUS
<1>2. Typed(s) /\ dp \in Slots  BY DEF Good, Ordered, Dir
<1>3. z \in 0 .. M /\ M \in Nat  BY <1>1, <1>2, ReadLenTyped, Sizes DEF SizeOf
<1>4. Scanned(s, u, dp, hits, z, cut)  BY <1>1, <1>2, ScanGood DEF Dir
<1>5. /\ Good(u, {}, cut) /\ Goes(s, u, cut) /\ (u.why = "no" => Same(s, u, cut))
      /\ u.ret \in 0 .. z /\ SizeOf(u, dp) = z
      /\ u.ret < z => EntryAt(u, dp) \in hits
      /\ u.why = "no" /\ ~ cut =>
           /\ \A j \in 0 .. u.ret - 1 : RootUnit(s, j) \notin hits
           /\ u.ret < z => RootUnit(s, u.ret) \in hits  BY <1>1, <1>4 DEF Scanned, Reading
<1>6. Does(s, u, 0, cut)  BY <1>2, <1>5, WidenedGains DEF Does, Same
<1>7. Dir(u, dp)  BY <1>6, DirStays
<1>8. AtEnd(u, dp) <=> u.ret = z  BY <1>5 DEF AtEnd, SizeOf
<1>9. u.ret \in 0 .. M /\ (~ AtEnd(u, dp) => EntryAt(u, dp) \in hits)  BY <1>3, <1>5, <1>8
<1>10. ASSUME u.why = "no", ~ cut
       PROVE  /\ SameRoot(s, u) /\ (AtEnd(u, dp) <=> Absent(s, hits))
              /\ ~ AtEnd(u, dp) => EntryNames(u.din, EntryAt(u, dp))
  <2>1. s.why = "no" /\ SameData(s, u) /\ Table(s) /\ Table(u) /\ Typed(u)
    BY <1>5, <1>10, GoesBack, GoodIs DEF Same, Live
  <2>2. IsRoot(s, dp) /\ IsRoot(u, dp)  BY <1>7, <1>10, <2>1 DEF Dir
  <2>3. RootSizeOf(s) = z /\ RootSizeOf(u) = z  BY <1>1, <1>2, <1>5, <2>1, <2>2, RootSizeIs
  <2>4. SameRoot(s, u)  BY <2>1, <2>3, Sizes DEF SameRoot, SameData
  <2>5. AtEnd(u, dp) <=> Absent(s, hits)
    <3>1. CASE u.ret = z  BY <1>5, <1>8, <1>10, <2>3, <3>1 DEF Absent
    <3>2. CASE u.ret # z
      <4>1. u.ret < z /\ u.ret \in 0 .. z - 1  BY <1>3, <1>5, <3>2
      <4> QED BY <1>5, <1>8, <1>10, <2>3, <4>1 DEF Absent
    <3> QED BY <3>1, <3>2
  <2>6. ASSUME ~ AtEnd(u, dp) PROVE EntryNames(u.din, EntryAt(u, dp))
    <3>1. u.ret \in Nat /\ u.ret < MAXFILE * BSIZE  BY <1>1, <1>3, <1>5, <1>8, <2>6
    <3>2. Good(u, {}, FALSE)  BY <1>5, <1>10
    <3> QED BY <1>2, <1>10, <2>2, <3>1, <3>2, EntryIsFile DEF EntryAt
  <2> QED BY <2>4, <2>5, <2>6
<1>11. u.why = "no" => u.din = s.din  BY <1>5 DEF Same, Widened
<1> QED BY <1>1, <1>6, <1>7, <1>9, <1>10, <1>11

----
(* dirlookup. *)
NotDir == "dirlookup not DIR"

LEMMA DirlookupIs ==
  ASSUME NEW s, NEW dp, NEW name, NEW u, u = Scan(s, dp, Named(name))
  PROVE  dirlookup(s, dp, name) =
           IF s.it[dp].copy.type # T_DIR THEN Ret(Panic(s, NotDir), 0)
           ELSE IF AtEnd(u, dp) THEN Ret(u, 0) ELSE iget(u, EntryAt(u, dp)[1])
  BY DEF dirlookup, NotDir

LEMMA NotDirIsPanic == NotDir # "no"
  BY DEF NotDir

LEMMA EntryFields ==
  ASSUME NEW e \in Entries
  PROVE  e[1] \in {0} \cup Inums /\ e[2] \in Names \cup {<<>>} /\ e = <<e[1], e[2]>>
  BY DEF Entries

\* The slot of a file that was looked up.
Refers(s, k, cut) ==
    k \in Slots /\ Busy(s, k) /\ s.it[k].inum \in Inums /\ (cut \/ IsFile(s.din, s.it[k].inum))
LooksUp(s, t, name, cut) ==
    /\ t.din = s.din /\ (t.ret # 0 => Refers(t, t.ret, cut))
    /\ cut \/ (SameRoot(s, t) /\ (t.ret = 0 <=> Absent(s, Named(name))))

LEMMA RetDoes ==
  ASSUME NEW s, NEW cut, Good(s, {}, cut), NEW x, NEW t, t = Ret(s, x)
  PROVE  Does(s, t, 0, cut) /\ t.ret = x /\ t.why = s.why /\ t.it = s.it /\ t.blk = s.blk
         /\ t.din = s.din /\ Cur(t) = Cur(s)
<1>1. /\ Good(t, {}, cut) /\ t.it = s.it /\ t.din = s.din /\ t.blk = s.blk
      /\ t.why = s.why /\ t.ret = x /\ Cur(t) = Cur(s) /\ Goes(s, t, cut)  BY RetGood
<1> QED BY <1>1, DoesNothing

LEMMA PanicDoes ==
  ASSUME NEW s, NEW cut, Good(s, {}, cut), NEW msg, msg # "no", cut \/ msg \in Room \/ s.why # "no",
         NEW t, t = Panic(s, msg)
  PROVE  Does(s, t, 0, cut) /\ t.ret = s.ret /\ t.why # "no"
<1>1. /\ Good(t, {}, cut) /\ t.it = s.it /\ t.why # "no" /\ t.ret = s.ret /\ Goes(s, t, cut)
  BY PanicGood
<1> QED BY <1>1, DoesNothing

\* The entry is there: its inode comes into the table.
LEMMA LookedUp ==
  ASSUME NEW s, NEW cut \in BOOLEAN, Good(s, {}, cut), NEW dp, Dir(s, dp), NEW name,
         NEW u, u = Scan(s, dp, Named(name)), ~ AtEnd(u, dp),
         NEW t, t = iget(u, EntryAt(u, dp)[1])
  PROVE  Does(s, t, t.ret, cut) /\ t.ret \in Slots /\ (t.why = "no" => LooksUp(s, t, name, cut))
<1>1. /\ Does(s, u, 0, cut) /\ Dir(u, dp)
      /\ EntryAt(u, dp) \in Named(name) /\ (u.why = "no" => u.din = s.din)
      /\ u.why = "no" /\ ~ cut => /\ SameRoot(s, u) /\ ~ Absent(s, Named(name))
                                  /\ EntryNames(u.din, EntryAt(u, dp))  BY ScanFinds
<1>2. PICK e : e = EntryAt(u, dp)  OBVIOUS
<1>3. PICK i : i = e[1]  OBVIOUS
<1>4. i \in Inums  BY <1>1, <1>2, <1>3, EntryFields DEF Named
<1>5. /\ Good(t, {}, cut) /\ Goes(u, t, cut) /\ t.ret \in Slots /\ t.blk = u.blk /\ t.din = u.din
      /\ t.why = "no" => Took(u, t, i)
  <2>1. Good(u, {}, cut) /\ (u.why = "no" => Counted(u))  BY <1>1 DEF Does, Dir, AllCounted
  <2>2. t = iget(u, i)  BY <1>2, <1>3
  <2> QED BY <1>4, <2>1, <2>2, IgetGood
<1>6. ASSUME t.why = "no"
      PROVE  /\ u.why = "no" /\ Gains(u, t, t.ret) /\ t.it[t.ret].inum = i /\ Busy(t, t.ret)
             /\ SameRoot(u, t)
  <2>1. u.why = "no"  BY <1>5, <1>6, GoesBack
  <2>2. Counted(u)  BY <1>1, <2>1 DEF Dir, AllCounted
  <2>3. Gains(u, t, t.ret) /\ t.it[t.ret].inum = i /\ Cur(t) = Cur(u)  BY <1>5, <1>6, <2>2 DEF Took
  <2>4. Busy(t, t.ret)  BY <1>5, <2>2, <2>3, GainsCounted
  <2>5. SameRoot(u, t)  BY <1>5, <2>3, SameRootCur
  <2> QED BY <2>1, <2>3, <2>4, <2>5
<1>7. Does(s, t, t.ret, cut)
  <2>1. Does(u, t, t.ret, cut)  BY <1>5, <1>6 DEF Does
  <2> QED BY <1>1, <2>1, DoesThen
<1>8. ASSUME t.why = "no" PROVE LooksUp(s, t, name, cut)
  <2>1. t.ret # 0 /\ t.din = s.din  BY <1>1, <1>5, <1>6, <1>8 DEF Slots
  <2>2. CASE cut  BY <1>4, <1>5, <1>6, <1>8, <2>1, <2>2 DEF LooksUp, Refers
  <2>3. CASE ~ cut
    <3>1. SameRoot(s, t) /\ ~ Absent(s, Named(name))  BY <1>1, <1>6, <1>8, <2>3, SameRootTwice
    <3>2. IsFile(t.din, i)
      <4>1. EntryNames(u.din, e) /\ i # 0  BY <1>1, <1>2, <1>4, <1>6, <1>8, <2>3 DEF Inums
      <4>2. IsFile(u.din, i)  BY <1>3, <4>1 DEF EntryNames
      <4> QED BY <1>5, <4>2
    <3>3. Refers(t, t.ret, cut)  BY <1>4, <1>5, <1>6, <1>8, <3>2 DEF Refers
    <3> QED BY <2>1, <3>1, <3>3 DEF LooksUp
  <2> QED BY <2>2, <2>3
<1> QED BY <1>5, <1>7, <1>8

LEMMA DirlookupGood ==
  ASSUME NEW s, NEW cut \in BOOLEAN, Good(s, {}, cut), NEW dp, Dir(s, dp), NEW name,
         NEW t, t = dirlookup(s, dp, name)
  PROVE  Does(s, t, t.ret, cut) /\ t.ret \in {0} \cup Slots
         /\ (t.why = "no" => LooksUp(s, t, name, cut))
<1>1. PICK u : u = Scan(s, dp, Named(name))  OBVIOUS
<1>2. t = IF s.it[dp].copy.type # T_DIR THEN Ret(Panic(s, NotDir), 0)
          ELSE IF AtEnd(u, dp) THEN Ret(u, 0) ELSE iget(u, EntryAt(u, dp)[1])
  BY <1>1, DirlookupIs
<1>3. CASE s.it[dp].copy.type # T_DIR
  <2>1. s.why # "no"
    <3>1. SUFFICES ASSUME s.why = "no" PROVE FALSE  OBVIOUS
    <3>2. Table(s) /\ IsRoot(s, dp) /\ dp \in Slots /\ s.din[ROOTINO].type = T_DIR
      BY <3>1, GoodIs, RootType DEF Live, Dir
    <3>3. s.it[dp].copy.type = s.din[s.it[dp].inum].type /\ s.it[dp].inum = ROOTINO
      BY <3>2 DEF Table, IsRoot, InUse
    <3> QED BY <1>3, <3>2, <3>3
  <2>2. PICK v : v = Panic(s, NotDir)  OBVIOUS
  <2>3. Does(s, v, 0, cut) /\ v.why # "no"  BY <2>1, <2>2, NotDirIsPanic, PanicDoes
  <2>4. t = Ret(v, 0)  BY <1>2, <1>3, <2>2
  <2>5. Does(v, t, 0, cut) /\ t.ret = 0 /\ t.why # "no"  BY <2>3, <2>4, RetDoes DEF Does
  <2> QED BY <2>3, <2>5, DoesThen
<1>4. CASE s.it[dp].copy.type = T_DIR /\ AtEnd(u, dp)
  <2>1. t = Ret(u, 0)  BY <1>2, <1>4
  <2>2. /\ Does(s, u, 0, cut) /\ Good(u, {}, cut) /\ (u.why = "no" => u.din = s.din)
        /\ u.why = "no" /\ ~ cut => SameRoot(s, u) /\ Absent(s, Named(name))
    BY <1>1, <1>4, ScanFinds DEF Does
  <2>3. /\ Does(u, t, 0, cut) /\ t.ret = 0 /\ t.why = u.why /\ t.blk = u.blk /\ Cur(t) = Cur(u)
        /\ t.din = u.din  BY <2>1, <2>2, RetDoes
  <2>4. Does(s, t, 0, cut)  BY <2>2, <2>3, DoesThen
  <2>5. SameRoot(u, t)  BY <2>3, SameRootCur
  <2>6. t.why = "no" => LooksUp(s, t, name, cut)  BY <2>2, <2>3, <2>5, SameRootTwice DEF LooksUp
  <2> QED BY <2>3, <2>4, <2>6
<1>5. CASE s.it[dp].copy.type = T_DIR /\ ~ AtEnd(u, dp)
  <2>1. t = iget(u, EntryAt(u, dp)[1])  BY <1>2, <1>5
  <2> QED BY <1>1, <1>5, <2>1, LookedUp
<1> QED BY <1>3, <1>4, <1>5

----
(* dirlink. *)
NewEntry(inum, name) == <<<<inum, strncpy(name, DIRSIZ)>>>>
LinkCheck(w) == IF w.ret # 1 THEN Panic(w, OutOfDirectory) ELSE Ret(w, 0)
LinkFill(u, dp, name, inum) == LinkCheck(writei(u, dp, u.ret, NewEntry(inum, name), 1))

LEMMA DirlinkIs ==
  ASSUME NEW s, NEW dp, NEW name, NEW inum, NEW l, l = dirlookup(s, dp, name)
  PROVE  dirlink(s, dp, name, inum) =
           IF l.ret # 0 THEN Ret(iput(l, l.ret), -1)
           ELSE LinkFill(Scan(l, dp, FreeEntries), dp, name, inum)
<1>1. dirlink(s, dp, name, inum) =
        IF dirlookup(s, dp, name).ret # 0
        THEN Ret(iput(dirlookup(s, dp, name), dirlookup(s, dp, name).ret), -1)
        ELSE LinkFill(Scan(dirlookup(s, dp, name), dp, FreeEntries), dp, name, inum)
  BY DEF dirlink, LinkFill, LinkCheck, NewEntry, OutOfDirectory
<1> QED BY <1>1

LEMMA NameTyped ==
  ASSUME NEW name \in Names
  PROVE  strncpy(name, DIRSIZ) = name /\ name \in Seq(Nat)
<1>1. name \in Seq(Nat \ {0}) /\ Len(name) < DIRSIZ /\ DIRSIZ \in Nat  BY DirectoryAssumption
<1>2. Len(name) \in Nat /\ name \in Seq(Nat)  BY <1>1
<1> QED BY <1>1, <1>2 DEF strncpy

LEMMA NewEntryTyped ==
  ASSUME NEW inum \in Nat, NEW name \in Names, NEW src, src = NewEntry(inum, name)
  PROVE  src \in Seq(UnitType) /\ Len(src) = 1 /\ src[1] = <<inum, name>>
<1>1. src = <<<<inum, name>>>> /\ name \in Seq(Nat)  BY NameTyped DEF NewEntry
<1>2. <<inum, name>> \in UnitType  BY <1>1 DEF UnitType
<1> QED BY <1>1, <1>2

LEMMA LinkFillGood ==
  ASSUME NEW l, NEW cut \in BOOLEAN, Good(l, {}, cut), NEW dp, Dir(l, dp), NEW name \in Names,
         NEW inum \in Nat, l.why = "no" => cut \/ IsFile(l.din, inum),
         NEW t, t = LinkFill(Scan(l, dp, FreeEntries), dp, name, inum)
  PROVE  Does(l, t, 0, cut) /\ (t.why = "no" => t.ret = 0)
<1>1. PICK u : u = Scan(l, dp, FreeEntries)  OBVIOUS
<1>2. /\ Does(l, u, 0, cut) /\ Dir(u, dp) /\ u.ret \in 0 .. MAXFILE * BSIZE
      /\ u.why = "no" => u.din = l.din  BY <1>1, ScanFinds
<1>3. PICK src : src = NewEntry(inum, name)  OBVIOUS
<1>4. src \in Seq(UnitType) /\ Len(src) = 1 /\ src[1] = <<inum, name>>  BY <1>3, NewEntryTyped
<1>5. PICK w : w = writei(u, dp, u.ret, src, 1)  OBVIOUS
<1>6. t = LinkCheck(w)  BY <1>1, <1>3, <1>5 DEF LinkFill
<1>7. Good(u, {}, cut) /\ (u.why = "no" => l.why = "no") /\ dp \in Slots
  BY <1>2, GoesBack DEF Does, Dir
<1>8. u.why = "no" => MayWrite(u, {dp}, dp, src, 1, cut)
  <2>1. SUFFICES ASSUME u.why = "no" PROVE MayWrite(u, {dp}, dp, src, 1, cut)  OBVIOUS
  <2>2. InUse(u, dp) /\ u.it[dp].inum = ROOTINO  BY <1>2, <2>1 DEF Dir, IsRoot
  <2>3. ASSUME ~ cut, NEW j \in 1 .. Len(src) PROVE EntryNames(u.din, src[j])
    <3>1. j = 1 /\ IsFile(u.din, inum)  BY <1>2, <1>4, <1>7, <2>1, <2>3
    <3>2. src[j] = <<inum, name>> /\ src[j][1] = inum  BY <1>4, <3>1
    <3> QED BY <3>1, <3>2 DEF EntryNames
  <2> QED BY <1>4, <2>2, <2>3 DEF MayWrite
<1>9. u.ret \in Nat
  <2> DEFINE M == MAXFILE * BSIZE
  <2>1. M \in Nat /\ u.ret \in 0 .. M  BY <1>2, Sizes
  <2> HIDE DEF M
  <2> QED BY <2>1
<1>10. Good(w, {}, cut) /\ Goes(u, w, cut) /\ (w.why = "no" => Gains(u, w, 0))
  BY <1>4, <1>5, <1>7, <1>8, <1>9, WriteiGood
<1>11. Does(u, w, 0, cut)  BY <1>10 DEF Does
<1>12. Does(l, w, 0, cut)  BY <1>2, <1>11, DoesThen
<1>13. CASE w.ret # 1
  <2>1. t = Panic(w, OutOfDirectory)  BY <1>6, <1>13 DEF LinkCheck
  <2>2. OutOfDirectory # "no"  BY RoomIsPanic
  <2>3. Does(w, t, 0, cut) /\ t.why # "no"  BY <1>10, <2>1, <2>2, RoomIsPanic, PanicDoes
  <2> QED BY <1>12, <2>3, DoesThen
<1>14. CASE w.ret = 1
  <2>1. t = Ret(w, 0)  BY <1>6, <1>14 DEF LinkCheck
  <2>2. Does(w, t, 0, cut) /\ t.ret = 0  BY <1>10, <2>1, RetDoes
  <2> QED BY <1>12, <2>2, DoesThen
<1> QED BY <1>13, <1>14

LEMMA DirlinkGood ==
  ASSUME NEW s, NEW cut \in BOOLEAN, Good(s, {}, cut), NEW dp, Dir(s, dp), NEW name \in Names,
         NEW inum \in Nat, s.why = "no" => cut \/ IsFile(s.din, inum),
         NEW t, t = dirlink(s, dp, name, inum)
  PROVE  Does(s, t, 0, cut)
         /\ (t.why = "no" /\ ~ cut /\ Absent(s, Named(name)) => t.ret = 0)
<1>1. PICK l : l = dirlookup(s, dp, name)  OBVIOUS
<1>2. /\ Does(s, l, l.ret, cut) /\ l.ret \in {0} \cup Slots
      /\ l.why = "no" => LooksUp(s, l, name, cut)  BY <1>1, DirlookupGood
<1>3. PICK x : x = l.ret  OBVIOUS
<1>4. Good(l, {}, cut) /\ (l.why = "no" => s.why = "no") /\ Does(s, l, x, cut)
  BY <1>2, <1>3, GoesBack DEF Does
<1>5. CASE x # 0
  <2>1. PICK d : d = iput(l, x)  OBVIOUS
  <2>2. Does(l, l, 0, cut)
    <3>1. Goes(l, l, cut)  BY DEF Goes
    <3> QED BY <1>4, <3>1, DoesNothing
  <2>3. Does(s, d, 0, cut) /\ Good(d, {}, cut) /\ d.why = l.why
    <3>1. x \in Slots /\ AllCounted(s)  BY <1>2, <1>3, <1>5 DEF Dir
    <3>2. Does(s, d, 0, cut) /\ d.why = l.why  BY <1>4, <2>1, <2>2, <3>1, DoesDrop
    <3> QED BY <3>2 DEF Does
  <2>4. t = Ret(d, -1)  BY <1>1, <1>3, <1>5, <2>1, DirlinkIs
  <2>5. Does(d, t, 0, cut) /\ t.why = d.why  BY <2>3, <2>4, RetDoes
  <2>6. Does(s, t, 0, cut)  BY <2>3, <2>5, DoesThen
  <2>7. t.why = "no" /\ ~ cut => ~ Absent(s, Named(name))
    BY <1>2, <1>3, <1>5, <2>3, <2>5 DEF LooksUp
  <2> QED BY <2>6, <2>7
<1>6. CASE x = 0
  <2>1. t = LinkFill(Scan(l, dp, FreeEntries), dp, name, inum)
    <3>1. t = IF l.ret # 0 THEN Ret(iput(l, l.ret), -1)
              ELSE LinkFill(Scan(l, dp, FreeEntries), dp, name, inum)
      BY <1>1, DirlinkIs
    <3>2. ~ (l.ret # 0)  BY <1>3, <1>6
    <3> QED BY <3>1, <3>2, Zenon
  <2>2. Does(s, l, 0, cut)  BY <1>4, <1>6
  <2>3. Dir(l, dp)  BY <2>2, DirStays
  <2>4. l.why = "no" => cut \/ IsFile(l.din, inum)  BY <1>2, <1>4 DEF LooksUp
  <2>5. Does(l, t, 0, cut) /\ (t.why = "no" => t.ret = 0)  BY <1>4, <2>1, <2>3, <2>4, LinkFillGood
  <2> QED BY <2>2, <2>5, DoesThen
<1> QED BY <1>5, <1>6

\* A slot that is still referred to when another reference is dropped.
LEMMA DropKeeps ==
  ASSUME NEW s, AllCounted(s), s.why = "no", NEW k \in Slots, NEW cut, NEW t, NEW u, NEW x,
         Does(s, u, k, cut), u.why = "no", Drops(t, u, x)
  PROVE  /\ Busy(u, k) /\ u.it[k].inum = t.it[k].inum
         /\ InUse(t, k) => InUse(u, k) /\ u.it[k].copy.type = t.it[k].copy.type
<1>1. Counted(s) /\ Gains(s, u, k)  BY DEF AllCounted, Does
<1>2. Busy(u, k)  BY <1>1, GainsCounted
<1>3. Pinned(t.it[k], u.it[k])  BY Zenon DEF Drops
<1>4. u.it[k].inum = t.it[k].inum  BY <1>3 DEF Pinned
<1>5. ASSUME InUse(t, k) PROVE InUse(u, k) /\ u.it[k].copy.type = t.it[k].copy.type
  BY <1>2, <1>3, <1>5, Zenon DEF Pinned, InUse
<1> QED BY <1>2, <1>4, <1>5

LEMMA DoesSelf ==
  ASSUME NEW s, NEW cut, Good(s, {}, cut)
  PROVE  Does(s, s, 0, cut)
<1>1. Goes(s, s, cut)  BY DEF Goes
<1> QED BY <1>1, DoesNothing

LEMMA DoesGood ==
  ASSUME NEW s, NEW t, NEW x, NEW cut, Does(s, t, x, cut)
  PROVE  Good(t, {}, cut) /\ (t.why = "no" => s.why = "no") /\ Goes(s, t, cut)
  BY GoesBack DEF Does

----
(* dirunlink. *)
UnlinkClear(u, dp) ==
    IF AtEnd(u, dp) THEN Ret(u, -1)
    ELSE Ret(writei(u, dp, u.ret, <<<<0, EntryAt(u, dp)[2]>>>>, 1), 0)

LEMMA DirunlinkIs ==
  ASSUME NEW s, NEW dp, NEW name, NEW l, l = dirlookup(s, dp, name)
  PROVE  dirunlink(s, dp, name) =
           IF l.ret = 0 THEN Ret(l, -1)
           ELSE UnlinkClear(Scan(Forget(l, l.ret), dp, Cleaned(name)), dp)
<1>1. dirunlink(s, dp, name) =
        IF dirlookup(s, dp, name).ret = 0 THEN Ret(dirlookup(s, dp, name), -1)
        ELSE UnlinkClear(Scan(Forget(dirlookup(s, dp, name), dirlookup(s, dp, name).ret), dp, Cleaned(name)), dp)
  BY DEF dirunlink, UnlinkClear
<1> QED BY <1>1

LEMMA UnlinkClearGood ==
  ASSUME NEW l, NEW cut \in BOOLEAN, Good(l, {}, cut), NEW dp, Dir(l, dp), NEW name,
         NEW t, t = UnlinkClear(Scan(l, dp, Cleaned(name)), dp)
  PROVE  Does(l, t, 0, cut)
<1>1. PICK u : u = Scan(l, dp, Cleaned(name))  OBVIOUS
<1>2. /\ Does(l, u, 0, cut) /\ Dir(u, dp) /\ u.ret \in 0 .. MAXFILE * BSIZE
      /\ ~ AtEnd(u, dp) => EntryAt(u, dp) \in Cleaned(name)  BY <1>1, ScanFinds
<1>3. Good(u, {}, cut) /\ dp \in Slots  BY <1>2, DoesGood DEF Dir
<1>4. CASE AtEnd(u, dp)
  <2>1. t = Ret(u, -1)  BY <1>1, <1>4 DEF UnlinkClear
  <2>2. Does(u, t, 0, cut)  BY <1>3, <2>1, RetDoes
  <2> QED BY <1>2, <2>2, DoesThen
<1>5. CASE ~ AtEnd(u, dp)
  <2>1. PICK e : e = EntryAt(u, dp)  OBVIOUS
  <2>2. e[2] \in Seq(Nat)
    <3>1. e \in Entries  BY <1>2, <1>5, <2>1 DEF Cleaned
    <3>2. e[2] \in Names \/ e[2] = <<>>  BY <3>1, EntryFields
    <3>3. <<>> \in Seq(Nat)  OBVIOUS
    <3> QED BY <3>2, <3>3, NameTyped
  <2>3. PICK src : src = <<<<0, e[2]>>>>  OBVIOUS
  <2>4. src \in Seq(UnitType) /\ Len(src) = 1 /\ src[1] = <<0, e[2]>>
    <3>1. <<0, e[2]>> \in UnitType  BY <2>2 DEF UnitType
    <3> QED BY <2>3, <3>1
  <2>5. PICK w : w = writei(u, dp, u.ret, src, 1)  OBVIOUS
  <2>6. t = Ret(w, 0)  BY <1>1, <1>5, <2>1, <2>3, <2>5 DEF UnlinkClear
  <2>7. u.why = "no" => MayWrite(u, {dp}, dp, src, 1, cut)
    <3>1. SUFFICES ASSUME u.why = "no" PROVE MayWrite(u, {dp}, dp, src, 1, cut)  OBVIOUS
    <3>2. InUse(u, dp) /\ u.it[dp].inum = ROOTINO  BY <1>2, <3>1 DEF Dir, IsRoot
    <3>3. ASSUME NEW j \in 1 .. Len(src) PROVE EntryNames(u.din, src[j])
      <4>1. src[j] = <<0, e[2]>>  BY <2>4
      <4>2. src[j][1] = 0  BY <4>1
      <4> QED BY <4>2 DEF EntryNames
    <3> QED BY <2>4, <3>2, <3>3 DEF MayWrite
  <2>8. u.ret \in Nat
    <3> DEFINE M == MAXFILE * BSIZE
    <3>1. M \in Nat /\ u.ret \in 0 .. M  BY <1>2, Sizes
    <3> HIDE DEF M
    <3> QED BY <3>1
  <2>9. Good(w, {}, cut) /\ Goes(u, w, cut) /\ (w.why = "no" => Gains(u, w, 0))
    BY <1>3, <2>4, <2>5, <2>7, <2>8, WriteiGood
  <2>10. Does(u, w, 0, cut)  BY <2>9 DEF Does
  <2>11. Does(w, t, 0, cut)  BY <2>6, <2>9, RetDoes
  <2>12. Does(l, w, 0, cut)  BY <1>2, <2>10, DoesThen
  <2> QED BY <2>11, <2>12, DoesThen
<1> QED BY <1>4, <1>5

LEMMA DirunlinkGood ==
  ASSUME NEW s, NEW cut \in BOOLEAN, Good(s, {}, cut), NEW dp, Dir(s, dp), NEW name,
         NEW t, t = dirunlink(s, dp, name)
  PROVE  Does(s, t, 0, cut)
<1>1. PICK l : l = dirlookup(s, dp, name)  OBVIOUS
<1>2. PICK x : x = l.ret  OBVIOUS
<1>3. Does(s, l, x, cut) /\ x \in {0} \cup Slots  BY <1>1, <1>2, DirlookupGood
<1>4. Good(l, {}, cut) /\ Does(l, l, 0, cut)  BY <1>3, DoesGood, DoesSelf
<1>5. t = IF l.ret = 0 THEN Ret(l, -1)
          ELSE UnlinkClear(Scan(Forget(l, l.ret), dp, Cleaned(name)), dp)
  BY <1>1, DirunlinkIs
<1>6. CASE x = 0
  <2>1. t = Ret(l, -1)  BY <1>2, <1>5, <1>6
  <2>2. Does(l, t, 0, cut) /\ Does(s, l, 0, cut)  BY <1>3, <1>4, <1>6, <2>1, RetDoes
  <2> QED BY <2>2, DoesThen
<1>7. CASE x # 0
  <2>1. PICK f : f = Forget(l, x)  OBVIOUS
  <2>2. x \in Slots /\ AllCounted(s)  BY <1>3, <1>7 DEF Dir
  <2>3. Does(s, f, 0, cut)  BY <1>3, <1>4, <2>1, <2>2, DoesDrop
  <2>4. Good(f, {}, cut) /\ Dir(f, dp)  BY <2>3, DoesGood, DirStays
  <2>5. t = UnlinkClear(Scan(f, dp, Cleaned(name)), dp)  BY <1>2, <1>5, <1>7, <2>1
  <2>6. Does(f, t, 0, cut)  BY <2>4, <2>5, UnlinkClearGood
  <2> QED BY <2>3, <2>6, DoesThen
<1> QED BY <1>6, <1>7

----
(* namei, and the inode it found brought into memory. *)
LEMMA NameiGood ==
  ASSUME NEW s, NEW cut \in BOOLEAN, Good(s, {}, cut), AllCounted(s), NEW path,
         NEW t, t = namei(s, path)
  PROVE  Does(s, t, t.ret, cut) /\ t.ret \in {0} \cup Slots
         /\ (t.why = "no" /\ t.ret # 0 => Refers(t, t.ret, cut))
<1>1. PICK r : r = root_dir(s)  OBVIOUS
<1>2. PICK dp : dp = r.ret  OBVIOUS
<1>3. Does(s, r, dp, cut) /\ Dir(r, dp) /\ Good(r, {}, cut) /\ dp \in Slots
  BY <1>1, <1>2, RootDirGood, DoesGood DEF Dir
<1>4. PICK l : l = dirlookup(r, dp, path)  OBVIOUS
<1>5. PICK k : k = l.ret  OBVIOUS
<1>6. Does(r, l, k, cut) /\ k \in {0} \cup Slots /\ (l.why = "no" => LooksUp(r, l, path, cut))
  BY <1>3, <1>4, <1>5, DirlookupGood
<1>7. t = Forget(l, dp)  BY <1>1, <1>2, <1>4 DEF namei
<1>8. /\ Does(s, t, k, cut) /\ t.ret = k /\ t.din = l.din /\ t.why = l.why
      /\ Drops(l, t, dp)  BY <1>3, <1>5, <1>6, <1>7, DoesDrop
<1>9. ASSUME t.why = "no", k # 0 PROVE Refers(t, k, cut)
  <2>1. s.why = "no" /\ l.why = "no" /\ k \in Slots  BY <1>6, <1>8, <1>9, DoesGood
  <2>2. Refers(l, k, cut)  BY <1>5, <1>6, <1>9, <2>1 DEF LooksUp
  <2>3. Busy(t, k) /\ t.it[k].inum = l.it[k].inum  BY <1>8, <1>9, <2>1, DropKeeps
  <2> QED BY <1>8, <2>2, <2>3 DEF Refers
<1> QED BY <1>6, <1>8, <1>9

LEMMA ValidFile ==
  ASSUME NEW s, NEW cut \in BOOLEAN, Good(s, {}, cut), NEW k \in Slots,
         s.why = "no" => Refers(s, k, cut), NEW t, t = ivalid(s, k)
  PROVE  /\ Does(s, t, 0, cut) /\ t.ret = s.ret /\ t.din = s.din /\ t.blk = s.blk
         /\ t.why = "no" => /\ InUse(t, k) /\ (cut \/ t.it[k].copy.type = T_FILE)
                            /\ t.it[k].inum = s.it[k].inum /\ SameRoot(s, t)
<1>1. T_FILE # T_NONE  BY DEF T_FILE, T_NONE
<1>2. s.why = "no" => HasType(s, k, cut)  BY <1>1 DEF Refers, HasType, IsFile
<1>3. /\ Good(t, {}, cut) /\ Goes(s, t, cut) /\ t.ret = s.ret /\ t.blk = s.blk /\ t.din = s.din
      /\ t.why = "no" => Loaded(s, t, k)  BY <1>2, IvalidGood
<1>4. Does(s, t, 0, cut)  BY <1>3 DEF Does, Loaded
<1>5. ASSUME t.why = "no"
      PROVE  /\ InUse(t, k) /\ (cut \/ t.it[k].copy.type = T_FILE)
             /\ t.it[k].inum = s.it[k].inum /\ SameRoot(s, t)
  <2>1. InUse(t, k) /\ t.it[k].inum = s.it[k].inum /\ Cur(t) = Cur(s) /\ s.why = "no"
    BY <1>3, <1>5, GoesBack DEF Loaded
  <2>2. SameRoot(s, t)  BY <1>3, <2>1, SameRootCur
  <2>3. Table(t)  BY <1>3, <1>5, GoodIs DEF Live
  <2>4. t.it[k].copy.type = t.din[t.it[k].inum].type  BY <2>1, <2>3 DEF Table, InUse
  <2>5. cut \/ t.din[t.it[k].inum].type = T_FILE  BY <1>3, <2>1 DEF Refers, IsFile
  <2> QED BY <2>1, <2>2, <2>4, <2>5
<1> QED BY <1>3, <1>4, <1>5

----
(* create. *)
CreateExists(v, ip) ==
    IF v.it[ip].copy.type = T_FILE THEN Ret(v, ip) ELSE Ret(iput(v, ip), 0)
NoLink == "create: dirlink"
CreatePut(d, dp, ip) == Ret(iput(IF d.ret < 0 THEN Panic(d, NoLink) ELSE d, dp), ip)
CreateEnter(u, dp, path, ip) == CreatePut(dirlink(u, dp, path, u.it[ip].inum), dp, ip)
CreateFresh(a, dp, path) == CreateEnter(iupdate(ivalid(a, a.ret), a.ret), dp, path, a.ret)

LEMMA CreateIs ==
  ASSUME NEW s, NEW path, NEW r, r = root_dir(s), NEW dp, dp = r.ret,
         NEW l, l = dirlookup(r, dp, path)
  PROVE  create(s, path, T_FILE) =
           IF l.ret # 0 THEN CreateExists(ivalid(iput(l, dp), l.ret), l.ret)
           ELSE CreateFresh(ialloc(l, T_FILE), dp, path)
<1> DEFINE R == root_dir(s)
           L == dirlookup(root_dir(s), root_dir(s).ret, path)
<1>1. create(s, path, T_FILE) =
        IF L.ret # 0 THEN CreateExists(ivalid(iput(L, R.ret), L.ret), L.ret)
        ELSE CreateFresh(ialloc(L, T_FILE), R.ret, path)
  BY DEF create, CreateExists, CreateFresh, CreateEnter, CreatePut, NoLink
<1> QED BY <1>1

LEMMA NoLinkIsPanic == NoLink # "no"
  BY DEF NoLink
\* What create leaves: a file in memory, or none.
Creates(s, t, cut) ==
    /\ Does(s, t, t.ret, cut) /\ t.ret \in {0} \cup Slots
    /\ t.why = "no" /\ t.ret # 0 => InUse(t, t.ret) /\ t.it[t.ret].copy.type = T_FILE

\* The file is there.
LEMMA CreateExistsGood ==
  ASSUME NEW s, NEW cut \in BOOLEAN, Good(s, {}, cut), AllCounted(s), NEW l, NEW dp \in Slots,
         NEW k \in Slots, NEW r, Does(s, r, dp, cut), Does(r, l, k, cut),
         l.why = "no" => Refers(l, k, cut),
         NEW t, t = CreateExists(ivalid(iput(l, dp), k), k)
  PROVE  Creates(s, t, cut)
<1>1. PICK p : p = iput(l, dp)  OBVIOUS
<1>2. Does(s, p, k, cut) /\ p.ret = l.ret /\ p.din = l.din /\ p.why = l.why /\ Drops(l, p, dp)
  BY <1>1, DoesDrop
<1>3. Good(p, {}, cut) /\ (p.why = "no" => s.why = "no")  BY <1>2, DoesGood
<1>4. p.why = "no" => Refers(p, k, cut)
  <2>1. SUFFICES ASSUME p.why = "no" PROVE Refers(p, k, cut)  OBVIOUS
  <2>2. Busy(p, k) /\ p.it[k].inum = l.it[k].inum  BY <1>2, <1>3, <2>1, DropKeeps
  <2> QED BY <1>2, <2>1, <2>2 DEF Refers
<1>5. PICK v : v = ivalid(p, k)  OBVIOUS
<1>6. Does(p, v, 0, cut) /\ (v.why = "no" => InUse(v, k))  BY <1>3, <1>4, <1>5, ValidFile
<1>7. Does(s, v, k, cut) /\ Good(v, {}, cut)  BY <1>2, <1>6, DoesMore, DoesGood
<1>8. t = CreateExists(v, k)  BY <1>1, <1>5
<1>9. CASE v.it[k].copy.type = T_FILE
  <2>1. t = Ret(v, k)  BY <1>8, <1>9 DEF CreateExists
  <2>2. Does(v, t, 0, cut) /\ t.ret = k /\ t.why = v.why /\ t.it = v.it  BY <1>7, <2>1, RetDoes
  <2>3. Does(s, t, k, cut)  BY <1>7, <2>2, DoesMore
  <2>4. t.why = "no" => InUse(t, k) /\ t.it[k].copy.type = T_FILE
    BY <1>6, <1>9, <2>2 DEF InUse, Busy
  <2> QED BY <2>2, <2>3, <2>4 DEF Creates
<1>10. CASE v.it[k].copy.type # T_FILE
  <2>1. PICK q : q = iput(v, k)  OBVIOUS
  <2>2. t = Ret(q, 0)  BY <1>8, <1>10, <2>1 DEF CreateExists
  <2>3. Does(v, v, 0, cut)  BY <1>7, DoesSelf
  <2>4. Does(s, q, 0, cut)  BY <1>7, <2>1, <2>3, DoesDrop
  <2>5. Does(q, t, 0, cut) /\ t.ret = 0  BY <2>2, <2>4, DoesGood, RetDoes
  <2>6. Does(s, t, 0, cut)  BY <2>4, <2>5, DoesThen
  <2> QED BY <2>5, <2>6 DEF Creates
<1> QED BY <1>9, <1>10

\* A new inode, on the disk and in memory.
LEMMA FreshInode ==
  ASSUME NEW l, NEW cut \in BOOLEAN, Good(l, {}, cut), AllCounted(l),
         NEW a, a = ialloc(l, T_FILE), NEW k, k = a.ret,
         NEW u, u = iupdate(ivalid(a, k), k)
  PROVE  /\ Does(l, u, k, cut) /\ k \in Slots
         /\ u.why = "no" => /\ InUse(u, k) /\ u.it[k].copy.type = T_FILE
                            /\ IsFile(u.din, u.it[k].inum) /\ SameRoot(l, u)
<1>1. /\ Good(a, {}, cut) /\ Goes(l, a, cut) /\ k \in Slots
      /\ a.why = "no" => NewFile(l, a)  BY IallocGood DEF AllCounted
<1>2. a.why = "no" => l.why = "no"  BY <1>1, GoesBack
<1>3. Does(l, a, k, cut)  BY <1>1 DEF Does, NewFile
<1>4. a.why = "no" => /\ Busy(a, k) /\ IsFile(a.din, a.it[k].inum) /\ SameRoot(l, a)
  <2>1. SUFFICES ASSUME a.why = "no"
                 PROVE  Busy(a, k) /\ IsFile(a.din, a.it[k].inum) /\ SameRoot(l, a)  OBVIOUS
  <2>2. SameRoot(l, a) /\ Gains(l, a, k) /\ IsFile(a.din, a.it[k].inum) /\ Counted(l)
    BY <1>1, <1>2, <2>1 DEF NewFile, AllCounted
  <2> QED BY <1>1, <2>2, GainsCounted
<1>5. a.why = "no" => Refers(a, k, cut)  BY <1>1, <1>4 DEF Refers, IsFile
<1>6. PICK b : b = ivalid(a, k)  OBVIOUS
<1>7. /\ Does(a, b, 0, cut) /\ b.din = a.din
      /\ b.why = "no" => InUse(b, k) /\ b.it[k].inum = a.it[k].inum /\ SameRoot(a, b)
  BY <1>1, <1>5, <1>6, ValidFile
<1>8. Good(b, {}, cut) /\ (b.why = "no" => a.why = "no")  BY <1>7, DoesGood
<1>9. /\ Good(u, {} \ {k}, cut) /\ Goes(b, u, cut) /\ u.it = b.it
      /\ u.blk = b.blk /\ u.why = b.why
      /\ u.why = "no" => StoredNow(b, u, k)
  <2>1. u = iupdate(b, k)  BY <1>6
  <2>2. b.why = "no" => InUse(b, k)  BY <1>7
  <2> QED BY <1>1, <1>8, <2>1, <2>2, IupdateGood
<1>10. {} \ {k} = {}  OBVIOUS
<1>11. Good(u, {}, cut)  BY <1>9, <1>10
<1>12. Does(b, u, 0, cut)  BY <1>8, <1>9, <1>11, DoesNothing
<1>13. Does(l, b, k, cut)  BY <1>3, <1>7, DoesMore
<1>14. Does(l, u, k, cut)  BY <1>12, <1>13, DoesMore
<1>15. ASSUME u.why = "no"
       PROVE  /\ InUse(u, k) /\ u.it[k].copy.type = T_FILE
              /\ IsFile(u.din, u.it[k].inum) /\ SameRoot(l, u)
  <2>1. b.why = "no" /\ a.why = "no" /\ StoredNow(b, u, k)  BY <1>8, <1>9, <1>15
  <2>2. PICK i : i = u.it[k].inum  OBVIOUS
  <2>3. i = b.it[k].inum /\ i = a.it[k].inum  BY <1>7, <1>9, <2>1, <2>2
  <2>4. IsFile(a.din, i)  BY <1>4, <2>1, <2>3
  <2>5. i \in Inums /\ b.din[i].type = T_FILE  BY <1>7, <2>4 DEF IsFile
  <2>6. u.din[i].type = T_FILE  BY <2>1, <2>5 DEF StoredNow
  <2>7. IsFile(u.din, i)  BY <2>5, <2>6 DEF IsFile
  <2>8. InUse(u, k) /\ Table(u)  BY <1>11, <1>15, <2>1, GoodIs DEF StoredNow, Live
  <2>9. u.it[k].copy.type = u.din[i].type  BY <1>1, <2>2, <2>8 DEF Table, InUse
  <2>10. SameRoot(l, u)
    <3>1. Cur(u) = Cur(b)  BY <2>1 DEF StoredNow
    <3>2. SameRoot(b, u)  BY <1>9, <3>1, SameRootCur
    <3>3. SameRoot(a, b) /\ SameRoot(l, a)  BY <1>4, <1>7, <2>1
    <3> QED BY <3>2, <3>3, SameRootTwice
  <2> QED BY <2>2, <2>6, <2>7, <2>8, <2>9, <2>10
<1> QED BY <1>1, <1>14, <1>15

\* It gets the name, which no entry has.
LEMMA CreateEnterGood ==
  ASSUME NEW s, NEW cut \in BOOLEAN, Good(s, {}, cut), AllCounted(s), NEW dp \in Slots, NEW r,
         Does(s, r, dp, cut), NEW u, NEW k \in Slots, Does(r, u, k, cut), Dir(u, dp),
         NEW path \in Names,
         u.why = "no" => InUse(u, k) /\ u.it[k].copy.type = T_FILE,
         u.why = "no" => cut \/ IsFile(u.din, u.it[k].inum),
         u.why = "no" /\ ~ cut => Absent(u, Named(path)),
         NEW t, t = CreateEnter(u, dp, path, k)
  PROVE  Creates(s, t, cut)
<1>1. PICK i : i = u.it[k].inum  OBVIOUS
<1>2. Good(u, {}, cut) /\ (u.why = "no" => r.why = "no") /\ Good(r, {}, cut)  BY DoesGood
<1>3. i \in Nat
  <2>1. Typed(u)  BY <1>2 DEF Good, Ordered
  <2>2. u.it[k].inum \in {0} \cup Inums  BY <2>1 DEF Typed, SlotType
  <2> QED BY <1>1, <2>2 DEF Inums
<1>4. PICK d : d = dirlink(u, dp, path, i)  OBVIOUS
<1>5. Does(u, d, 0, cut) /\ (d.why = "no" /\ ~ cut /\ Absent(u, Named(path)) => d.ret = 0)
  <2>1. u.why = "no" => cut \/ IsFile(u.din, i)  BY <1>1
  <2> QED BY <1>2, <1>3, <1>4, <2>1, DirlinkGood
<1>6. Good(d, {}, cut) /\ (d.why = "no" => u.why = "no")  BY <1>5, DoesGood
<1>7. PICK e : e = IF d.ret < 0 THEN Panic(d, NoLink) ELSE d  OBVIOUS
<1>8. Does(d, e, 0, cut) /\ (e.why = "no" => e = d)
  <2>1. CASE d.ret < 0
    <3>1. e = Panic(d, NoLink)  BY <1>7, <2>1
    <3>2. cut \/ d.why # "no"
      <4>1. d.ret # 0  BY <2>1
      <4> QED BY <1>5, <1>6, <4>1
    <3> QED BY <1>6, <3>1, <3>2, NoLinkIsPanic, PanicDoes
  <2>2. CASE ~ (d.ret < 0)
    <3>1. e = d  BY <1>7, <2>2
    <3> QED BY <1>6, <3>1, DoesSelf
  <2> QED BY <2>1, <2>2
<1>9. Does(r, e, k, cut)
  <2>1. Does(r, d, k, cut)  BY <1>2, <1>5, DoesMore
  <2> QED BY <1>2, <1>8, <2>1, DoesMore
<1>10. PICK f : f = iput(e, dp)  OBVIOUS
<1>11. Does(s, f, k, cut) /\ f.why = e.why /\ Drops(e, f, dp)  BY <1>9, <1>10, DoesDrop
<1>12. t = Ret(f, k)  BY <1>1, <1>4, <1>7, <1>10 DEF CreateEnter, CreatePut
<1>13. Does(f, t, 0, cut) /\ t.ret = k /\ t.why = f.why /\ t.it = f.it
  BY <1>11, <1>12, DoesGood, RetDoes
<1>14. Does(s, t, k, cut)  BY <1>11, <1>13, DoesMore
<1>15. ASSUME t.why = "no" PROVE InUse(t, k) /\ t.it[k].copy.type = T_FILE
  <2>1. f.why = "no" /\ e.why = "no" /\ e = d /\ d.why = "no" /\ u.why = "no" /\ s.why = "no"
    BY <1>6, <1>8, <1>11, <1>13, <1>14, <1>15, DoesGood
  <2>2. InUse(d, k) /\ d.it[k].copy.type = T_FILE
    <3>1. InUse(u, k) /\ u.it[k].copy.type = T_FILE /\ Counted(u) /\ Gains(u, d, 0)
      BY <1>5, <2>1 DEF Does, Dir, AllCounted
    <3>2. u.it[k].ref > 0
      <4>1. AllCounted(r) /\ Gains(r, u, k) /\ r.why = "no"  BY <1>2, <2>1, CountedStays DEF Does
      <4> QED BY <4>1, GainsCounted DEF AllCounted
    <3> QED BY <3>1, <3>2, GainsCounted
  <2>3. InUse(f, k) /\ f.it[k].copy.type = T_FILE  BY <1>11, <2>1, <2>2, DropKeeps
  <2> QED BY <1>13, <2>3 DEF InUse, Busy
<1> QED BY <1>13, <1>14, <1>15 DEF Creates

LEMMA CreateGood ==
  ASSUME NEW s, NEW cut \in BOOLEAN, Good(s, {}, cut), AllCounted(s), NEW path \in Names,
         NEW t, t = create(s, path, T_FILE)
  PROVE  Creates(s, t, cut)
<1>1. PICK r : r = root_dir(s)  OBVIOUS
<1>2. PICK dp : dp = r.ret  OBVIOUS
<1>3. Does(s, r, dp, cut) /\ Dir(r, dp) /\ Good(r, {}, cut) /\ dp \in Slots
  BY <1>1, <1>2, RootDirGood, DoesGood DEF Dir
<1>4. PICK l : l = dirlookup(r, dp, path)  OBVIOUS
<1>5. PICK x : x = l.ret  OBVIOUS
<1>6. Does(r, l, x, cut) /\ x \in {0} \cup Slots /\ (l.why = "no" => LooksUp(r, l, path, cut))
  BY <1>3, <1>4, <1>5, DirlookupGood
<1>7. t = IF l.ret # 0 THEN CreateExists(ivalid(iput(l, dp), l.ret), l.ret)
          ELSE CreateFresh(ialloc(l, T_FILE), dp, path)
  BY <1>1, <1>2, <1>4, CreateIs
<1>8. CASE x # 0
  <2>1. t = CreateExists(ivalid(iput(l, dp), x), x)  BY <1>5, <1>7, <1>8
  <2>2. x \in Slots /\ (l.why = "no" => Refers(l, x, cut))  BY <1>5, <1>6, <1>8 DEF LooksUp
  <2> QED BY <1>3, <1>6, <2>1, <2>2, CreateExistsGood
<1>9. CASE x = 0
  <2>1. Does(r, l, 0, cut) /\ Good(l, {}, cut) /\ (l.why = "no" => r.why = "no")
    BY <1>6, <1>9, DoesGood
  <2>2. Dir(l, dp) /\ AllCounted(l)  BY <1>3, <2>1, DirStays DEF Dir
  <2>3. PICK a : a = ialloc(l, T_FILE)  OBVIOUS
  <2>4. PICK k : k = a.ret  OBVIOUS
  <2>5. PICK u : u = iupdate(ivalid(a, k), k)  OBVIOUS
  <2>6. t = CreateEnter(u, dp, path, k)  BY <1>5, <1>7, <1>9, <2>3, <2>4, <2>5 DEF CreateFresh
  <2>7. /\ Does(l, u, k, cut) /\ k \in Slots
        /\ u.why = "no" => /\ InUse(u, k) /\ u.it[k].copy.type = T_FILE
                           /\ IsFile(u.din, u.it[k].inum) /\ SameRoot(l, u)
    BY <2>1, <2>2, <2>3, <2>4, <2>5, FreshInode
  <2>8. Does(r, u, k, cut) /\ Dir(u, dp) /\ (u.why = "no" => l.why = "no")
    BY <1>3, <2>1, <2>2, <2>7, DoesThen, DirStays, DoesGood
  <2>9. ASSUME u.why = "no", ~ cut PROVE Absent(u, Named(path))
    <3>1. r.why = "no" /\ LooksUp(r, l, path, cut) /\ SameRoot(l, u)
      BY <1>6, <2>1, <2>7, <2>8, <2>9
    <3>2. SameRoot(r, l) /\ Absent(r, Named(path))  BY <1>5, <1>9, <2>9, <3>1 DEF LooksUp
    <3>3. SameRoot(r, u)  BY <3>1, <3>2, SameRootTwice
    <3>4. Typed(r) /\ Table(r)  BY <1>3, <3>1, GoodIs DEF Live
    <3> QED BY <3>2, <3>3, <3>4, AbsentStays
  <2> QED BY <1>3, <2>6, <2>7, <2>8, <2>9, CreateEnterGood
<1> QED BY <1>8, <1>9

----
(* Between two calls. *)
\* The kernel starts on a disk.
Stopped(w, why) == [Mount(w) EXCEPT !.why = why]
Started(t, w, why) ==
    /\ DOMAIN t = {"bmap", "din", "blk", "log", "it", "why", "ret"}
    /\ t.bmap = w.bmap /\ t.din = w.din /\ t.blk = w.blk /\ t.log = <<w>>
    /\ t.it = EmptyTable /\ t.ret = 0 /\ t.why = why

LEMMA StoppedFields ==
  ASSUME NEW w, NEW why, NEW t, t = Stopped(w, why)
  PROVE  Started(t, w, why)
  BY DEF Stopped, Mount, Started

LEMMA MountIs ==
  ASSUME NEW w \in ImageType
  PROVE  Mount(w) = Stopped(w, "no")
  BY DEF ImageType, Mount, Stopped

LEMMA NobodyBusy ==
  ASSUME NEW t, t.it = EmptyTable, NEW k \in Slots
  PROVE  t.it[k] = FreeSlot /\ t.it[k].ref = 0 /\ ~ Busy(t, k)
  BY DEF EmptyTable, FreeSlot, Busy

LEMMA StartedGood ==
  ASSUME NEW w \in ImageType, NEW cut, Safe(w, cut), NEW why, NEW t, Started(t, w, why)
  PROVE  Good(t, {}, cut) /\ t.log = <<OnDisk(t)>> /\ OnDisk(t) = w
<1>1. t.log = <<w>> /\ OnDisk(t) = w /\ Range(t.log) = {w}
  <2>1. t.log = <<w>>  BY DEF Started
  <2>2. OnDisk(t) = w  BY <2>1 DEF OnDisk
  <2>3. DOMAIN t.log = {1} /\ t.log[1] = w  BY <2>1
  <2>4. Range(t.log) = {w}  BY <2>3 DEF Range
  <2> QED BY <2>1, <2>2, <2>4
<1>2. Typed(t)
  <2>1. t.log \in Seq(ImageType) /\ Len(t.log) > 0  BY <1>1
  <2>2. t.it \in [Slots -> SlotType]  BY Empties DEF Started, EmptyTable
  <2>3. w.bmap \in [Blocks -> BOOLEAN] /\ w.din \in [Inums -> InodeType] /\ w.blk \in [Blocks -> Contents]
    BY DEF ImageType
  <2> QED BY <2>1, <2>2, <2>3 DEF Typed, Started
<1>3. LogGood(t, cut) /\ t.bmap[0]  BY <1>1 DEF LogGood, Safe, Rooted, Started
<1>4. Table(t) /\ Stored(t, {}) /\ OneSlot(t)
  <2>1. \A k \in Slots : ~ Busy(t, k)  BY NobodyBusy DEF Started
  <2>2. t.din = OnDisk(t).din  BY <1>1 DEF Started
  <2> QED BY <2>1, <2>2 DEF Table, Stored, OneSlot
<1>5. Cur(t) = w.din
  <2>1. t.din \in [Inums -> InodeType] /\ t.din = w.din  BY <1>2 DEF Typed, Started
  <2>2. ASSUME NEW i \in Inums PROVE InMemory(t, i) = {}  BY NobodyBusy DEF InMemory, Started
  <2>3. \A i \in Inums : \A k \in InMemory(t, i) : t.din[i] = t.it[k].copy  BY <2>2
  <2> QED BY <1>4, <2>1, <2>3, CurIs
<1>6. cut \/ Whole(t)
  <2>1. t.bmap = w.bmap /\ t.blk = w.blk  BY DEF Started
  <2>2. Behind(w, w.bmap, w.din, w.blk)  BY DEF Behind
  <2>3. cut \/ Right(w.bmap, w.din, w.blk)  BY DEF Safe
  <2> QED BY <1>1, <1>5, <2>1, <2>2, <2>3 DEF Whole
<1>7. Good(t, {}, cut)  BY <1>2, <1>3, <1>4, <1>6, GoodWhen DEF Live
<1> QED BY <1>1, <1>7

----
(* The disk that mkfs makes. *)

\* Types and sizes stay.
Alike(din, d) == \A j \in Inums : d[j].type = din[j].type /\ d[j].size = din[j].size

LEMMA BelowIs ==
  ASSUME NEW n, NEW b \in Blocks
  PROVE  Below(n)[b] <=> b < n
  BY Zenon DEF Below

\* The next free block belongs to nobody.
LEMMA NextFree ==
  ASSUME NEW a, NEW din, NEW blk, Formed(a, din, blk), a + 1 <= FSSIZE
  PROVE  /\ a \in NMETA .. FSSIZE - 1 /\ a \in Blocks /\ a # 0 /\ blk[a] = ZeroBlock
         /\ Sound(Below(a + 1), din, blk) /\ Below(a + 1)[a]
         /\ Blank(blk, a + 1)
         /\ \A j \in Inums, n \in Places : At(din, blk, j, n) # a
<1>1. a \in NMETA .. FSSIZE - 1 /\ a \in Blocks /\ a # 0 /\ a \in Nat  BY Sizes DEF Formed, Blocks
<1>2. blk[a] = ZeroBlock /\ Blank(blk, a + 1)  BY <1>1 DEF Formed, Blank, Blocks
<1>3. \A b \in Blocks : Below(a)[b] => Below(a + 1)[b]
  <2>1. ASSUME NEW b \in Blocks, Below(a)[b] PROVE Below(a + 1)[b]
    <3>1. b < a /\ b \in Nat  BY <2>1, BelowIs DEF Blocks
    <3>2. b < a + 1  BY <1>1, <3>1
    <3> QED BY <3>2, BelowIs
  <2> QED BY <2>1
<1>4. Sound(Below(a + 1), din, blk)
  <2>1. Sound(Below(a), din, blk)  BY DEF Formed
  <2> QED BY <1>3, <2>1, MarkedMore
<1>5. Below(a + 1)[a]
  <2>1. a < a + 1  BY <1>1
  <2> QED BY <1>1, <2>1, BelowIs
<1>6. ~ Below(a)[a]
  <2>1. ~ (a < a)  BY <1>1
  <2> QED BY <1>1, <2>1, BelowIs
<1>7. \A j \in Inums, n \in Places : At(din, blk, j, n) # 0 => Below(a)[At(din, blk, j, n)]
  BY DEF Formed, Sound, Marked
<1> QED BY <1>1, <1>2, <1>4, <1>5, <1>6, <1>7

\* An address is entered in an inode.
LEMMA FormedDirect ==
  ASSUME NEW a, NEW din, NEW blk, Formed(a, din, blk), a + 1 <= FSSIZE,
         NEW i \in Inums, din[i].type # T_NONE, NEW n \in 0 .. NDIRECT, din[i].addrs[n] = 0,
         NEW d, d = WithInodeAddr(din, i, n, a)
  PROVE  Formed(a + 1, d, blk) /\ Alike(din, d) /\ d[i].addrs[n] # 0
<1>1. /\ a \in NMETA .. FSSIZE - 1 /\ a \in Blocks /\ a # 0 /\ blk[a] = ZeroBlock
      /\ Sound(Below(a + 1), din, blk) /\ Below(a + 1)[a]
      /\ Blank(blk, a + 1)
      /\ \A j \in Inums, m \in Places : At(din, blk, j, m) # a  BY NextFree
<1>2. /\ din \in [Inums -> InodeType] /\ blk \in [Blocks -> Contents] /\ Files(din)
      /\ Entered(din, blk)  BY DEF Formed
<1> DEFINE p == IF n = NDIRECT THEN MAXFILE ELSE n
<1>3. /\ d \in [Inums -> InodeType] /\ Sound(Below(a + 1), d, blk)
      /\ \A j \in Inums, m \in Places :
           At(d, blk, j, m) = IF j = i /\ m = p THEN a ELSE At(din, blk, j, m)
  BY <1>1, <1>2, EnterDirect
<1>4. /\ d[i].addrs = [din[i].addrs EXCEPT ![n] = a] /\ d[i].type = din[i].type
      /\ d[i].size = din[i].size
      /\ \A j \in Inums \ {i} : d[j] = din[j]
      /\ din[i].addrs \in [0 .. NDIRECT -> Blocks]  BY <1>1, <1>2 DEF InodeType, WithInodeAddr
<1>5. /\ d[i].addrs[n] = a
      /\ \A m \in 0 .. NDIRECT : din[i].addrs[m] # 0 => d[i].addrs[m] # 0
  <2>1. PICK f, g : f = d[i].addrs /\ g = din[i].addrs  OBVIOUS
  <2>2. g \in [0 .. NDIRECT -> Blocks] /\ f = [g EXCEPT ![n] = a]  BY <1>4, <2>1
  <2>3. f[n] = a /\ \A m \in 0 .. NDIRECT : m # n => f[m] = g[m]  BY <2>2
  <2> QED BY <1>1, <2>1, <2>3
<1>6. Alike(din, d)  BY <1>4 DEF Alike
<1>7. Files(d)
  <2>1. d[ROOTINO].type = T_DIR  BY <1>2, <1>6, Sizes DEF Files, Alike
  <2>2. ASSUME NEW j \in Inums \ {ROOTINO} PROVE d[j].type # T_DIR /\ Filled(d[j])
    <3>1. din[j].type # T_DIR /\ Filled(din[j])  BY <1>2 DEF Files
    <3>2. CASE j # i  BY <1>4, <3>1, <3>2
    <3>3. CASE j = i
      <4>1. ASSUME NEW o \in 0 .. d[i].size - 1 PROVE d[i].addrs[EntryOf(o \div BSIZE)] # 0
        <5>1. din[i].addrs[EntryOf(o \div BSIZE)] # 0  BY <1>4, <3>1, <3>3 DEF Filled
        <5>2. din[i].size \in 0 .. MAXFILE * BSIZE  BY <1>2 DEF InodeType
        <5>3. o \in Nat
          <6>1. PICK z : z = MAXFILE * BSIZE  OBVIOUS
          <6> QED BY <1>4, <5>2, <6>1, Sizes
        <5>4. EntryOf(o \div BSIZE) \in 0 .. NDIRECT
          <6>1. o \div BSIZE \in Nat  BY <5>3, Sizes
          <6> QED BY <6>1, Sizes DEF EntryOf
        <5> QED BY <1>5, <5>1, <5>4
      <4> QED BY <1>4, <3>1, <3>3, <4>1 DEF Filled
    <3> QED BY <3>2, <3>3
  <2> QED BY <2>1, <2>2 DEF Files
<1>8. Entered(d, blk)
  <2>1. ASSUME NEW m \in 0 .. MAXFILE - 1
        PROVE  DataIn(d, blk, ROOTINO, m) = DataIn(din, blk, ROOTINO, m)
    <3>1. m \in Places /\ ROOTINO \in Inums  BY Sizes DEF Places
    <3>2. CASE At(d, blk, ROOTINO, m) = At(din, blk, ROOTINO, m)  BY <3>2 DEF DataIn
    <3>3. CASE At(d, blk, ROOTINO, m) # At(din, blk, ROOTINO, m)
      <4>1. At(d, blk, ROOTINO, m) = a /\ ROOTINO = i /\ m = p  BY <1>3, <3>1, <3>3
      <4>2. At(din, blk, ROOTINO, m) = 0
        <5>1. m < NDIRECT /\ m = n  BY <4>1, Sizes
        <5>2. At(din, blk, ROOTINO, m) = din[ROOTINO].addrs[m]  BY <1>2, <3>1, <5>1, AddrTyped
        <5> QED BY <4>1, <5>1, <5>2
      <4> QED BY <1>1, <4>1, <4>2 DEF DataIn
    <3> QED BY <3>2, <3>3
  <2>2. \A j \in Inums : din[j].type = T_FILE => d[j].type = T_FILE  BY <1>6 DEF Alike
  <2> QED BY <1>2, <2>1, <2>2, EnteredSame
<1>9. a + 1 \in NMETA .. FSSIZE  BY <1>1, Sizes
<1> QED BY <1>1, <1>2, <1>3, <1>5, <1>6, <1>7, <1>8, <1>9 DEF Formed

\* An address is entered in the indirect block of an inode.
LEMMA FormedIndirect ==
  ASSUME NEW a, NEW din, NEW blk, Formed(a, din, blk), a + 1 <= FSSIZE,
         NEW i \in Inums, NEW o \in Offs, NEW b, b = din[i].addrs[NDIRECT], b # 0, blk[b][o][1] = 0,
         NEW c, c = WithBlockAddr(blk, b, o, a)
  PROVE  Formed(a + 1, din, c) /\ c[b][o][1] = a /\ a # 0
<1>1. /\ a \in NMETA .. FSSIZE - 1 /\ a \in Blocks /\ a # 0 /\ blk[a] = ZeroBlock
      /\ Sound(Below(a + 1), din, blk) /\ Below(a + 1)[a]
      /\ Blank(blk, a + 1)
      /\ \A j \in Inums, m \in Places : At(din, blk, j, m) # a  BY NextFree
<1>2. /\ din \in [Inums -> InodeType] /\ blk \in [Blocks -> Contents] /\ Files(din)
      /\ Entered(din, blk)  BY DEF Formed
<1>3. /\ c \in [Blocks -> Contents] /\ Sound(Below(a + 1), din, c)
      /\ \A j \in Inums, m \in Places :
           At(din, c, j, m) = IF j = i /\ m = NDIRECT + o THEN a ELSE At(din, blk, j, m)
  BY <1>1, <1>2, EnterIndirect
<1>4. MAXFILE \in Places /\ At(din, blk, i, MAXFILE) = b /\ MAXFILE \in Nat
  BY <1>2, Sizes, AddrTyped DEF Places
<1>5. b \in NMETA .. FSSIZE - 1 /\ b < a /\ b \in Blocks
  <2>1. b \in NMETA .. FSSIZE - 1  BY <1>1, <1>4 DEF Sound, OneOwner
  <2>2. Sound(Below(a), din, blk)  BY DEF Formed
  <2>3. Below(a)[b]  BY <1>4, <2>2 DEF Sound, Marked
  <2>4. b \in Blocks  BY <2>1, Sizes DEF Blocks
  <2> QED BY <2>1, <2>3, <2>4, BelowIs
<1>6. /\ \A e \in Blocks : e # b => c[e] = blk[e]
      /\ c[b][o] = Unit(a)
  <2>1. blk[b] \in Contents  BY <1>2, <1>5
  <2> QED BY <1>2, <1>5, <2>1 DEF WithBlockAddr, Contents
<1>7. Blank(c, a + 1)
  <2>1. \A e \in Blocks : e >= a + 1 => e # b  BY <1>1, <1>5 DEF Blocks
  <2> QED BY <1>1, <1>6, <2>1 DEF Blank
<1>8. Entered(din, c)
  <2>1. ASSUME NEW m \in 0 .. MAXFILE - 1
        PROVE  DataIn(din, c, ROOTINO, m) = DataIn(din, blk, ROOTINO, m)
    <3>1. m \in Places /\ ROOTINO \in Inums /\ m # MAXFILE  BY Sizes DEF Places
    <3>2. CASE At(din, c, ROOTINO, m) = At(din, blk, ROOTINO, m)
      <4>1. At(din, blk, ROOTINO, m) # 0 => At(din, blk, ROOTINO, m) # b
        BY <1>1, <1>4, <3>1 DEF Sound, OneOwner
      <4>2. At(din, blk, ROOTINO, m) # 0 => At(din, blk, ROOTINO, m) \in Blocks
        <5>1. At(din, blk, ROOTINO, m) # 0 => At(din, blk, ROOTINO, m) \in NMETA .. FSSIZE - 1
          BY <1>1, <3>1 DEF Sound, OneOwner
        <5> QED BY <5>1, Sizes DEF Blocks
      <4> QED BY <1>6, <3>2, <4>1, <4>2 DEF DataIn
    <3>3. CASE At(din, c, ROOTINO, m) # At(din, blk, ROOTINO, m)
      <4>1. At(din, c, ROOTINO, m) = a /\ ROOTINO = i /\ m = NDIRECT + o  BY <1>3, <3>1, <3>3
      <4>2. At(din, blk, ROOTINO, m) = 0
        <5>1. ~ (m < NDIRECT) /\ m - NDIRECT = o  BY <4>1, Sizes DEF Offs
        <5>2. At(din, blk, i, m) = blk[b][m - NDIRECT][1]  BY <1>2, <3>1, <5>1, AddrTyped
        <5> QED BY <4>1, <5>1, <5>2
      <4>3. c[a] = ZeroBlock  BY <1>1, <1>5, <1>6
      <4> QED BY <1>1, <4>1, <4>2, <4>3 DEF DataIn
    <3> QED BY <3>2, <3>3
  <2>2. \A j \in Inums : din[j].type = T_FILE => din[j].type = T_FILE  OBVIOUS
  <2> QED BY <1>2, <2>1, <2>2, EnteredSame
<1>9. a + 1 \in NMETA .. FSSIZE  BY <1>1, Sizes
<1>10. c[b][o][1] = a  BY <1>6 DEF Unit
<1> QED BY <1>1, <1>2, <1>3, <1>7, <1>8, <1>9, <1>10 DEF Formed

\* A unit is written in a block of data; in the directory it is an entry of a file.
WithUnit(blk, x, o, u) == [blk EXCEPT ![x][o] = u]
LEMMA FormedData ==
  ASSUME NEW a, NEW din, NEW blk, Formed(a, din, blk),
         NEW i \in Inums, NEW n \in 0 .. MAXFILE - 1, NEW x, x = At(din, blk, i, n), x # 0,
         NEW o \in Offs, NEW u \in UnitType, i = ROOTINO => EntryNames(din, u),
         NEW c, c = WithUnit(blk, x, o, u)
  PROVE  Formed(a, din, c)
<1>1. /\ din \in [Inums -> InodeType] /\ blk \in [Blocks -> Contents] /\ Files(din)
      /\ Entered(din, blk) /\ Sound(Below(a), din, blk) /\ a \in NMETA .. FSSIZE /\ a \in Nat
      /\ Blank(blk, a)  BY Sizes DEF Formed
<1>2. n \in Places /\ n # MAXFILE /\ MAXFILE \in Places /\ MAXFILE \in Nat  BY Sizes DEF Places
<1>3. x \in Blocks /\ x < a
  <2>1. x \in NMETA .. FSSIZE - 1  BY <1>1, <1>2 DEF Sound, OneOwner
  <2>2. Below(a)[x]  BY <1>1, <1>2 DEF Sound, Marked
  <2>3. x \in Blocks  BY <2>1, Sizes DEF Blocks
  <2> QED BY <2>2, <2>3, BelowIs
<1>4. /\ c \in [Blocks -> Contents] /\ c[x] \in Contents
      /\ \A e \in Blocks : e # x => c[e] = blk[e]
      /\ c[x][o] = u /\ \A p \in Offs : p # o => c[x][p] = blk[x][p]
  <2>1. blk[x] \in Contents  BY <1>1, <1>3
  <2>2. PICK f, g : f = blk[x] /\ g = [f EXCEPT ![o] = u]  OBVIOUS
  <2>3. g \in Contents /\ g[o] = u /\ \A p \in Offs : p # o => g[p] = f[p]
    BY <2>1, <2>2 DEF Contents
  <2>4. c = [blk EXCEPT ![x] = g]  BY <2>2 DEF WithUnit
  <2>5. c \in [Blocks -> Contents] /\ c[x] = g /\ \A e \in Blocks : e # x => c[e] = blk[e]
    BY <1>1, <1>3, <2>3, <2>4
  <2> QED BY <2>2, <2>3, <2>5
<1>5. \A j \in Inums, m \in Places : At(din, c, j, m) = At(din, blk, j, m)
  <2>1. ASSUME NEW j \in Inums, At(din, blk, j, MAXFILE) # 0
        PROVE  c[At(din, blk, j, MAXFILE)] = blk[At(din, blk, j, MAXFILE)]
    <3>1. At(din, blk, j, MAXFILE) \in NMETA .. FSSIZE - 1  BY <1>1, <1>2, <2>1 DEF Sound, OneOwner
    <3>2. At(din, blk, j, MAXFILE) \in Blocks  BY <3>1, Sizes DEF Blocks
    <3>3. At(din, blk, j, MAXFILE) # x  BY <1>1, <1>2, <2>1 DEF Sound, OneOwner
    <3> QED BY <1>4, <3>2, <3>3
  <2> QED BY <1>1, <2>1, DataChange
<1>6. Sound(Below(a), din, c)
  <2>1. \A j \in Inums, m \in Places : At(din, c, j, m) \in {0, At(din, blk, j, m)}  BY <1>5
  <2>2. \A j \in Inums : din[j].type = T_NONE => din[j].addrs = NoAddrs  BY <1>1 DEF Sound, OneOwner
  <2> QED BY <1>1, <2>1, <2>2, FewerAddrs
<1>7. Blank(c, a)
  <2>1. \A e \in Blocks : e >= a => e # x  BY <1>1, <1>3 DEF Blocks
  <2> QED BY <1>1, <1>4, <2>1 DEF Blank
<1>8. Entered(din, c)
  <2>1. ASSUME NEW m \in 0 .. MAXFILE - 1, NEW p \in Offs
        PROVE  EntryNames(din, DataIn(din, c, ROOTINO, m)[p])
    <3>1. m \in Places /\ ROOTINO \in Inums  BY Sizes DEF Places
    <3>2. EntryNames(din, DataIn(din, blk, ROOTINO, m)[p])  BY <1>1, <2>1 DEF Entered
    <3>3. PICK z : z = At(din, blk, ROOTINO, m)  OBVIOUS
    <3>4. At(din, c, ROOTINO, m) = z  BY <1>5, <3>1, <3>3
    <3>5. CASE z = 0  BY <3>2, <3>3, <3>4, <3>5 DEF DataIn
    <3>6. CASE z # 0 /\ z # x
      <4>1. z \in NMETA .. FSSIZE - 1  BY <1>1, <3>1, <3>3, <3>6 DEF Sound, OneOwner
      <4>2. z \in Blocks  BY <4>1, Sizes DEF Blocks
      <4>3. c[z] = blk[z]  BY <1>4, <3>6, <4>2
      <4> QED BY <3>2, <3>3, <3>4, <3>6, <4>3 DEF DataIn
    <3>7. CASE z # 0 /\ z = x
      <4>1. ROOTINO = i
        <5>1. OneOwner(din, blk)  BY <1>1 DEF Sound
        <5>2. At(din, blk, ROOTINO, m) = At(din, blk, i, n) /\ At(din, blk, ROOTINO, m) # 0
          BY <3>3, <3>7
        <5> QED BY <1>2, <3>1, <5>1, <5>2 DEF OneOwner
      <4>2. DataIn(din, c, ROOTINO, m) = c[x] /\ DataIn(din, blk, ROOTINO, m) = blk[x]
        BY <3>3, <3>4, <3>7 DEF DataIn
      <4>3. CASE p = o  BY <1>4, <4>1, <4>2, <4>3
      <4>4. CASE p # o
        <5>1. c[x][p] = blk[x][p]  BY <1>4, <4>4
        <5> QED BY <3>2, <4>2, <5>1
      <4> QED BY <4>3, <4>4
    <3> QED BY <3>5, <3>6, <3>7
  <2> QED BY <2>1 DEF Entered
<1> QED BY <1>1, <1>4, <1>6, <1>7, <1>8 DEF Formed

\* An inode gets a size.
WithInodeSize(din, i, z) == [din EXCEPT ![i].size = z]
FilledTo(c, z) == \A o \in 0 .. z - 1 : c.addrs[EntryOf(o \div BSIZE)] # 0
LEMMA FormedSize ==
  ASSUME NEW a, NEW din, NEW blk, Formed(a, din, blk),
         NEW i \in Inums, NEW z \in 0 .. MAXFILE * BSIZE, i # ROOTINO => FilledTo(din[i], z),
         NEW d, d = WithInodeSize(din, i, z)
  PROVE  Formed(a, d, blk) /\ d[i].size = z /\ \A j \in Inums : d[j].type = din[j].type
         /\ (j # i => d[j].size = din[j].size)
<1>1. /\ din \in [Inums -> InodeType] /\ blk \in [Blocks -> Contents] /\ Files(din)
      /\ Entered(din, blk) /\ Sound(Below(a), din, blk) /\ a \in NMETA .. FSSIZE
      /\ Blank(blk, a)  BY DEF Formed
<1>2. /\ d[i].addrs = din[i].addrs /\ d[i].type = din[i].type /\ d[i].size = z
      /\ \A j \in Inums \ {i} : d[j] = din[j]
      /\ d \in [Inums -> InodeType]  BY <1>1 DEF InodeType, WithInodeSize
<1>3. \A j \in Inums : d[j].addrs = din[j].addrs /\ d[j].type = din[j].type  BY <1>2
<1>4. \A j \in Inums, n \in Places : At(d, blk, j, n) = At(din, blk, j, n)  BY <1>3 DEF At, AddrOf
<1>5. Sound(Below(a), d, blk)
  <2>1. \A j \in Inums, m \in Places : At(d, blk, j, m) \in {0, At(din, blk, j, m)}  BY <1>4
  <2>2. \A j \in Inums : d[j].type = T_NONE => d[j].addrs = NoAddrs
    BY <1>1, <1>3 DEF Sound, OneOwner
  <2> QED BY <1>1, <2>1, <2>2, FewerAddrs
<1>6. Files(d)
  <2>1. d[ROOTINO].type = T_DIR  BY <1>1, <1>3, Sizes DEF Files
  <2>2. ASSUME NEW j \in Inums \ {ROOTINO} PROVE d[j].type # T_DIR /\ Filled(d[j])
    <3>1. din[j].type # T_DIR /\ Filled(din[j])  BY <1>1 DEF Files
    <3>2. CASE j # i  BY <1>2, <3>1, <3>2
    <3>3. CASE j = i
      <4>1. FilledTo(din[i], z)  BY <3>3
      <4>2. Filled(d[i])  BY <1>2, <4>1 DEF Filled, FilledTo
      <4> QED BY <1>2, <3>1, <3>3, <4>2
    <3> QED BY <3>2, <3>3
  <2> QED BY <2>1, <2>2 DEF Files
<1>7. Entered(d, blk)
  <2>1. ASSUME NEW m \in 0 .. MAXFILE - 1
        PROVE  DataIn(d, blk, ROOTINO, m) = DataIn(din, blk, ROOTINO, m)
    <3>1. m \in Places /\ ROOTINO \in Inums  BY Sizes DEF Places
    <3> QED BY <1>4, <3>1 DEF DataIn
  <2>2. \A j \in Inums : din[j].type = T_FILE => d[j].type = T_FILE  BY <1>3
  <2> QED BY <1>1, <2>1, <2>2, EnteredSame
<1>8. Formed(a, d, blk)  BY <1>1, <1>2, <1>5, <1>6, <1>7 DEF Formed
<1> QED BY <1>2, <1>3, <1>8

\* An inode without addresses.
LEMMA NamesNothing ==
  ASSUME NEW din \in [Inums -> InodeType], NEW blk \in [Blocks -> Contents],
         NEW i \in Inums, din[i].addrs = NoAddrs, NEW n \in Places
  PROVE  At(din, blk, i, n) = 0
<1>1. \A m \in 0 .. NDIRECT : din[i].addrs[m] = 0  BY DEF NoAddrs
<1>2. CASE n < NDIRECT
  <2>1. n \in 0 .. NDIRECT  BY <1>2, Sizes DEF Places
  <2> QED BY <1>1, <1>2, <2>1, AddrTyped
<1>3. CASE ~ (n < NDIRECT)
  <2>1. NDIRECT \in 0 .. NDIRECT  BY Sizes
  <2> QED BY <1>1, <1>3, <2>1, AddrTyped
<1> QED BY <1>2, <1>3

\* An inode is made.
LEMMA FormedInode ==
  ASSUME NEW a, NEW din, NEW blk, Formed(a, din, blk),
         NEW i \in Inums, i # ROOTINO, NEW d, d = WithInode(din, i, NewInode)
  PROVE  Formed(a, d, blk) /\ d[i].size = 0 /\ d[i].type = T_FILE
         /\ d[ROOTINO] = din[ROOTINO]
<1>1. /\ din \in [Inums -> InodeType] /\ blk \in [Blocks -> Contents] /\ Files(din)
      /\ Entered(din, blk) /\ Sound(Below(a), din, blk) /\ a \in NMETA .. FSSIZE
      /\ Blank(blk, a)  BY DEF Formed
<1>2. /\ NewInode.type = T_FILE /\ NewInode.size = 0 /\ NewInode.addrs = NoAddrs
      /\ NewInode \in InodeType  BY Empties DEF NewInode, FreeInode, InodeType
<1>3. /\ d[i] = NewInode /\ \A j \in Inums \ {i} : d[j] = din[j]
      /\ d \in [Inums -> InodeType]  BY <1>1, <1>2 DEF WithInode
<1>4. \A n \in Places : At(d, blk, i, n) = 0  BY <1>1, <1>2, <1>3, NamesNothing
<1>5. \A j \in Inums \ {i}, n \in Places : At(d, blk, j, n) = At(din, blk, j, n)  BY <1>3 DEF At
<1>6. Sound(Below(a), d, blk)
  <2>1. \A j \in Inums, m \in Places : At(d, blk, j, m) \in {0, At(din, blk, j, m)}  BY <1>4, <1>5
  <2>2. \A j \in Inums : d[j].type = T_NONE => d[j].addrs = NoAddrs
    <3>1. \A j \in Inums : din[j].type = T_NONE => din[j].addrs = NoAddrs
      BY <1>1 DEF Sound, OneOwner
    <3> QED BY <1>2, <1>3, <3>1
  <2> QED BY <1>1, <2>1, <2>2, FewerAddrs
<1>7. d[ROOTINO] = din[ROOTINO]  BY <1>3, Sizes
<1>8. Files(d)
  <2>1. Filled(NewInode)  BY <1>2 DEF Filled
  <2>2. T_FILE # T_DIR  BY DEF T_FILE, T_DIR
  <2> QED BY <1>1, <1>2, <1>3, <1>7, <2>1, <2>2 DEF Files
<1>9. Entered(d, blk)
  <2>1. ASSUME NEW m \in 0 .. MAXFILE - 1
        PROVE  DataIn(d, blk, ROOTINO, m) = DataIn(din, blk, ROOTINO, m)
    <3>1. m \in Places /\ ROOTINO \in Inums \ {i}  BY Sizes DEF Places
    <3> QED BY <1>5, <3>1 DEF DataIn
  <2>2. \A j \in Inums : din[j].type = T_FILE => d[j].type = T_FILE  BY <1>2, <1>3
  <2> QED BY <1>1, <2>1, <2>2, EnteredSame
<1>10. Formed(a, d, blk)  BY <1>1, <1>3, <1>6, <1>8, <1>9 DEF Formed
<1> QED BY <1>2, <1>3, <1>7, <1>10

\* The zeroed disk with its directory.
DirInode == [FreeInode EXCEPT !.type = T_DIR]
LEMMA FormedFirst ==
  ASSUME NEW d, d = [[i \in Inums |-> FreeInode] EXCEPT ![ROOTINO] = DirInode],
         NEW blk, blk = [b \in Blocks |-> ZeroBlock]
  PROVE  Formed(NMETA, d, blk) /\ d[ROOTINO].size = 0
<1>1. /\ DirInode.type = T_DIR /\ DirInode.size = 0 /\ DirInode.addrs = NoAddrs
      /\ DirInode \in InodeType  BY Empties DEF DirInode, FreeInode, InodeType
<1>2. FreeInode.type = T_NONE /\ FreeInode.size = 0 /\ FreeInode.addrs = NoAddrs  BY DEF FreeInode
<1>3. /\ d[ROOTINO] = DirInode /\ \A j \in Inums \ {ROOTINO} : d[j] = FreeInode
      /\ d \in [Inums -> InodeType]  BY <1>1, Empties, Sizes
<1>4. blk \in [Blocks -> Contents] /\ \A b \in Blocks : blk[b] = ZeroBlock  BY Empties
<1>5. \A j \in Inums : d[j].addrs = NoAddrs  BY <1>1, <1>2, <1>3
<1>6. \A j \in Inums, n \in Places : At(d, blk, j, n) = 0  BY <1>3, <1>4, <1>5, NamesNothing
<1>7. Sound(Below(NMETA), d, blk)
  <2>1. OneOwner(d, blk)  BY <1>5, <1>6 DEF OneOwner
  <2>2. ASSUME NEW b \in 0 .. NMETA - 1 PROVE Below(NMETA)[b]
    <3>1. b \in Blocks /\ b < NMETA  BY Sizes DEF Blocks
    <3> QED BY <3>1, BelowIs
  <2>3. Marked(Below(NMETA), d, blk)  BY <1>6, <2>2 DEF Marked
  <2> QED BY <2>1, <2>3 DEF Sound
<1>8. Files(d)
  <2>1. Filled(FreeInode)  BY <1>2 DEF Filled
  <2>2. T_NONE # T_DIR  BY DEF T_NONE, T_DIR
  <2> QED BY <1>1, <1>2, <1>3, <2>1, <2>2 DEF Files
<1>9. Entered(d, blk)
  <2>1. ASSUME NEW m \in 0 .. MAXFILE - 1, NEW p \in Offs
        PROVE  EntryNames(d, DataIn(d, blk, ROOTINO, m)[p])
    <3>1. m \in Places /\ ROOTINO \in Inums  BY Sizes DEF Places
    <3>2. DataIn(d, blk, ROOTINO, m) = ZeroBlock  BY <1>6, <3>1 DEF DataIn
    <3>3. ZeroBlock[p][1] = 0  BY DEF ZeroBlock, Zero, Unit
    <3> QED BY <3>2, <3>3 DEF EntryNames
  <2> QED BY <2>1 DEF Entered
<1>10. Blank(blk, NMETA) /\ NMETA \in NMETA .. FSSIZE  BY <1>4, Sizes DEF Blank
<1>11. Formed(NMETA, d, blk)  BY <1>3, <1>4, <1>7, <1>8, <1>9, <1>10 DEF Formed
<1> QED BY <1>1, <1>3, <1>11

----
(* The steps of the program. *)
\* It never gives a block or an inode back.
Grows(m, t) == Builder(t) /\ t.freeblock >= m.freeblock /\ t.freeinode = m.freeinode
Image(m) == Formed(m.freeblock, m.din, m.blk)

LEMMA GrowsTwice ==
  ASSUME NEW m, Builder(m), NEW t, Grows(m, t), NEW u, Grows(t, u)
  PROVE  Grows(m, u)
  BY DEF Grows, Builder

LEMMA WinodeIs ==
  ASSUME NEW m, Builder(m), NEW i, NEW c, NEW t, t = winode(m, i, c)
  PROVE  /\ Builder(t) /\ t.freeblock = m.freeblock /\ t.freeinode = m.freeinode
         /\ t.blk = m.blk /\ t.din = WithInode(m.din, i, c)
  BY DEF Builder, winode, WithInode

WithBlock(blk, b, c) == [blk EXCEPT ![b] = c]
LEMMA WsectIs ==
  ASSUME NEW m, Builder(m), NEW b, NEW c, NEW t, t = wsect(m, b, c)
  PROVE  /\ Builder(t) /\ t.freeblock = m.freeblock /\ t.freeinode = m.freeinode
         /\ t.din = m.din /\ t.blk = WithBlock(m.blk, b, c)
  BY DEF Builder, wsect, WithBlock

NextBlock(m) == [m EXCEPT !.freeblock = @ + 1]
LEMMA NextBlockIs ==
  ASSUME NEW m, Builder(m), NEW t, t = NextBlock(m)
  PROVE  /\ Builder(t) /\ t.freeblock = m.freeblock + 1 /\ t.freeinode = m.freeinode
         /\ t.din = m.din /\ t.blk = m.blk
  BY DEF Builder, NextBlock

LEMMA NeedDirectIs ==
  ASSUME NEW m, Builder(m), NEW i, NEW n, NEW t, t = NeedDirect(m, i, n)
  PROVE  /\ Grows(m, t) /\ t.blk = m.blk
         /\ m.din[i].addrs[n] # 0 => t = m
         /\ m.din[i].addrs[n] = 0 => /\ t.freeblock = m.freeblock + 1
                                     /\ t.din = WithInodeAddr(m.din, i, n, m.freeblock)
<1>1. CASE m.din[i].addrs[n] # 0
  <2>1. t = m  BY <1>1 DEF NeedDirect, rinode
  <2> QED BY <1>1, <2>1 DEF Grows, Builder
<1>2. CASE m.din[i].addrs[n] = 0
  <2>1. PICK c : c = [m.din[i] EXCEPT !.addrs[n] = m.freeblock]  OBVIOUS
  <2>2. PICK u : u = NextBlock(m)  OBVIOUS
  <2>3. t = winode(u, i, c)  BY <1>2, <2>1, <2>2 DEF NeedDirect, rinode, NextBlock
  <2>4. /\ Builder(u) /\ u.freeblock = m.freeblock + 1 /\ u.freeinode = m.freeinode
        /\ u.din = m.din /\ u.blk = m.blk  BY <2>2, NextBlockIs
  <2>5. /\ Builder(t) /\ t.freeblock = u.freeblock /\ t.freeinode = u.freeinode
        /\ t.blk = u.blk /\ t.din = WithInode(u.din, i, c)  BY <2>3, <2>4, WinodeIs
  <2>6. t.din = WithInodeAddr(m.din, i, n, m.freeblock)
    BY <2>1, <2>4, <2>5 DEF WithInode, WithInodeAddr
  <2>7. Grows(m, t)  BY <2>4, <2>5 DEF Grows, Builder
  <2> QED BY <1>2, <2>4, <2>5, <2>6, <2>7
<1> QED BY <1>1, <1>2

LEMMA NeedIndirectIs ==
  ASSUME NEW m, Builder(m), NEW b, NEW n, NEW t, t = NeedIndirect(m, b, n)
  PROVE  /\ Grows(m, t) /\ t.din = m.din
         /\ m.blk[b][n][1] # 0 => t = m
         /\ m.blk[b][n][1] = 0 => /\ t.freeblock = m.freeblock + 1
                                  /\ t.blk = WithBlockAddr(m.blk, b, n, m.freeblock)
<1>1. CASE m.blk[b][n][1] # 0
  <2>1. t = m  BY <1>1 DEF NeedIndirect, rsect
  <2> QED BY <1>1, <2>1 DEF Grows, Builder
<1>2. CASE m.blk[b][n][1] = 0
  <2>1. PICK c : c = [m.blk[b] EXCEPT ![n] = Unit(m.freeblock)]  OBVIOUS
  <2>2. PICK u : u = NextBlock(m)  OBVIOUS
  <2>3. t = wsect(u, b, c)  BY <1>2, <2>1, <2>2 DEF NeedIndirect, rsect, NextBlock
  <2>4. /\ Builder(u) /\ u.freeblock = m.freeblock + 1 /\ u.freeinode = m.freeinode
        /\ u.din = m.din /\ u.blk = m.blk  BY <2>2, NextBlockIs
  <2>5. /\ Builder(t) /\ t.freeblock = u.freeblock /\ t.freeinode = u.freeinode
        /\ t.din = u.din /\ t.blk = WithBlock(u.blk, b, c)  BY <2>3, <2>4, WsectIs
  <2>6. t.blk = WithBlockAddr(m.blk, b, n, m.freeblock)
    BY <2>1, <2>4, <2>5 DEF WithBlock, WithBlockAddr
  <2>7. Grows(m, t)  BY <2>4, <2>5 DEF Grows, Builder
  <2> QED BY <1>2, <2>4, <2>5, <2>6, <2>7
<1> QED BY <1>1, <1>2

\* The block that takes the next unit, and the image with it.
BlockReached(m, i, bn) ==
    LET d == NeedDirect(m, i, EntryOf(bn))
    IN  IF bn < NDIRECT THEN d ELSE NeedIndirect(d, d.din[i].addrs[NDIRECT], bn - NDIRECT)
BlockAt(e, i, bn) ==
    IF bn < NDIRECT THEN e.din[i].addrs[bn] ELSE e.blk[e.din[i].addrs[NDIRECT]][bn - NDIRECT][1]
PutUnit(e, i, x, off, u) ==
    winode(wsect(e, x, [e.blk[x] EXCEPT ![off % BSIZE] = u]), i, [e.din[i] EXCEPT !.size = off + 1])

LEMMA ReachedGrows ==
  ASSUME NEW m, Builder(m), NEW i, NEW bn, NEW t, t = BlockReached(m, i, bn)
  PROVE  Grows(m, t)
<1>1. PICK d : d = NeedDirect(m, i, EntryOf(bn))  OBVIOUS
<1>2. Grows(m, d) /\ Builder(d)  BY <1>1, NeedDirectIs DEF Grows
<1>3. CASE bn < NDIRECT  BY <1>1, <1>2, <1>3 DEF BlockReached
<1>4. CASE ~ (bn < NDIRECT)
  <2>1. t = NeedIndirect(d, d.din[i].addrs[NDIRECT], bn - NDIRECT)  BY <1>1, <1>4 DEF BlockReached
  <2>2. Grows(d, t)  BY <1>2, <2>1, NeedIndirectIs
  <2> QED BY <1>2, <2>2, GrowsTwice
<1> QED BY <1>3, <1>4

LEMMA PutUnitIs ==
  ASSUME NEW e, Builder(e), NEW i, NEW x, NEW off, NEW u, NEW t, t = PutUnit(e, i, x, off, u)
  PROVE  /\ Grows(e, t) /\ t.freeblock = e.freeblock
         /\ t.din = WithInodeSize(e.din, i, off + 1) /\ t.blk = WithUnit(e.blk, x, off % BSIZE, u)
<1>1. PICK c, k : c = [e.blk[x] EXCEPT ![off % BSIZE] = u] /\ k = [e.din[i] EXCEPT !.size = off + 1]
  OBVIOUS
<1>2. PICK w : w = wsect(e, x, c)  OBVIOUS
<1>3. t = winode(w, i, k)  BY <1>1, <1>2 DEF PutUnit
<1>4. /\ Builder(w) /\ w.freeblock = e.freeblock /\ w.freeinode = e.freeinode
      /\ w.din = e.din /\ w.blk = WithBlock(e.blk, x, c)  BY <1>2, WsectIs
<1>5. /\ Builder(t) /\ t.freeblock = w.freeblock /\ t.freeinode = w.freeinode
      /\ t.blk = w.blk /\ t.din = WithInode(w.din, i, k)  BY <1>3, <1>4, WinodeIs
<1>6. t.din = WithInodeSize(e.din, i, off + 1)  BY <1>1, <1>4, <1>5 DEF WithInode, WithInodeSize
<1>7. t.blk = WithUnit(e.blk, x, off % BSIZE, u)  BY <1>1, <1>4, <1>5 DEF WithBlock, WithUnit
<1>8. Grows(e, t)  BY <1>4, <1>5 DEF Grows, Builder
<1> QED BY <1>4, <1>5, <1>6, <1>7, <1>8

\* The second of the two ways a unit goes.
PutFar(d, e, i, bn, off, u) == PutUnit(e, i, e.blk[d.din[i].addrs[NDIRECT]][bn - NDIRECT][1], off, u)
LEMMA AppendUnitFar ==
  ASSUME NEW m, NEW i, NEW u, ~ (m.din[i].size \div BSIZE < NDIRECT)
  PROVE  AppendUnit(m, i, u) =
           PutFar(NeedDirect(m, i, EntryOf(m.din[i].size \div BSIZE)),
                  NeedIndirect(NeedDirect(m, i, EntryOf(m.din[i].size \div BSIZE)),
                               NeedDirect(m, i, EntryOf(m.din[i].size \div BSIZE)).din[i].addrs[NDIRECT],
                               m.din[i].size \div BSIZE - NDIRECT),
                  i, m.din[i].size \div BSIZE, m.din[i].size, u)
  BY Zenon DEF AppendUnit, PutUnit, PutFar, rinode, rsect, EntryOf

LEMMA AppendUnitNear ==
  ASSUME NEW m, NEW i, NEW u, m.din[i].size \div BSIZE < NDIRECT
  PROVE  AppendUnit(m, i, u) =
           PutUnit(BlockReached(m, i, m.din[i].size \div BSIZE), i,
                   BlockAt(BlockReached(m, i, m.din[i].size \div BSIZE), i, m.din[i].size \div BSIZE),
                   m.din[i].size, u)
  BY Zenon DEF AppendUnit, PutUnit, BlockAt, BlockReached, rinode, rsect, EntryOf

LEMMA AppendUnitIs ==
  ASSUME NEW m, Builder(m), NEW i, NEW u, NEW off, off = m.din[i].size,
         NEW bn, bn = off \div BSIZE, NEW e, e = BlockReached(m, i, bn)
  PROVE  AppendUnit(m, i, u) = PutUnit(e, i, BlockAt(e, i, bn), off, u)
<1>1. CASE bn < NDIRECT  BY <1>1, AppendUnitNear
<1>2. CASE ~ (bn < NDIRECT)
  <2>1. PICK d : d = NeedDirect(m, i, EntryOf(bn))  OBVIOUS
  <2>2. e = NeedIndirect(d, d.din[i].addrs[NDIRECT], bn - NDIRECT)  BY <1>2, <2>1 DEF BlockReached
  <2>3. AppendUnit(m, i, u) = PutFar(d, e, i, bn, off, u)  BY <1>2, <2>1, <2>2, AppendUnitFar
  <2>4. Builder(d)  BY <2>1, NeedDirectIs DEF Grows
  <2>5. e.din = d.din  BY <2>2, <2>4, NeedIndirectIs
  <2>6. BlockAt(e, i, bn) = e.blk[d.din[i].addrs[NDIRECT]][bn - NDIRECT][1]
    BY <1>2, <2>5 DEF BlockAt
  <2> QED BY <2>3, <2>6 DEF PutFar
<1> QED BY <1>1, <1>2

HasRoom(t) == t.freeblock <= FSSIZE

LEMMA NeedDirectImage ==
  ASSUME NEW m, Builder(m), Image(m), NEW i \in Inums, m.din[i].type # T_NONE, NEW n \in 0 .. NDIRECT,
         NEW t, t = NeedDirect(m, i, n), HasRoom(t)
  PROVE  Image(t) /\ Alike(m.din, t.din) /\ t.din[i].addrs[n] # 0
<1>1. PICK a, din, blk : a = m.freeblock /\ din = m.din /\ blk = m.blk  OBVIOUS
<1>2. Formed(a, din, blk)  BY <1>1 DEF Image
<1>3. CASE din[i].addrs[n] # 0
  <2>1. t = m  BY <1>1, <1>3, NeedDirectIs
  <2> QED BY <1>1, <1>3, <2>1 DEF Alike
<1>4. CASE din[i].addrs[n] = 0
  <2>1. t.blk = blk /\ t.freeblock = a + 1 /\ t.din = WithInodeAddr(din, i, n, a)
    BY <1>1, <1>4, NeedDirectIs
  <2>2. PICK d : d = WithInodeAddr(din, i, n, a)  OBVIOUS
  <2>3. a + 1 <= FSSIZE  BY <2>1 DEF HasRoom
  <2>4. din[i].type # T_NONE  BY <1>1
  <2>5. Formed(a + 1, d, blk) /\ Alike(din, d) /\ d[i].addrs[n] # 0
    BY <1>2, <1>4, <2>2, <2>3, <2>4, FormedDirect
  <2> QED BY <1>1, <2>1, <2>2, <2>5 DEF Image
<1> QED BY <1>3, <1>4

LEMMA NeedIndirectImage ==
  ASSUME NEW m, Builder(m), Image(m), NEW i \in Inums, NEW b, b = m.din[i].addrs[NDIRECT], b # 0,
         NEW o \in Offs, NEW t, t = NeedIndirect(m, b, o), HasRoom(t)
  PROVE  Image(t) /\ t.din = m.din /\ t.blk[b][o][1] # 0
<1>1. PICK a, din, blk : a = m.freeblock /\ din = m.din /\ blk = m.blk  OBVIOUS
<1>2. Formed(a, din, blk)  BY <1>1 DEF Image
<1>3. CASE blk[b][o][1] # 0
  <2>1. t = m  BY <1>1, <1>3, NeedIndirectIs
  <2> QED BY <1>1, <1>3, <2>1
<1>4. CASE blk[b][o][1] = 0
  <2>1. t.din = din /\ t.freeblock = a + 1 /\ t.blk = WithBlockAddr(blk, b, o, a)
    BY <1>1, <1>4, NeedIndirectIs
  <2>2. PICK c : c = WithBlockAddr(blk, b, o, a)  OBVIOUS
  <2>3. a + 1 <= FSSIZE  BY <2>1 DEF HasRoom
  <2>4. b = din[i].addrs[NDIRECT]  BY <1>1
  <2>5. Formed(a + 1, din, c) /\ c[b][o][1] = a /\ a # 0
    BY <1>2, <1>4, <2>2, <2>3, <2>4, FormedIndirect
  <2> QED BY <1>1, <2>1, <2>2, <2>5 DEF Image
<1> QED BY <1>3, <1>4

LEMMA ReachedImage ==
  ASSUME NEW m, Builder(m), Image(m), NEW i \in Inums, m.din[i].type # T_NONE,
         NEW bn \in 0 .. MAXFILE - 1, NEW t, t = BlockReached(m, i, bn), HasRoom(t)
  PROVE  /\ Image(t) /\ Alike(m.din, t.din) /\ t.din[i].addrs[EntryOf(bn)] # 0
         /\ BlockAt(t, i, bn) # 0 /\ BlockAt(t, i, bn) = At(t.din, t.blk, i, bn)
<1>1. PICK d : d = NeedDirect(m, i, EntryOf(bn))  OBVIOUS
<1>2. EntryOf(bn) \in 0 .. NDIRECT  BY Sizes DEF EntryOf
<1>3. Grows(m, d) /\ Builder(d)  BY <1>1, NeedDirectIs DEF Grows
<1>4. ASSUME HasRoom(d)
      PROVE  Image(d) /\ Alike(m.din, d.din) /\ d.din[i].addrs[EntryOf(bn)] # 0
  BY <1>1, <1>2, <1>4, NeedDirectImage
<1>5. ASSUME NEW s, Image(s) PROVE s.din \in [Inums -> InodeType] /\ s.blk \in [Blocks -> Contents]
  BY <1>5 DEF Image, Formed
<1>6. CASE bn < NDIRECT
  <2>1. t = d /\ EntryOf(bn) = bn  BY <1>1, <1>6 DEF BlockReached, EntryOf
  <2>2. Image(t) /\ Alike(m.din, t.din) /\ t.din[i].addrs[bn] # 0  BY <1>4, <2>1
  <2>3. BlockAt(t, i, bn) = t.din[i].addrs[bn]  BY <1>6 DEF BlockAt
  <2>4. At(t.din, t.blk, i, bn) = t.din[i].addrs[bn]  BY <1>6 DEF At, AddrOf
  <2> QED BY <2>1, <2>2, <2>3, <2>4
<1>7. CASE ~ (bn < NDIRECT)
  <2>1. PICK b, o : b = d.din[i].addrs[NDIRECT] /\ o = bn - NDIRECT  OBVIOUS
  <2>2. t = NeedIndirect(d, b, o)  BY <1>1, <1>7, <2>1 DEF BlockReached
  <2>3. EntryOf(bn) = NDIRECT /\ o \in Offs /\ bn # MAXFILE  BY <1>7, <2>1, Sizes DEF EntryOf, Offs
  <2>4. Grows(d, t)  BY <1>3, <2>2, NeedIndirectIs
  <2>5. HasRoom(d)  BY <1>3, <2>4, Sizes DEF HasRoom, Grows, Builder
  <2>6. Image(d) /\ Alike(m.din, d.din) /\ b # 0  BY <1>4, <2>1, <2>3, <2>5
  <2>7. Image(t) /\ t.din = d.din /\ t.blk[b][o][1] # 0
    BY <1>3, <2>1, <2>2, <2>3, <2>6, NeedIndirectImage
  <2>8. t.din[i].addrs[NDIRECT] = b  BY <2>1, <2>7
  <2>9. BlockAt(t, i, bn) = t.blk[b][o][1]  BY <1>7, <2>1, <2>8 DEF BlockAt
  <2>10. At(t.din, t.blk, i, bn) = t.blk[b][o][1]  BY <1>7, <2>1, <2>3, <2>6, <2>8 DEF At, AddrOf
  <2> QED BY <2>3, <2>6, <2>7, <2>8, <2>9, <2>10
<1> QED BY <1>6, <1>7

\* A unit more.
Longer(din, d, i, z) ==
    /\ \A j \in Inums : d[j].type = din[j].type
    /\ d[i].size = z
    /\ \A j \in Inums \ {i} : d[j].size = din[j].size

LEMMA AppendGrows ==
  ASSUME NEW m, Builder(m), NEW i, NEW u, NEW t, t = AppendUnit(m, i, u)
  PROVE  Grows(m, t)
<1>1. PICK off, bn : off = m.din[i].size /\ bn = off \div BSIZE  OBVIOUS
<1>2. PICK e : e = BlockReached(m, i, bn)  OBVIOUS
<1>3. PICK x : x = BlockAt(e, i, bn)  OBVIOUS
<1>4. t = PutUnit(e, i, x, off, u)  BY <1>1, <1>2, <1>3, AppendUnitIs
<1>5. Grows(m, e) /\ Builder(e)  BY <1>2, ReachedGrows DEF Grows
<1>6. Grows(e, t)  BY <1>4, <1>5, PutUnitIs
<1> QED BY <1>5, <1>6, GrowsTwice

LEMMA AppendImage ==
  ASSUME NEW m, Builder(m), Image(m), NEW i \in Inums, m.din[i].type # T_NONE,
         m.din[i].size < MAXFILE * BSIZE, NEW u \in UnitType, i = ROOTINO => EntryNames(m.din, u),
         NEW t, t = AppendUnit(m, i, u), HasRoom(t)
  PROVE  Image(t) /\ Longer(m.din, t.din, i, m.din[i].size + 1)
<1>1. PICK off, bn, o, M : off = m.din[i].size /\ bn = off \div BSIZE /\ o = off % BSIZE /\ M = MAXFILE * BSIZE
  OBVIOUS
<1>2. PICK e : e = BlockReached(m, i, bn)  OBVIOUS
<1>3. PICK x : x = BlockAt(e, i, bn)  OBVIOUS
<1>4. t = PutUnit(e, i, x, off, u)  BY <1>1, <1>2, <1>3, AppendUnitIs
<1>5. Grows(m, e) /\ Builder(e)  BY <1>2, ReachedGrows DEF Grows
<1>6. /\ Grows(e, t) /\ t.freeblock = e.freeblock
      /\ t.din = WithInodeSize(e.din, i, off + 1) /\ t.blk = WithUnit(e.blk, x, o, u)
  BY <1>1, <1>4, <1>5, PutUnitIs
<1>7. HasRoom(e)  BY <1>6 DEF HasRoom
<1>8. m.din \in [Inums -> InodeType]  BY DEF Image, Formed
<1>9. off \in Nat /\ off < M /\ off + 1 \in 0 .. M /\ M \in Nat
  <2>1. off \in 0 .. M  BY <1>1, <1>8 DEF InodeType
  <2>2. M \in Nat /\ off < M  BY <1>1, Sizes
  <2> QED BY <2>1, <2>2
<1>10. bn \in 0 .. MAXFILE - 1 /\ o \in Offs
  <2>1. off \in 0 .. MAXFILE * BSIZE - 1  BY <1>1, <1>9
  <2>2. off \div BSIZE \in 0 .. MAXFILE - 1  BY <2>1, Sizes, DivLess
  <2>3. off % BSIZE \in 0 .. BSIZE - 1  BY <1>9, DivIs
  <2> QED BY <1>1, <2>2, <2>3 DEF Offs
<1>11. /\ Image(e) /\ Alike(m.din, e.din) /\ e.din[i].addrs[EntryOf(bn)] # 0
       /\ x # 0 /\ x = At(e.din, e.blk, i, bn)  BY <1>2, <1>3, <1>7, <1>10, ReachedImage
<1>12. PICK a, din, blk : a = e.freeblock /\ din = e.din /\ blk = e.blk  OBVIOUS
<1>13. Formed(a, din, blk)  BY <1>11, <1>12 DEF Image
<1>14. PICK c : c = WithUnit(blk, x, o, u)  OBVIOUS
<1>15. i = ROOTINO => EntryNames(din, u)  BY <1>11, <1>12 DEF EntryNames, IsFile, Alike
<1>16. Formed(a, din, c)  BY <1>10, <1>11, <1>12, <1>13, <1>14, <1>15, FormedData
<1>17. i # ROOTINO => FilledTo(din[i], off + 1)
  <2>1. SUFFICES ASSUME i # ROOTINO, NEW p \in 0 .. off PROVE din[i].addrs[EntryOf(p \div BSIZE)] # 0
    <3>1. (off + 1) - 1 = off  BY <1>9
    <3> QED BY <3>1 DEF FilledTo
  <2>2. CASE p = off  BY <1>1, <1>11, <1>12, <2>2
  <2>3. CASE p # off
    <3>1. Filled(din[i]) /\ din[i].size = off
      BY <1>1, <1>11, <1>12, <1>13, <2>1 DEF Formed, Files, Alike
    <3>2. p \in 0 .. off - 1  BY <1>9, <2>1, <2>3
    <3> QED BY <3>1, <3>2 DEF Filled
  <2> QED BY <2>2, <2>3
<1>18. PICK d : d = WithInodeSize(din, i, off + 1)  OBVIOUS
<1>19. /\ Formed(a, d, c) /\ d[i].size = off + 1
       /\ \A j \in Inums : d[j].type = din[j].type /\ (j # i => d[j].size = din[j].size)
  <2>1. off + 1 \in 0 .. MAXFILE * BSIZE  BY <1>1, <1>9
  <2>2. PICK z : z = off + 1  OBVIOUS
  <2>3. i # ROOTINO => FilledTo(din[i], z)  BY <1>17, <2>2
  <2>4. d = WithInodeSize(din, i, z) /\ z \in 0 .. MAXFILE * BSIZE  BY <1>18, <2>1, <2>2
  <2>5. Formed(a, d, c) /\ d[i].size = z /\ \A j \in Inums : d[j].type = din[j].type
         /\ (j # i => d[j].size = din[j].size)  BY <1>16, <2>3, <2>4, FormedSize
  <2> QED BY <2>2, <2>5
<1>20. Image(t)  BY <1>6, <1>12, <1>14, <1>18, <1>19 DEF Image
<1>21. Longer(m.din, t.din, i, m.din[i].size + 1)
  BY <1>1, <1>6, <1>11, <1>12, <1>18, <1>19 DEF Longer, Alike
<1> QED BY <1>20, <1>21

\* The loop of iappend.
AppendLoop(m, i, units) ==
    CHOOSE f : f = [n \in 0 .. Len(units) |-> IF n = 0 THEN m ELSE AppendUnit(f[n - 1], i, units[n])]

LEMMA AppendTurns ==
  ASSUME NEW m, NEW i, NEW units \in Seq(UnitType), NEW f, f = AppendLoop(m, i, units)
  PROVE  f[0] = m /\ \A n \in 1 .. Len(units) : f[n] = AppendUnit(f[n - 1], i, units[n])
<1> DEFINE S == {n \in Nat : \E g : g = [p \in 0 .. n |->
                                IF p = 0 THEN m ELSE AppendUnit(g[p - 1], i, units[p])]}
<1>1. 0 \in S
  <2>1. PICK g : g = [p \in 0 .. 0 |-> m]  OBVIOUS
  <2>2. g = [p \in 0 .. 0 |-> IF p = 0 THEN m ELSE AppendUnit(g[p - 1], i, units[p])]  BY <2>1
  <2> QED BY <2>2
<1>2. ASSUME NEW n \in Nat, n \in S PROVE n + 1 \in S
  <2>1. PICK g : g = [p \in 0 .. n |-> IF p = 0 THEN m ELSE AppendUnit(g[p - 1], i, units[p])]
    BY <1>2
  <2>2. PICK h : h = [p \in 0 .. n + 1 |-> IF p = n + 1 THEN AppendUnit(g[n], i, units[n + 1]) ELSE g[p]]
    OBVIOUS
  <2>3. ASSUME NEW p \in 0 .. n + 1
        PROVE  h[p] = IF p = 0 THEN m ELSE AppendUnit(h[p - 1], i, units[p])
    <3>1. CASE p = n + 1
      <4>1. h[p] = AppendUnit(g[n], i, units[n + 1]) /\ h[n] = g[n] /\ p - 1 = n /\ p # 0
        BY <2>2, <3>1
      <4> QED BY <3>1, <4>1
    <3>2. CASE p # n + 1
      <4>1. h[p] = g[p] /\ p \in 0 .. n  BY <2>2, <3>2
      <4>2. p # 0 => h[p - 1] = g[p - 1]  BY <2>2, <3>2
      <4> QED BY <2>1, <4>1, <4>2
    <3> QED BY <3>1, <3>2
  <2>4. h = [p \in 0 .. n + 1 |-> IF p = 0 THEN m ELSE AppendUnit(h[p - 1], i, units[p])]
    BY <2>2, <2>3
  <2>5. n + 1 \in Nat  OBVIOUS
  <2>6. \E k : k = [p \in 0 .. n + 1 |-> IF p = 0 THEN m ELSE AppendUnit(k[p - 1], i, units[p])]
    BY <2>4
  <2> QED BY <2>5, <2>6
<1>3. Len(units) \in S
  <2> HIDE DEF S
  <2>1. \A n \in Nat : n \in S => n + 1 \in S  BY <1>2
  <2>2. Len(units) \in Nat  OBVIOUS
  <2> QED BY <1>1, <2>1, <2>2, NatsOf
<1>4. f = [n \in 0 .. Len(units) |-> IF n = 0 THEN m ELSE AppendUnit(f[n - 1], i, units[n])]
  BY <1>3 DEF AppendLoop
<1>5. Len(units) \in Nat  OBVIOUS
<1>6. f[0] = m
  <2>1. 0 \in 0 .. Len(units)  BY <1>5
  <2> QED BY <1>4, <2>1
<1>7. ASSUME NEW n \in 1 .. Len(units) PROVE f[n] = AppendUnit(f[n - 1], i, units[n])
  <2>1. n \in 0 .. Len(units) /\ n # 0  BY <1>5, <1>7
  <2> QED BY <1>4, <2>1
<1> QED BY <1>6, <1>7

LEMMA iappendIs ==
  ASSUME NEW m, NEW i, NEW units
  PROVE  iappend(m, i, units) = AppendLoop(m, i, units)[Len(units)]
  BY DEF iappend, AppendLoop

\* What may be appended, and what comes of it.
MayAppend(m, i, units) ==
    /\ Image(m) /\ m.din[i].type # T_NONE
    /\ m.din[i].size + Len(units) <= MAXFILE * BSIZE
    /\ i = ROOTINO => \A n \in 1 .. Len(units) : EntryNames(m.din, units[n])
Appended(m, t, i, n) == Image(t) /\ Longer(m.din, t.din, i, m.din[i].size + n)
Appending(m, t, i, units, n) ==
    Grows(m, t) /\ (MayAppend(m, i, units) /\ HasRoom(t) => Appended(m, t, i, n))

LEMMA AppendStep ==
  ASSUME NEW m, Builder(m), NEW i \in Inums, NEW units \in Seq(UnitType), NEW n \in Nat,
         n + 1 <= Len(units), NEW t, Appending(m, t, i, units, n),
         NEW v, v = AppendUnit(t, i, units[n + 1])
  PROVE  Appending(m, v, i, units, n + 1)
<1>1. Grows(m, t) /\ Builder(t)  BY DEF Appending, Grows
<1>2. Grows(t, v) /\ Grows(m, v)  BY <1>1, AppendGrows, GrowsTwice
<1>3. ASSUME MayAppend(m, i, units), HasRoom(v) PROVE Appended(m, v, i, n + 1)
  <2>1. HasRoom(t)  BY <1>1, <1>2, <1>3, Sizes DEF HasRoom, Grows, Builder
  <2>2. Image(t) /\ Longer(m.din, t.din, i, m.din[i].size + n)
    BY <1>3, <2>1 DEF Appending, Appended
  <2>3. PICK u : u = units[n + 1]  OBVIOUS
  <2>4. u \in UnitType /\ n + 1 \in 1 .. Len(units)  BY <2>3
  <2>5. m.din[i].size \in Nat
    <3>1. m.din \in [Inums -> InodeType]  BY <1>3 DEF MayAppend, Image, Formed
    <3>2. m.din[i].size \in 0 .. MAXFILE * BSIZE  BY <3>1 DEF InodeType
    <3>3. PICK z : z = MAXFILE * BSIZE  OBVIOUS
    <3> QED BY <3>2, <3>3, Sizes
  <2>6. t.din[i].type # T_NONE /\ t.din[i].size = m.din[i].size + n
    BY <1>3, <2>2 DEF Longer, MayAppend
  <2>7. t.din[i].size < MAXFILE * BSIZE
    <3>1. PICK z, l : z = MAXFILE * BSIZE /\ l = Len(units)  OBVIOUS
    <3>2. z \in Nat /\ l \in Nat  BY <3>1, Sizes
    <3>3. m.din[i].size + l <= z /\ n + 1 <= l  BY <1>3, <3>1 DEF MayAppend
    <3>4. t.din[i].size < z  BY <2>5, <2>6, <3>2, <3>3
    <3> QED BY <3>1, <3>4
  <2>8. i = ROOTINO => EntryNames(t.din, u)
    <3>1. i = ROOTINO => EntryNames(m.din, u)  BY <1>3, <2>3, <2>4 DEF MayAppend
    <3>2. \A j \in Inums : t.din[j].type = m.din[j].type  BY <2>2 DEF Longer
    <3> QED BY <3>1, <3>2 DEF EntryNames, IsFile
  <2>9. v = AppendUnit(t, i, u)  BY <2>3
  <2>10. Image(v) /\ Longer(t.din, v.din, i, t.din[i].size + 1)
    BY <1>1, <1>3, <2>2, <2>4, <2>6, <2>7, <2>8, <2>9, AppendImage
  <2>11. t.din[i].size + 1 = m.din[i].size + (n + 1)  BY <2>5, <2>6
  <2>12. Longer(m.din, v.din, i, m.din[i].size + (n + 1))  BY <2>2, <2>10, <2>11 DEF Longer
  <2> QED BY <2>10, <2>12 DEF Appended
<1> QED BY <1>2, <1>3 DEF Appending

LEMMA AppendAll ==
  ASSUME NEW m, Builder(m), NEW i \in Inums, NEW units \in Seq(UnitType),
         NEW t, t = iappend(m, i, units)
  PROVE  Appending(m, t, i, units, Len(units))
<1>1. PICK f : f = AppendLoop(m, i, units)  OBVIOUS
<1>2. f[0] = m /\ \A n \in 1 .. Len(units) : f[n] = AppendUnit(f[n - 1], i, units[n])
  BY <1>1, AppendTurns
<1>3. t = f[Len(units)] /\ Len(units) \in Nat  BY <1>1, iappendIs
<1> DEFINE S == {n \in Nat : n <= Len(units) => Appending(m, f[n], i, units, n)}
<1>4. 0 \in S
  <2>1. Grows(m, m)  BY DEF Grows, Builder
  <2>2. ASSUME MayAppend(m, i, units) PROVE Appended(m, m, i, 0)
    <3>1. m.din \in [Inums -> InodeType] /\ Image(m)  BY <2>2 DEF MayAppend, Image, Formed
    <3>2. m.din[i].size \in 0 .. MAXFILE * BSIZE  BY <3>1 DEF InodeType
    <3>3. PICK z : z = MAXFILE * BSIZE  OBVIOUS
    <3>4. m.din[i].size + 0 = m.din[i].size  BY <3>2, <3>3, Sizes
    <3> QED BY <3>1, <3>4 DEF Appended, Longer
  <2>3. Appending(m, m, i, units, 0)  BY <2>1, <2>2 DEF Appending
  <2> QED BY <1>2, <2>3
<1>5. ASSUME NEW n \in Nat, n \in S PROVE n + 1 \in S
  <2>1. SUFFICES ASSUME n + 1 <= Len(units) PROVE Appending(m, f[n + 1], i, units, n + 1)  OBVIOUS
  <2>2. PICK u, v : u = f[n] /\ v = f[n + 1]  OBVIOUS
  <2>3. Appending(m, u, i, units, n)  BY <1>3, <1>5, <2>1, <2>2
  <2>4. n + 1 \in 1 .. Len(units) /\ (n + 1) - 1 = n  BY <1>3, <2>1
  <2>5. v = AppendUnit(u, i, units[n + 1])  BY <1>2, <2>2, <2>4
  <2> QED BY <2>1, <2>2, <2>3, <2>5, AppendStep
<1>6. Len(units) \in S
  <2> HIDE DEF S
  <2>1. \A n \in Nat : n \in S => n + 1 \in S  BY <1>5
  <2> QED BY <1>3, <1>4, <2>1, NatsOf
<1> QED BY <1>3, <1>6

UnitsFrom(src) == [n \in DOMAIN src |-> Unit(src[n])]
LEMMA UnitsTyped ==
  ASSUME NEW src \in Seq(Nat), NEW units, units = UnitsFrom(src)
  PROVE  units \in Seq(UnitType) /\ Len(units) = Len(src)
<1>1. PICK n : n = Len(src)  OBVIOUS
<1>2. n \in Nat /\ DOMAIN src = 1 .. n /\ \A m \in 1 .. n : src[m] \in Nat  BY <1>1
<1>3. \A m \in 1 .. n : Unit(src[m]) \in UnitType  BY <1>2, UnitTyped
<1>4. units \in [1 .. n -> UnitType]  BY <1>2, <1>3 DEF UnitsFrom
<1> QED BY <1>1, <1>2, <1>4

NextInode(m) == [m EXCEPT !.freeinode = @ + 1]
LEMMA NextInodeIs ==
  ASSUME NEW m, Builder(m), NEW t, t = NextInode(m)
  PROVE  /\ Builder(t) /\ t.freeinode = m.freeinode + 1 /\ t.freeblock = m.freeblock
         /\ t.din = m.din /\ t.blk = m.blk
  BY DEF Builder, NextInode

LEMMA mkfsIallocIs ==
  ASSUME NEW m, Builder(m), NEW t, t = mkfsIalloc(m, T_FILE)
  PROVE  /\ Builder(t) /\ t.freeinode = m.freeinode + 1 /\ t.freeblock = m.freeblock
         /\ t.blk = m.blk /\ t.din = WithInode(m.din, m.freeinode, NewInode)
<1>1. PICK u : u = NextInode(m)  OBVIOUS
<1>2. t = winode(u, m.freeinode, NewInode)  BY <1>1 DEF mkfsIalloc, NextInode, NewInode
<1> QED BY <1>1, <1>2, NextInodeIs, WinodeIs

\* The program after n files.
Adding(m, n) ==
    /\ Builder(m) /\ m.freeinode = n + 2
    /\ HasRoom(m) => Image(m) /\ m.din[ROOTINO].size = n

FileType == [name : Names, data : Seq(Nat)]
MayAdd(n, f) == n + 2 < NINODES /\ n + 1 <= MAXFILE * BSIZE /\ Len(f.data) <= MAXFILE * BSIZE

LEMMA AddStep ==
  ASSUME NEW m, NEW n \in Nat, Adding(m, n), NEW f \in FileType, MayAdd(n, f),
         NEW t, t = AddFile(m, f)
  PROVE  Adding(t, n + 1)
<1>1. Builder(m) /\ m.freeinode = n + 2  BY DEF Adding
<1>2. PICK inum : inum = m.freeinode  OBVIOUS
<1>3. inum \in Inums /\ inum # ROOTINO /\ inum \in Nat /\ ROOTINO \in Inums
  BY <1>1, <1>2, Sizes DEF MayAdd, Inums, ROOTINO
<1>4. PICK k, e, u : k = mkfsIalloc(m, T_FILE) /\ e = NewEntry(inum, f.name) /\ u = UnitsFrom(f.data)
  OBVIOUS
<1>5. PICK a : a = iappend(k, ROOTINO, e)  OBVIOUS
<1>6. t = iappend(a, inum, u)  BY <1>2, <1>4, <1>5 DEF AddFile, NewEntry, UnitsFrom
<1>7. /\ Builder(k) /\ k.freeinode = n + 3 /\ k.freeblock = m.freeblock
      /\ k.blk = m.blk /\ k.din = WithInode(m.din, inum, NewInode)
  <2>1. (n + 2) + 1 = n + 3  OBVIOUS
  <2> QED BY <1>1, <1>2, <1>4, <2>1, mkfsIallocIs
<1>8. e \in Seq(UnitType) /\ Len(e) = 1 /\ e[1] = <<inum, f.name>>
  <2>1. f.name \in Names  BY DEF FileType
  <2> QED BY <1>3, <1>4, <2>1, NewEntryTyped
<1>9. u \in Seq(UnitType) /\ Len(u) = Len(f.data)
  <2>1. f.data \in Seq(Nat)  BY DEF FileType
  <2> QED BY <1>4, <2>1, UnitsTyped
<1>10. Appending(k, a, ROOTINO, e, 1) /\ Grows(k, a) /\ Builder(a)
  <2>1. Appending(k, a, ROOTINO, e, 1)  BY <1>3, <1>5, <1>7, <1>8, AppendAll
  <2> QED BY <2>1 DEF Appending, Grows
<1>11. Appending(a, t, inum, u, Len(u)) /\ Grows(a, t) /\ Builder(t)
  <2>1. Appending(a, t, inum, u, Len(u))  BY <1>3, <1>6, <1>9, <1>10, AppendAll
  <2> QED BY <2>1 DEF Appending, Grows
<1>12. t.freeinode = (n + 1) + 2  BY <1>7, <1>10, <1>11 DEF Grows
<1>13. ASSUME HasRoom(t) PROVE Image(t) /\ t.din[ROOTINO].size = n + 1
  <2>1. HasRoom(a) /\ HasRoom(k) /\ HasRoom(m)
    <3>1. t.freeblock \in Nat /\ a.freeblock \in Nat /\ k.freeblock \in Nat
          /\ t.freeblock >= a.freeblock /\ a.freeblock >= k.freeblock /\ t.freeblock <= FSSIZE
      BY <1>7, <1>10, <1>11, <1>13 DEF Grows, Builder, HasRoom
    <3> QED BY <1>7, <3>1, Sizes DEF HasRoom
  <2>2. Formed(m.freeblock, m.din, m.blk) /\ m.din[ROOTINO].size = n  BY <2>1 DEF Adding, Image
  <2>3. /\ Formed(m.freeblock, k.din, m.blk) /\ k.din[inum].size = 0 /\ k.din[inum].type = T_FILE
        /\ k.din[ROOTINO] = m.din[ROOTINO]  BY <1>3, <1>7, <2>2, FormedInode
  <2>4. Image(k) /\ k.din[ROOTINO].size = n  BY <1>7, <2>2, <2>3 DEF Image
  <2>5. MayAppend(k, ROOTINO, e)
    <3>1. k.din[ROOTINO].type # T_NONE  BY <2>3 DEF Formed, Files, T_DIR, T_NONE
    <3>2. n + 1 <= MAXFILE * BSIZE  BY DEF MayAdd
    <3>3. k.din[ROOTINO].size + Len(e) <= MAXFILE * BSIZE  BY <1>8, <2>4, <3>2
    <3>4. EntryNames(k.din, e[1])
      <4>1. e[1][1] = inum  BY <1>8
      <4> QED BY <1>3, <2>3, <4>1 DEF EntryNames, IsFile
    <3>5. \A p \in 1 .. Len(e) : EntryNames(k.din, e[p])  BY <1>8, <3>4
    <3> QED BY <2>4, <3>1, <3>3, <3>5 DEF MayAppend
  <2>6. Image(a) /\ Longer(k.din, a.din, ROOTINO, n + 1)
    BY <1>10, <2>1, <2>4, <2>5 DEF Appending, Appended
  <2>7. a.din[inum].size = 0 /\ a.din[inum].type = T_FILE /\ a.din[ROOTINO].size = n + 1
    BY <1>3, <2>3, <2>6 DEF Longer
  <2>8. MayAppend(a, inum, u)
    <3>1. a.din[inum].type # T_NONE  BY <2>7 DEF T_FILE, T_NONE
    <3>2. a.din[inum].size + Len(u) <= MAXFILE * BSIZE
      <4>1. Len(u) \in Nat /\ Len(u) <= MAXFILE * BSIZE  BY <1>9 DEF MayAdd
      <4>2. 0 + Len(u) = Len(u)  BY <4>1
      <4> QED BY <2>7, <4>1, <4>2
    <3> QED BY <1>3, <2>6, <3>1, <3>2 DEF MayAppend
  <2>9. Image(t) /\ Longer(a.din, t.din, inum, a.din[inum].size + Len(u))
    BY <1>11, <1>13, <2>8 DEF Appending, Appended
  <2>10. t.din[ROOTINO].size = n + 1  BY <1>3, <2>7, <2>9 DEF Longer
  <2> QED BY <2>9, <2>10
<1> QED BY <1>11, <1>12, <1>13 DEF Adding

LEMMA AddFirst ==
  ASSUME NEW t, t = mkfsIalloc(Formatted, T_DIR)
  PROVE  Adding(t, 0)
<1>1. PICK din, blk : din = [i \in Inums |-> FreeInode] /\ blk = [b \in Blocks |-> ZeroBlock]
  OBVIOUS
<1>2. PICK u : u = NextInode(Formatted)  OBVIOUS
<1>3. /\ Builder(Formatted) /\ Formatted.freeinode = 1 /\ Formatted.freeblock = NMETA
      /\ Formatted.din = din /\ Formatted.blk = blk  BY <1>1, Sizes DEF Formatted, Builder
<1>4. t = winode(u, 1, DirInode)  BY <1>2, <1>3 DEF mkfsIalloc, NextInode, DirInode
<1>5. /\ Builder(u) /\ u.freeinode = 2 /\ u.freeblock = NMETA /\ u.din = din /\ u.blk = blk
  BY <1>2, <1>3, NextInodeIs
<1>6. /\ Builder(t) /\ t.freeinode = 2 /\ t.freeblock = NMETA /\ t.blk = blk
      /\ t.din = WithInode(din, ROOTINO, DirInode)  BY <1>4, <1>5, WinodeIs DEF ROOTINO
<1>7. PICK d : d = [[i \in Inums |-> FreeInode] EXCEPT ![ROOTINO] = DirInode]  OBVIOUS
<1>8. Formed(NMETA, d, blk) /\ d[ROOTINO].size = 0  BY <1>1, <1>7, FormedFirst
<1>9. t.din = d  BY <1>1, <1>6, <1>7 DEF WithInode
<1>10. Image(t) /\ t.din[ROOTINO].size = 0  BY <1>6, <1>8, <1>9 DEF Image
<1> QED BY <1>6, <1>10 DEF Adding

\* The loop of mkfs over its files.
AddLoop(files) ==
    CHOOSE g : g = [n \in 0 .. Len(files) |->
                      IF n = 0 THEN mkfsIalloc(Formatted, T_DIR) ELSE AddFile(g[n - 1], files[n])]

LEMMA AddTurns ==
  ASSUME NEW files \in Seq(FileType), NEW g, g = AddLoop(files)
  PROVE  /\ g[0] = mkfsIalloc(Formatted, T_DIR)
         /\ \A n \in 1 .. Len(files) : g[n] = AddFile(g[n - 1], files[n])
<1>0. PICK m : m = mkfsIalloc(Formatted, T_DIR)  OBVIOUS
<1> DEFINE S == {n \in Nat : \E h : h = [p \in 0 .. n |->
                                IF p = 0 THEN m ELSE AddFile(h[p - 1], files[p])]}
<1>1. 0 \in S
  <2>1. PICK h : h = [p \in 0 .. 0 |-> m]  OBVIOUS
  <2>2. h = [p \in 0 .. 0 |-> IF p = 0 THEN m ELSE AddFile(h[p - 1], files[p])]  BY <2>1
  <2> QED BY <2>2
<1>2. ASSUME NEW n \in Nat, n \in S PROVE n + 1 \in S
  <2>1. PICK h : h = [p \in 0 .. n |-> IF p = 0 THEN m ELSE AddFile(h[p - 1], files[p])]  BY <1>2
  <2>2. PICK k : k = [p \in 0 .. n + 1 |-> IF p = n + 1 THEN AddFile(h[n], files[n + 1]) ELSE h[p]]
    OBVIOUS
  <2>3. ASSUME NEW p \in 0 .. n + 1
        PROVE  k[p] = IF p = 0 THEN m ELSE AddFile(k[p - 1], files[p])
    <3>1. CASE p = n + 1
      <4>1. k[p] = AddFile(h[n], files[n + 1]) /\ k[n] = h[n] /\ p - 1 = n /\ p # 0  BY <2>2, <3>1
      <4> QED BY <3>1, <4>1
    <3>2. CASE p # n + 1
      <4>1. k[p] = h[p] /\ p \in 0 .. n  BY <2>2, <3>2
      <4>2. p # 0 => k[p - 1] = h[p - 1]  BY <2>2, <3>2
      <4> QED BY <2>1, <4>1, <4>2
    <3> QED BY <3>1, <3>2
  <2>4. k = [p \in 0 .. n + 1 |-> IF p = 0 THEN m ELSE AddFile(k[p - 1], files[p])]  BY <2>2, <2>3
  <2>5. n + 1 \in Nat  OBVIOUS
  <2>6. \E h2 : h2 = [p \in 0 .. n + 1 |-> IF p = 0 THEN m ELSE AddFile(h2[p - 1], files[p])]
    BY <2>4
  <2> QED BY <2>5, <2>6
<1>3. Len(files) \in S
  <2> HIDE DEF S
  <2>1. \A n \in Nat : n \in S => n + 1 \in S  BY <1>2
  <2>2. Len(files) \in Nat  OBVIOUS
  <2> QED BY <1>1, <2>1, <2>2, NatsOf
<1>4. g = [n \in 0 .. Len(files) |-> IF n = 0 THEN m ELSE AddFile(g[n - 1], files[n])]
  BY <1>0, <1>3 DEF AddLoop
<1>5. Len(files) \in Nat  OBVIOUS
<1>6. g[0] = m
  <2>1. 0 \in 0 .. Len(files)  BY <1>5
  <2> QED BY <1>4, <2>1
<1>7. ASSUME NEW n \in 1 .. Len(files) PROVE g[n] = AddFile(g[n - 1], files[n])
  <2>1. n \in 0 .. Len(files) /\ n # 0  BY <1>5, <1>7
  <2> QED BY <1>4, <2>1
<1> QED BY <1>0, <1>6, <1>7

LEMMA BuiltIs ==
  ASSUME NEW files
  PROVE  Built(files) = AddLoop(files)[Len(files)]
  BY DEF Built, AddLoop

\* What fits.
LEMMA FitsIs ==
  ASSUME NEW files, Fits(files)
  PROVE  /\ files \in Seq(FileType) /\ Len(files) \in Nat
         /\ \A n \in Nat : n + 1 <= Len(files) => MayAdd(n, files[n + 1]) /\ files[n + 1] \in FileType
         /\ RootSize(Len(files)) \in 0 .. MAXFILE * BSIZE
         /\ HasRoom(Built(files))
<1>1. files \in Seq(FileType) /\ Len(files) \in Nat /\ DOMAIN files = 1 .. Len(files)
  BY DEF Fits, FileType
<1>2. PICK z, l, r : z = MAXFILE * BSIZE /\ l = Len(files) /\ r = RootSize(l)  OBVIOUS
<1>3. z \in Nat /\ l \in Nat /\ l + 1 < NINODES /\ NINODES \in Nat  BY <1>1, <1>2, Sizes DEF Fits
<1>4. r <= z  BY <1>2 DEF Fits
<1>5. r \in Nat /\ l < r
  <2>1. l = (l \div BSIZE) * BSIZE + (l % BSIZE) /\ l % BSIZE \in 0 .. BSIZE - 1 /\ l \div BSIZE \in Nat
    BY <1>3, DivIs
  <2>2. PICK q, o : q = l \div BSIZE /\ o = l % BSIZE  OBVIOUS
  <2>3. q \in Nat /\ l = q * BSIZE + o /\ o \in 0 .. BSIZE - 1 /\ BSIZE \in Nat /\ BSIZE > 0
    BY <2>1, <2>2, Sizes
  <2>4. r = (q + 1) * BSIZE  BY <1>2, <2>2 DEF RootSize
  <2>5. (q + 1) * BSIZE = q * BSIZE + BSIZE /\ q * BSIZE \in Nat  BY <2>3
  <2> QED BY <2>3, <2>4, <2>5
<1>6. ASSUME NEW n \in Nat, n + 1 <= Len(files)
      PROVE  MayAdd(n, files[n + 1]) /\ files[n + 1] \in FileType
  <2>1. n + 1 \in 1 .. Len(files)  BY <1>1, <1>6
  <2>2. files[n + 1] \in FileType  BY <1>1, <2>1
  <2>3. Len(files[n + 1].data) <= MAXFILE * BSIZE  BY <1>1, <2>1 DEF Fits
  <2>4. n + 2 < NINODES  BY <1>2, <1>3, <1>6
  <2>5. n + 1 <= MAXFILE * BSIZE
    <3>1. n + 1 <= z  BY <1>2, <1>3, <1>4, <1>5, <1>6
    <3> QED BY <1>2, <3>1
  <2> QED BY <2>2, <2>3, <2>4, <2>5 DEF MayAdd
<1>7. RootSize(Len(files)) \in 0 .. MAXFILE * BSIZE
  <2>1. r \in 0 .. z  BY <1>3, <1>4, <1>5
  <2> QED BY <1>2, <2>1
<1>8. HasRoom(Built(files))  BY DEF Fits, HasRoom
<1> QED BY <1>1, <1>6, <1>7, <1>8

LEMMA BuiltImage ==
  ASSUME NEW files, Fits(files), NEW m, m = Built(files)
  PROVE  Builder(m) /\ Image(m) /\ m.din[ROOTINO].size = Len(files)
<1>1. /\ files \in Seq(FileType) /\ Len(files) \in Nat
      /\ \A n \in Nat : n + 1 <= Len(files) => MayAdd(n, files[n + 1]) /\ files[n + 1] \in FileType
      /\ HasRoom(m)  BY FitsIs
<1>2. PICK g : g = AddLoop(files)  OBVIOUS
<1>3. /\ g[0] = mkfsIalloc(Formatted, T_DIR)
      /\ \A n \in 1 .. Len(files) : g[n] = AddFile(g[n - 1], files[n])  BY <1>1, <1>2, AddTurns
<1>4. m = g[Len(files)]  BY <1>2, BuiltIs
<1> DEFINE S == {n \in Nat : n <= Len(files) => Adding(g[n], n)}
<1>5. 0 \in S  BY <1>3, AddFirst
<1>6. ASSUME NEW n \in Nat, n \in S PROVE n + 1 \in S
  <2>1. SUFFICES ASSUME n + 1 <= Len(files) PROVE Adding(g[n + 1], n + 1)  OBVIOUS
  <2>2. PICK u, v, f : u = g[n] /\ v = g[n + 1] /\ f = files[n + 1]  OBVIOUS
  <2>3. Adding(u, n)  BY <1>1, <1>6, <2>1, <2>2
  <2>4. n + 1 \in 1 .. Len(files) /\ (n + 1) - 1 = n  BY <1>1, <2>1
  <2>5. v = AddFile(u, f)  BY <1>3, <2>2, <2>4
  <2>6. MayAdd(n, f) /\ f \in FileType  BY <1>1, <2>1, <2>2
  <2> QED BY <2>2, <2>3, <2>5, <2>6, AddStep
<1>7. Len(files) \in S
  <2> HIDE DEF S
  <2>1. \A n \in Nat : n \in S => n + 1 \in S  BY <1>6
  <2> QED BY <1>1, <1>5, <2>1, NatsOf
<1>8. Adding(m, Len(files))  BY <1>1, <1>4, <1>7
<1> QED BY <1>1, <1>8 DEF Adding

\* The disk is a sound one.
LEMMA mkfsSafe ==
  ASSUME NEW files, Fits(files), NEW w, w = mkfs(files)
  PROVE  w \in ImageType /\ Safe(w, FALSE)
<1>1. PICK m : m = Built(files)  OBVIOUS
<1>2. Builder(m) /\ Image(m) /\ m.din[ROOTINO].size = Len(files)  BY <1>1, BuiltImage
<1>3. PICK z : z = RootSize(Len(files))  OBVIOUS
<1>4. z \in 0 .. MAXFILE * BSIZE  BY <1>3, FitsIs
<1>5. PICK c : c = [m.din[ROOTINO] EXCEPT !.size = z]  OBVIOUS
<1>6. PICK t : t = winode(m, ROOTINO, c)  OBVIOUS
<1>7. /\ Builder(t) /\ t.freeblock = m.freeblock /\ t.blk = m.blk
      /\ t.din = WithInode(m.din, ROOTINO, c)  BY <1>2, <1>6, WinodeIs
<1>8. t.din = WithInodeSize(m.din, ROOTINO, z)  BY <1>5, <1>7 DEF WithInode, WithInodeSize
<1>9. w = [magic |-> t.magic, blk |-> t.blk, din |-> t.din, bmap |-> Below(t.freeblock)]
  <2>1. [rinode(m, ROOTINO) EXCEPT !.size = RootSize(@)] = c  BY <1>2, <1>3, <1>5 DEF rinode
  <2>2. w = [magic |-> winode(m, ROOTINO, [rinode(m, ROOTINO) EXCEPT !.size = RootSize(@)]).magic,
             blk |-> winode(m, ROOTINO, [rinode(m, ROOTINO) EXCEPT !.size = RootSize(@)]).blk,
             din |-> winode(m, ROOTINO, [rinode(m, ROOTINO) EXCEPT !.size = RootSize(@)]).din,
             bmap |-> Below(winode(m, ROOTINO, [rinode(m, ROOTINO) EXCEPT !.size = RootSize(@)]).freeblock)]
    BY <1>1, Zenon DEF mkfs, mkfsBalloc, Below
  <2> QED BY <1>6, <2>1, <2>2
<1>10. PICK a, din, blk : a = m.freeblock /\ din = m.din /\ blk = m.blk  OBVIOUS
<1>11. PICK d : d = WithInodeSize(din, ROOTINO, z)  OBVIOUS
<1>12. Formed(a, d, blk)
  <2>1. Formed(a, din, blk)  BY <1>2, <1>10 DEF Image
  <2> QED BY <1>4, <1>11, <2>1, Sizes, FormedSize
<1>13. w.magic = FSMAGIC /\ w.blk = blk /\ w.din = d /\ w.bmap = Below(a)
  BY <1>7, <1>8, <1>9, <1>10, <1>11 DEF Builder
<1>14. /\ d \in [Inums -> InodeType] /\ blk \in [Blocks -> Contents] /\ a \in NMETA .. FSSIZE
       /\ Sound(Below(a), d, blk) /\ Files(d) /\ Entered(d, blk)  BY <1>12 DEF Formed
<1>15. Below(a) \in [Blocks -> BOOLEAN]  BY DEF Below
<1>16. w \in ImageType  BY <1>9, <1>13, <1>14, <1>15 DEF ImageType
<1>17. w.bmap[0]
  <2>1. 0 < a /\ 0 \in Blocks  BY <1>14, Sizes
  <2>2. Below(a)[0]  BY <2>1, BelowIs
  <2> QED BY <1>13, <2>2
<1>18. Rooted(w)  BY <1>13, <1>14, <1>17 DEF Rooted, Files
<1>19. Right(w.bmap, w.din, w.blk)  BY <1>13, <1>14 DEF Right
<1> QED BY <1>16, <1>18, <1>19 DEF Safe

\* Handles are counted from here on.
INSTANCE FiniteSetTheorems

----
(* Open files and the references to the table. *)
HandlesOf(op, k) == {h \in Handles : op[h].ip = k}

LEMMA HandlesOfFinite ==
  ASSUME NEW op, NEW k
  PROVE  IsFiniteSet(HandlesOf(op, k)) /\ Cardinality(HandlesOf(op, k)) \in Nat
         /\ \A h \in HandlesOf(op, k) : Cardinality(HandlesOf(op, k)) > 0
<1>1. IsFiniteSet(HandlesOf(op, k))  BY FileSysAssumption, FS_Subset DEF HandlesOf
<1>2. Cardinality(HandlesOf(op, k)) \in Nat  BY <1>1, FS_CardinalityType
<1>3. ASSUME NEW h \in HandlesOf(op, k) PROVE Cardinality(HandlesOf(op, k)) > 0
  BY <1>1, <1>2, FS_EmptySet
<1> QED BY <1>1, <1>2, <1>3

HoldsFile(s, k) == k \in Slots /\ s.it[k].valid /\ s.it[k].copy.type = T_FILE

LEMMA HeldIs ==
  ASSUME NEW s, NEW op, Held(s, op)
  PROVE  /\ \A h \in Handles : op[h] = Closed \/ HoldsFile(s, op[h].ip)
         /\ \A k \in Slots : s.it[k].ref = Cardinality(HandlesOf(op, k))
  BY DEF Held, HoldsFile, HandlesOf

LEMMA HeldWhen ==
  ASSUME NEW s, NEW op, \A h \in Handles : op[h] = Closed \/ HoldsFile(s, op[h].ip),
         \A k \in Slots : s.it[k].ref = Cardinality(HandlesOf(op, k))
  PROVE  Held(s, op)
  BY DEF Held, HoldsFile, HandlesOf

LEMMA HeldCounted ==
  ASSUME NEW s, NEW op, Held(s, op)
  PROVE  AllCounted(s)
         /\ \A h \in Handles : op[h] # Closed =>
              /\ op[h].ip \in Slots /\ s.it[op[h].ip].ref > 0
              /\ InUse(s, op[h].ip) /\ s.it[op[h].ip].copy.type = T_FILE
<1>1. /\ \A h \in Handles : op[h] = Closed \/ HoldsFile(s, op[h].ip)
      /\ \A k \in Slots : s.it[k].ref = Cardinality(HandlesOf(op, k))  BY HeldIs
<1>2. Counted(s)  BY <1>1, HandlesOfFinite DEF Counted
<1>3. ASSUME NEW h \in Handles, op[h] # Closed
      PROVE  /\ op[h].ip \in Slots /\ s.it[op[h].ip].ref > 0
             /\ InUse(s, op[h].ip) /\ s.it[op[h].ip].copy.type = T_FILE
  <2>1. PICK k : k = op[h].ip  OBVIOUS
  <2>2. HoldsFile(s, k) /\ h \in HandlesOf(op, k)  BY <1>1, <1>3, <2>1 DEF HandlesOf
  <2>3. k \in Slots /\ s.it[k].ref > 0  BY <1>1, <2>2, HandlesOfFinite DEF HoldsFile
  <2>4. Busy(s, k) /\ InUse(s, k) /\ s.it[k].copy.type = T_FILE
    <3>1. s.it[k].valid /\ s.it[k].copy.type = T_FILE  BY <2>2 DEF HoldsFile
    <3>2. Busy(s, k)  BY <2>3 DEF Busy
    <3> QED BY <3>1, <3>2, Zenon DEF InUse
  <2> QED BY <2>1, <2>3, <2>4
<1> QED BY <1>2, <1>3 DEF AllCounted

\* A file that is referred to stays in its slot.
LEMMA HoldsFileStays ==
  ASSUME NEW s, NEW t, NEW k, HoldsFile(s, k), Pinned(s.it[k], t.it[k])
  PROVE  HoldsFile(t, k)
  BY Zenon DEF HoldsFile, Pinned

LEMMA HeldSame ==
  ASSUME NEW s, NEW op, Held(s, op), NEW t, Gains(s, t, 0), NEW oq,
         \A h \in Handles : oq[h].ip = op[h].ip /\ (op[h] = Closed => oq[h] = Closed)
  PROVE  Held(t, oq)
<1>1. /\ \A h \in Handles : op[h] = Closed \/ HoldsFile(s, op[h].ip)
      /\ \A k \in Slots : s.it[k].ref = Cardinality(HandlesOf(op, k))  BY HeldIs
<1>2. ASSUME NEW h \in Handles, op[h] # Closed PROVE HoldsFile(t, op[h].ip)
  <2>1. PICK k : k = op[h].ip  OBVIOUS
  <2>2. k \in Slots /\ s.it[k].ref > 0 /\ HoldsFile(s, k)  BY <1>1, <1>2, <2>1, HeldCounted
  <2>3. Pinned(s.it[k], t.it[k])  BY <2>2 DEF Gains
  <2> QED BY <2>1, <2>2, <2>3, HoldsFileStays
<1>3. ASSUME NEW k \in Slots PROVE t.it[k].ref = Cardinality(HandlesOf(oq, k))
  <2>1. HandlesOf(oq, k) = HandlesOf(op, k)  BY DEF HandlesOf
  <2>2. k # 0 /\ s.it[k].ref \in Int  BY <1>1, HandlesOfFinite DEF Slots
  <2>3. t.it[k].ref = s.it[k].ref + (IF k = 0 THEN 1 ELSE 0)  BY DEF Gains
  <2> QED BY <1>1, <2>1, <2>2, <2>3
<1>4. \A h \in Handles : oq[h] = Closed \/ HoldsFile(t, oq[h].ip)  BY <1>2
<1> QED BY <1>3, <1>4, HeldWhen

\* A handle is given to a file that was looked up.
Opened(op, h, k) == [op EXCEPT ![h] = [ip |-> k, off |-> 0]]

LEMMA HeldMore ==
  ASSUME NEW s, NEW op, Held(s, op), DOMAIN op = Handles, NEW h \in Handles, op[h] = Closed,
         NEW t, NEW k \in Slots, Gains(s, t, k), InUse(t, k), t.it[k].copy.type = T_FILE,
         NEW oq, oq = Opened(op, h, k)
  PROVE  Held(t, oq)
<1>1. /\ \A g \in Handles : op[g] = Closed \/ HoldsFile(s, op[g].ip)
      /\ \A l \in Slots : s.it[l].ref = Cardinality(HandlesOf(op, l))  BY HeldIs
<1>2. oq[h].ip = k /\ op[h].ip = 0 /\ \A g \in Handles \ {h} : oq[g] = op[g]  BY DEF Opened, Closed
<1>3. ASSUME NEW g \in Handles PROVE oq[g] = Closed \/ HoldsFile(t, oq[g].ip)
  <2>1. CASE g = h
    <3>1. HoldsFile(t, k)  BY DEF HoldsFile, InUse
    <3> QED BY <1>2, <2>1, <3>1
  <2>2. CASE g # h /\ op[g] = Closed  BY <1>2, <2>2
  <2>3. CASE g # h /\ op[g] # Closed
    <3>1. PICK l : l = op[g].ip  OBVIOUS
    <3>2. l \in Slots /\ s.it[l].ref > 0 /\ HoldsFile(s, l)  BY <1>1, <2>3, <3>1, HeldCounted
    <3>3. Pinned(s.it[l], t.it[l])  BY <3>2 DEF Gains
    <3>4. HoldsFile(t, l)  BY <3>2, <3>3, HoldsFileStays
    <3> QED BY <1>2, <2>3, <3>1, <3>4
  <2> QED BY <2>1, <2>2, <2>3
<1>4. ASSUME NEW l \in Slots PROVE t.it[l].ref = Cardinality(HandlesOf(oq, l))
  <2>1. l # 0  BY DEF Slots
  <2>2. t.it[l].ref = s.it[l].ref + (IF l = k THEN 1 ELSE 0)  BY DEF Gains
  <2>3. s.it[l].ref = Cardinality(HandlesOf(op, l)) /\ s.it[l].ref \in Nat
        /\ IsFiniteSet(HandlesOf(op, l))  BY <1>1, HandlesOfFinite
  <2>4. CASE l = k
    <3>1. HandlesOf(oq, l) = HandlesOf(op, l) \cup {h} /\ h \notin HandlesOf(op, l)
      BY <1>2, <2>1, <2>4 DEF HandlesOf
    <3>2. Cardinality(HandlesOf(oq, l)) = Cardinality(HandlesOf(op, l)) + 1
      BY <2>3, <3>1, FS_AddElement
    <3> QED BY <2>2, <2>3, <2>4, <3>2
  <2>5. CASE l # k
    <3>1. HandlesOf(oq, l) = HandlesOf(op, l)  BY <1>2, <2>1, <2>5 DEF HandlesOf
    <3> QED BY <2>2, <2>3, <2>5, <3>1
  <2> QED BY <2>4, <2>5
<1> QED BY <1>3, <1>4, HeldWhen

\* A handle is given back.
LEMMA HeldLess ==
  ASSUME NEW s, NEW op, Held(s, op), DOMAIN op = Handles, NEW h \in Handles, op[h] # Closed,
         NEW t, Drops(s, t, op[h].ip), NEW oq, oq = [op EXCEPT ![h] = Closed]
  PROVE  Held(t, oq)
<1>1. /\ \A g \in Handles : op[g] = Closed \/ HoldsFile(s, op[g].ip)
      /\ \A l \in Slots : s.it[l].ref = Cardinality(HandlesOf(op, l))  BY HeldIs
<1>2. oq[h] = Closed /\ oq[h].ip = 0 /\ \A g \in Handles \ {h} : oq[g] = op[g]  BY DEF Closed
<1>3. ASSUME NEW g \in Handles PROVE oq[g] = Closed \/ HoldsFile(t, oq[g].ip)
  <2>1. CASE g # h /\ op[g] # Closed
    <3>1. PICK l : l = op[g].ip  OBVIOUS
    <3>2. HoldsFile(s, l) /\ l \in Slots  BY <1>1, <2>1, <3>1 DEF HoldsFile
    <3>3. Pinned(s.it[l], t.it[l])  BY <3>2, Zenon DEF Drops
    <3>4. HoldsFile(t, l)  BY <3>2, <3>3, HoldsFileStays
    <3> QED BY <1>2, <2>1, <3>1, <3>4
  <2> QED BY <1>2, <2>1
<1>4. PICK k : k = op[h].ip  OBVIOUS
<1>5. ASSUME NEW l \in Slots PROVE t.it[l].ref = Cardinality(HandlesOf(oq, l))
  <2>1. l # 0  BY DEF Slots
  <2>2. t.it[l].ref = s.it[l].ref - (IF l = k THEN 1 ELSE 0)  BY <1>4 DEF Drops
  <2>3. s.it[l].ref = Cardinality(HandlesOf(op, l)) /\ s.it[l].ref \in Nat
        /\ IsFiniteSet(HandlesOf(op, l))  BY <1>1, HandlesOfFinite
  <2>4. CASE l = k
    <3>1. HandlesOf(oq, l) = HandlesOf(op, l) \ {h} /\ h \in HandlesOf(op, l)
      BY <1>2, <1>4, <2>1, <2>4 DEF HandlesOf
    <3>2. Cardinality(HandlesOf(oq, l)) = Cardinality(HandlesOf(op, l)) - 1
      BY <2>3, <3>1, FS_RemoveElement
    <3> QED BY <2>2, <2>3, <2>4, <3>2
  <2>5. CASE l # k
    <3>1. HandlesOf(oq, l) = HandlesOf(op, l)  BY <1>2, <1>4, <2>1, <2>5 DEF HandlesOf
    <3> QED BY <2>2, <2>3, <2>5, <3>1
  <2> QED BY <2>4, <2>5
<1> QED BY <1>3, <1>5, HeldWhen

----
(* What is left of a state between two calls. *)
LEMMA SettledFields ==
  ASSUME NEW s, Typed(s), NEW t, t = Settled(s)
  PROVE  /\ Typed(t) /\ t.bmap = s.bmap /\ t.din = s.din /\ t.blk = s.blk /\ t.why = s.why
         /\ t.log = <<OnDisk(s)>>
         /\ \A k \in Slots : /\ Busy(s, k) => t.it[k] = s.it[k]
                             /\ ~ Busy(s, k) => t.it[k] = FreeSlot
<1>1. OnDisk(s) \in ImageType  BY OnDiskTyped
<1>2. <<OnDisk(s)>> \in Seq(ImageType) /\ Len(<<OnDisk(s)>>) > 0  BY <1>1
<1>3. PICK x : x = [k \in Slots |-> IF Busy(s, k) THEN s.it[k] ELSE FreeSlot]  OBVIOUS
<1>4. x \in [Slots -> SlotType]  BY <1>3, Empties DEF Typed
<1>5. t = [s EXCEPT !.log = <<OnDisk(s)>>, !.ret = 0, !.it = x]  BY <1>3 DEF Settled
<1>6. Typed(t) /\ t.bmap = s.bmap /\ t.din = s.din /\ t.blk = s.blk /\ t.why = s.why
      /\ t.log = <<OnDisk(s)>> /\ t.it = x  BY <1>2, <1>4, <1>5 DEF Typed
<1> QED BY <1>3, <1>6

LEMMA SettledGood ==
  ASSUME NEW s, NEW cut, Ended(s, cut), s.why = "no", NEW t, t = Settled(s)
  PROVE  Good(t, {}, cut) /\ t.log = <<OnDisk(t)>> /\ t.why = "no"
<1>1. Typed(s) /\ s.bmap[0] /\ Safe(OnDisk(s), cut) /\ Live(s, {}, cut)  BY DEF Ended
<1>2. PICK u : u = [s EXCEPT !.log = <<OnDisk(s)>>]  OBVIOUS
<1>3. /\ Typed(u) /\ u.bmap = s.bmap /\ u.din = s.din /\ u.blk = s.blk /\ u.it = s.it
      /\ u.why = s.why /\ u.log = <<OnDisk(s)>>
  <2>1. OnDisk(s) \in ImageType  BY <1>1, OnDiskTyped
  <2>2. <<OnDisk(s)>> \in Seq(ImageType) /\ Len(<<OnDisk(s)>>) > 0  BY <2>1
  <2> QED BY <1>1, <1>2, <2>2 DEF Typed
<1>4. OnDisk(u) = OnDisk(s) /\ Range(u.log) = {OnDisk(s)}
  <2>1. DOMAIN u.log = {1} /\ u.log[1] = OnDisk(s) /\ Len(u.log) = 1  BY <1>3
  <2> QED BY <2>1 DEF Range, OnDisk
<1>5. LogGood(u, cut)  BY <1>1, <1>4 DEF LogGood
<1>6. /\ Cur(u) = Cur(s) /\ \A k : Busy(u, k) <=> Busy(s, k)
      /\ OneSlot(s) => OneSlot(u)
      /\ \A K : Stored(s, K) => Stored(u, K)
      /\ Table(s) /\ u.din = OnDisk(u).din => Table(u)  BY <1>3, SameCur
<1>7. Live(u, {}, cut)
  <2>1. Table(s) /\ Stored(s, {}) /\ (cut \/ Whole(s))  BY <1>1 DEF Live
  <2>2. Table(u) /\ Stored(u, {})
    <3>1. u.din = OnDisk(u).din  BY <1>3, <1>4, <2>1 DEF Table
    <3> QED BY <1>6, <2>1, <3>1
  <2>3. cut \/ Whole(u)  BY <1>3, <1>4, <1>6, <2>1 DEF Whole
  <2> QED BY <2>2, <2>3 DEF Live
<1>8. Good(u, {}, cut)  BY <1>1, <1>3, <1>5, <1>7, GoodWhen
<1>9. /\ Typed(t) /\ t.bmap = s.bmap /\ t.din = s.din /\ t.blk = s.blk /\ t.why = s.why
      /\ t.log = <<OnDisk(s)>>
      /\ \A k \in Slots : (Busy(s, k) => t.it[k] = s.it[k]) /\ (~ Busy(s, k) => t.it[k] = FreeSlot)
  BY <1>1, SettledFields
<1>10. ASSUME NEW k \in Slots, Busy(t, k) PROVE Busy(s, k) /\ t.it[k] = s.it[k]
  <2>1. CASE Busy(s, k)  BY <1>9, <2>1
  <2>2. CASE ~ Busy(s, k)
    <3>1. t.it[k] = FreeSlot  BY <1>9, <2>2
    <3> QED BY <1>10, <3>1 DEF Busy, FreeSlot
  <2> QED BY <2>1, <2>2
<1>11. OnlyTable(u, t)  BY <1>3, <1>9 DEF OnlyTable
<1>12. OneSlot(t)
  <2>1. OneSlot(s)  BY <1>1 DEF Live, Table, OneSlot
  <2> QED BY <1>10, <2>1 DEF OneSlot
<1>13. ASSUME NEW k \in Slots PROVE SlotStep(u, t, k)
  <2>1. Busy(t, k) => Busy(u, k) /\ t.it[k] = u.it[k]  BY <1>3, <1>6, <1>10
  <2>2. Busy(u, k) => u.it[k].inum \in Inums  BY <1>7 DEF Live, Table
  <2>3. Busy(t, k) => t.it[k].inum \in Inums  BY <2>1, <2>2
  <2>4. ASSUME InUse(t, k)
        PROVE  InUse(u, k) /\ t.it[k].inum = u.it[k].inum /\ t.it[k].copy = u.it[k].copy
    <3>1. Busy(t, k)  BY <2>4 DEF InUse
    <3>2. t.it[k] = u.it[k] /\ Busy(u, k)  BY <2>1, <3>1
    <3> QED BY <2>4, <3>2 DEF InUse
  <2> QED BY <2>3, <2>4 DEF SlotStep
<1>14. Good(t, {}, cut)  BY <1>8, <1>9, <1>11, <1>12, <1>13, TableGood
<1>15. t.log = <<OnDisk(t)>>
  <2>1. OnDisk(t) = OnDisk(s)  BY <1>9 DEF OnDisk
  <2> QED BY <1>9, <2>1
<1> QED BY <1>9, <1>14, <1>15

LEMMA SettledHeld ==
  ASSUME NEW s, Typed(s), NEW op, Held(s, op), NEW t, t = Settled(s)
  PROVE  Held(t, op)
<1>1. \A k \in Slots : (Busy(s, k) => t.it[k] = s.it[k]) /\ (~ Busy(s, k) => t.it[k] = FreeSlot)
  BY SettledFields
<1>2. /\ \A h \in Handles : op[h] = Closed \/ HoldsFile(s, op[h].ip)
      /\ \A k \in Slots : s.it[k].ref = Cardinality(HandlesOf(op, k))  BY HeldIs
<1>3. ASSUME NEW h \in Handles, op[h] # Closed PROVE HoldsFile(t, op[h].ip)
  <2>1. PICK k : k = op[h].ip  OBVIOUS
  <2>2. k \in Slots /\ Busy(s, k) /\ HoldsFile(s, k)  BY <1>2, <1>3, <2>1, HeldCounted DEF InUse
  <2>3. t.it[k] = s.it[k]  BY <1>1, <2>2
  <2> QED BY <2>1, <2>2, <2>3 DEF HoldsFile
<1>4. ASSUME NEW k \in Slots PROVE t.it[k].ref = s.it[k].ref
  <2>1. CASE Busy(s, k)  BY <1>1, <2>1
  <2>2. CASE ~ Busy(s, k)
    <3>1. t.it[k].ref = 0  BY <1>1, <2>2 DEF FreeSlot
    <3>2. s.it[k].ref \in Nat /\ ~ (s.it[k].ref > 0)  BY <1>2, <2>2, HandlesOfFinite DEF Busy
    <3> QED BY <3>1, <3>2
  <2> QED BY <2>1, <2>2
<1> QED BY <1>2, <1>3, <1>4, HeldWhen

----
(* What a call owes to the invariant. *)
LEMMA HeldByNobody ==
  ASSUME NEW t, t.it = EmptyTable
  PROVE  Held(t, AllClosed) /\ AllClosed \in OpenType
<1>1. ASSUME NEW k \in Slots PROVE t.it[k].ref = Cardinality(HandlesOf(AllClosed, k))
  <2>1. HandlesOf(AllClosed, k) = {}  BY DEF HandlesOf, AllClosed, Closed, Slots
  <2>2. Cardinality({}) = 0  BY FS_EmptySet
  <2> QED BY <2>1, <2>2, NobodyBusy
<1>2. \A h \in Handles : AllClosed[h] = Closed  BY DEF AllClosed
<1>3. Held(t, AllClosed)  BY <1>1, <1>2, HeldWhen
<1>4. AllClosed \in OpenType
  <2> DEFINE M == MAXFILE * BSIZE
  <2>1. M \in Nat  BY Sizes
  <2> HIDE DEF M
  <2>2. Closed \in [ip : {0} \cup Slots, off : 0 .. M]  BY <2>1 DEF Closed
  <2> QED BY <2>2 DEF AllClosed, OpenType, M
<1> QED BY <1>3, <1>4

\* The machine stops and starts again on a disk.
StartsAt(image, why) == fs' = Stopped(image, why) /\ open' = AllClosed
LEMMA StartsGood ==
  ASSUME NEW w \in ImageType, NEW why, StartsAt(w, why), Safe(w, torn')
  PROVE  FsInv' /\ open' \in OpenType /\ fs'.why = why
<1>1. PICK t : t = fs'  OBVIOUS
<1>2. Started(t, w, why)  BY <1>1, StoppedFields DEF StartsAt
<1>3. Good(t, {}, torn') /\ t.log = <<OnDisk(t)>> /\ OnDisk(t) = w  BY <1>2, StartedGood
<1>4. t.why = why /\ t.it = EmptyTable  BY <1>2 DEF Started
<1>5. Held(t, AllClosed) /\ AllClosed \in OpenType  BY <1>4, HeldByNobody
<1>6. t = [Mount(OnDisk(t)) EXCEPT !.why = t.why]  BY <1>1, <1>3, <1>4 DEF StartsAt, Stopped
<1>7. open' = AllClosed  BY DEF StartsAt
<1>8. FsInv'  BY <1>1, <1>3, <1>5, <1>6, <1>7 DEF FsInv
<1> QED BY <1>1, <1>4, <1>5, <1>7, <1>8

LEMMA EndedDisk ==
  ASSUME NEW s, NEW cut, Ended(s, cut)
  PROVE  /\ OnDisk(s) \in ImageType /\ Safe(OnDisk(s), cut)
         /\ \A n \in 1 .. Len(s.log) - 1 :
              s.log[n] \in Range(s.log) /\ s.log[n] \in ImageType /\ Legal(s.log[n], cut)
<1>1. Typed(s) /\ Safe(OnDisk(s), cut) /\ \A w \in Range(s.log) : Legal(w, cut)  BY DEF Ended
<1>2. OnDisk(s) \in ImageType /\ Range(s.log) \subseteq ImageType  BY <1>1, LastImage
<1>3. s.log \in Seq(ImageType) /\ Len(s.log) \in Nat  BY <1>1 DEF Typed
<1>4. ASSUME NEW n \in 1 .. Len(s.log) - 1
      PROVE  s.log[n] \in Range(s.log)
  <2>1. n \in 1 .. Len(s.log) /\ DOMAIN s.log = 1 .. Len(s.log)  BY <1>3
  <2> QED BY <2>1 DEF Range
<1> QED BY <1>1, <1>2, <1>4

LEMMA ReturnsKeep ==
  ASSUME Inv, NEW r, CallOK(r), Returns(r)
  PROVE  Inv'
<1>1. /\ r.s.why = "no" /\ fs' = Settled(r.s) /\ open' = r.open
      /\ crashes' = crashes /\ torn' = torn  BY DEF Returns
<1>2. Good(fs', {}, torn) /\ fs'.log = <<OnDisk(fs')>> /\ fs'.why = "no"
  BY <1>1, SettledGood DEF CallOK
<1>3. Held(fs', open')  BY <1>1, SettledHeld DEF CallOK, Ended
<1>4. FsInv'  BY <1>1, <1>2, <1>3 DEF FsInv
<1>5. doubt' \subseteq Inums
  <2>1. doubt \subseteq Inums /\ (r.kind = "fault" => r.file \in Inums)  BY DEF Inv, CallOK
  <2> QED BY <2>1 DEF Returns
<1>6. open' \in OpenType /\ (torn' \/ fs'.why \in {"no"} \cup Room)  BY <1>1, <1>2 DEF CallOK
<1>7. OpenType' = OpenType /\ crashes' \in 0 .. MaxCrash /\ torn' \in BOOLEAN
  BY <1>1 DEF Inv, OpenType
<1> QED BY <1>4, <1>5, <1>6, <1>7 DEF Inv

LEMMA StopsDoubt ==
  ASSUME Inv, NEW r, CallOK(r), NEW w, NEW why, StopsAt(r, w, why)
  PROVE  doubt' \subseteq Inums /\ StartsAt(w, why)
<1>1. doubt \subseteq Inums /\ (r.kind \in {"write", "fault"} => r.file \in Inums)
  BY DEF Inv, CallOK
<1>2. doubt' \subseteq Inums  BY <1>1 DEF StopsAt
<1>3. StartsAt(w, why)  BY DEF StopsAt, StartsAt, Stopped
<1> QED BY <1>2, <1>3

LEMMA PanicsKeep ==
  ASSUME Inv, fs.why = "no", NEW r, CallOK(r), Panics(r)
  PROVE  Inv'
<1>1. PICK w, why : w = OnDisk(r.s) /\ why = r.s.why  OBVIOUS
<1>2. why # "no" /\ StopsAt(r, w, why) /\ crashes' = crashes /\ torn' = torn  BY <1>1 DEF Panics
<1>3. doubt' \subseteq Inums /\ StartsAt(w, why)  BY <1>2, StopsDoubt
<1>4. w \in ImageType /\ Safe(w, torn')  BY <1>1, <1>2, EndedDisk DEF CallOK
<1>5. FsInv' /\ open' \in OpenType /\ fs'.why = why  BY <1>3, <1>4, StartsGood
<1>6. torn \/ why \in Room  BY <1>1, <1>2 DEF CallOK, Goes
<1>7. crashes' \in 0 .. MaxCrash /\ torn' \in BOOLEAN  BY <1>2 DEF Inv
<1> QED BY <1>2, <1>3, <1>5, <1>6, <1>7 DEF Inv, OpenType

LEMMA CrashesKeep ==
  ASSUME Inv, NEW r, CallOK(r), Crashes(r)
  PROVE  Inv'
<1>1. PICK n \in 1 .. Len(r.s.log) - 1 :
        /\ StopsAt(r, r.s.log[n], "no")
        /\ torn' = (torn \/ (r.kind = "trunc" /\ Unmarked(r.s.log[n])))  BY DEF Crashes
<1>2. PICK w : w = r.s.log[n]  OBVIOUS
<1>3. StopsAt(r, w, "no") /\ torn' = (torn \/ (r.kind = "trunc" /\ Unmarked(w)))  BY <1>1, <1>2
<1>4. doubt' \subseteq Inums /\ StartsAt(w, "no")  BY <1>3, StopsDoubt
<1>5. w \in ImageType /\ w \in Range(r.s.log) /\ Legal(w, torn)  BY <1>2, EndedDisk DEF CallOK
<1>6. torn \in BOOLEAN /\ torn' \in BOOLEAN  BY <1>3 DEF Inv
<1>7. Safe(w, torn')
  <2>1. CASE r.kind = "trunc"
    <3>1. Rooted(w) /\ (torn \/ Right(w.bmap, w.din, w.blk) \/ Unmarked(w))  BY <1>5 DEF Legal
    <3>2. torn' <=> (torn \/ Unmarked(w))  BY <1>3, <1>6, <2>1
    <3> QED BY <3>1, <3>2 DEF Safe
  <2>2. CASE r.kind # "trunc"
    <3>1. Safe(w, torn)  BY <1>5, <2>2 DEF CallOK, LogGood
    <3>2. torn => torn'  BY <1>3, <1>6
    <3> QED BY <3>1, <3>2 DEF Safe
  <2> QED BY <2>1, <2>2
<1>8. FsInv' /\ open' \in OpenType /\ fs'.why = "no"  BY <1>4, <1>5, <1>7, StartsGood
<1>9. crashes' \in 0 .. MaxCrash
  <2>1. crashes < MaxCrash /\ crashes' = crashes + 1 /\ crashes \in 0 .. MaxCrash /\ MaxCrash \in Nat
    BY FileSysAssumption DEF Crashes, Inv
  <2> QED BY <2>1
<1> QED BY <1>4, <1>6, <1>8, <1>9 DEF Inv, OpenType

LEMMA PerformedKeeps ==
  ASSUME Inv, NEW r, fs.why = "no" => CallOK(r), Performed(r)
  PROVE  Inv'
<1>1. fs.why = "no" /\ (Returns(r) \/ Panics(r) \/ Crashes(r))  BY DEF Performed
<1> QED BY <1>1, ReturnsKeep, PanicsKeep, CrashesKeep

LEMMA RebootKeeps ==
  ASSUME Inv, Reboot
  PROVE  Inv'
<1>1. PICK w : w = OnDisk(fs)  OBVIOUS
<1>2. /\ fs.why # "no" /\ crashes < MaxCrash /\ crashes' = crashes + 1 /\ fs' = Mount(w)
      /\ open' = open /\ doubt' = doubt /\ torn' = torn  BY <1>1 DEF Reboot
<1>3. Good(fs, {}, torn) /\ open = AllClosed  BY <1>2 DEF Inv, FsInv
<1>4. Ended(fs, torn)  BY <1>3, GoodEnds
<1>5. w \in ImageType /\ Safe(w, torn)  BY <1>1, <1>4, EndedDisk
<1>6. StartsAt(w, "no") /\ Safe(w, torn')  BY <1>2, <1>3, <1>5, MountIs DEF StartsAt
<1>7. FsInv' /\ open' \in OpenType /\ fs'.why = "no"  BY <1>5, <1>6, StartsGood
<1>8. crashes' \in 0 .. MaxCrash
  <2>1. crashes \in 0 .. MaxCrash /\ MaxCrash \in Nat  BY FileSysAssumption DEF Inv
  <2> QED BY <1>2, <2>1
<1>9. doubt' \subseteq Inums /\ torn' \in BOOLEAN  BY <1>2 DEF Inv
<1> QED BY <1>7, <1>8, <1>9 DEF Inv, OpenType

----
(* The calls. *)
LEMMA InvIs ==
  ASSUME Inv, fs.why = "no"
  PROVE  /\ Good(fs, {}, torn) /\ torn \in BOOLEAN /\ AllCounted(fs) /\ Held(fs, open)
         /\ open \in OpenType /\ Typed(fs)
         /\ \A h \in Handles : open[h] # Closed =>
              /\ open[h].ip \in Slots /\ fs.it[open[h].ip].ref > 0
              /\ InUse(fs, open[h].ip) /\ fs.it[open[h].ip].copy.type = T_FILE
              /\ fs.it[open[h].ip].inum \in Inums \ {ROOTINO}
<1>1. Good(fs, {}, torn) /\ torn \in BOOLEAN /\ Held(fs, open) /\ open \in OpenType /\ Typed(fs)
  BY DEF Inv, FsInv, Good, Ordered
<1>2. AllCounted(fs)  BY <1>1, HeldCounted
<1>3. ASSUME NEW h \in Handles, open[h] # Closed
      PROVE  /\ open[h].ip \in Slots /\ fs.it[open[h].ip].ref > 0
             /\ InUse(fs, open[h].ip) /\ fs.it[open[h].ip].copy.type = T_FILE
             /\ fs.it[open[h].ip].inum \in Inums \ {ROOTINO}
  <2>1. PICK k : k = open[h].ip  OBVIOUS
  <2>2. /\ k \in Slots /\ fs.it[k].ref > 0 /\ InUse(fs, k) /\ fs.it[k].copy.type = T_FILE
    BY <1>1, <1>3, <2>1, HeldCounted
  <2>3. Table(fs) /\ fs.din[ROOTINO].type = T_DIR  BY <1>1, GoodIs, RootType DEF Live
  <2>4. fs.it[k].inum \in Inums /\ fs.it[k].copy.type = fs.din[fs.it[k].inum].type
    BY <2>2, <2>3 DEF Table, InUse
  <2>5. fs.it[k].inum # ROOTINO  BY <2>2, <2>3, <2>4 DEF T_FILE, T_DIR
  <2> QED BY <2>1, <2>2, <2>4, <2>5
<1> QED BY <1>1, <1>2, <1>3

\* A call that leaves the handles as they are.
Calm(r) == r.open = open /\ r.kind \notin {"trunc", "write", "fault"}
LEMMA DoesCall ==
  ASSUME Inv, fs.why = "no", NEW r, NEW s, r.s = s, Does(fs, s, 0, torn), Calm(r)
  PROVE  CallOK(r)
<1>1. Good(s, {}, torn) /\ Goes(fs, s, torn)  BY DoesGood
<1>2. Ended(s, torn) /\ LogGood(s, torn)  BY <1>1, GoodEnds
<1>3. s.why = "no" => Held(s, open)
  <2>1. Held(fs, open)  BY InvIs
  <2>2. s.why = "no" => Gains(fs, s, 0)  BY DEF Does
  <2> QED BY <2>1, <2>2, HeldSame
<1>4. open \in OpenType  BY InvIs
<1> QED BY <1>1, <1>2, <1>3, <1>4 DEF CallOK, Calm

LEMMA UnlinkOK ==
  ASSUME Inv, fs.why = "no", NEW name \in Names, NEW c, c = UnlinkResult(name)
  PROVE  CallOK(c)
<1>1. PICK r : r = root_dir(fs)  OBVIOUS
<1>2. PICK dp : dp = r.ret  OBVIOUS
<1>3. /\ Good(fs, {}, torn) /\ torn \in BOOLEAN /\ AllCounted(fs)  BY InvIs
<1>4. Does(fs, r, dp, torn) /\ Dir(r, dp) /\ Good(r, {}, torn) /\ dp \in Slots
  BY <1>1, <1>2, <1>3, RootDirGood, DoesGood DEF Dir
<1>5. PICK l : l = dirlookup(r, dp, name)  OBVIOUS
<1>6. PICK x : x = l.ret  OBVIOUS
<1>7. Does(r, l, x, torn) /\ x \in {0} \cup Slots /\ Good(l, {}, torn)
  BY <1>3, <1>4, <1>5, <1>6, DirlookupGood, DoesGood
<1>8. CASE x = 0
  <2>1. PICK f : f = Forget(l, dp)  OBVIOUS
  <2>2. Does(r, l, 0, torn)  BY <1>7, <1>8
  <2>3. Does(fs, f, 0, torn)  BY <1>3, <1>4, <2>1, <2>2, DoesDrop
  <2>4. c = Result(f, open, <<-1>>, "unlink", 0)
    BY <1>1, <1>2, <1>5, <1>6, <1>8, <2>1 DEF UnlinkResult
  <2>5. c.s = f /\ Calm(c)  BY <2>4 DEF Result, Calm
  <2> QED BY <2>3, <2>5, DoesCall
<1>9. CASE x # 0
  <2>1. PICK f : f = Forget(l, x)  OBVIOUS
  <2>2. x \in Slots /\ AllCounted(r) /\ Does(l, l, 0, torn)  BY <1>4, <1>7, <1>9, DoesSelf DEF Dir
  <2>3. Does(r, f, 0, torn)  BY <1>4, <1>7, <2>1, <2>2, DoesDrop
  <2>4. Good(f, {}, torn) /\ Dir(f, dp)  BY <1>4, <2>3, DoesGood, DirStays
  <2>5. PICK d : d = dirunlink(f, dp, name)  OBVIOUS
  <2>6. Does(f, d, 0, torn)  BY <1>3, <2>4, <2>5, DirunlinkGood
  <2>7. Does(r, d, 0, torn)  BY <1>4, <2>3, <2>6, DoesThen
  <2>8. PICK g : g = Forget(d, dp)  OBVIOUS
  <2>9. Does(fs, g, 0, torn)  BY <1>3, <1>4, <2>7, <2>8, DoesDrop
  <2>10. c = Result(g, open, <<d.ret>>, "unlink", 0)
    BY <1>1, <1>2, <1>5, <1>6, <1>9, <2>1, <2>5, <2>8 DEF UnlinkResult
  <2>11. c.s = g /\ Calm(c)  BY <2>10 DEF Result, Calm
  <2> QED BY <2>9, <2>11, DoesCall
<1> QED BY <1>8, <1>9

LEMMA LinkOK ==
  ASSUME Inv, fs.why = "no", NEW old \in Names, NEW new \in Names, NEW c, c = LinkResult(old, new)
  PROVE  CallOK(c)
<1>1. PICK r : r = root_dir(fs)  OBVIOUS
<1>2. PICK dp : dp = r.ret  OBVIOUS
<1>3. /\ Good(fs, {}, torn) /\ torn \in BOOLEAN /\ AllCounted(fs)  BY InvIs
<1>4. Does(fs, r, dp, torn) /\ Dir(r, dp) /\ Good(r, {}, torn) /\ dp \in Slots
  BY <1>1, <1>2, <1>3, RootDirGood, DoesGood DEF Dir
<1>5. PICK l : l = dirlookup(r, dp, old)  OBVIOUS
<1>6. PICK x : x = l.ret  OBVIOUS
<1>7. Does(r, l, x, torn) /\ x \in {0} \cup Slots /\ Good(l, {}, torn)
      /\ (l.why = "no" => LooksUp(r, l, old, torn))
  BY <1>3, <1>4, <1>5, <1>6, DirlookupGood, DoesGood
<1>8. CASE strncmp(old, new, DIRSIZ) = 0
  <2>1. PICK f : f = Forget(r, dp)  OBVIOUS
  <2>2. Does(r, r, 0, torn)  BY <1>4, DoesSelf
  <2>3. Does(fs, f, 0, torn)  BY <1>3, <1>4, <2>1, <2>2, DoesDrop
  <2>4. c = Result(f, open, <<-1>>, "link", 0)  BY <1>1, <1>2, <1>8, <2>1 DEF LinkResult
  <2>5. c.s = f /\ Calm(c)  BY <2>4 DEF Result, Calm
  <2> QED BY <2>3, <2>5, DoesCall
<1>9. CASE strncmp(old, new, DIRSIZ) # 0 /\ x = 0
  <2>1. PICK f : f = Forget(l, dp)  OBVIOUS
  <2>2. Does(r, l, 0, torn)  BY <1>7, <1>9
  <2>3. Does(fs, f, 0, torn)  BY <1>3, <1>4, <2>1, <2>2, DoesDrop
  <2>4. c = Result(f, open, <<-1>>, "link", 0)  BY <1>1, <1>2, <1>5, <1>6, <1>9, <2>1 DEF LinkResult
  <2>5. c.s = f /\ Calm(c)  BY <2>4 DEF Result, Calm
  <2> QED BY <2>3, <2>5, DoesCall
<1>10. CASE strncmp(old, new, DIRSIZ) # 0 /\ x # 0
  <2>1. PICK i : i = Inum(l, x)  OBVIOUS
  <2>2. x \in Slots /\ Typed(l)  BY <1>7, <1>10 DEF Good, Ordered
  <2>3. i \in Nat
    <3>1. l.it[x].inum \in {0} \cup Inums  BY <2>2 DEF Typed, SlotType
    <3> QED BY <2>1, <3>1 DEF Inum, Inums
  <2>4. l.why = "no" => torn \/ IsFile(l.din, i)
    BY <1>6, <1>7, <1>10, <2>1 DEF LooksUp, Refers, Inum
  <2>5. PICK d : d = dirlink(l, dp, new, i)  OBVIOUS
  <2>6. Dir(l, dp)  BY <1>4, <1>7, DirStays
  <2>7. Does(l, d, 0, torn)  BY <1>3, <1>7, <2>3, <2>4, <2>5, <2>6, DirlinkGood
  <2>8. PICK f : f = Forget(d, x)  OBVIOUS
  <2>9. AllCounted(r)  BY <1>4 DEF Dir
  <2>10. Does(r, f, 0, torn)  BY <1>4, <1>7, <2>2, <2>7, <2>8, <2>9, DoesDrop
  <2>11. PICK g : g = Forget(f, dp)  OBVIOUS
  <2>12. Does(fs, g, 0, torn)  BY <1>3, <1>4, <2>10, <2>11, DoesDrop
  <2>13. c = Result(g, open, <<d.ret>>, "link", 0)
    BY <1>1, <1>2, <1>5, <1>6, <1>10, <2>1, <2>5, <2>8, <2>11 DEF LinkResult
  <2>14. c.s = g /\ Calm(c)  BY <2>13 DEF Result, Calm
  <2> QED BY <2>12, <2>14, DoesCall
<1> QED BY <1>8, <1>9, <1>10

LEMMA FstatOK ==
  ASSUME Inv, fs.why = "no", NEW h, NEW ok, NEW c, c = FstatResult(h, ok)
  PROVE  CallOK(c)
<1>1. PICK r : r = root_dir(fs)  OBVIOUS
<1>2. PICK dp : dp = r.ret  OBVIOUS
<1>3. /\ Good(fs, {}, torn) /\ torn \in BOOLEAN /\ AllCounted(fs)  BY InvIs
<1>4. Does(fs, r, dp, torn) /\ Dir(r, dp) /\ Good(r, {}, torn) /\ dp \in Slots
  BY <1>1, <1>2, <1>3, RootDirGood, DoesGood DEF Dir
<1>5. PICK n : n = r.it[dp].copy.size  OBVIOUS
<1>6. n \in Nat  BY <1>4, <1>5, ReadLenTyped DEF Good, Ordered
<1>7. PICK t : t = readi(r, dp, 0, n)  OBVIOUS
<1>8. Reading(r, t, {}, torn)
  <2>1. r.why = "no" => InUse(r, dp)  BY <1>4 DEF Dir, IsRoot
  <2> QED BY <1>3, <1>4, <1>6, <1>7, <2>1, ReadiGood
<1>9. Does(r, t, 0, torn)
  <2>1. Typed(r)  BY <1>4 DEF Good, Ordered
  <2> QED BY <1>8, <2>1, WidenedGains DEF Reading, Same, Does
<1>10. PICK f : f = Forget(t, dp)  OBVIOUS
<1>11. Does(fs, f, 0, torn)  BY <1>3, <1>4, <1>9, <1>10, DoesDrop
<1>12. \E v : c = Result(f, open, v, "fstat", 0)  BY <1>1, <1>2, <1>5, <1>7, <1>10 DEF FstatResult
<1>13. c.s = f /\ Calm(c)  BY <1>12 DEF Result, Calm
<1> QED BY <1>11, <1>13, DoesCall

LEMMA CloseOK ==
  ASSUME Inv, fs.why = "no", NEW h \in Handles, open[h] # Closed, NEW c,
         c = Result(iput(fs, open[h].ip), [open EXCEPT ![h] = Closed], << 0 >>, "close", 0)
  PROVE  CallOK(c)
<1>1. PICK k : k = open[h].ip  OBVIOUS
<1>2. PICK s : s = iput(fs, k)  OBVIOUS
<1>3. /\ Good(fs, {}, torn) /\ torn \in BOOLEAN /\ Held(fs, open) /\ open \in OpenType
      /\ k \in Slots /\ fs.it[k].ref > 0  BY <1>1, InvIs
<1>4. MayDrop(fs, k)  BY <1>3 DEF MayDrop, Busy
<1>5. Good(s, {}, torn) /\ Goes(fs, s, torn) /\ Drops(fs, s, k)  BY <1>2, <1>3, <1>4, DropGood
<1>6. PICK op : op = [open EXCEPT ![h] = Closed]  OBVIOUS
<1>7. Held(s, op)
  <2>1. DOMAIN open = Handles  BY <1>3 DEF OpenType
  <2> QED BY <1>1, <1>3, <1>5, <1>6, <2>1, HeldLess
<1>8. op \in OpenType
  <2>1. AllClosed \in OpenType
    <3>1. PICK w : w = [it |-> EmptyTable]  OBVIOUS
    <3>2. w.it = EmptyTable  BY <3>1
    <3> QED BY <3>2, HeldByNobody
  <2>2. AllClosed[h] = Closed  BY DEF AllClosed
  <2> QED BY <1>3, <1>6, <2>1, <2>2 DEF OpenType
<1>9. c.s = s /\ c.open = op /\ c.kind = "close"  BY <1>1, <1>2, <1>6 DEF Result
<1>10. Ended(s, torn) /\ LogGood(s, torn)  BY <1>5, GoodEnds
<1> QED BY <1>5, <1>7, <1>8, <1>9, <1>10 DEF CallOK

----
(* fileopen. *)
NotFile == "unsupported file inode type"
OpenFound(name, creat) ==
    IF creat THEN create(fs, name, T_FILE)
    ELSE IF namei(fs, name).ret = 0 THEN namei(fs, name) ELSE ivalid(namei(fs, name), namei(fs, name).ret)
OpenFd(s, ip, trunc) ==
    IF FreeHandles = {} THEN Result(iput(s, ip), open, <<-1>>, "open", 0)
    ELSE Result(IF trunc THEN itrunc(s, ip) ELSE s,
                [open EXCEPT ![Min(FreeHandles)] = [ip |-> ip, off |-> 0]], <<Min(FreeHandles)>>,
                IF trunc THEN "trunc" ELSE "open", Inum(s, ip))

LEMMA NotFileIsPanic == NotFile # "no"
  BY DEF NotFile

LEMMA OpenIs ==
  ASSUME NEW name, NEW creat, NEW trunc, NEW v, v = OpenFound(name, creat)
  PROVE  OpenResult(name, creat, trunc) =
           IF v.ret = 0 THEN Result(v, open, <<-1>>, "open", 0)
           ELSE OpenFd(IF v.it[v.ret].copy.type = T_FILE THEN v ELSE Panic(v, NotFile), v.ret, trunc)
<1> DEFINE V == OpenFound(name, creat)
<1>1. OpenResult(name, creat, trunc) =
        IF V.ret = 0 THEN Result(V, open, <<-1>>, "open", 0)
        ELSE OpenFd(IF V.it[V.ret].copy.type = T_FILE THEN V ELSE Panic(V, NotFile), V.ret, trunc)
  BY DEF OpenResult, OpenFound, OpenFd, NotFile
<1> QED BY <1>1

LEMMA OpenFoundGood ==
  ASSUME Inv, fs.why = "no", NEW name \in Names, NEW creat \in BOOLEAN,
         NEW v, v = OpenFound(name, creat), NEW k, k = v.ret
  PROVE  /\ Does(fs, v, k, torn) /\ k \in {0} \cup Slots
         /\ v.why = "no" /\ k # 0 => InUse(v, k) /\ (torn \/ v.it[k].copy.type = T_FILE)
<1>1. /\ Good(fs, {}, torn) /\ torn \in BOOLEAN /\ AllCounted(fs)  BY InvIs
<1>2. CASE creat
  <2>1. v = create(fs, name, T_FILE)  BY <1>2 DEF OpenFound
  <2>2. Creates(fs, v, torn)  BY <1>1, <2>1, CreateGood
  <2> QED BY <2>2 DEF Creates
<1>3. CASE ~ creat
  <2>1. PICK n : n = namei(fs, name)  OBVIOUS
  <2>2. /\ Does(fs, n, n.ret, torn) /\ n.ret \in {0} \cup Slots /\ Good(n, {}, torn)
        /\ n.why = "no" /\ n.ret # 0 => Refers(n, n.ret, torn)  BY <1>1, <2>1, NameiGood, DoesGood
  <2>3. v = IF n.ret = 0 THEN n ELSE ivalid(n, n.ret)  BY <1>3, <2>1 DEF OpenFound
  <2>4. CASE n.ret = 0  BY <2>2, <2>3, <2>4
  <2>5. CASE n.ret # 0
    <3>1. PICK x : x = n.ret  OBVIOUS
    <3>2. v = ivalid(n, x) /\ x \in Slots /\ (n.why = "no" => Refers(n, x, torn)) /\ Does(fs, n, x, torn)
      BY <2>2, <2>3, <2>5, <3>1
    <3>3. /\ Does(n, v, 0, torn) /\ v.ret = n.ret
          /\ v.why = "no" => InUse(v, x) /\ (torn \/ v.it[x].copy.type = T_FILE)
      BY <1>1, <2>2, <3>2, ValidFile
    <3>4. k = x  BY <3>1, <3>3
    <3>5. Does(fs, v, x, torn)  BY <1>1, <3>2, <3>3, DoesMore
    <3> QED BY <3>2, <3>3, <3>4, <3>5
  <2> QED BY <2>4, <2>5
<1> QED BY <1>2, <1>3

LEMMA LowestHandle ==
  ASSUME FreeHandles # {}
  PROVE  Min(FreeHandles) \in Handles /\ open[Min(FreeHandles)] = Closed
<1>1. FreeHandles \in SUBSET Nat  BY FileSysAssumption DEF FreeHandles
<1>2. \E x \in FreeHandles : \A y \in FreeHandles : x <= y  BY <1>1, LeastOf
<1>3. Min(FreeHandles) \in FreeHandles  BY <1>2 DEF Min
<1> QED BY <1>3 DEF FreeHandles

LEMMA OpenedTyped ==
  ASSUME open \in OpenType, NEW h \in Handles, NEW k \in Slots
  PROVE  Opened(open, h, k) \in OpenType
<1> DEFINE M == MAXFILE * BSIZE
<1>1. M \in Nat  BY Sizes
<1> HIDE DEF M
<1>2. [ip |-> k, off |-> 0] \in [ip : {0} \cup Slots, off : 0 .. M]  BY <1>1
<1>3. [ip |-> k, off |-> 0] \in [ip : {0} \cup Slots, off : 0 .. MAXFILE * BSIZE]  BY <1>2 DEF M
<1> QED BY <1>3 DEF OpenType, Opened

LEMMA OpenFdOK ==
  ASSUME Inv, fs.why = "no", NEW k \in Slots, NEW w, Does(fs, w, k, torn),
         w.why = "no" => InUse(w, k) /\ w.it[k].copy.type = T_FILE,
         NEW trunc \in BOOLEAN, NEW c, c = OpenFd(w, k, trunc)
  PROVE  CallOK(c)
<1>1. /\ Good(fs, {}, torn) /\ torn \in BOOLEAN /\ AllCounted(fs) /\ Held(fs, open) /\ open \in OpenType
      /\ Typed(fs)  BY InvIs
<1>2. Good(w, {}, torn)  BY DoesGood
<1>3. CASE FreeHandles = {}
  <2>1. PICK p : p = iput(w, k)  OBVIOUS
  <2>2. Does(w, w, 0, torn)  BY <1>2, DoesSelf
  <2>3. Does(fs, p, 0, torn)  BY <1>1, <2>1, <2>2, DoesDrop
  <2>4. c = Result(p, open, <<-1>>, "open", 0)  BY <1>3, <2>1 DEF OpenFd
  <2>5. c.s = p /\ Calm(c)  BY <2>4 DEF Result, Calm
  <2> QED BY <2>3, <2>5, DoesCall
<1>4. CASE FreeHandles # {}
  <2>1. PICK h : h = Min(FreeHandles)  OBVIOUS
  <2>2. h \in Handles /\ open[h] = Closed  BY <1>4, <2>1, LowestHandle
  <2>3. PICK op : op = Opened(open, h, k)  OBVIOUS
  <2>4. op \in OpenType /\ DOMAIN open = Handles  BY <1>1, <2>2, <2>3, OpenedTyped DEF OpenType
  <2>5. PICK x : x = IF trunc THEN itrunc(w, k) ELSE w  OBVIOUS
  <2>6. c.s = x /\ c.open = op /\ c.kind = IF trunc THEN "trunc" ELSE "open"
    BY <1>4, <2>1, <2>3, <2>5 DEF OpenFd, Result, Opened
  <2>7. /\ Ended(x, torn) /\ Goes(fs, x, torn) /\ (~ trunc => LogGood(x, torn))
        /\ x.why = "no" => w.why = "no" /\ Gains(w, x, 0)
    <3>1. CASE trunc
      <4>1. x = itrunc(w, k) /\ Truncs(w, k, torn)  BY <1>2, <2>5, <3>1 DEF Truncs
      <4>2. Ended(x, torn) /\ Goes(w, x, torn) /\ (x.why = "no" => Gains(w, x, 0))
        BY <1>1, <4>1, ItruncGood
      <4>3. Goes(fs, w, torn)  BY DEF Does
      <4> QED BY <3>1, <4>2, <4>3, GoesTwice
    <3>2. CASE ~ trunc
      <4>1. x = w  BY <2>5, <3>2
      <4>2. Does(w, w, 0, torn)  BY <1>2, DoesSelf
      <4> QED BY <1>2, <3>2, <4>1, <4>2, GoodEnds DEF Does
    <3> QED BY <3>1, <3>2
  <2>8. ASSUME x.why = "no" PROVE Held(x, op)
    <3>1. w.why = "no" /\ Gains(w, x, 0) /\ Gains(fs, w, k) /\ InUse(w, k) /\ w.it[k].copy.type = T_FILE
      BY <2>7, <2>8 DEF Does
    <3>2. k # 0  BY DEF Slots
    <3>3. Gains(fs, x, k)
      <4>1. Gains(fs, x, IF k = 0 THEN 0 ELSE k)  BY <1>1, <3>1, GainsTwice
      <4>2. (IF k = 0 THEN 0 ELSE k) = k  BY <3>2
      <4> QED BY <4>1, <4>2
    <3>4. Counted(w) /\ w.it[k].ref > 0  BY <1>1, <3>1, GainsCounted DEF AllCounted
    <3>5. InUse(x, k) /\ x.it[k].copy.type = T_FILE  BY <3>1, <3>4, GainsCounted
    <3> QED BY <1>1, <2>2, <2>3, <2>4, <3>3, <3>5, HeldMore
  <2> QED BY <2>4, <2>6, <2>7, <2>8 DEF CallOK
<1> QED BY <1>3, <1>4

LEMMA OpenOK ==
  ASSUME Inv, fs.why = "no", NEW name \in Names, NEW creat \in BOOLEAN, NEW trunc \in BOOLEAN,
         NEW c, c = OpenResult(name, creat, trunc)
  PROVE  CallOK(c)
<1>1. PICK v : v = OpenFound(name, creat)  OBVIOUS
<1>2. PICK k : k = v.ret  OBVIOUS
<1>3. /\ Does(fs, v, k, torn) /\ k \in {0} \cup Slots /\ Good(v, {}, torn)
      /\ v.why = "no" /\ k # 0 => InUse(v, k) /\ (torn \/ v.it[k].copy.type = T_FILE)
  BY <1>1, <1>2, OpenFoundGood, DoesGood
<1>4. c = IF v.ret = 0 THEN Result(v, open, <<-1>>, "open", 0)
          ELSE OpenFd(IF v.it[v.ret].copy.type = T_FILE THEN v ELSE Panic(v, NotFile), v.ret, trunc)
  BY <1>1, OpenIs
<1>5. CASE k = 0
  <2>1. c = Result(v, open, <<-1>>, "open", 0)  BY <1>2, <1>4, <1>5
  <2>2. c.s = v /\ Calm(c)  BY <2>1 DEF Result, Calm
  <2>3. Does(fs, v, 0, torn)  BY <1>3, <1>5
  <2> QED BY <2>2, <2>3, DoesCall
<1>6. CASE k # 0
  <2>1. PICK w : w = IF v.it[k].copy.type = T_FILE THEN v ELSE Panic(v, NotFile)  OBVIOUS
  <2>2. c = OpenFd(w, k, trunc)  BY <1>2, <1>4, <1>6, <2>1
  <2>3. Does(v, w, 0, torn) /\ (w.why = "no" => InUse(w, k) /\ w.it[k].copy.type = T_FILE)
    <3>1. CASE v.it[k].copy.type = T_FILE
      <4>1. w = v  BY <2>1, <3>1
      <4> QED BY <1>3, <1>6, <3>1, <4>1, DoesSelf
    <3>2. CASE v.it[k].copy.type # T_FILE
      <4>1. w = Panic(v, NotFile)  BY <2>1, <3>2
      <4>2. torn \/ v.why # "no"  BY <1>3, <1>6, <3>2
      <4>3. Does(v, w, 0, torn) /\ w.why # "no"  BY <1>3, <4>1, <4>2, NotFileIsPanic, PanicDoes
      <4> QED BY <4>3
    <3> QED BY <3>1, <3>2
  <2>4. Does(fs, w, k, torn)  BY <1>3, <2>3, DoesMore, InvIs
  <2>5. k \in Slots  BY <1>3, <1>6
  <2> QED BY <2>2, <2>3, <2>4, <2>5, OpenFdOK
<1> QED BY <1>5, <1>6

\* Another offset of a handle.
Moved(op, h, o) == [op EXCEPT ![h].off = o]

LEMMA MovedTyped ==
  ASSUME NEW op \in OpenType, NEW h \in Handles, op[h] # Closed, op[h].ip \in Slots,
         NEW o \in 0 .. MAXFILE * BSIZE, NEW oq, oq = Moved(op, h, o)
  PROVE  oq \in OpenType /\ \A g \in Handles : oq[g].ip = op[g].ip /\ (op[g] = Closed => oq[g] = Closed)
<1>1. PICK e : e = [op[h] EXCEPT !.off = o]  OBVIOUS
<1>2. oq = [op EXCEPT ![h] = e]  BY <1>1 DEF Moved
<1>3. op[h] \in [ip : {0} \cup Slots, off : 0 .. MAXFILE * BSIZE]  BY DEF OpenType
<1>4. e \in [ip : {0} \cup Slots, off : 0 .. MAXFILE * BSIZE] /\ e.ip = op[h].ip  BY <1>1, <1>3
<1>5. oq \in OpenType  BY <1>2, <1>4 DEF OpenType
<1>6. ASSUME NEW g \in Handles PROVE oq[g].ip = op[g].ip /\ (op[g] = Closed => oq[g] = Closed)
  <2>1. CASE g = h  BY <1>2, <1>4, <2>1 DEF OpenType
  <2>2. CASE g # h  BY <1>2, <2>2 DEF OpenType
  <2> QED BY <2>1, <2>2
<1> QED BY <1>5, <1>6

LEMMA MovedCall ==
  ASSUME Inv, fs.why = "no", NEW h \in Handles, open[h] # Closed, NEW o \in 0 .. MAXFILE * BSIZE,
         NEW c, NEW s, c.s = s, Does(fs, s, 0, torn), c.open = Moved(open, h, o),
         c.kind # "trunc", c.kind \in {"write", "fault"} => c.file \in Inums
  PROVE  CallOK(c)
<1>1. Good(s, {}, torn) /\ Goes(fs, s, torn)  BY DoesGood
<1>2. Ended(s, torn) /\ LogGood(s, torn)  BY <1>1, GoodEnds
<1>3. PICK op : op = Moved(open, h, o)  OBVIOUS
<1>4. op \in OpenType /\ \A g \in Handles : op[g].ip = open[g].ip /\ (open[g] = Closed => op[g] = Closed)
  BY <1>3, MovedTyped, InvIs
<1>5. s.why = "no" => Held(s, op)
  <2>1. Held(fs, open)  BY InvIs
  <2>2. s.why = "no" => Gains(fs, s, 0)  BY DEF Does
  <2> QED BY <1>4, <2>1, <2>2, HeldSame
<1> QED BY <1>1, <1>2, <1>3, <1>4, <1>5 DEF CallOK

LEMMA AlreadyValid ==
  ASSUME NEW s, NEW k, InUse(s, k)
  PROVE  ivalid(s, k) = s
  BY Zenon DEF ivalid, InUse

LEMMA Unchanged ==
  ASSUME open \in OpenType, NEW h \in Handles
  PROVE  open = Moved(open, h, open[h].off) /\ open[h].off \in 0 .. MAXFILE * BSIZE
<1>1. open[h] \in [ip : {0} \cup Slots, off : 0 .. MAXFILE * BSIZE]  BY DEF OpenType
<1>2. [open[h] EXCEPT !.off = open[h].off] = open[h]  BY <1>1
<1>3. [open EXCEPT ![h] = open[h]] = open  BY DEF OpenType
<1> QED BY <1>1, <1>2, <1>3 DEF Moved

----
(* filewrite and fileread. *)
After(off, n) == IF n > 0 THEN off + n ELSE off

LEMMA WriteResultIs ==
  ASSUME NEW h \in Handles, open \in OpenType, NEW src, NEW good, NEW k, k = open[h].ip, InUse(fs, k),
         NEW t, t = writei(fs, k, open[h].off, UnitsFrom(src), good),
         NEW c, c = WriteResult(h, src, good)
  PROVE  /\ c.s = t /\ c.open = Moved(open, h, After(open[h].off, t.ret))
         /\ c.kind \in {"fault", "write"} /\ c.file = Inum(fs, k)
<1>1. ivalid(fs, k) = fs  BY AlreadyValid
<1>2. PICK f : f = ivalid(fs, k)  OBVIOUS
<1>3. c = LET w == writei(f, k, open[h].off, UnitsFrom(src), good) IN
          Result(w, [open EXCEPT ![h].off = IF w.ret > 0 THEN @ + w.ret ELSE @], <<w.ret>>,
                 IF good < Len(src) THEN "fault" ELSE "write", Inum(fs, k))
  BY <1>2 DEF WriteResult, UnitsFrom
<1>4. c = Result(t, [open EXCEPT ![h].off = IF t.ret > 0 THEN @ + t.ret ELSE @], <<t.ret>>,
                 IF good < Len(src) THEN "fault" ELSE "write", Inum(fs, k))
  BY <1>1, <1>2, <1>3
<1> QED BY <1>4 DEF Result, Moved, After

LEMMA WriteOK ==
  ASSUME Inv, fs.why = "no", NEW h \in Handles, open[h] # Closed, NEW src \in Sources,
         NEW good \in Nat, NEW c, c = WriteResult(h, src, good)
  PROVE  CallOK(c)
<1>1. PICK k, off, units : k = open[h].ip /\ off = open[h].off /\ units = UnitsFrom(src)  OBVIOUS
<1>2. /\ Good(fs, {}, torn) /\ torn \in BOOLEAN /\ open \in OpenType
      /\ k \in Slots /\ InUse(fs, k) /\ fs.it[k].inum \in Inums \ {ROOTINO}  BY <1>1, InvIs
<1>3. PICK t : t = writei(fs, k, off, units, good)  OBVIOUS
<1>4. off \in 0 .. MAXFILE * BSIZE  BY <1>1, <1>2, Unchanged
<1>5. PICK M : M = MAXFILE * BSIZE  OBVIOUS
<1>6. M \in Nat /\ off \in 0 .. M /\ off \in Nat  BY <1>4, <1>5, Sizes
<1>7. units \in Seq(UnitType) /\ Len(units) \in Nat
  <2>1. src \in Seq(Nat)  BY FileSysAssumption
  <2>2. PICK n \in Nat : DOMAIN src = 1 .. n  BY <2>1
  <2>3. \A m \in 1 .. n : Unit(src[m]) \in UnitType  BY <2>1, <2>2, UnitTyped
  <2>4. units \in [1 .. n -> UnitType]  BY <1>1, <2>2, <2>3 DEF UnitsFrom
  <2>5. units \in Seq(UnitType)  BY <2>4
  <2> QED BY <2>5
<1>8. MayWrite(fs, {k}, k, units, good, torn)  BY <1>2 DEF MayWrite
<1>9. /\ Good(t, {}, torn) /\ Goes(fs, t, torn) /\ t.ret \in {-1} \cup (0 .. Len(units))
      /\ t.ret # -1 => off + t.ret <= MAXFILE * BSIZE
      /\ t.why = "no" => Gains(fs, t, 0)  BY <1>2, <1>3, <1>6, <1>7, <1>8, WriteiGood
<1>10. Does(fs, t, 0, torn)  BY <1>9 DEF Does
<1>11. After(off, t.ret) \in 0 .. MAXFILE * BSIZE
  <2>1. t.ret \in Int /\ (t.ret > 0 => off + t.ret <= M /\ off + t.ret \in Nat)
    BY <1>5, <1>6, <1>7, <1>9
  <2>2. After(off, t.ret) \in 0 .. M  BY <1>6, <2>1 DEF After
  <2> QED BY <1>5, <2>2
<1>12. /\ c.s = t /\ c.open = Moved(open, h, After(off, t.ret))
       /\ c.kind \in {"fault", "write"} /\ c.file = Inum(fs, k)  BY <1>1, <1>2, <1>3, WriteResultIs
<1>13. c.kind # "trunc" /\ c.file \in Inums  BY <1>2, <1>12 DEF Inum
<1> QED BY <1>10, <1>11, <1>12, <1>13, MovedCall

LEMMA ReadResultIs ==
  ASSUME NEW h \in Handles, open \in OpenType, NEW n, NEW ok, NEW k, k = open[h].ip, InUse(fs, k),
         NEW t, t = readi(fs, k, open[h].off, n),
         NEW c, c = ReadResult(h, n, ok)
  PROVE  /\ c.s = t /\ c.kind = "read"
         /\ c.open = open \/ c.open = Moved(open, h, open[h].off + Len(t.ret))
<1>1. ivalid(fs, k) = fs  BY AlreadyValid
<1>2. PICK f : f = ivalid(fs, k)  OBVIOUS
<1>3. c = LET w == readi(f, k, open[h].off, n) IN
            IF copyout(ok, Len(w.ret)) = 0
            THEN Result(w, [open EXCEPT ![h].off = @ + Len(w.ret)],
                        [m \in DOMAIN w.ret |-> w.ret[m][1]], "read", 0)
            ELSE Result(w, open, <<-1>>, "read", 0)
  BY <1>2 DEF ReadResult
<1>4. c = IF copyout(ok, Len(t.ret)) = 0
          THEN Result(t, [open EXCEPT ![h].off = @ + Len(t.ret)],
                      [m \in DOMAIN t.ret |-> t.ret[m][1]], "read", 0)
          ELSE Result(t, open, <<-1>>, "read", 0)
  BY <1>1, <1>2, <1>3
<1> QED BY <1>4 DEF Result, Moved

LEMMA ReadOK ==
  ASSUME Inv, fs.why = "no", NEW h \in Handles, open[h] # Closed, NEW n \in Nat, NEW ok,
         NEW c, c = ReadResult(h, n, ok)
  PROVE  CallOK(c)
<1>1. PICK k, off : k = open[h].ip /\ off = open[h].off  OBVIOUS
<1>2. /\ Good(fs, {}, torn) /\ torn \in BOOLEAN /\ open \in OpenType /\ Typed(fs)
      /\ k \in Slots /\ InUse(fs, k)  BY <1>1, InvIs
<1>3. PICK t : t = readi(fs, k, off, n)  OBVIOUS
<1>4. PICK M : M = MAXFILE * BSIZE  OBVIOUS
<1>5. M \in Nat /\ off \in 0 .. M /\ off \in Nat  BY <1>1, <1>2, <1>4, Unchanged, Sizes
<1>6. PICK len : len = ReadLen(fs, k, off, n)  OBVIOUS
<1>7. /\ len \in 0 .. n /\ (len > 0 => off + len <= fs.it[k].copy.size)
      /\ fs.it[k].copy.size \in 0 .. M  BY <1>2, <1>4, <1>5, <1>6, ReadLenTyped
<1>8. Reading(fs, t, {}, torn) /\ t.ret = ReadUnits(t, k, off, len)
  BY <1>2, <1>3, <1>5, <1>6, ReadiGood
<1>9. Len(t.ret) = len
  <2>1. t.ret = [m \in 1 .. len |-> UnitOf(t, t.it[k].copy, off + m - 1)]  BY <1>8 DEF ReadUnits
  <2>2. len \in Nat  BY <1>7
  <2>3. PICK u : u = [m \in 1 .. len |-> UnitOf(t, t.it[k].copy, off + m - 1)]  OBVIOUS
  <2>4. DOMAIN u = 1 .. len  BY <2>3
  <2>5. Len(u) = len  BY <2>2, <2>4
  <2> QED BY <2>1, <2>3, <2>5
<1>10. Does(fs, t, 0, torn)  BY <1>2, <1>8, WidenedGains DEF Reading, Same, Does
<1>11. /\ c.s = t /\ c.kind = "read"
       /\ c.open = open \/ c.open = Moved(open, h, off + len)
  <2>1. /\ c.s = t /\ c.kind = "read"
        /\ c.open = open \/ c.open = Moved(open, h, open[h].off + Len(t.ret))
    BY <1>1, <1>2, <1>3, ReadResultIs
  <2> QED BY <1>1, <1>9, <2>1
<1>12. off + len \in 0 .. MAXFILE * BSIZE  BY <1>4, <1>5, <1>7
<1>13. CASE c.open = open
  <2>1. Calm(c)  BY <1>11, <1>13 DEF Calm
  <2> QED BY <1>10, <1>11, <2>1, DoesCall
<1>14. CASE c.open = Moved(open, h, off + len)
  <2>1. c.kind # "trunc" /\ (c.kind \in {"write", "fault"} => c.file \in Inums)  BY <1>11
  <2> QED BY <1>10, <1>11, <1>12, <1>14, <2>1, MovedCall
<1> QED BY <1>11, <1>13, <1>14

----
(* A buffer that was left changed is read again.  Its block is none of the
   directory and holds no addresses: those the disk has as the kernel does. *)
Reread(s, b) == [s EXCEPT !.blk[b] = OnDisk(s).blk[b]]
RereadBlk(blk, b, x) == [blk EXCEPT ![b] = x]

LEMMA RereadRight ==
  ASSUME NEW w \in ImageType, NEW bmp, NEW din \in [Inums -> InodeType],
         NEW blk \in [Blocks -> Contents], Right(bmp, din, blk), Behind(w, bmp, din, blk),
         NEW b, w.blk[b] # blk[b], NEW c, c \in [Blocks -> Contents],
         \A x \in Blocks \ {b} : c[x] = blk[x]
  PROVE  Right(bmp, din, c) /\ Behind(w, bmp, din, c)
<1>1. Sound(bmp, din, blk) /\ Entered(din, blk)  BY DEF Right
<1>2. ASSUME NEW i \in Inums, NEW n \in Places, n = MAXFILE \/ i = ROOTINO, At(din, blk, i, n) # 0
      PROVE  /\ w.blk[At(din, blk, i, n)] = blk[At(din, blk, i, n)]
             /\ c[At(din, blk, i, n)] = blk[At(din, blk, i, n)]
  <2>1. PICK a : a = At(din, blk, i, n)  OBVIOUS
  <2>2. w.blk[a] = blk[a]  BY <1>2, <2>1 DEF Behind
  <2>3. a \in Blocks
    <3>1. a \in NMETA .. FSSIZE - 1  BY <1>1, <1>2, <2>1 DEF Sound, OneOwner
    <3> QED BY <3>1, Sizes DEF Blocks
  <2>4. c[a] = blk[a]  BY <2>2, <2>3
  <2> QED BY <2>1, <2>2, <2>4
<1>3. MAXFILE \in Places /\ ROOTINO \in Inums /\ \A n \in 0 .. MAXFILE - 1 : n \in Places
  BY Sizes DEF Places
<1>4. \A i \in Inums, n \in Places : At(din, c, i, n) = At(din, blk, i, n)
  <2>1. \A i \in Inums : At(din, blk, i, MAXFILE) # 0 =>
              c[At(din, blk, i, MAXFILE)] = blk[At(din, blk, i, MAXFILE)]
    BY <1>2, <1>3
  <2> QED BY <2>1, DataChange
<1>5. Sound(bmp, din, c)  BY <1>1, <1>4 DEF Sound, OneOwner, Marked
<1>6. Entered(din, c)
  <2>1. ASSUME NEW n \in 0 .. MAXFILE - 1
        PROVE  DataIn(din, c, ROOTINO, n) = DataIn(din, blk, ROOTINO, n)
    <3>1. At(din, c, ROOTINO, n) = At(din, blk, ROOTINO, n)  BY <1>3, <1>4
    <3>2. At(din, blk, ROOTINO, n) # 0 => c[At(din, blk, ROOTINO, n)] = blk[At(din, blk, ROOTINO, n)]
      BY <1>2, <1>3
    <3> QED BY <3>1, <3>2 DEF DataIn
  <2> QED BY <1>1, <2>1, EnteredSame
<1>7. Behind(w, bmp, din, c)
  <2>1. \A i \in Inums, n \in Places :
          (n = MAXFILE \/ i = ROOTINO) /\ At(din, c, i, n) # 0 =>
              w.blk[At(din, c, i, n)] = c[At(din, c, i, n)]
    <3>1. SUFFICES ASSUME NEW i \in Inums, NEW n \in Places, n = MAXFILE \/ i = ROOTINO, At(din, c, i, n) # 0
                   PROVE  w.blk[At(din, c, i, n)] = c[At(din, c, i, n)]  OBVIOUS
    <3>2. At(din, c, i, n) = At(din, blk, i, n)  BY <1>4
    <3>3. PICK a : a = At(din, blk, i, n)  OBVIOUS
    <3>4. w.blk[a] = blk[a] /\ c[a] = blk[a]  BY <1>2, <3>1, <3>2, <3>3
    <3> QED BY <3>2, <3>3, <3>4
  <2> QED BY <2>1 DEF Behind
<1> QED BY <1>5, <1>6, <1>7 DEF Right

LEMMA RereadGood ==
  ASSUME NEW s, NEW cut, Good(s, {}, cut), s.why = "no", NEW b \in Blocks,
         s.blk[b] # OnDisk(s).blk[b], NEW t, t = Reread(s, b)
  PROVE  Good(t, {}, cut) /\ t.log = s.log /\ t.it = s.it /\ t.why = s.why
<1>1. Typed(s) /\ LogGood(s, cut) /\ s.bmap[0] /\ Live(s, {}, cut)  BY GoodIs
<1>2. PICK w : w = OnDisk(s)  OBVIOUS
<1>3. w \in ImageType  BY <1>1, <1>2, OnDiskTyped
<1>4. PICK c : c = RereadBlk(s.blk, b, w.blk[b])  OBVIOUS
<1>5. c \in [Blocks -> Contents] /\ \A x \in Blocks \ {b} : c[x] = s.blk[x]
  BY <1>1, <1>3, <1>4 DEF RereadBlk, Typed, ImageType
<1>6. t = [s EXCEPT !.blk = c]
  <2>1. t = [s EXCEPT !.blk = RereadBlk(s.blk, b, w.blk[b])]  BY <1>2 DEF Reread, RereadBlk
  <2> QED BY <1>4, <2>1
<1>7. /\ Typed(t) /\ t.bmap = s.bmap /\ t.din = s.din /\ t.blk = c
      /\ t.it = s.it /\ t.ret = s.ret /\ t.why = s.why /\ t.log = s.log
  BY <1>1, <1>5, <1>6, BlkFields
<1>8. OnDisk(t) = w  BY <1>2, <1>7 DEF OnDisk
<1>9. /\ Cur(t) = Cur(s) /\ \A K : Stored(s, K) => Stored(t, K)
      /\ Table(s) /\ t.din = OnDisk(t).din => Table(t)  BY <1>7, SameCur
<1>10. Table(t) /\ Stored(t, {})
  <2>1. Table(s) /\ Stored(s, {})  BY <1>1 DEF Live
  <2>2. t.din = OnDisk(t).din  BY <1>2, <1>7, <1>8, <2>1 DEF Table
  <2> QED BY <1>9, <2>1, <2>2
<1>11. cut \/ Whole(t)
  <2>1. SUFFICES ASSUME ~ cut PROVE Whole(t)  OBVIOUS
  <2>2. Right(s.bmap, Cur(s), s.blk) /\ Behind(w, s.bmap, Cur(s), s.blk)
    BY <1>1, <1>2, <2>1 DEF Live, Whole
  <2>3. Cur(s) \in [Inums -> InodeType]
    <3>1. OneSlot(s)  BY <1>1 DEF Live, Table, OneSlot
    <3> QED BY <1>1, <3>1, CurTyped
  <2>4. s.blk \in [Blocks -> Contents] /\ w.blk[b] # s.blk[b]  BY <1>1, <1>2 DEF Typed
  <2>5. Right(s.bmap, Cur(s), c) /\ Behind(w, s.bmap, Cur(s), c)
    BY <1>3, <1>5, <2>2, <2>3, <2>4, RereadRight
  <2> QED BY <1>7, <1>8, <1>9, <2>5 DEF Whole
<1>12. LogGood(t, cut) /\ t.bmap[0]  BY <1>1, <1>7 DEF LogGood
<1>13. Good(t, {}, cut)  BY <1>7, <1>10, <1>11, <1>12, GoodWhen DEF Live
<1> QED BY <1>7, <1>13

LEMMA RecycleKeeps ==
  ASSUME Inv, NEW b \in Blocks, Recycle(b)
  PROVE  Inv'
<1>1. /\ fs.why = "no" /\ fs.blk[b] # OnDisk(fs).blk[b] /\ fs' = Reread(fs, b)
      /\ open' = open /\ crashes' = crashes /\ doubt' = doubt /\ torn' = torn
  BY DEF Recycle, Reread
<1>2. Good(fs, {}, torn) /\ fs.log = <<OnDisk(fs)>> /\ Held(fs, open)  BY DEF Inv, FsInv
<1>3. Good(fs', {}, torn) /\ fs'.log = fs.log /\ fs'.it = fs.it /\ fs'.why = fs.why
  BY <1>1, <1>2, RereadGood
<1>4. fs'.log = <<OnDisk(fs')>>  BY <1>2, <1>3 DEF OnDisk
<1>5. Held(fs', open')  BY <1>1, <1>2, <1>3 DEF Held
<1>6. FsInv'  BY <1>1, <1>3, <1>4, <1>5 DEF FsInv
<1> QED BY <1>1, <1>3, <1>6 DEF Inv, OpenType

LEMMA StepKeeps ==
  ASSUME Inv, [Next]_vars
  PROVE  Inv'
<1>1. CASE UNCHANGED vars  BY <1>1 DEF vars, Inv, FsInv, OpenType
<1>2. ASSUME NEW n \in Names, NEW creat \in BOOLEAN, NEW trunc \in BOOLEAN, Open(n, creat, trunc)
      PROVE  Inv'
  <2>1. PICK c : c = OpenResult(n, creat, trunc)  OBVIOUS
  <2>2. fs.why = "no" => CallOK(c)  BY <2>1, OpenOK
  <2> QED BY <1>2, <2>1, <2>2, PerformedKeeps DEF Open
<1>3. ASSUME NEW h \in Handles, Close(h) PROVE Inv'
  <2>1. PICK c : c = Result(iput(fs, open[h].ip), [open EXCEPT ![h] = Closed], <<0>>, "close", 0)
    OBVIOUS
  <2>2. open[h] # Closed /\ Performed(c)  BY <1>3, <2>1 DEF Close
  <2>3. fs.why = "no" => CallOK(c)  BY <2>1, <2>2, CloseOK
  <2> QED BY <2>2, <2>3, PerformedKeeps
<1>4. ASSUME NEW h \in Handles, NEW src \in Sources, Write(h, src) PROVE Inv'
  <2>1. PICK c : c = WriteResult(h, src, Len(src))  OBVIOUS
  <2>2. open[h] # Closed /\ Performed(c)  BY <1>4, <2>1 DEF Write
  <2>3. Len(src) \in Nat  BY FileSysAssumption
  <2>4. fs.why = "no" => CallOK(c)  BY <2>1, <2>2, <2>3, WriteOK
  <2> QED BY <2>2, <2>4, PerformedKeeps
<1>5. ASSUME NEW h \in Handles, NEW src \in Sources, WriteFault(h, src) PROVE Inv'
  <2>1. PICK good \in Goods : good < Len(src) /\ Performed(WriteResult(h, src, good))
    BY <1>5 DEF WriteFault
  <2>2. PICK c : c = WriteResult(h, src, good)  OBVIOUS
  <2>3. open[h] # Closed /\ Performed(c)  BY <1>5, <2>1, <2>2 DEF WriteFault
  <2>4. good \in Nat  BY FileSysAssumption
  <2>5. fs.why = "no" => CallOK(c)  BY <2>2, <2>3, <2>4, WriteOK
  <2> QED BY <2>3, <2>5, PerformedKeeps
<1>6. ASSUME NEW h \in Handles, NEW ok \in BOOLEAN, Fstat(h, ok) PROVE Inv'
  <2>1. PICK c : c = FstatResult(h, ok)  OBVIOUS
  <2>2. Performed(c)  BY <1>6, <2>1 DEF Fstat
  <2>3. fs.why = "no" => CallOK(c)  BY <2>1, FstatOK
  <2> QED BY <2>2, <2>3, PerformedKeeps
<1>7. ASSUME NEW h \in Handles, NEW ok \in BOOLEAN, NEW n \in Reads, Read(h, n, ok) PROVE Inv'
  <2>1. PICK c : c = ReadResult(h, n, ok)  OBVIOUS
  <2>2. open[h] # Closed /\ Performed(c)  BY <1>7, <2>1 DEF Read
  <2>3. n \in Nat  BY FileSysAssumption
  <2>4. fs.why = "no" => CallOK(c)  BY <2>1, <2>2, <2>3, ReadOK
  <2> QED BY <2>2, <2>4, PerformedKeeps
<1>8. ASSUME NEW old \in Names, NEW new \in Names, Link(old, new) PROVE Inv'
  <2>1. PICK c : c = LinkResult(old, new)  OBVIOUS
  <2>2. fs.why = "no" => CallOK(c)  BY <2>1, LinkOK
  <2> QED BY <1>8, <2>1, <2>2, PerformedKeeps DEF Link
<1>9. ASSUME NEW n \in Names, Unlink(n) PROVE Inv'
  <2>1. PICK c : c = UnlinkResult(n)  OBVIOUS
  <2>2. fs.why = "no" => CallOK(c)  BY <2>1, UnlinkOK
  <2> QED BY <1>9, <2>1, <2>2, PerformedKeeps DEF Unlink
<1>10. ASSUME NEW b \in Blocks, Recycle(b) PROVE Inv'  BY <1>10, RecycleKeeps
<1>11. CASE Reboot  BY <1>11, RebootKeeps
<1> QED BY <1>1, <1>2, <1>3, <1>4, <1>5, <1>6, <1>7, <1>8, <1>9, <1>10, <1>11 DEF Next

LEMMA InitKeeps ==
  ASSUME Init
  PROVE  Inv
<1>1. PICK files \in Images : fs = Mount(mkfs(files))  BY DEF Init
<1>2. open = AllClosed /\ crashes = 0 /\ doubt = {} /\ torn = FALSE  BY DEF Init
<1>3. PICK w : w = mkfs(files)  OBVIOUS
<1>4. w \in ImageType /\ Safe(w, FALSE)  BY <1>3, mkfsSafe, FileSysAssumption
<1>5. fs = Stopped(w, "no")  BY <1>1, <1>3, <1>4, MountIs
<1>6. Started(fs, w, "no")  BY <1>5, StoppedFields
<1>7. Good(fs, {}, FALSE) /\ fs.log = <<OnDisk(fs)>> /\ OnDisk(fs) = w  BY <1>4, <1>6, StartedGood
<1>8. fs.it = EmptyTable /\ fs.why = "no"  BY <1>6 DEF Started
<1>9. Held(fs, AllClosed) /\ AllClosed \in OpenType  BY <1>8, HeldByNobody
<1>10. Good(fs, {}, torn)  BY <1>2, <1>7
<1>11. FsInv  BY <1>2, <1>7, <1>8, <1>9, <1>10 DEF FsInv
<1>12. crashes \in 0 .. MaxCrash  BY <1>2, FileSysAssumption
<1> QED BY <1>2, <1>8, <1>9, <1>11, <1>12 DEF Inv

----
(* The theorems. *)
LEMMA Invariant == Spec => []Inv
<1>1. Init => Inv  BY InitKeeps
<1>2. Inv /\ [Next]_vars => Inv'  BY StepKeeps
<1> QED BY <1>1, <1>2, PTL DEF Spec

LEMMA InvFacts ==
  ASSUME Inv
  PROVE  /\ Typed(fs) /\ Good(fs, {}, torn) /\ Held(fs, open) /\ open \in OpenType
         /\ OnDisk(fs) \in ImageType /\ LogGood(fs, torn) /\ OnDisk(fs) \in Range(fs.log)
         /\ fs.why # "no" => open = AllClosed /\ fs = Stopped(OnDisk(fs), fs.why)
<1>1. FsInv /\ open \in OpenType  BY DEF Inv
<1>2. Good(fs, {}, torn) /\ Held(fs, open)  BY <1>1 DEF FsInv
<1>3. Typed(fs) /\ LogGood(fs, torn)  BY <1>2, GoodIs
<1>4. OnDisk(fs) \in ImageType /\ OnDisk(fs) \in Range(fs.log)  BY <1>3, OnDiskTyped, LastImage
<1>5. fs.why # "no" => open = AllClosed /\ fs = Stopped(OnDisk(fs), fs.why)
  BY <1>1 DEF FsInv, Stopped
<1> QED BY <1>1, <1>2, <1>3, <1>4, <1>5

\* The file system has states of its type: every inode has a size that its blocks can hold,
\* every address is one of a block, and the entries of itable have counts that are not
\* negative.
THEOREM FileSysTypeCorrect == Spec => []TypeOK
<1>1. Inv => TypeOK
  <2> SUFFICES ASSUME Inv PROVE TypeOK  OBVIOUS
  <2>1. Typed(fs) /\ Held(fs, open) /\ open \in OpenType  BY InvFacts
  <2>2. fs.bmap \in [Blocks -> BOOLEAN] /\ fs.din \in [Inums -> InodeType]  BY <2>1 DEF Typed
  <2>3. \A b \in Blocks, o \in Offs : fs.blk[b][o][1] \in Nat
    <3>1. ASSUME NEW b \in Blocks, NEW o \in Offs PROVE fs.blk[b][o][1] \in Nat
      <4>1. fs.blk[b] \in Contents  BY <2>1 DEF Typed
      <4>2. fs.blk[b][o] \in UnitType  BY <4>1 DEF Contents
      <4> QED BY <4>2 DEF UnitType
    <3> QED BY <3>1
  <2>4. fs.it \in [Slots -> [inum : {0} \cup Inums, ref : Nat, kept : BOOLEAN,
                             valid : BOOLEAN, copy : InodeType]]
    <3>1. fs.it \in [Slots -> SlotType]  BY <2>1 DEF Typed
    <3>2. \A k \in Slots : fs.it[k].ref \in Nat
      <4>1. \A k \in Slots : fs.it[k].ref = Cardinality(HandlesOf(open, k))  BY <2>1, HeldIs
      <4> QED BY <4>1, HandlesOfFinite
    <3>3. ASSUME NEW k \in Slots
          PROVE  fs.it[k] \in [inum : {0} \cup Inums, ref : Nat, kept : BOOLEAN,
                               valid : BOOLEAN, copy : InodeType]
      <4>1. fs.it[k] \in SlotType /\ fs.it[k].ref \in Nat  BY <3>1, <3>2
      <4> QED BY <4>1 DEF SlotType
    <3> QED BY <3>1, <3>3
  <2>5. open \in [Handles -> [ip : {0} \cup Slots, off : 0 .. MAXFILE * BSIZE]]
    BY <2>1 DEF OpenType
  <2>6. crashes \in 0 .. MaxCrash /\ doubt \subseteq Inums /\ torn \in BOOLEAN  BY DEF Inv
  <2> QED BY <2>2, <2>3, <2>4, <2>5, <2>6 DEF TypeOK
<1> QED BY <1>1, Invariant, PTL

\* The kernel panics in a file system call only when blocks, inodes, entries of itable or
\* places in the directory run out, until the machine stops inside a truncation: no other
\* panic of fs.c is reached.
THEOREM OnlyRoomRunsOutHolds == Spec => []OnlyRoomRunsOut
<1>1. Inv => OnlyRoomRunsOut
  <2> SUFFICES ASSUME Inv PROVE OnlyRoomRunsOut  OBVIOUS
  <2>1. torn \/ fs.why \in {"no"} \cup Room  BY DEF Inv
  <2> QED BY <2>1, Zenon DEF OnlyRoomRunsOut, Room, OutOfBlocks, OutOfInodes, OutOfSlots, OutOfDirectory
<1> QED BY <1>1, Invariant, PTL

LEMMA InvHoldsInodes ==
  ASSUME Inv
  PROVE  HandlesHoldInodes
<1>1. /\ Typed(fs) /\ Good(fs, {}, torn) /\ Held(fs, open) /\ open \in OpenType
      /\ fs.why # "no" => open = AllClosed /\ fs = Stopped(OnDisk(fs), fs.why)  BY InvFacts
<1>2. \A k \in Slots : fs.it[k].ref = Cardinality(HandlesOf(open, k))  BY <1>1, HeldIs
<1>3. \A k \in Slots : fs.it[k].ref = Cardinality({h \in Handles : open[h].ip = k})
  BY <1>2 DEF HandlesOf
<1>4. CASE fs.why = "no"
  <2>1. Table(fs) /\ Stored(fs, {})  BY <1>1, <1>4, GoodIs DEF Live
  <2>2. \A k, l \in Slots : Busy(fs, k) /\ Busy(fs, l) /\ fs.it[k].inum = fs.it[l].inum => k = l
    BY <2>1 DEF Table
  <2>3. ASSUME NEW k \in Slots, fs.it[k].ref > 0
        PROVE  fs.it[k].valid /\ fs.it[k].copy = fs.din[fs.it[k].inum]
    <3>1. PICK h \in Handles : open[h].ip = k
      <4>1. HandlesOf(open, k) # {}  BY <1>2, <2>3, FS_EmptySet
      <4> QED BY <4>1 DEF HandlesOf
    <3>2. open[h] # Closed  BY <3>1 DEF Closed, Slots
    <3>3. InUse(fs, k) /\ fs.it[k].inum # ROOTINO  BY <1>4, <3>1, <3>2, InvIs
    <3>4. Busy(fs, k) /\ fs.it[k].valid  BY <3>3, Zenon DEF InUse
    <3>5. fs.it[k].copy = fs.din[fs.it[k].inum]  BY <2>1, <3>3, <3>4 DEF Stored
    <3> QED BY <3>4, <3>5
  <2> QED BY <1>3, <2>2, <2>3 DEF HandlesHoldInodes
<1>5. CASE fs.why # "no"
  <2>1. fs.it = EmptyTable  BY <1>1, <1>5, StoppedFields DEF Started
  <2>2. \A k \in Slots : ~ Busy(fs, k) /\ fs.it[k].ref = 0  BY <2>1, NobodyBusy
  <2> QED BY <1>3, <2>2 DEF HandlesHoldInodes
<1> QED BY <1>4, <1>5

\* An open file keeps its inode in one entry of itable, with a reference for each handle,
\* and the copy there is what the disk has: iput, iget and itrunc never let go of it early.
THEOREM HandlesHoldInodesHolds == Spec => []HandlesHoldInodes
<1>1. Inv => HandlesHoldInodes  BY InvHoldsInodes
<1> QED BY <1>1, Invariant, PTL

\* Also after a panic the kernel's inodes and blocks are sound, and the disk lags behind
\* them or is the same.
LEMMA AlwaysWhole ==
  ASSUME Inv, ~ torn
  PROVE  Whole(fs)
<1>1. /\ Good(fs, {}, torn) /\ OnDisk(fs) \in ImageType /\ LogGood(fs, torn)
      /\ OnDisk(fs) \in Range(fs.log)
      /\ fs.why # "no" => open = AllClosed /\ fs = Stopped(OnDisk(fs), fs.why)  BY InvFacts
<1>2. CASE fs.why = "no"  BY <1>1, <1>2, GoodIs DEF Live
<1>3. CASE fs.why # "no"
  <2>1. PICK w : w = OnDisk(fs)  OBVIOUS
  <2>2. w \in ImageType /\ Safe(w, FALSE) /\ fs = Stopped(w, fs.why)
    BY <1>1, <1>3, <2>1 DEF LogGood, Safe
  <2>3. PICK t : t = Stopped(w, "no")  OBVIOUS
  <2>4. Started(fs, w, fs.why) /\ Started(t, w, "no")  BY <2>2, <2>3, StoppedFields
  <2>5. Good(t, {}, FALSE) /\ OnDisk(t) = w  BY <2>2, <2>4, StartedGood
  <2>6. t.why = "no" /\ fs.bmap = t.bmap /\ fs.blk = t.blk /\ fs.it = t.it /\ fs.din = t.din
    BY <2>4 DEF Started
  <2>7. Whole(t)  BY <2>5, <2>6, GoodIs DEF Live
  <2>8. Cur(fs) = Cur(t)  BY <2>6, SameCur
  <2> QED BY <2>1, <2>5, <2>6, <2>7, <2>8 DEF Whole
<1> QED BY <1>2, <1>3

\* No block is in two files, twice in one, free, or part of the metadata, neither as the
\* kernel sees the inodes nor as the disk has them, whatever create, truncate and write have
\* done and wherever the machine stopped, except after a truncation that was cut.
THEOREM BlocksHaveOneOwnerHolds == Spec => []BlocksHaveOneOwner
<1>1. Inv => BlocksHaveOneOwner
  <2> SUFFICES ASSUME Inv, ~ torn PROVE BlocksHaveOneOwner  BY DEF BlocksHaveOneOwner
  <2>1. PICK w, din, blk : w = OnDisk(fs) /\ din = Cur(fs) /\ blk = fs.blk  OBVIOUS
  <2>2. Right(fs.bmap, din, blk) /\ Behind(w, fs.bmap, din, blk)  BY <2>1, AlwaysWhole DEF Whole
  <2>3. w \in ImageType /\ Typed(fs) /\ blk \in [Blocks -> Contents]  BY <2>1, InvFacts DEF Typed
  <2>4. OneSlot(fs)
    <3>1. HandlesHoldInodes  BY InvHoldsInodes
    <3> QED BY <3>1 DEF HandlesHoldInodes, OneSlot
  <2>5. din \in [Inums -> InodeType]  BY <2>1, <2>3, <2>4, CurTyped
  <2>6. Sound(fs.bmap, din, blk) /\ Sound(w.bmap, w.din, w.blk) /\ w.bmap = fs.bmap
    BY <2>2, <2>3, <2>5, BehindSound DEF Right, Behind
  <2>7. \A i \in Inums, n \in Places : At(w.din, w.blk, i, n) \in {0, At(din, blk, i, n)}
    BY <2>2, <2>3, <2>5, BehindAddrs
  <2>8. ASSUME NEW i \in Inums, NEW n \in Places
        PROVE  /\ AddrOf(fs.blk, Current(fs, i), n) = At(din, blk, i, n)
               /\ AddrOf(OnDisk(fs).blk, OnDisk(fs).din[i], n) = At(w.din, w.blk, i, n)
    BY <2>1 DEF At, Cur
  <2>9. ASSUME NEW i \in Inums, NEW b \in Listed(i) \cup ListedOnDisk(i)
        PROVE  b # 0 /\ \E n \in Places : b = At(din, blk, i, n)
    <3>1. CASE b \in Listed(i)  BY <2>8, <3>1 DEF Listed, BlocksOf
    <3>2. CASE b \in ListedOnDisk(i)
      <4>1. PICK n \in Places : b = AddrOf(OnDisk(fs).blk, OnDisk(fs).din[i], n) /\ b # 0
        BY <3>2 DEF ListedOnDisk, BlocksOf
      <4>2. b = At(w.din, w.blk, i, n)  BY <2>8, <4>1
      <4> QED BY <2>7, <4>1, <4>2
    <3> QED BY <3>1, <3>2
  <2>10. \A i \in Inums : NamesOnce(fs.blk, Current(fs, i)) /\ NamesOnce(OnDisk(fs).blk, OnDisk(fs).din[i])
    <3>1. ASSUME NEW i \in Inums PROVE NamesOnce(fs.blk, Current(fs, i))
      BY <2>6, <2>8 DEF NamesOnce, Sound, OneOwner
    <3>2. ASSUME NEW i \in Inums PROVE NamesOnce(OnDisk(fs).blk, OnDisk(fs).din[i])
      BY <2>6, <2>8 DEF NamesOnce, Sound, OneOwner
    <3> QED BY <3>1, <3>2
  <2>11. ASSUME NEW i \in Inums, NEW j \in Inums, i # j
         PROVE  (Listed(i) \cup ListedOnDisk(i)) \cap Listed(j) = {}
    <3>1. SUFFICES ASSUME NEW b \in Listed(i) \cup ListedOnDisk(i), b \in Listed(j) PROVE FALSE
      OBVIOUS
    <3>2. PICK m \in Places : b = At(din, blk, i, m) /\ b # 0  BY <2>9, <3>1
    <3>3. PICK n \in Places : b = At(din, blk, j, n)  BY <2>9, <3>1
    <3>4. OneOwner(din, blk)  BY <2>6 DEF Sound
    <3>5. At(din, blk, i, m) = At(din, blk, j, n) /\ At(din, blk, i, m) # 0  BY <3>2, <3>3
    <3> QED BY <2>11, <3>4, <3>5 DEF OneOwner
  <2>12. ASSUME NEW i \in Inums, NEW b \in Listed(i) \cup ListedOnDisk(i)
         PROVE  fs.bmap[b] /\ OnDisk(fs).bmap[b] /\ b >= NMETA
    <3>1. PICK n \in Places : b = At(din, blk, i, n) /\ b # 0  BY <2>9, <2>12
    <3>2. b \in NMETA .. FSSIZE - 1  BY <2>6, <3>1 DEF Sound, OneOwner
    <3>3. fs.bmap[b]  BY <2>6, <3>1 DEF Sound, Marked
    <3>4. OnDisk(fs).bmap[b]  BY <2>1, <2>6, <3>3
    <3> QED BY <3>2, <3>3, <3>4
  <2>13. Used \subseteq Inums  BY DEF Used
  <2> QED BY <2>10, <2>11, <2>12, <2>13 DEF BlocksHaveOneOwner
<1> QED BY <1>1, Invariant, PTL
=============================================================================
