------------------------------- MODULE Inodes -------------------------------
(***************************************************************************)
(* The block and inode layers of the file system, fs.c lines 1 to 342.     *)
(*                                                                         *)
(* No file system operation gives up the CPU (Virtio: the disk is waited   *)
(* for with interrupts on but without yielding), so a function of fs.c is  *)
(* an operator from the state of the file system before it to the state    *)
(* after it.  What can come in between is the end of the machine: the      *)
(* field log has the contents of the disk after every bwrite, and a crash  *)
(* leaves one of them (FileSys).                                           *)
(*                                                                         *)
(* A state s has                                                           *)
(*   bmap, din, blk  the disk as the kernel sees it, through the cache:    *)
(*                   the bitmap, the inodes, the contents of the blocks    *)
(*   log             the images of the disk itself, the last one now there *)
(*   it              itable                                                *)
(*   why             "no", or what the kernel has panicked with            *)
(*   ret             what the last function returned                       *)
(* The contents of a block are BSIZE units <<number, name>>: a byte or a   *)
(* block address is a number, a directory entry a number and a name.       *)
(*                                                                         *)
(* A function that calls others is a chain of local operators, each a step *)
(* from the state that the call before it left.                            *)
(***************************************************************************)
EXTENDS Integers, Sequences, FiniteSets, FiniteSetsExt

CONSTANTS FSSIZE,   \* blocks of the disk (1000)
          NMETA,    \* of these, boot, super, inode and bitmap blocks
          BSIZE,    \* units in a block: bytes (1024), addresses (256), entries (64)
          NDIRECT,  \* blocks an inode lists itself (12)
          NINODES,  \* inodes on the disk, and 0, which is none (200)
          NINODE    \* entries of itable (50)

ASSUME InodesAssumption ==
    /\ NMETA \in Nat \ {0} /\ FSSIZE \in Nat /\ FSSIZE > NMETA
    /\ BSIZE \in Nat \ {0} /\ NDIRECT \in Nat
    /\ NINODES \in Nat /\ NINODES > 1
    /\ NINODE \in Nat \ {0}

NINDIRECT == BSIZE
MAXFILE   == NDIRECT + NINDIRECT
ROOTINO   == 1
FSMAGIC   == "0x10203040"
T_NONE    == 0
T_DIR     == 1
T_FILE    == 2

Blocks == 0 .. FSSIZE - 1
Inums  == 1 .. NINODES - 1
Slots  == 1 .. NINODE
Offs   == 0 .. BSIZE - 1

Unit(x)   == <<x, <<>>>>
Zero      == Unit(0)
ZeroBlock == [o \in Offs |-> Zero]
NoAddrs   == [n \in 0 .. NDIRECT |-> 0]
FreeInode == [type |-> T_NONE, size |-> 0, addrs |-> NoAddrs]

\* An entry of itable.  ref counts the references somebody will put; kept is
\* TRUE once a reference was dropped without iput, so that the count in the
\* code, which includes it, never returns to zero.
FreeSlot == [inum |-> 0, ref |-> 0, kept |-> FALSE, valid |-> FALSE, copy |-> FreeInode]
EmptyTable == [k \in Slots |-> FreeSlot]
Busy(s, k) == s.it[k].ref > 0 \/ s.it[k].kept

Panic(s, msg) == IF s.why = "no" THEN [s EXCEPT !.why = msg] ELSE s
Ret(s, x) == [s EXCEPT !.ret = x]

(***************************************************************************)
(* bwrite, of a block of the bitmap, of inodes and of data.  A kernel that *)
(* has panicked writes nothing more.                                       *)
(***************************************************************************)
OnDisk(s) == s.log[Len(s.log)]
Bwrite(s, image) == IF s.why = "no" THEN [s EXCEPT !.log = Append(@, image)] ELSE s
BwriteMap(s) == Bwrite(s, [OnDisk(s) EXCEPT !.bmap = s.bmap])
BwriteInode(s, i) == Bwrite(s, [OnDisk(s) EXCEPT !.din[i] = s.din[i]])
BwriteBlock(s, b) == Bwrite(s, [OnDisk(s) EXCEPT !.blk[b] = s.blk[b]])

\* The kernel starts on a disk: fsinit reads the super block.
Mount(image) ==
    [bmap |-> image.bmap, din |-> image.din, blk |-> image.blk, log |-> <<image>>,
     it |-> EmptyTable, ret |-> 0,
     why |-> IF image.magic = FSMAGIC THEN "no" ELSE "invalid file system"]

(***************************************************************************)
(* Blocks.                                                                 *)
(***************************************************************************)
bzero(s, b) == BwriteBlock([s EXCEPT !.blk[b] = ZeroBlock], b)

\* Mutant: the bitmap is changed in the buffer only.
MarkUnwritten(s, b) == [s EXCEPT !.bmap[b] = TRUE]
Mark(s, b) == BwriteMap([s EXCEPT !.bmap[b] = TRUE])

balloc(s) ==
    LET free == {b \in Blocks : ~s.bmap[b]} IN
    IF free = {} THEN Ret(Panic(s, "balloc: out of blocks"), 0)
    ELSE Ret(bzero(Mark(s, Min(free)), Min(free)), Min(free))

bfree(s, b) ==
    IF s.bmap[b] THEN BwriteMap([s EXCEPT !.bmap[b] = FALSE])
                 ELSE Panic(s, "freeing free block")

(***************************************************************************)
(* Inodes and the table of inodes in memory.                               *)
(***************************************************************************)
\* Mutant: an entry is taken for a second copy of an inode that is in use.
HereNever(s, i) == {}
Here(s, i) == {k \in Slots : Busy(s, k) /\ s.it[k].inum = i}

\* After a panic there is no entry to return: iget and ivalid leave the table alone.
iget(s, i) ==
    LET here == Here(s, i)
        free == {k \in Slots : ~Busy(s, k)}
    IN  IF s.why # "no" THEN Ret(s, 1) ELSE
        CASE here # {} -> Ret([s EXCEPT !.it[Min(here)].ref = @ + 1], Min(here))
          [] here = {} /\ free # {} ->
               Ret([s EXCEPT !.it[Min(free)] = [@ EXCEPT !.inum = i, !.ref = 1, !.valid = FALSE]],
                   Min(free))
          [] OTHER -> Ret(Panic(s, "iget: no inodes"), 1)

ialloc(s, type) ==
    LET free == {i \in Inums : s.din[i].type = T_NONE}
        i == Min(free)
    IN  IF free = {} THEN Ret(Panic(s, "ialloc: no inodes"), 1)
        ELSE iget(BwriteInode([s EXCEPT !.din[i] = [FreeInode EXCEPT !.type = type]], i), i)

iupdate(s, k) == BwriteInode([s EXCEPT !.din[s.it[k].inum] = s.it[k].copy], s.it[k].inum)

ivalid(s, k) ==
    LET i == s.it[k].inum IN
    IF s.it[k].valid \/ s.why # "no" THEN s
    ELSE LET t == [s EXCEPT !.it[k].copy = s.din[i], !.it[k].valid = TRUE]
         IN  IF s.din[i].type = T_NONE THEN Panic(t, "ivalid: no type") ELSE t

\* The branch that would free an inode without links is compiled out ("&& 0").
iput(s, k) == [s EXCEPT !.it[k].ref = @ - 1]

\* The caller drops its reference and does not put it.
Forget(s, k) == [s EXCEPT !.it[k].ref = @ - 1, !.it[k].kept = TRUE]

(***************************************************************************)
(* The contents of an inode.                                               *)
(***************************************************************************)
\* The block an entry of the inode, or of its indirect block, names.
bmapDirect(s, k, n) ==
    IF s.it[k].copy.addrs[n] # 0 THEN Ret(s, s.it[k].copy.addrs[n])
    ELSE LET Enter(a) == [a EXCEPT !.it[k].copy.addrs[n] = a.ret] IN Enter(balloc(s))

\* s.ret is the indirect block.
bmapIndirect(s, n) ==
    LET b == s.ret
        Enter(a) == BwriteBlock([a EXCEPT !.blk[b][n] = Unit(a.ret)], b)
    IN  IF s.blk[b][n][1] # 0 THEN Ret(s, s.blk[b][n][1]) ELSE Enter(balloc(s))

bmap(s, k, bn) ==
    IF bn < NDIRECT THEN bmapDirect(s, k, bn)
    ELSE IF bn < MAXFILE
         THEN bmapIndirect(bmapDirect(s, k, NDIRECT), bn - NDIRECT)
         ELSE Ret(Panic(s, "bmap: out of range"), 0)

\* The blocks an inode names, or 0: those of its contents, in order, and last
\* the indirect block.
Places == 0 .. MAXFILE
AddrOf(blk, c, n) ==
    IF n < NDIRECT THEN c.addrs[n]
    ELSE IF n = MAXFILE \/ c.addrs[NDIRECT] = 0 THEN c.addrs[NDIRECT]
    ELSE blk[c.addrs[NDIRECT]][n - NDIRECT][1]
BlocksOf(blk, c) == {AddrOf(blk, c, n) : n \in Places} \ {0}

\* Mutant: the inode keeps its list of blocks.
EmptiedStale(c) == [c EXCEPT !.size = 0]
Emptied(c) == [c EXCEPT !.size = 0, !.addrs = NoAddrs]

itrunc(s, k) ==
    LET Free(t, b) == IF b = 0 THEN t ELSE bfree(t, b)
        freed[n \in 0 .. MAXFILE + 1] ==
            IF n = 0 THEN s ELSE Free(freed[n - 1], AddrOf(s.blk, s.it[k].copy, n - 1))
        Clear(t) == iupdate([t EXCEPT !.it[k].copy = Emptied(@)], k)
    IN  Clear(freed[MAXFILE + 1])

Least(a, b) == IF a < b THEN a ELSE b

\* A unit of the contents of an inode.
UnitOf(s, c, off) ==
    LET b == AddrOf(s.blk, c, off \div BSIZE) IN IF b = 0 THEN Zero ELSE s.blk[b][off % BSIZE]

\* readi returns the units it copies; reading may allocate.
readi(s, k, off, n) ==
    LET size == s.it[k].copy.size
        len == IF off > size THEN 0 ELSE Least(n, size - off)
        read[m \in 0 .. len] ==
            IF m = 0 THEN s ELSE bmap(read[m - 1], k, (off + m - 1) \div BSIZE)
        Copy(t) == Ret(t, [m \in 1 .. len |-> UnitOf(t, t.it[k].copy, off + m - 1)])
    IN  Copy(read[len])

\* How much copyin copies of n units, skip units into a source whose first good
\* units are on pages that are there: it goes on, page by page, to the first page
\* that is not.  copyout, which ok says can write, is all or nothing to a caller.
copyin(good, skip, n) == Least(n, good - skip)
copyout(ok, n) == IF ok \/ n = 0 THEN 0 ELSE -1

\* One turn of the loop of writei: src goes to the part of block bn that lies
\* in off .. off + Len(src) - 1.  When the copy fails, what it has copied is in
\* the buffer, which is released and not written.  ret is tot, the units written;
\* a turn after a failed one does nothing.
\* Mutant: the buffer is released without bwrite.
SaveNot(s, b) == s
Save(s, b) == BwriteBlock(s, b)

WriteBlock(s, k, off, src, good, bn) ==
    LET lo == IF bn * BSIZE < off THEN off ELSE bn * BSIZE
        hi == Least(off + Len(src), (bn + 1) * BSIZE)
        got == copyin(good, lo - off, hi - lo)
        New(old) == [o \in Offs |-> LET i == bn * BSIZE + o - off + 1 IN
                        IF i \in lo - off + 1 .. lo - off + got THEN src[i] ELSE old[o]]
        Release(u, b) == IF got = hi - lo THEN Ret(Save(u, b), hi - off) ELSE Ret(u, s.ret)
        Copy(t) == Release([t EXCEPT !.blk[t.ret] = New(@)], t.ret)
    IN  IF s.ret < lo - off THEN s ELSE Copy(bmap(s, k, bn))

writei(s, k, off, src, good) ==
    LET n == Len(src)
        turns == IF n = 0 THEN 0 ELSE (off + n - 1) \div BSIZE + 1 - off \div BSIZE
        written[m \in 0 .. turns] ==
            IF m = 0 THEN Ret(s, 0)
            ELSE WriteBlock(written[m - 1], k, off, src, good, off \div BSIZE + m - 1)
        Grow(t) == iupdate([t EXCEPT !.it[k].copy.size =
                                IF off + t.ret > @ THEN off + t.ret ELSE @], k)
    IN  IF off > s.it[k].copy.size \/ off + n > MAXFILE * BSIZE THEN Ret(s, -1)
        ELSE Grow(written[turns])
=============================================================================
