----------------------------- MODULE FileSysInv -----------------------------
(***************************************************************************)
(* The inductive invariant of the file system.  Its parts are predicates   *)
(* of a state s that is handed from one function of fs.c to the next, so   *)
(* that they can be said of the states in the middle of a call as well:    *)
(*   Typed     the fields have their types                                 *)
(*   Ordered   every image in the log has one directory and files without  *)
(*             holes, and the table agrees with the inodes on the disk     *)
(*   Owned     the addresses that the inodes name have one owner each, are *)
(*             marked in the bitmap, and the entries of the directory name *)
(*             files that were made: of every image in the log, so that a  *)
(*             machine that stops there finds a sound disk, and of the     *)
(*             inodes as the kernel knows them, which the disk lags behind *)
(*   Held      every handle has a reference, and nobody else has one       *)
(* After a truncation that was cut (torn) the owners are given up; cut is  *)
(* that flag, and what does not depend on it holds all the same.           *)
(***************************************************************************)
EXTENDS FileSys

(***************************************************************************)
(* Types.  A state of the file system is a record; after a panic, or with  *)
(* addresses that a cut truncation left behind, an operator still leaves   *)
(* one of the same type.                                                   *)
(***************************************************************************)
UnitType == Nat \X Seq(Nat)
Contents == [Offs -> UnitType]
ImageType == [magic : {FSMAGIC}, bmap : [Blocks -> BOOLEAN], din : [Inums -> InodeType],
              blk : [Blocks -> Contents]]
SlotType == [inum : {0} \cup Inums, ref : Int, kept : BOOLEAN, valid : BOOLEAN,
             copy : InodeType]

Typed(s) ==
    /\ DOMAIN s = {"bmap", "din", "blk", "log", "it", "why", "ret"}
    /\ s.bmap \in [Blocks -> BOOLEAN]
    /\ s.din \in [Inums -> InodeType]
    /\ s.blk \in [Blocks -> Contents]
    /\ s.log \in Seq(ImageType) /\ Len(s.log) > 0
    /\ s.it \in [Slots -> SlotType]

(***************************************************************************)
(* The invariant, in parts.                                                *)
(***************************************************************************)
\* The entry of an inode that leads to block bn of its contents.
EntryOf(bn) == IF bn < NDIRECT THEN bn ELSE NDIRECT

\* Every block of the contents has such an entry.
Filled(c) == \A o \in 0 .. c.size - 1 : c.addrs[EntryOf(o \div BSIZE)] # 0

\* A disk has one directory, and files without holes; block 0 is not free.
Rooted(w) ==
    /\ w.bmap[0]
    /\ w.din[ROOTINO].type = T_DIR
    /\ \A i \in Inums \ {ROOTINO} : w.din[i].type # T_DIR /\ Filled(w.din[i])

\* The entries of the directory name files that were made.
At(din, blk, i, n) == AddrOf(blk, din[i], n)
DataIn(din, blk, i, n) == IF At(din, blk, i, n) = 0 THEN ZeroBlock ELSE blk[At(din, blk, i, n)]
IsFile(din, i) == i \in Inums /\ din[i].type = T_FILE
EntryNames(din, e) == e[1] = 0 \/ IsFile(din, e[1])
Entered(din, blk) ==
    \A n \in 0 .. MAXFILE - 1, o \in Offs : EntryNames(din, DataIn(din, blk, ROOTINO, n)[o])

\* The table: one entry for an inode, of the type the inode has.
Table(s) ==
    /\ s.din = OnDisk(s).din
    /\ \A k, l \in Slots : Busy(s, k) /\ Busy(s, l) /\ s.it[k].inum = s.it[l].inum => k = l
    /\ \A k \in Slots : Busy(s, k) => s.it[k].inum \in Inums
    /\ \A k \in Slots : Busy(s, k) /\ s.it[k].valid =>
          /\ s.it[k].copy.type = s.din[s.it[k].inum].type /\ s.it[k].copy.type # T_NONE
          /\ s.it[k].inum # ROOTINO => Filled(s.it[k].copy)

\* The copies of files are what the disk has, but for those of the slots in K.
Stored(s, K) ==
    \A k \in Slots \ K : Busy(s, k) /\ s.it[k].valid /\ s.it[k].inum # ROOTINO =>
        s.it[k].copy = s.din[s.it[k].inum]

Ordered(s, K) ==
    /\ Typed(s)
    /\ \A w \in Range(s.log) : Rooted(w)
    /\ s.bmap[0]
    /\ s.why = "no" => Table(s) /\ Stored(s, K)

\* Blocks that inodes din name through the indirect blocks of blk have one owner,
\* and the bitmap has them and the metadata as in use.
OneOwner(din, blk) ==
    /\ \A i \in Inums, n \in Places : At(din, blk, i, n) # 0 => At(din, blk, i, n) \in NMETA .. FSSIZE - 1
    /\ \A i, j \in Inums, m, n \in Places :
          At(din, blk, i, m) = At(din, blk, j, n) /\ At(din, blk, i, m) # 0 => i = j /\ m = n
    /\ \A i \in Inums : din[i].type = T_NONE => din[i].addrs = NoAddrs
Marked(bmp, din, blk) ==
    /\ \A b \in 0 .. NMETA - 1 : bmp[b]
    /\ \A i \in Inums, n \in Places : At(din, blk, i, n) # 0 => bmp[At(din, blk, i, n)]
Sound(bmp, din, blk) == OneOwner(din, blk) /\ Marked(bmp, din, blk)

\* What the kernel knows of the inodes, and a disk w that lags behind the kernel's
\* bitmap, inodes and blocks: addresses may be missing there, and data.
Cur(s) == [i \in Inums |-> Current(s, i)]
Behind(w, bmp, din, blk) ==
    /\ w.bmap = bmp
    /\ \A i \in Inums : w.din[i].type = din[i].type
    /\ \A i \in Inums, n \in 0 .. NDIRECT : w.din[i].addrs[n] \in {0, din[i].addrs[n]}
    /\ \A i \in Inums, n \in Places :
          (n = MAXFILE \/ i = ROOTINO) /\ At(din, blk, i, n) # 0 =>
              w.blk[At(din, blk, i, n)] = blk[At(din, blk, i, n)]

Right(bmp, din, blk) == Sound(bmp, din, blk) /\ Entered(din, blk)
Owned(s) ==
    /\ \A w \in Range(s.log) : Right(w.bmap, w.din, w.blk)
    /\ s.why = "no" => /\ Right(s.bmap, Cur(s), s.blk)
                       /\ Behind(OnDisk(s), s.bmap, Cur(s), s.blk)

Good(s, K, cut) == Ordered(s, K) /\ (cut \/ Owned(s))

\* A function panics only for want of room, unless the machine has cut a truncation.
OutOfBlocks == "balloc: out of blocks"
OutOfInodes == "ialloc: no inodes"
OutOfSlots == "iget: no inodes"
OutOfDirectory == "dirlink"
Room == {OutOfBlocks, OutOfInodes, OutOfSlots, OutOfDirectory}
Goes(s, t, cut) ==
    /\ s.why # "no" => t.why = s.why
    /\ cut \/ t.why = s.why \/ t.why \in Room

\* Handles have a file that is in the table, with a reference for each; nobody
\* else has a reference between two calls.
Held(s, op) ==
    /\ \A h \in Handles : op[h] = Closed \/
          /\ op[h].ip \in Slots /\ s.it[op[h].ip].valid
          /\ s.it[op[h].ip].copy.type = T_FILE
    /\ \A k \in Slots : s.it[k].ref = Cardinality({h \in Handles : op[h].ip = k})
FsInv ==
    /\ Good(fs, {}, torn)
    /\ fs.log = <<OnDisk(fs)>>
    /\ fs.why # "no" => open = AllClosed /\ fs = [Mount(OnDisk(fs)) EXCEPT !.why = fs.why]
    /\ Held(fs, open)

\* The invariant of the file system.
OpenType == [Handles -> [ip : {0} \cup Slots, off : 0 .. MAXFILE * BSIZE]]
Inv ==
    /\ FsInv /\ open \in OpenType
    /\ crashes \in 0 .. MaxCrash /\ doubt \subseteq Inums /\ torn \in BOOLEAN
    /\ torn \/ fs.why \in {"no"} \cup Room

(***************************************************************************)
(* The same parts, of an image, and of a state that may have panicked.     *)
(***************************************************************************)
Safe(w, cut) == Rooted(w) /\ (cut \/ Right(w.bmap, w.din, w.blk))
LogGood(s, cut) == \A w \in Range(s.log) : Safe(w, cut)
Whole(s) == Right(s.bmap, Cur(s), s.blk) /\ Behind(OnDisk(s), s.bmap, Cur(s), s.blk)
Live(s, K, cut) == Table(s) /\ Stored(s, K) /\ (cut \/ Whole(s))

\* A disk on which a machine may stop, and the end of itrunc and of a call.
Legal(w, cut) == Rooted(w) /\ (cut \/ Right(w.bmap, w.din, w.blk) \/ Unmarked(w))
Ended(t, cut) ==
    /\ Typed(t) /\ t.bmap[0] /\ Safe(OnDisk(t), cut)
    /\ t.why = "no" => Live(t, {}, cut)
    /\ \A w \in Range(t.log) : Legal(w, cut)

\* What the call of a program owes to the invariant.
CallOK(r) ==
    /\ Ended(r.s, torn) /\ Goes(fs, r.s, torn) /\ (r.kind # "trunc" => LogGood(r.s, torn))
    /\ r.open \in OpenType
    /\ r.kind \in {"write", "fault"} => r.file \in Inums
    /\ r.s.why = "no" => Held(r.s, r.open)

(***************************************************************************)
(* What the functions of fs.c leave as it is.                              *)
(***************************************************************************)
\* The same blocks, and inodes with the same contents: a block that is not there is
\* one of zeroes.
SameAddrs(s, t) ==
    \A i \in Inums, n \in Places : At(Cur(t), t.blk, i, n) = At(Cur(s), s.blk, i, n)
DataOf(s, i, n) == DataIn(Cur(s), s.blk, i, n)
SameData(s, t) == \A i \in Inums, n \in 0 .. MAXFILE - 1 : DataOf(t, i, n) = DataOf(s, i, n)

\* The table, but for new addresses.
SameSlot(x, y) == y.inum = x.inum /\ y.ref = x.ref /\ y.kept = x.kept /\ y.valid = x.valid
InUse(s, k) == Busy(s, k) /\ s.it[k].valid

Widened(s, t) ==
    /\ t.din = s.din /\ (t.why = "no" => s.why = "no")
    /\ \A l \in Slots :
          /\ SameSlot(s.it[l], t.it[l])
          /\ t.it[l].copy.type = s.it[l].copy.type /\ t.it[l].copy.size = s.it[l].copy.size
          /\ \A m \in 0 .. NDIRECT : s.it[l].copy.addrs[m] # 0 =>
                t.it[l].copy.addrs[m] = s.it[l].copy.addrs[m]

\* References: from s to t slot x has one more, or none has (x is 0); the slots that are
\* referred to keep their inodes.
Counted(s) == \A k \in Slots : s.it[k].ref \in Nat
Pinned(x, y) == y.inum = x.inum /\ (x.valid => y.valid /\ y.copy.type = x.copy.type)
Gains(s, t, x) ==
    \A k \in Slots : /\ t.it[k].ref = s.it[k].ref + (IF k = x THEN 1 ELSE 0)
                     /\ s.it[k].ref > 0 => Pinned(s.it[k], t.it[k])
Drops(s, t, x) ==
    \A k \in Slots : /\ t.it[k].ref = s.it[k].ref - (IF k = x THEN 1 ELSE 0)
                     /\ Pinned(s.it[k], t.it[k])

\* A function that leaves the file system good, with one more reference, to slot x, or
\* with none.
Does(s, t, x, cut) ==
    Good(t, {}, cut) /\ Goes(s, t, cut) /\ (t.why = "no" => Gains(s, t, x))

\* The blocks of inode i are being freed, and the first n are free by now.
Freeing(bmp, din, blk, i, n) ==
    /\ OneOwner(din, blk)
    /\ \A b \in 0 .. NMETA - 1 : bmp[b]
    /\ \A j \in Inums, m \in Places :
          At(din, blk, j, m) # 0 /\ ~ (j = i /\ m < n) => bmp[At(din, blk, j, m)]

(***************************************************************************)
(* The disk that mkfs makes.                                               *)
(***************************************************************************)
\* The program's image and counters, and what holds of the image at any time: the
\* blocks up to freeblock are in use, those after it are zeroed.
Builder(m) ==
    /\ DOMAIN m = {"magic", "bmap", "din", "blk", "freeinode", "freeblock"}
    /\ m.magic = FSMAGIC /\ m.freeinode \in Nat /\ m.freeblock \in Nat
Below(n) == [b \in Blocks |-> b < n]
Blank(blk, n) == \A b \in Blocks : b >= n => blk[b] = ZeroBlock
Files(din) ==
    /\ din[ROOTINO].type = T_DIR
    /\ \A i \in Inums \ {ROOTINO} : din[i].type # T_DIR /\ Filled(din[i])
Formed(n, din, blk) ==
    /\ din \in [Inums -> InodeType] /\ blk \in [Blocks -> Contents] /\ n \in NMETA .. FSSIZE
    /\ Sound(Below(n), din, blk) /\ Blank(blk, n) /\ Files(din) /\ Entered(din, blk)
=============================================================================
