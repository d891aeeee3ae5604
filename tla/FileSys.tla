------------------------------ MODULE FileSys ------------------------------
(***************************************************************************)
(* The file system calls of programs (fileopen, fileread and filewrite of  *)
(* file.c, sys_linkat, sys_unlinkat and sys_fstat of syscall.c) on a disk  *)
(* that mkfs made, and the end of the machine in the middle of any of them.*)
(*                                                                         *)
(* A call is one step: it does not give up the CPU.  Performed(r) is that  *)
(* step when it goes through, when the kernel panics in it, and when the   *)
(* machine stops after any of its writes to the disk.                      *)
(***************************************************************************)
EXTENDS Mkfs

CONSTANTS Handles,   \* file descriptors of all processes, each with a file
          Sources,   \* what programs write
          Reads,     \* how much they ask to read
          Goods,     \* how much of a source that goes wrong can be read
          Images,    \* what mkfs may be asked to put on the disk
          MaxCalls,  \* bounds of the model: how many calls there are, and
          MaxCrash   \* how often the machine is started again

ASSUME FileSysAssumption ==
    /\ Handles \subseteq Nat \ {0} /\ IsFiniteSet(Handles)
    /\ \A v \in Sources : v \in Seq(Nat)
    /\ Reads \subseteq Nat
    /\ Goods \subseteq Nat
    /\ \A files \in Images : Fits(files)
    /\ MaxCalls \in Nat /\ MaxCrash \in Nat

VARIABLES
    fs,      \* the state of the file system (Inodes)
    open,    \* open[h]: the itable entry and the offset of handle h
    ret,     \* what the call returned
    calls,   \* calls so far
    crashes, \* times the machine has been started again
    doubt,   \* history: files a write was cut short in
    torn,    \* history: the machine has stopped in the middle of itrunc
    seen     \* auxiliary: the names and files programs see, Seen of the above

vars == <<fs, open, ret, calls, crashes, doubt, torn, seen>>

Closed == [ip |-> 0, off |-> 0]
AllClosed == [h \in Handles |-> Closed]
FreeHandles == {h \in Handles : open[h] = Closed}

\* What is left of a state between two calls.  An itable entry nobody refers to
\* is a free one: iget and ivalid set its fields before anything reads them.
Settled(s) == [s EXCEPT !.log = <<OnDisk(s)>>, !.ret = 0,
                        !.it = [k \in Slots |-> IF Busy(s, k) THEN s.it[k] ELSE FreeSlot]]

(***************************************************************************)
(* What programs see of a state: the names and the contents of the files   *)
(* that are not in doubt.                                                  *)
(***************************************************************************)

\* The inode i as the kernel knows it: in memory, or else on the disk.
Current(s, i) ==
    LET here == {k \in Slots : Busy(s, k) /\ s.it[k].valid /\ s.it[k].inum = i}
    IN  IF here # {} THEN s.it[Min(here)].copy ELSE s.din[i]

Units(s, c) == [n \in 1 .. c.size |-> UnitOf(s, c, n - 1)]
UnitsOf(s, i) == Units(s, Current(s, i))

Seen(s, hidden) ==
    [names |-> {<<u[2], u[1]>> : u \in {e \in Range(UnitsOf(s, ROOTINO)) : e[1] # 0}},
     content |-> [i \in Inums |-> IF i \in hidden \cup {ROOTINO} THEN <<>>
                                  ELSE LET u == UnitsOf(s, i) IN [n \in DOMAIN u |-> u[n][1]]]]

Init ==
    /\ \E files \in Images : fs = Mount(mkfs(files))
    /\ open = AllClosed /\ ret = <<0>>
    /\ calls = 0 /\ crashes = 0 /\ doubt = {} /\ torn = FALSE
    /\ seen = Seen(fs, {})

(***************************************************************************)
(* A call that ends in the state r.s, with open files r.open, and returns  *)
(* r.val.  r.file is the file it writes or truncates, or 0.                *)
(***************************************************************************)
Result(s, handles, val, kind, file) ==
    [s |-> s, open |-> handles, val |-> val, kind |-> kind, file |-> file]

Returns(r) ==
    /\ r.s.why = "no"
    /\ fs' = Settled(r.s) /\ open' = r.open /\ ret' = r.val
    /\ doubt' = CASE r.kind = "trunc" -> doubt \ {r.file}
                  [] r.kind = "fault" -> doubt \cup {r.file}
                  [] OTHER -> doubt
    /\ UNCHANGED <<crashes, torn>>

\* A block that an inode on the disk names and the bitmap has as free.
Unmarked(image) ==
    \E i \in Inums : image.din[i].type # T_NONE /\
        \E b \in BlocksOf(image.blk, image.din[i]) : ~image.bmap[b]

StopsAt(r, image, why) ==
    /\ fs' = [Mount(image) EXCEPT !.why = why]
    /\ open' = AllClosed /\ ret' = <<0>>
    /\ doubt' = IF r.kind \in {"write", "fault"} THEN doubt \cup {r.file} ELSE doubt

Panics(r) == r.s.why # "no" /\ StopsAt(r, OnDisk(r.s), r.s.why) /\ UNCHANGED <<crashes, torn>>

Crashes(r) ==
    /\ crashes < MaxCrash /\ crashes' = crashes + 1
    /\ \E n \in 1 .. Len(r.s.log) - 1 :
        /\ StopsAt(r, r.s.log[n], "no")
        /\ torn' = (torn \/ (r.kind = "trunc" /\ Unmarked(r.s.log[n])))

Performed(r) ==
    /\ fs.why = "no" /\ calls < MaxCalls /\ calls' = calls + 1
    /\ Returns(r) \/ Panics(r) \/ Crashes(r)
    /\ seen' = Seen(fs', doubt')

\* The machine is started again after a panic.
Reboot ==
    /\ fs.why # "no" /\ crashes < MaxCrash /\ crashes' = crashes + 1
    /\ fs' = Mount(OnDisk(fs))
    /\ seen' = Seen(fs', doubt)
    /\ UNCHANGED <<open, ret, calls, doubt, torn>>

(***************************************************************************)
(* The calls.                                                              *)
(***************************************************************************)
Inum(s, k) == s.it[k].inum

\* The file descriptor fileopen allocates is the lowest that is free.
OpenResult(name, creat, trunc) ==
    LET Valid(n) == IF n.ret = 0 THEN n ELSE ivalid(n, n.ret)
        h == Min(FreeHandles)
        Fd(s, ip) ==
            IF FreeHandles = {} THEN Result(iput(s, ip), open, <<-1>>, "open", 0)
            ELSE Result(IF trunc THEN itrunc(s, ip) ELSE s,
                        [open EXCEPT ![h] = [ip |-> ip, off |-> 0]], <<h>>,
                        IF trunc THEN "trunc" ELSE "open", Inum(s, ip))
        Found(c) ==
            IF c.ret = 0 THEN Result(c, open, <<-1>>, "open", 0)
            ELSE Fd(IF c.it[c.ret].copy.type = T_FILE THEN c
                    ELSE Panic(c, "unsupported file inode type"), c.ret)
    IN  Found(IF creat THEN create(fs, name, T_FILE) ELSE Valid(namei(fs, name)))

Open(name, creat, trunc) == Performed(OpenResult(name, creat, trunc))

Close(h) == /\ open[h] # Closed
            /\ Performed(Result(iput(fs, open[h].ip), [open EXCEPT ![h] = Closed], <<0>>, "close", 0))

\* good: how much of the source can be read.
WriteResult(h, src, good) ==
    LET k == open[h].ip
        Written(t) ==
            Result(t, [open EXCEPT ![h].off = IF t.ret > 0 THEN @ + t.ret ELSE @], <<t.ret>>,
                   IF good < Len(src) THEN "fault" ELSE "write", Inum(fs, k))
    IN  Written(writei(ivalid(fs, k), k, open[h].off, [n \in DOMAIN src |-> Unit(src[n])], good))

Write(h, src) == open[h] # Closed /\ Performed(WriteResult(h, src, Len(src)))
WriteFault(h, src) ==
    /\ open[h] # Closed
    /\ \E good \in Goods : good < Len(src) /\ Performed(WriteResult(h, src, good))

\* ok: the buffer can be written.
ReadResult(h, n, ok) ==
    LET k == open[h].ip
        Copied(t) ==
            IF copyout(ok, Len(t.ret)) = 0
            THEN Result(t, [open EXCEPT ![h].off = @ + Len(t.ret)],
                        [m \in DOMAIN t.ret |-> t.ret[m][1]], "read", 0)
            ELSE Result(t, open, <<-1>>, "read", 0)
    IN  Copied(readi(ivalid(fs, k), k, open[h].off, n))
Read(h, n, ok) == open[h] # Closed /\ Performed(ReadResult(h, n, ok))

\* sys_linkat puts neither the directory nor the file.
LinkResult(old, new) ==
    LET End(s, dp, v) == Result(Forget(s, dp), open, <<v>>, "link", 0)
        Linked(d, dp, ip) == End(Forget(d, ip), dp, d.ret)
        Found(l, dp) == IF l.ret = 0 THEN End(l, dp, -1)
                        ELSE Linked(dirlink(l, dp, new, Inum(l, l.ret)), dp, l.ret)
        Look(r) == IF strncmp(old, new, DIRSIZ) = 0 THEN End(r, r.ret, -1)
                   ELSE Found(dirlookup(r, r.ret, old), r.ret)
    IN  Look(root_dir(fs))
Link(old, new) == Performed(LinkResult(old, new))

\* Nor does sys_unlinkat.
UnlinkResult(name) ==
    LET End(s, dp, v) == Result(Forget(s, dp), open, <<v>>, "unlink", 0)
        Unlinked(d, dp) == End(d, dp, d.ret)
        Found(l, dp) == IF l.ret = 0 THEN End(l, dp, -1)
                        ELSE Unlinked(dirunlink(Forget(l, l.ret), dp, name), dp)
        Look(r) == Found(dirlookup(r, r.ret, name), r.ret)
    IN  Look(root_dir(fs))
Unlink(name) == Performed(UnlinkResult(name))

\* sys_fstat counts the entries of the directory that name the inode.
FstatResult(h, ok) ==
    LET nlink(units) == Len(SelectSeq(units, LAMBDA e : e[1] = Inum(fs, open[h].ip)))
        Count(t, dp) == Result(Forget(t, dp), open,
                               <<IF copyout(ok, 1) = 0 THEN nlink(t.ret) ELSE -1>>, "fstat", 0)
        Look(r) == Count(readi(r, r.ret, 0, r.it[r.ret].copy.size), r.ret)
    IN  Look(root_dir(fs))
Fstat(h, ok) == open[h] # Closed /\ Performed(FstatResult(h, ok))

\* The cache gives the buffer of a block that was left changed to another
\* block, and reads it again later.
Recycle(b) ==
    /\ fs.why = "no" /\ fs.blk[b] # OnDisk(fs).blk[b]
    /\ fs' = [fs EXCEPT !.blk[b] = OnDisk(fs).blk[b]]
    /\ seen' = Seen(fs', doubt)
    /\ UNCHANGED <<open, ret, calls, crashes, doubt, torn>>

Next ==
    \/ \E n \in Names, creat, trunc \in BOOLEAN : Open(n, creat, trunc)
    \/ \E h \in Handles : \/ Close(h)
                          \/ \E src \in Sources : Write(h, src) \/ WriteFault(h, src)
                          \/ \E ok \in BOOLEAN : Fstat(h, ok) \/ \E n \in Reads : Read(h, n, ok)
    \/ \E old, new \in Names : Link(old, new)
    \/ \E n \in Names : Unlink(n)
    \/ \E b \in Blocks : Recycle(b)
    \/ Reboot

Spec == Init /\ [][Next]_vars

(***************************************************************************)
(* Properties.                                                             *)
(***************************************************************************)

Used == {i \in Inums : fs.din[i].type # T_NONE}

\* The type invariant of the file system.
InodeType == [type : {T_NONE, T_DIR, T_FILE}, size : 0 .. MAXFILE * BSIZE,
              addrs : [0 .. NDIRECT -> Blocks]]
TypeOK ==
    /\ fs.bmap \in [Blocks -> BOOLEAN]
    /\ fs.din \in [Inums -> InodeType]
    /\ fs.it \in [Slots -> [inum : {0} \cup Inums, ref : Nat, kept : BOOLEAN,
                            valid : BOOLEAN, copy : InodeType]]
    /\ \A b \in Blocks, o \in Offs : fs.blk[b][o][1] \in Nat
    /\ open \in [Handles -> [ip : {0} \cup Slots, off : 0 .. MAXFILE * BSIZE]]
    /\ crashes \in 0 .. MaxCrash /\ doubt \subseteq Inums /\ torn \in BOOLEAN

\* The blocks inode i names, in memory and on the disk.
Listed(i) == BlocksOf(fs.blk, Current(fs, i))
ListedOnDisk(i) == BlocksOf(OnDisk(fs).blk, OnDisk(fs).din[i])

\* It names each of them in one place.
NamesOnce(blk, c) ==
    \A m, n \in Places : AddrOf(blk, c, m) = AddrOf(blk, c, n) /\ AddrOf(blk, c, m) # 0 => m = n

\* No block is in two files, twice in one, free, or part of the metadata,
\* whatever was created, truncated and written before and wherever the machine
\* stopped, except after a truncation that was cut.
BlocksHaveOneOwner ==
    torn \/
    /\ \A i \in Used : /\ NamesOnce(fs.blk, Current(fs, i))
                       /\ NamesOnce(OnDisk(fs).blk, OnDisk(fs).din[i])
    /\ \A i, j \in Used : i # j => (Listed(i) \cup ListedOnDisk(i)) \cap Listed(j) = {}
    /\ \A i \in Used : \A b \in Listed(i) \cup ListedOnDisk(i) :
          fs.bmap[b] /\ OnDisk(fs).bmap[b] /\ b >= NMETA

\* The kernel panics for want of room only: never because a block to be freed
\* is free, a directory names an inode that was not made, or a read of the
\* directory comes up short.
OnlyRoomRunsOut ==
    torn \/ fs.why \in {"no", "balloc: out of blocks", "ialloc: no inodes", "iget: no inodes",
                         "dirlink"}

\* An open file keeps its inode in the table, in one entry, with a reference
\* for each handle, and the copy there is what the disk has.
HandlesHoldInodes ==
    /\ \A k \in Slots : fs.it[k].ref = Cardinality({h \in Handles : open[h].ip = k})
    /\ \A k, l \in Slots : Busy(fs, k) /\ Busy(fs, l) /\ fs.it[k].inum = fs.it[l].inum => k = l
    /\ \A k \in Slots : fs.it[k].ref > 0 => fs.it[k].valid /\ fs.it[k].copy = fs.din[fs.it[k].inum]

Store == INSTANCE FileStore WITH
    MaxLen <- MAXFILE * BSIZE,
    names <- IF torn THEN {} ELSE seen.names,
    content <- IF torn THEN [i \in Inums |-> <<>>] ELSE seen.content,
    open <- [h \in Handles |-> IF torn \/ open[h] = Closed THEN [inum |-> 0, off |-> 0]
                               ELSE [inum |-> fs.it[open[h].ip].inum, off |-> open[h].off]],
    doubt <- IF torn THEN {} ELSE doubt,
    sound <- ~torn,
    ret <- IF torn THEN <<0>> ELSE ret

\* What the comment in dirunlink says it looks for, fs.c line 415, "the dirent
\* that match the ip": an unlink that returns 0 removes the entry of the name it
\* was given, and no other.  The code compares only as many characters as the
\* name has, and does not skip free entries.
UnlinkClearsItsEntry ==
    [][\A n \in Names : Unlink(n) /\ fs'.why = "no" /\ ret' = <<0>> =>
          seen'.names = {p \in seen.names : p[1] # n}]_vars

\* Calls do to the files of the program what they say, and nothing to others,
\* also when the machine stops in the middle of one.
KeepsFiles == Store!Spec
=============================================================================
