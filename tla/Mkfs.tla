-------------------------------- MODULE Mkfs --------------------------------
(***************************************************************************)
(* nfs/fs.c, the program that builds the disk the kernel starts on.  It    *)
(* allocates inodes and blocks by counting, and writes the image of the    *)
(* disk sector by sector; m is the image and its two counters.             *)
(***************************************************************************)
EXTENDS Directory

\* The zeroed disk with its super block; block nmeta is the first to be used.
Formatted ==
    [magic |-> FSMAGIC, bmap |-> [b \in Blocks |-> FALSE],
     din |-> [i \in Inums |-> FreeInode], blk |-> [b \in Blocks |-> ZeroBlock],
     freeinode |-> 1, freeblock |-> NMETA]

\* Sectors and inodes of the image.
wsect(m, b, contents) == [m EXCEPT !.blk[b] = contents]
rsect(m, b) == m.blk[b]
winode(m, i, din) == [m EXCEPT !.din[i] = din]
rinode(m, i) == m.din[i]

mkfsIalloc(m, type) ==
    winode([m EXCEPT !.freeinode = @ + 1], m.freeinode, [FreeInode EXCEPT !.type = type])

\* The blocks iappend needs for offset off of inode i: the indirect one first.
NeedDirect(m, i, n) ==
    IF rinode(m, i).addrs[n] # 0 THEN m
    ELSE winode([m EXCEPT !.freeblock = @ + 1], i, [rinode(m, i) EXCEPT !.addrs[n] = m.freeblock])
NeedIndirect(m, b, n) ==
    IF rsect(m, b)[n][1] # 0 THEN m
    ELSE wsect([m EXCEPT !.freeblock = @ + 1], b, [rsect(m, b) EXCEPT ![n] = Unit(m.freeblock)])

\* iappend, unit by unit.
AppendUnit(m, i, u) ==
    LET off == rinode(m, i).size
        fbn == off \div BSIZE
        d == NeedDirect(m, i, IF fbn < NDIRECT THEN fbn ELSE NDIRECT)
        ind == rinode(d, i).addrs[NDIRECT]
        e == IF fbn < NDIRECT THEN d ELSE NeedIndirect(d, ind, fbn - NDIRECT)
        x == IF fbn < NDIRECT THEN rinode(e, i).addrs[fbn] ELSE rsect(e, ind)[fbn - NDIRECT][1]
    IN  winode(wsect(e, x, [rsect(e, x) EXCEPT ![off % BSIZE] = u]), i,
               [rinode(e, i) EXCEPT !.size = off + 1])
iappend(m, i, units) ==
    LET done[n \in 0 .. Len(units)] == IF n = 0 THEN m ELSE AppendUnit(done[n - 1], i, units[n])
    IN  done[Len(units)]

AddFile(m, f) ==
    LET inum == m.freeinode
        a == iappend(mkfsIalloc(m, T_FILE), ROOTINO, <<<<inum, strncpy(f.name, DIRSIZ)>>>>)
    IN  iappend(a, inum, [n \in DOMAIN f.data |-> Unit(f.data[n])])

\* The size of the directory is rounded up, past its last block if it is full.
RootSize(off) == (off \div BSIZE + 1) * BSIZE

mkfsBalloc(m, used) == [b \in Blocks |-> b < used]

\* The image mkfs leaves, given the files to put on it, in order.
Built(files) ==
    LET added[n \in 0 .. Len(files)] ==
            IF n = 0 THEN mkfsIalloc(Formatted, T_DIR) ELSE AddFile(added[n - 1], files[n])
    IN  added[Len(files)]
mkfs(files) ==
    LET f == Built(files)
        m == winode(f, ROOTINO, [rinode(f, ROOTINO) EXCEPT !.size = RootSize(@)])
    IN  [magic |-> m.magic, blk |-> m.blk, din |-> m.din, bmap |-> mkfsBalloc(m, m.freeblock)]

\* Files that there is room for: inodes, blocks, and places in inodes (the assertion in
\* iappend).  mkfs checks no more than the last.
Fits(files) ==
    /\ files \in Seq([name : Names, data : Seq(Nat)])
    /\ Len(files) + 1 < NINODES
    /\ RootSize(Len(files)) <= MAXFILE * BSIZE
    /\ \A n \in DOMAIN files : Len(files[n].data) <= MAXFILE * BSIZE
    /\ Built(files).freeblock <= FSSIZE
=============================================================================
