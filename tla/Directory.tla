----------------------------- MODULE Directory -----------------------------
(***************************************************************************)
(* The root directory, the only one there is: fs.c lines 345 to 444, and   *)
(* create of file.c.  A directory entry is a unit <<inum, name>> of the    *)
(* contents of inode ROOTINO; inum 0 is a free entry, whose name stays.    *)
(***************************************************************************)
EXTENDS Inodes, CString

CONSTANTS Names,   \* names programs use, shorter than DIRSIZ
          DIRSIZ   \* characters of a name in an entry (14)

ASSUME DirectoryAssumption ==
    /\ DIRSIZ \in Nat
    /\ \A n \in Names : n \in Seq(Nat \ {0}) /\ Len(n) < DIRSIZ

Entries == {<<i, n>> : i \in {0} \cup Inums, n \in Names \cup {<<>>}}
FreeEntries == {e \in Entries : e[1] = 0}

\* The loops over a directory: its entries are read one by one up to the first
\* that is in hits.  ret is the offset of that entry, or the directory's size.
Scan(s, dp, hits) ==
    LET Compare(u, o) ==
            IF Len(u.ret) # 1 THEN Ret(Panic(u, "dirlookup read"), o + 1)
            ELSE Ret(u, IF u.ret[1] \in hits THEN o ELSE o + 1)
        Step(t, o) == IF t.ret < o THEN t ELSE Compare(readi(t, dp, o, 1), o)
        scanned[o \in 0 .. s.it[dp].copy.size] ==
            IF o = 0 THEN Ret(s, 0) ELSE Step(scanned[o - 1], o - 1)
    IN  scanned[s.it[dp].copy.size]

\* The entry a loop has stopped at, and whether it has gone through all.
EntryAt(s, dp) == UnitOf(s, s.it[dp].copy, s.ret)
AtEnd(s, dp) == s.ret = s.it[dp].copy.size

\* dirlookup returns the table entry of the inode, with a reference, or 0.
Named(name) == {e \in Entries : e[1] # 0 /\ strncmp(name, e[2], DIRSIZ) = 0}
dirlookup(s, dp, name) ==
    LET Get(t) == IF AtEnd(t, dp) THEN Ret(t, 0) ELSE iget(t, EntryAt(t, dp)[1])
    IN  IF s.it[dp].copy.type # T_DIR THEN Ret(Panic(s, "dirlookup not DIR"), 0)
        ELSE Get(Scan(s, dp, Named(name)))

dirlink(s, dp, name, inum) ==
    LET Check(w) == IF w.ret # 1 THEN Panic(w, "dirlink") ELSE Ret(w, 0)
        Fill(t) == Check(writei(t, dp, t.ret, <<<<inum, strncpy(name, DIRSIZ)>>>>, 1))
        Present(l) == IF l.ret # 0 THEN Ret(iput(l, l.ret), -1)
                      ELSE Fill(Scan(l, dp, FreeEntries))
    IN  Present(dirlookup(s, dp, name))

root_dir(s) == LET Valid(t) == ivalid(t, t.ret) IN Valid(iget(s, ROOTINO))

\* dirunlink keeps the reference of its dirlookup.  The entry it clears is the
\* first that begins with the name, free or not.
Cleaned(name) == {e \in Entries : strncmp(e[2], name, strlen(name)) = 0}
dirunlink(s, dp, name) ==
    LET Clear(t) == IF AtEnd(t, dp) THEN Ret(t, -1)
                    ELSE Ret(writei(t, dp, t.ret, <<<<0, EntryAt(t, dp)[2]>>>>, 1), 0)
        Present(l) == IF l.ret = 0 THEN Ret(l, -1)
                      ELSE Clear(Scan(Forget(l, l.ret), dp, Cleaned(name)))
    IN  Present(dirlookup(s, dp, name))

\* namei keeps the reference to the root directory.
namei(s, path) ==
    LET Look(r) == Forget(dirlookup(r, r.ret, path), r.ret) IN Look(root_dir(s))

\* create returns a table entry with a reference, or 0.
create(s, path, type) ==
    LET Exists(v, ip) == IF type = T_FILE /\ v.it[ip].copy.type = T_FILE THEN Ret(v, ip)
                         ELSE Ret(iput(v, ip), 0)
        Put(d, dp, ip) == Ret(iput(IF d.ret < 0 THEN Panic(d, "create: dirlink") ELSE d, dp), ip)
        Enter(u, dp, ip) == Put(dirlink(u, dp, path, u.it[ip].inum), dp, ip)
        Fresh(a, dp) == Enter(iupdate(ivalid(a, a.ret), a.ret), dp, a.ret)
        Present(l, dp) == IF l.ret # 0 THEN Exists(ivalid(iput(l, dp), l.ret), l.ret)
                          ELSE Fresh(ialloc(l, type), dp)
        Look(r) == Present(dirlookup(r, r.ret, path), r.ret)
    IN  Look(root_dir(s))
=============================================================================
