--------------------------- MODULE FileTableProofs ---------------------------
(***************************************************************************)
(* Theorems about FileTable, for any number of processes, descriptors,     *)
(* files and pages: the counts of files are exact, and a pipe outlives its *)
(* files.                                                                  *)
(***************************************************************************)
EXTENDS FileTable, FiniteSetTheorems, WellFoundedInduction, TLAPS

(***************************************************************************)
(* The inductive invariant.  Its parts take the tables as arguments, since *)
(* sys_pipe may close files of tables it has changed before.               *)
(***************************************************************************)
FileRecords == [ref : Nat, type : {"NONE", "PIPE", "INODE"},
                writable : BOOLEAN, pipe : Pages \cup {Null}]
PageRecords == [used : BOOLEAN, readopen : BOOLEAN, writeopen : BOOLEAN]

Tables(tab, ps) == tab \in [Files -> FileRecords] /\ ps \in [Pages -> PageRecords]

\* f is an open end of a pipe.
IsEnd(tab, f) == tab[f].ref > 0 /\ tab[f].type = "PIPE"

EndsOK(tab, ps) ==
    \A f \in Files : IsEnd(tab, f) =>
        /\ tab[f].pipe \in Pages /\ ps[tab[f].pipe].used
        /\ tab[f].writable => ps[tab[f].pipe].writeopen
        /\ ~tab[f].writable => ps[tab[f].pipe].readopen
        /\ \A g \in Files : IsEnd(tab, g) /\ tab[g].pipe = tab[f].pipe
                              /\ tab[g].writable = tab[f].writable => g = f

InodeFiles(tab) == {f \in Files : tab[f].ref > 0 /\ tab[f].type = "INODE"}

RefsOK(tab) ==
    \A f \in Files : References(f) # {} =>
        tab[f].ref = Cardinality(References(f)) /\ tab[f].type # "NONE"

DeadHoldNothing == \A p \in Procs \ alive : fds[p] = NoFds

FileInv ==
    /\ alive \subseteq Procs /\ fds \in [Procs -> [Fds -> Files \cup {Null}]]
    /\ Tables(file, pipes) /\ EndsOK(file, pipes) /\ RefsOK(file)
    /\ iref = Cardinality(InodeFiles(file))
    /\ DeadHoldNothing

(***************************************************************************)
(* Sets and their sizes.                                                   *)
(***************************************************************************)
LEMMA Numbers ==
  /\ Files \subseteq Nat /\ Pages \subseteq Nat /\ Fds \subseteq Nat
  /\ Null \notin Files /\ Null \notin Pages /\ Null \notin Fds
  BY FileAssumption DEF Files, Pages, Fds, Null

LEMMA FiniteThings ==
  /\ IsFiniteSet(Files) /\ IsFiniteSet(Fds)
  /\ \A f : IsFiniteSet(References(f)) /\ Cardinality(References(f)) \in Nat
  /\ \A p, f : /\ IsFiniteSet({i \in Fds : fds[p][i] = f})
               /\ Cardinality({i \in Fds : fds[p][i] = f}) \in Nat
  <1>1. IsFiniteSet(Files) /\ IsFiniteSet(Fds)
    <2>1. 0 \in Int /\ FILE_MAX - 1 \in Int /\ FD_MAX - 1 \in Int
      BY FileAssumption
    <2> QED
      BY <2>1, FS_Interval DEF Files, Fds
  <1>2. IsFiniteSet(Procs \X Fds)
    BY <1>1, FileAssumption, FS_Product
  <1>3. \A f : References(f) \in SUBSET (Procs \X Fds)
    BY DEF References
  <1>4. \A f : IsFiniteSet(References(f))
    BY <1>2, <1>3, FS_Subset
  <1>5. \A p, f : {i \in Fds : fds[p][i] = f} \in SUBSET Fds
    OBVIOUS
  <1>6. \A p, f : IsFiniteSet({i \in Fds : fds[p][i] = f})
    BY <1>1, <1>5, FS_Subset
  <1> QED
    BY <1>1, <1>4, <1>6, FS_CardinalityType

\* The descriptors p has for f.
Mine(p, f) == {p} \X {i \in Fds : fds[p][i] = f}

LEMMA MineCounts ==
  ASSUME NEW p \in Procs, NEW f \in Files
  PROVE  /\ IsFiniteSet(Mine(p, f)) /\ Cardinality(Mine(p, f)) = Held(p)[f] /\ Held(p)[f] \in Nat
         /\ Mine(p, f) \subseteq References(f)
  <1> DEFINE S == {i \in Fds : fds[p][i] = f}
  <1>1. IsFiniteSet(S) /\ Cardinality(S) \in Nat /\ IsFiniteSet({p}) /\ Cardinality({p}) = 1
    <2>1. IsFiniteSet(S) /\ Cardinality(S) \in Nat
      BY FiniteThings, Zenon
    <2> QED
      BY <2>1, FS_Singleton
  <1>2. IsFiniteSet({p} \X S) /\ Cardinality({p} \X S) = 1 * Cardinality(S)
    BY <1>1, FS_Product
  <1>3. Held(p)[f] = Cardinality(S)
    BY DEF Held
  <1>4. {p} \X S \subseteq References(f)
    BY DEF References
  <1> HIDE DEF S
  <1>5. 1 * Cardinality(S) = Cardinality(S)
    BY <1>1
  <1> QED
    BY <1>1, <1>2, <1>3, <1>4, <1>5 DEF Mine, S

LEMMA HeldType == ASSUME NEW p \in Procs PROVE Held(p) \in [Files -> Nat]
  BY FiniteThings DEF Held

\* No file is held more often than it is counted.
LEMMA HeldIsCounted ==
  ASSUME NEW p \in Procs, NEW tab, NEW ps, Tables(tab, ps), RefsOK(tab), NEW f \in Files
  PROVE  Held(p)[f] <= tab[f].ref
  <1>1. /\ IsFiniteSet(Mine(p, f)) /\ Cardinality(Mine(p, f)) = Held(p)[f] /\ Held(p)[f] \in Nat
        /\ Mine(p, f) \in SUBSET References(f) /\ IsFiniteSet(References(f))
    BY MineCounts, FiniteThings
  <1>2. Cardinality(Mine(p, f)) <= Cardinality(References(f))
    BY <1>1, FS_Subset
  <1>3. tab[f].ref \in Nat
    BY DEF Tables, FileRecords
  <1>4. CASE References(f) = {}
    <2>1. Mine(p, f) = {}
      BY <1>1, <1>4
    <2> QED
      BY <2>1, <1>1, <1>3, FS_EmptySet
  <1>5. CASE References(f) # {}
    BY <1>5, <1>1, <1>2 DEF RefsOK
  <1> QED
    BY <1>4, <1>5

\* The descriptors of f, when some are cleared and when some are set.
Refs(fd, f) == {r \in Procs \X Fds : fd[r[1]][r[2]] = f}

LEMMA RefsPlus ==
  ASSUME NEW fd, NEW gd, NEW f, NEW A \in SUBSET (Procs \X Fds),
         \A q \in Procs, j \in Fds : gd[q][j] = f <=> fd[q][j] = f \/ <<q, j>> \in A
  PROVE  Refs(gd, f) = Refs(fd, f) \cup A
  <1>1. \A r \in Procs \X Fds : r[1] \in Procs /\ r[2] \in Fds /\ r = <<r[1], r[2]>>
    OBVIOUS
  <1> QED
    BY <1>1 DEF Refs

LEMMA LowestIsLeast ==
  ASSUME NEW S \in SUBSET Nat, S # {}
  PROVE  Lowest(S) \in S
  <1> DEFINE R == OpToRel(<, Nat)
  <1>1. PICK x \in S : \A y \in S : ~(<<y, x>> \in R)
    BY WFMin, NatLessThanWellFounded
  <1>2. ASSUME NEW y \in S PROVE x <= y
    <2>1. y < x => <<y, x>> \in R
      BY DEF OpToRel
    <2> HIDE DEF R
    <2> QED
      BY <1>1, <2>1
  <1> QED
    BY <1>2 DEF Lowest

(***************************************************************************)
(* Closing files, drop[f] times each.                                      *)
(***************************************************************************)
LEMMA FileAfterClose ==
  ASSUME NEW tab, NEW ps, Tables(tab, ps), NEW drop \in [Files -> Nat],
         NEW f \in Files, drop[f] <= tab[f].ref
  PROVE  LET g == FilesAfterClose(tab, drop)[f] IN
         /\ g \in FileRecords
         /\ g.ref = tab[f].ref - drop[f]
         /\ f \in Gone(tab, drop) => g.ref = 0
         /\ f \notin Gone(tab, drop) =>
              /\ g.type = tab[f].type /\ g.writable = tab[f].writable /\ g.pipe = tab[f].pipe
              /\ g.ref > 0 <=> tab[f].ref > 0
  <1> DEFINE g == FilesAfterClose(tab, drop)[f]
             t == tab[f]
             d == drop[f]
  <1>1. t \in FileRecords /\ d \in Nat /\ d <= t.ref
    BY DEF Tables
  <1>2. f \in Gone(tab, drop) <=> d > 0 /\ t.ref = d
    BY DEF Gone
  <1>3. g = IF f \in Gone(tab, drop) THEN FreeFile ELSE [t EXCEPT !.ref = @ - d]
    BY DEF FilesAfterClose
  <1> HIDE DEF g, t, d
  <1>4. CASE f \in Gone(tab, drop)
    <2>1. FreeFile \in FileRecords /\ FreeFile.ref = 0
      BY DEF FreeFile, FileRecords
    <2>2. t.ref \in Nat /\ t.ref = d
      BY <1>1, <1>2, <1>4 DEF FileRecords
    <2>3. t.ref - d = 0
      BY <2>2
    <2> QED
      BY <1>3, <1>4, <2>1, <2>3 DEF t, d, g
  <1>5. CASE f \notin Gone(tab, drop)
    <2>1. g = [t EXCEPT !.ref = t.ref - d] /\ t.ref - d \in Nat
      BY <1>1, <1>3, <1>5 DEF FileRecords
    <2>2. /\ g \in FileRecords /\ g.ref = t.ref - d
          /\ g.type = t.type /\ g.writable = t.writable /\ g.pipe = t.pipe
      BY <1>1, <2>1 DEF FileRecords
    <2>3. g.ref > 0 <=> t.ref > 0
      BY <1>1, <1>2, <1>5, <2>2 DEF FileRecords
    <2> QED
      BY <1>5, <2>2, <2>3 DEF t, d, g
  <1> QED
    BY <1>4, <1>5

\* The end of pipe k that is writable iff w is closed.
Closed(tab, drop, k, w) ==
    \E f \in Gone(tab, drop) : tab[f].type = "PIPE" /\ tab[f].pipe = k /\ tab[f].writable = w

LEMMA PageAfterClose ==
  ASSUME NEW tab, NEW ps, Tables(tab, ps), NEW drop, NEW k \in Pages
  PROVE  LET q == PipesAfterClose(ps, tab, drop)[k] IN
         /\ q \in PageRecords
         /\ ps[k].used /\ ps[k].readopen /\ ~Closed(tab, drop, k, FALSE) => q.used /\ q.readopen
         /\ ps[k].used /\ ps[k].writeopen /\ ~Closed(tab, drop, k, TRUE) => q.used /\ q.writeopen
  <1> DEFINE q == PipesAfterClose(ps, tab, drop)[k]
             r == ps[k].readopen /\ ~Closed(tab, drop, k, FALSE)
             w == ps[k].writeopen /\ ~Closed(tab, drop, k, TRUE)
  <1>1. \A f \in Gone(tab, drop) : f \in Files /\ tab[f].writable \in BOOLEAN
    BY DEF Gone, Tables, FileRecords
  <1>2. q = IF Closed(tab, drop, k, FALSE) \/ Closed(tab, drop, k, TRUE)
            THEN IF r \/ w THEN [used |-> TRUE, readopen |-> r, writeopen |-> w] ELSE FreePage
            ELSE ps[k]
    BY <1>1 DEF PipesAfterClose, Closed, ClosesEnd
  <1>3. /\ ps[k] \in PageRecords /\ FreePage \in PageRecords
        /\ r \in BOOLEAN /\ w \in BOOLEAN
        /\ ps[k].readopen \in BOOLEAN /\ ps[k].writeopen \in BOOLEAN /\ ps[k].used \in BOOLEAN
    BY DEF Tables, PageRecords, FreePage, Closed
  <1>4. CASE Closed(tab, drop, k, FALSE) \/ Closed(tab, drop, k, TRUE)
    <2>1. CASE r \/ w
      <3>1. q = [used |-> TRUE, readopen |-> r, writeopen |-> w]
        BY <1>2, <1>4, <2>1
      <3> HIDE DEF q
      <3>2. q \in PageRecords /\ q.used = TRUE /\ q.readopen = r /\ q.writeopen = w
        BY <3>1, <1>3 DEF PageRecords
      <3> QED
        BY <3>2 DEF q
    <2>2. CASE ~(r \/ w)
      <3>1. q = FreePage
        BY <1>2, <1>4, <2>2
      <3> QED
        BY <3>1, <2>2, <1>3
    <2> QED
      BY <2>1, <2>2
  <1>5. CASE ~(Closed(tab, drop, k, FALSE) \/ Closed(tab, drop, k, TRUE))
    BY <1>2, <1>3, <1>5
  <1> QED
    BY <1>4, <1>5

LEMMA Closing ==
  ASSUME NEW tab, NEW ps, Tables(tab, ps), EndsOK(tab, ps), NEW drop \in [Files -> Nat],
         \A f \in Files : drop[f] <= tab[f].ref
  PROVE  LET newTab == FilesAfterClose(tab, drop)
             newPs == PipesAfterClose(ps, tab, drop)
         IN  /\ Tables(newTab, newPs) /\ EndsOK(newTab, newPs)
             /\ Cardinality(InodeFiles(newTab)) =
                  Cardinality(InodeFiles(tab)) - InodesPut(tab, drop)
  <1> DEFINE newTab == FilesAfterClose(tab, drop)
             newPs == PipesAfterClose(ps, tab, drop)
  <1>1. \A f \in Files :
          /\ newTab[f] \in FileRecords
          /\ f \in Gone(tab, drop) => newTab[f].ref = 0
          /\ f \notin Gone(tab, drop) =>
               /\ newTab[f].type = tab[f].type /\ newTab[f].writable = tab[f].writable
               /\ newTab[f].pipe = tab[f].pipe
               /\ newTab[f].ref > 0 <=> tab[f].ref > 0
    BY FileAfterClose
  <1>2. \A k \in Pages :
          /\ newPs[k] \in PageRecords
          /\ ps[k].used /\ ps[k].readopen /\ ~Closed(tab, drop, k, FALSE) =>
               newPs[k].used /\ newPs[k].readopen
          /\ ps[k].used /\ ps[k].writeopen /\ ~Closed(tab, drop, k, TRUE) =>
               newPs[k].used /\ newPs[k].writeopen
    BY PageAfterClose
  <1>3. newTab = [f \in Files |-> newTab[f]] /\ newPs = [k \in Pages |-> newPs[k]]
    BY DEF FilesAfterClose, PipesAfterClose
  <1> HIDE DEF newTab, newPs
  <1>4. Tables(newTab, newPs)
    BY <1>1, <1>2, <1>3 DEF Tables
  <1>5. \A f \in Files : IsEnd(newTab, f) => f \notin Gone(tab, drop) /\ IsEnd(tab, f)
    BY <1>1 DEF IsEnd
  <1>6. \A f \in Gone(tab, drop) : f \in Files /\ tab[f].ref > 0
    BY DEF Gone, Tables, FileRecords
  <1>7. ASSUME NEW f \in Files, IsEnd(newTab, f)
        PROVE  /\ newTab[f].pipe \in Pages /\ newPs[newTab[f].pipe].used
               /\ newTab[f].writable => newPs[newTab[f].pipe].writeopen
               /\ ~newTab[f].writable => newPs[newTab[f].pipe].readopen
    <2> DEFINE k == tab[f].pipe
               w == tab[f].writable
    <2>1. f \notin Gone(tab, drop) /\ IsEnd(tab, f)
      BY <1>5, <1>7
    <2>2. newTab[f].pipe = k /\ newTab[f].writable = w /\ w \in BOOLEAN
      BY <1>1, <2>1 DEF Tables, FileRecords
    <2>3. k \in Pages /\ ps[k].used /\ (w => ps[k].writeopen) /\ (~w => ps[k].readopen)
      BY <2>1 DEF EndsOK
    <2>4. ~Closed(tab, drop, k, w)
      <3>1. SUFFICES ASSUME NEW g \in Gone(tab, drop), tab[g].type = "PIPE", tab[g].pipe = k,
                            tab[g].writable = w
                     PROVE  FALSE
        BY DEF Closed
      <3>2. g \in Files /\ IsEnd(tab, g)
        BY <3>1, <1>6 DEF IsEnd
      <3>3. g = f
        BY <3>1, <3>2, <2>1 DEF EndsOK
      <3> QED
        BY <3>1, <3>3, <2>1
    <2> HIDE DEF k, w
    <2>5. CASE w
      <3>1. w = TRUE
        BY <2>5, <2>2
      <3> QED
        BY <3>1, <1>2, <2>2, <2>3, <2>4
    <2>6. CASE ~w
      <3>1. w = FALSE
        BY <2>6, <2>2
      <3> QED
        BY <3>1, <1>2, <2>2, <2>3, <2>4
    <2> QED
      BY <2>5, <2>6
  <1>8. ASSUME NEW f \in Files, IsEnd(newTab, f), NEW g \in Files, IsEnd(newTab, g),
               newTab[g].pipe = newTab[f].pipe, newTab[g].writable = newTab[f].writable
        PROVE  g = f
    <2>1. IsEnd(tab, f) /\ IsEnd(tab, g) /\ tab[g].pipe = tab[f].pipe
          /\ tab[g].writable = tab[f].writable
      BY <1>1, <1>5, <1>8
    <2> QED
      BY <2>1 DEF EndsOK
  <1>9. EndsOK(newTab, newPs)
    BY <1>7, <1>8 DEF EndsOK
  <1>10. Cardinality(InodeFiles(newTab)) = Cardinality(InodeFiles(tab)) - InodesPut(tab, drop)
    <2> DEFINE G == {f \in Gone(tab, drop) : tab[f].type = "INODE"}
               S == InodeFiles(tab)
    <2>1. InodeFiles(newTab) = S \ G
      BY <1>1, <1>6 DEF InodeFiles
    <2>2. S \cap G = G
      BY <1>6 DEF InodeFiles
    <2>3. IsFiniteSet(S)
      <3>1. S \in SUBSET Files
        BY DEF InodeFiles
      <3> QED
        BY <3>1, FiniteThings, FS_Subset
    <2> HIDE DEF S
    <2>4. Cardinality(S \ G) = Cardinality(S) - Cardinality(S \cap G)
      BY <2>3, FS_Difference
    <2> QED
      BY <2>1, <2>2, <2>4 DEF InodesPut, S
  <1> QED
    BY <1>4, <1>9, <1>10 DEF newTab, newPs

(***************************************************************************)
(* The actions.                                                            *)
(***************************************************************************)
LEMMA InodeCount ==
  ASSUME NEW tab
  PROVE  IsFiniteSet(InodeFiles(tab)) /\ Cardinality(InodeFiles(tab)) \in Nat
  <1>1. InodeFiles(tab) \in SUBSET Files
    BY DEF InodeFiles
  <1> QED
    BY <1>1, FiniteThings, FS_Subset, FS_CardinalityType

LEMMA InitFileInv == Init => FileInv
  <1> SUFFICES ASSUME Init PROVE FileInv
    OBVIOUS
  <1>1. alive \subseteq Procs /\ fds \in [Procs -> [Fds -> Files \cup {Null}]] /\ DeadHoldNothing
    BY FileAssumption DEF Init, NoFds, DeadHoldNothing
  <1>2. Tables(file, pipes)
    BY DEF Init, Tables, FreeFile, FreePage, FileRecords, PageRecords
  <1>3. \A f \in Files : file[f].ref = 0 /\ References(f) = {}
    BY Numbers DEF Init, References, FreeFile, NoFds
  <1>4. EndsOK(file, pipes) /\ RefsOK(file) /\ InodeFiles(file) = {}
    BY <1>3 DEF EndsOK, IsEnd, RefsOK, InodeFiles
  <1>5. iref = 0 /\ Cardinality({}) = 0
    BY FS_EmptySet DEF Init
  <1> QED
    BY <1>1, <1>2, <1>4, <1>5 DEF FileInv

\* exit, with tables in which a file no process has may have changed.
LEMMA EndsKeeps ==
  ASSUME FileInv, NEW p \in Procs, NEW tab, NEW ps, Tables(tab, ps), EndsOK(tab, ps),
         RefsOK(tab), iref = Cardinality(InodeFiles(tab)), ends(p, tab, ps)
  PROVE  FileInv'
  <1> DEFINE drop == Held(p)
  <1>1. drop \in [Files -> Nat] /\ \A f \in Files : drop[f] <= tab[f].ref
    BY HeldType, HeldIsCounted
  <1>2. /\ alive' = alive \ {p} /\ fds' = [fds EXCEPT ![p] = NoFds]
        /\ file' = FilesAfterClose(tab, drop) /\ pipes' = PipesAfterClose(ps, tab, drop)
        /\ iref' = iref - InodesPut(tab, drop)
    BY DEF ends
  <1>3. Tables(file, pipes)' /\ EndsOK(file, pipes)' /\ (iref = Cardinality(InodeFiles(file)))'
    <2>1. Tables(file', pipes') /\ EndsOK(file', pipes') /\ iref' = Cardinality(InodeFiles(file'))
      BY <1>1, <1>2, Closing
    <2> QED
      BY <2>1 DEF Tables, EndsOK, IsEnd, InodeFiles
  <1>4. /\ alive' \subseteq Procs /\ fds' \in [Procs -> [Fds -> Files \cup {Null}]]
        /\ DeadHoldNothing'
    BY <1>2 DEF FileInv, DeadHoldNothing, NoFds
  <1>5. ASSUME NEW f \in Files, References(f)' # {}
        PROVE  file'[f].ref = Cardinality(References(f)') /\ file'[f].type # "NONE"
    <2>1. References(f)' = References(f) \ Mine(p, f)
      BY <1>2, Numbers DEF References, Mine, NoFds, FileInv
    <2>2. /\ IsFiniteSet(Mine(p, f)) /\ Cardinality(Mine(p, f)) = drop[f] /\ drop[f] \in Nat
          /\ Mine(p, f) \subseteq References(f)
      BY MineCounts
    <2>3. References(f) \cap Mine(p, f) = Mine(p, f) /\ References(f) # {}
      BY <2>1, <2>2, <1>5
    <2>4. IsFiniteSet(References(f)) /\ Cardinality(References(f)) \in Nat
      BY FiniteThings
    <2>5. Cardinality(References(f)') = Cardinality(References(f)) - drop[f]
          /\ IsFiniteSet(References(f)')
      <3> DEFINE R == References(f)
                 M == Mine(p, f)
      <3> HIDE DEF R, M
      <3>1. Cardinality(R \ M) = Cardinality(R) - Cardinality(R \cap M) /\ IsFiniteSet(R \ M)
        BY <2>4, FS_Difference DEF R
      <3> QED
        BY <3>1, <2>1, <2>2, <2>3 DEF R, M
    <2>6. tab[f].ref = Cardinality(References(f)) /\ tab[f].type # "NONE"
      BY <2>3 DEF RefsOK
    <2>7. Cardinality(References(f)') \in Nat /\ Cardinality(References(f)') # 0
      BY <2>5, <1>5, FS_EmptySet, FS_CardinalityType
    <2> HIDE DEF drop
    <2>8. f \notin Gone(tab, drop)
      BY <2>2, <2>4, <2>5, <2>6, <2>7 DEF Gone
    <2>9. file'[f].ref = tab[f].ref - drop[f] /\ file'[f].type = tab[f].type
      BY <2>8, <1>1, <1>2, FileAfterClose
    <2> QED
      BY <2>5, <2>6, <2>9
  <1>6. RefsOK(file)'
    BY <1>5 DEF RefsOK
  <1> QED
    BY <1>3, <1>4, <1>6 DEF FileInv

LEMMA CloseKeeps ==
  ASSUME FileInv, NEW p \in Procs, NEW i \in Reached, Close(p, i)
  PROVE  FileInv'
  <1>1. CASE i \notin Fds \/ fds[p][i] = Null
    <2>1. ends(p, file, pipes)
      BY <1>1 DEF Close, KernelFault
    <2> QED
      BY <2>1, EndsKeeps DEF FileInv
  <1>2. CASE i \in Fds /\ fds[p][i] # Null
    <2> DEFINE c == fds[p][i]
               drop == [f \in Files |-> IF f = c THEN 1 ELSE 0]
    <2>1. /\ fds' = [fds EXCEPT ![p][i] = Null] /\ alive' = alive
          /\ file' = FilesAfterClose(file, drop) /\ pipes' = PipesAfterClose(pipes, file, drop)
          /\ iref' = iref - InodesPut(file, drop)
      BY <1>2 DEF Close
    <2>2. c \in Files /\ i \in Fds /\ <<p, i>> \in References(c)
      BY <1>2 DEF FileInv, References
    <2>3. /\ file[c].ref = Cardinality(References(c)) /\ file[c].ref > 0
          /\ Cardinality(References(c)) \in Nat
      <3>1. IsFiniteSet(References(c)) /\ Cardinality(References(c)) \in Nat
        BY FiniteThings
      <3>2. Cardinality(References(c)) # 0
        BY <2>2, <3>1, FS_EmptySet
      <3> QED
        BY <2>2, <3>1, <3>2 DEF FileInv, RefsOK
    <2>4. drop \in [Files -> Nat] /\ \A f \in Files : drop[f] <= file[f].ref
      BY <2>3 DEF FileInv, Tables, FileRecords
    <2>5. \A f \in Files : References(f)' = IF f = c THEN References(f) \ {<<p, i>>} ELSE References(f)
      <3>1. /\ fds' \in [Procs -> [Fds -> Files \cup {Null}]] /\ fds'[p][i] = Null
            /\ \A q \in Procs, j \in Fds : <<q, j>> # <<p, i>> => fds'[q][j] = fds[q][j]
        BY <1>2, <2>1 DEF FileInv
      <3>2. ASSUME NEW f \in Files, NEW q \in Procs, NEW j \in Fds
            PROVE  fds'[q][j] = f <=> fds[q][j] = f /\ ~(f = c /\ <<q, j>> = <<p, i>>)
        BY <3>1, Numbers
      <3>3. ASSUME NEW f \in Files
            PROVE  Refs(fds', f) = Refs(fds, f) \ (IF f = c THEN {<<p, i>>} ELSE {})
        <4> DEFINE A == IF f = c THEN {<<p, i>>} ELSE {}
        <4>1. \A q \in Procs, j \in Fds : fds'[q][j] = f <=> fds[q][j] = f /\ <<q, j>> \notin A
          BY <3>2
        <4> HIDE DEF A
        <4>2. \A r \in Procs \X Fds : r[1] \in Procs /\ r[2] \in Fds /\ r = <<r[1], r[2]>>
          OBVIOUS
        <4>3. Refs(fds', f) = Refs(fds, f) \ A
          BY <4>1, <4>2 DEF Refs
        <4> QED
          BY <4>3 DEF A
      <3> QED
        BY <3>3 DEF Refs, References
    <2>6. /\ alive' \subseteq Procs /\ fds' \in [Procs -> [Fds -> Files \cup {Null}]]
          /\ DeadHoldNothing'
      <3>1. \A q \in Procs \ {p} : fds'[q] = fds[q]
        BY <1>2, <2>1 DEF FileInv
      <3>2. p \in alive
        BY <1>2 DEF Close
      <3> QED
        BY <2>1, <3>1, <3>2 DEF FileInv, DeadHoldNothing
    <2>7. Tables(file', pipes') /\ EndsOK(file', pipes') /\ iref' = Cardinality(InodeFiles(file'))
      <3> HIDE DEF drop, c
      <3> QED
        BY <2>1, <2>4, Closing DEF FileInv
    <2>8. ASSUME NEW f \in Files, References(f)' # {}
          PROVE  file'[f].ref = Cardinality(References(f)') /\ file'[f].type # "NONE"
      <3>1. IsFiniteSet(References(f)) /\ Cardinality(References(f)) \in Nat
        BY FiniteThings
      <3>2. References(f) # {} /\ file[f].ref = Cardinality(References(f)) /\ file[f].type # "NONE"
        BY <2>5, <2>8 DEF FileInv, RefsOK
      <3>3. Cardinality(References(f)') = Cardinality(References(f)) - drop[f]
            /\ IsFiniteSet(References(f)') /\ drop[f] \in Nat
        <4>1. CASE f = c
          <5>1. References(f)' = References(f) \ {<<p, i>>} /\ <<p, i>> \in References(f) /\ drop[f] = 1
            BY <4>1, <2>2, <2>5
          <5>2. Cardinality(References(f) \ {<<p, i>>}) = Cardinality(References(f)) - 1
                /\ IsFiniteSet(References(f) \ {<<p, i>>})
            BY <5>1, <3>1, FS_RemoveElement
          <5> QED
            BY <5>1, <5>2
        <4>2. CASE f # c
          <5>1. References(f)' = References(f) /\ drop[f] = 0
            BY <4>2, <2>5
          <5> QED
            BY <5>1, <3>1
        <4> QED
          BY <4>1, <4>2
      <3>4. Cardinality(References(f)') # 0
        BY <2>8, <3>3, FS_EmptySet
      <3> HIDE DEF drop, c
      <3>5. f \notin Gone(file, drop)
        BY <3>1, <3>2, <3>3, <3>4 DEF Gone
      <3>6. file'[f].ref = file[f].ref - drop[f] /\ file'[f].type = file[f].type
        BY <3>5, <2>1, <2>4, FileAfterClose DEF FileInv
      <3> QED
        BY <3>2, <3>3, <3>6
    <2>9. RefsOK(file)'
      BY <2>8 DEF RefsOK
    <2> QED
      BY <2>6, <2>7, <2>9 DEF FileInv, Tables, EndsOK, IsEnd, InodeFiles
  <1> QED
    BY <1>1, <1>2

\* A file that is not used is not in any descriptor.
LEMMA UnusedIsUnreferenced ==
  ASSUME FileInv, NEW f \in Unused
  PROVE  f \in Files /\ References(f) = {} /\ file[f].ref = 0
  <1>1. f \in Files /\ file[f].ref = 0
    BY DEF Unused
  <1>2. IsFiniteSet(References(f))
    BY FiniteThings
  <1>3. References(f) # {} => Cardinality(References(f)) = 0
    BY <1>1 DEF FileInv, RefsOK
  <1> QED
    BY <1>1, <1>2, <1>3, FS_EmptySet

LEMMA FreeFdIsFree ==
  ASSUME NEW p \in Procs, FreeFds(p) # {}
  PROVE  Lowest(FreeFds(p)) \in Fds /\ fds[p][Lowest(FreeFds(p))] = Null
  <1>1. FreeFds(p) \in SUBSET Nat
    BY FileAssumption DEF FreeFds
  <1>2. Lowest(FreeFds(p)) \in FreeFds(p)
    BY <1>1, LowestIsLeast
  <1> QED
    BY <1>2, FileAssumption DEF FreeFds, Fds

LEMMA OpenKeeps ==
  ASSUME FileInv, NEW p \in Procs, Open(p)
  PROVE  FileInv'
  <1>1. PICK i \in Fds : i = Lowest(FreeFds(p)) /\ fds[p][i] = Null
    BY FreeFdIsFree DEF Open
  <1>2. PICK c \in Unused : c = Lowest(Unused)
    <2>1. Unused \in SUBSET Nat
      BY Numbers DEF Unused
    <2> QED
      BY <2>1, LowestIsLeast DEF Open
  <1>3. c \in Files /\ References(c) = {} /\ file[c].ref = 0
    BY <1>2, UnusedIsUnreferenced
  <1> DEFINE new == [file[c] EXCEPT !.ref = 1, !.type = "INODE"]
  <1>4. /\ fds' = [fds EXCEPT ![p][i] = c] /\ file' = [file EXCEPT ![c] = new]
        /\ iref' = iref + 1 /\ UNCHANGED <<alive, pipes>> /\ p \in alive
    BY <1>1, <1>2 DEF Open
  <1>5. /\ new \in FileRecords /\ new.ref = 1 /\ new.type = "INODE"
    BY <1>3 DEF FileInv, Tables, FileRecords
  <1> HIDE DEF new
  <1>6. /\ file' \in [Files -> FileRecords] /\ file'[c] = new
        /\ \A f \in Files \ {c} : file'[f] = file[f]
    BY <1>4, <1>3, <1>5 DEF FileInv, Tables
  <1>7. /\ fds' \in [Procs -> [Fds -> Files \cup {Null}]] /\ fds'[p][i] = c
        /\ \A q \in Procs, j \in Fds : <<q, j>> # <<p, i>> => fds'[q][j] = fds[q][j]
        /\ \A q \in Procs \ {p} : fds'[q] = fds[q]
    BY <1>4, <1>1, <1>3 DEF FileInv
  <1>8. References(c)' = {<<p, i>>} /\ \A f \in Files \ {c} : References(f)' = References(f)
    <2>1. ASSUME NEW f \in Files, NEW q \in Procs, NEW j \in Fds
          PROVE  fds'[q][j] = f <=> fds[q][j] = f \/ (f = c /\ <<q, j>> = <<p, i>>)
      BY <1>1, <1>3, <1>7, Numbers
    <2>2. \A q \in Procs, j \in Fds : fds'[q][j] = c <=> fds[q][j] = c \/ <<q, j>> \in {<<p, i>>}
      BY <2>1, <1>3
    <2>3. Refs(fds', c) = Refs(fds, c) \cup {<<p, i>>}
      <3> DEFINE A == {<<p, i>>}
      <3>1. A \in SUBSET (Procs \X Fds)
        BY <1>1
      <3>2. \A q \in Procs, j \in Fds : fds'[q][j] = c <=> fds[q][j] = c \/ <<q, j>> \in A
        BY <2>2
      <3> HIDE DEF A
      <3>3. Refs(fds', c) = Refs(fds, c) \cup A
        BY <3>1, <3>2, RefsPlus
      <3> QED
        BY <3>3 DEF A
    <2>4. ASSUME NEW f \in Files \ {c} PROVE Refs(fds', f) = Refs(fds, f)
      <3>1. \A q \in Procs, j \in Fds : fds'[q][j] = f <=> fds[q][j] = f
        BY <2>1
      <3> QED
        BY <3>1 DEF Refs
    <2>5. Refs(fds, c) = {} /\ References(c)' = Refs(fds', c)
      BY <1>3 DEF Refs, References
    <2>6. \A f : References(f)' = Refs(fds', f) /\ References(f) = Refs(fds, f)
      BY DEF Refs, References
    <2> QED
      BY <2>3, <2>4, <2>5, <2>6
  <1>9. RefsOK(file)'
    <2>1. Cardinality(References(c)') = 1
      BY <1>8, FS_Singleton
    <2>2. ASSUME NEW f \in Files, References(f)' # {}
          PROVE  file'[f].ref = Cardinality(References(f)') /\ file'[f].type # "NONE"
      <3>1. CASE f = c
        BY <3>1, <2>1, <1>5, <1>6
      <3>2. CASE f # c
        BY <3>2, <2>2, <1>6, <1>8 DEF FileInv, RefsOK
      <3> QED
        BY <3>1, <3>2
    <2> QED
      BY <2>2 DEF RefsOK
  <1>10. Tables(file, pipes)' /\ EndsOK(file, pipes)'
    BY <1>4, <1>5, <1>6 DEF FileInv, Tables, EndsOK, IsEnd
  <1>11. (iref = Cardinality(InodeFiles(file)))'
    <2>1. InodeFiles(file') = InodeFiles(file) \cup {c} /\ c \notin InodeFiles(file)
      BY <1>3, <1>5, <1>6 DEF InodeFiles
    <2>2. IsFiniteSet(InodeFiles(file))
      BY InodeCount
    <2>3. Cardinality(InodeFiles(file) \cup {c}) = Cardinality(InodeFiles(file)) + 1
      BY <2>1, <2>2, FS_AddElement
    <2> QED
      BY <1>4, <2>1, <2>3 DEF FileInv, InodeFiles
  <1>12. alive' \subseteq Procs /\ DeadHoldNothing'
    BY <1>4, <1>7 DEF FileInv, DeadHoldNothing
  <1> QED
    BY <1>7, <1>9, <1>10, <1>11, <1>12 DEF FileInv

(***************************************************************************)
(* sys_pipe.                                                               *)
(***************************************************************************)
LEMMA PickIs ==
  ASSUME NEW S \in SUBSET Nat
  PROVE  Pick(S) \in S \cup {Null} /\ (S # {} => Pick(S) \in S)
  BY LowestIsLeast DEF Pick

LEMMA PipeFileIs ==
  /\ PipeFile(0) \in Unused \cup {Null}
  /\ PipeFile(1) \in Unused \cup {Null}
  /\ PipeFile(1) # Null => PipeFile(0) \in Unused /\ PipeFile(1) # PipeFile(0)
  <1>1. Unused \in SUBSET Nat /\ Null \notin Unused
    BY Numbers DEF Unused
  <1>2. Unused \ {Pick(Unused)} \in SUBSET Nat
    BY <1>1
  <1> QED
    BY <1>1, <1>2, PickIs DEF PipeFile

LEMMA PipeFdIs ==
  ASSUME NEW p \in Procs
  PROVE  /\ \A n \in {0, 1} : PipeFd(p, n) # Null => /\ PipeFd(p, n) \in Fds
                                                     /\ fds[p][PipeFd(p, n)] = Null
         /\ PipeFd(p, 1) # Null => PipeFd(p, 1) # PipeFd(p, 0)
  <1>1. FreeFds(p) \in SUBSET Nat /\ \A i \in FreeFds(p) : i \in Fds /\ fds[p][i] = Null
    BY FileAssumption DEF FreeFds, Fds
  <1>2. FreeFds(p) \ {Pick(FreeFds(p))} \in SUBSET Nat
    BY <1>1
  <1>3. PipeFd(p, 0) = Pick(FreeFds(p)) /\ PipeFd(p, 1) = Pick(FreeFds(p) \ {Pick(FreeFds(p))})
    BY DEF PipeFd
  <1>4. /\ PipeFd(p, 0) # Null => PipeFd(p, 0) \in FreeFds(p)
        /\ PipeFd(p, 1) # Null => PipeFd(p, 1) \in FreeFds(p) \ {PipeFd(p, 0)}
    BY <1>1, <1>2, <1>3, PickIs
  <1> QED
    BY <1>1, <1>4

\* Files that were unused may be changed, but not into open inode files.
LEMMA UnusedMayChange ==
  ASSUME FileInv, NEW tab,
         \A f \in Files : \/ tab[f] = file[f]
                          \/ f \in Unused /\ tab[f].type # "INODE"
  PROVE  RefsOK(tab) /\ InodeFiles(tab) = InodeFiles(file)
  <1>1. \A f \in Files : References(f) # {} => tab[f] = file[f]
    BY UnusedIsUnreferenced
  <1>2. RefsOK(tab)
    BY <1>1 DEF RefsOK, FileInv
  <1>3. \A f \in Unused : ~(file[f].ref > 0)
    BY DEF Unused, FileInv, Tables, FileRecords
  <1> QED
    BY <1>2, <1>3 DEF InodeFiles

\* New ends of a pipe in a page that was free.
LEMMA NewEnds ==
  ASSUME FileInv, NEW k \in FreePages, NEW tab, tab \in [Files -> FileRecords],
         \A f \in Files : \/ tab[f] = file[f]
                          \/ f \in Unused /\ \E w \in BOOLEAN : tab[f] = PipeEnd(k, w),
         \A f, g \in Unused : tab[f].ref > 0 /\ tab[f] = tab[g] => f = g
  PROVE  LET ps == [pipes EXCEPT ![k] = NewPipe] IN
         Tables(tab, ps) /\ EndsOK(tab, ps) /\ RefsOK(tab) /\ InodeFiles(tab) = InodeFiles(file)
  <1> DEFINE ps == [pipes EXCEPT ![k] = NewPipe]
  <1>1. k \in Pages /\ ~pipes[k].used /\ NewPipe \in PageRecords
    BY DEF FreePages, NewPipe, PageRecords
  <1>2. /\ ps \in [Pages -> PageRecords] /\ ps[k] = NewPipe
        /\ \A j \in Pages \ {k} : ps[j] = pipes[j]
    BY <1>1 DEF FileInv, Tables
  <1> HIDE DEF ps
  <1>3. /\ NewPipe.used = TRUE /\ NewPipe.readopen = TRUE /\ NewPipe.writeopen = TRUE
        /\ \A w \in BOOLEAN : /\ PipeEnd(k, w).ref = 1 /\ PipeEnd(k, w).type = "PIPE"
                              /\ PipeEnd(k, w).pipe = k /\ PipeEnd(k, w).writable = w
    BY DEF NewPipe, PipeEnd
  <1>4. \A f \in Unused : ~(file[f].ref > 0)
    BY DEF Unused, FileInv, Tables, FileRecords
  <1>5. ASSUME NEW f \in Files, IsEnd(tab, f)
        PROVE  \/ f \notin Unused /\ tab[f] = file[f] /\ IsEnd(file, f) /\ file[f].pipe \in Pages \ {k}
               \/ f \in Unused /\ \E w \in BOOLEAN : tab[f] = PipeEnd(k, w)
    <2>1. CASE tab[f] = file[f]
      BY <2>1, <1>1, <1>4, <1>5 DEF IsEnd, FileInv, EndsOK, Unused
    <2>2. CASE tab[f] # file[f]
      BY <2>2
    <2> QED
      BY <2>1, <2>2
  <1>6. ASSUME NEW f \in Files, IsEnd(tab, f)
        PROVE  /\ tab[f].pipe \in Pages /\ ps[tab[f].pipe].used
               /\ tab[f].writable => ps[tab[f].pipe].writeopen
               /\ ~tab[f].writable => ps[tab[f].pipe].readopen
    <2>1. CASE tab[f] = file[f] /\ IsEnd(file, f) /\ file[f].pipe \in Pages \ {k}
      BY <2>1, <1>2 DEF FileInv, EndsOK
    <2>2. CASE \E w \in BOOLEAN : tab[f] = PipeEnd(k, w)
      BY <2>2, <1>1, <1>2, <1>3
    <2> QED
      BY <1>5, <1>6, <2>1, <2>2
  <1>7. ASSUME NEW f \in Files, IsEnd(tab, f), NEW g \in Files, IsEnd(tab, g),
               tab[g].pipe = tab[f].pipe, tab[g].writable = tab[f].writable
        PROVE  g = f
    <2>1. CASE /\ f \notin Unused /\ tab[f] = file[f] /\ IsEnd(file, f)
               /\ file[f].pipe \in Pages \ {k}
      <3>1. tab[g].pipe # k
        BY <2>1, <1>7
      <3>2. tab[g] = file[g] /\ IsEnd(file, g)
        BY <3>1, <1>3, <1>5, <1>7
      <3> QED
        BY <2>1, <3>2, <1>7 DEF FileInv, EndsOK
    <2>2. CASE f \in Unused /\ \E w \in BOOLEAN : tab[f] = PipeEnd(k, w)
      <3>1. PICK w \in BOOLEAN : tab[f] = PipeEnd(k, w)
        BY <2>2
      <3>2. tab[g].pipe = k
        BY <3>1, <1>3, <1>7
      <3>3. g \in Unused /\ \E v \in BOOLEAN : tab[g] = PipeEnd(k, v)
        BY <3>2, <1>5, <1>7
      <3>4. PICK v \in BOOLEAN : tab[g] = PipeEnd(k, v)
        BY <3>3
      <3>5. v = w
        BY <3>1, <3>4, <1>3, <1>7
      <3>6. tab[f] = tab[g] /\ tab[f].ref > 0
        BY <3>1, <3>4, <3>5, <1>3
      <3> QED
        BY <3>6, <3>3, <2>2
    <2> QED
      BY <1>5, <1>7, <2>1, <2>2
  <1>8. EndsOK(tab, ps)
    BY <1>6, <1>7 DEF EndsOK
  <1>9. RefsOK(tab) /\ InodeFiles(tab) = InodeFiles(file)
    <2>1. \A f \in Files : tab[f] = file[f] \/ (f \in Unused /\ tab[f].type # "INODE")
      BY <1>3
    <2> QED
      BY <2>1, UnusedMayChange
  <1> QED
    BY <1>2, <1>8, <1>9 DEF Tables, ps

LEMMA PipeNoPageKeeps ==
  ASSUME FileInv, NEW p \in Procs, PipeNoPage(p)
  PROVE  FileInv'
  <1> DEFINE T == [FreeFile EXCEPT !.ref = 1]
  <1>1. file' = Taken /\ UNCHANGED <<alive, fds, pipes, iref>>
    BY DEF PipeNoPage
  <1>2. T \in FileRecords /\ T.type = "NONE"
    BY DEF FreeFile, FileRecords
  <1>3. file \in [Files -> FileRecords] /\ \A f \in Unused : f \in Files
    BY DEF FileInv, Tables, Unused
  <1>4. /\ file' \in [Files -> FileRecords]
        /\ \A f \in Files : file'[f] = file[f] \/ (f \in Unused /\ file'[f] = T)
    <2> DEFINE a == PipeFile(0)
               b == PipeFile(1)
               one == Put(file, a, T)
    <2>1. a \in Unused \cup {Null} /\ b \in Unused \cup {Null}
      BY PipeFileIs
    <2>2. file' = Put(one, b, T)
      BY <1>1 DEF Taken
    <2> HIDE DEF a, b, T
    <2>3. /\ one \in [Files -> FileRecords]
          /\ \A f \in Files : one[f] = file[f] \/ (f \in Unused /\ one[f] = T)
      BY <2>1, <1>2, <1>3 DEF Put
    <2> HIDE DEF one
    <2> QED
      BY <2>1, <2>2, <2>3, <1>2, <1>3 DEF Put
  <1>5. \A f \in Files : file'[f] = file[f] \/ (f \in Unused /\ file'[f].type # "INODE")
    BY <1>2, <1>4
  <1>6. RefsOK(file') /\ InodeFiles(file') = InodeFiles(file)
    BY <1>5, UnusedMayChange
  <1>7. EndsOK(file', pipes)
    <2>1. \A f \in Files : IsEnd(file', f) => file'[f] = file[f] /\ IsEnd(file, f)
      BY <1>2, <1>4 DEF IsEnd
    <2> QED
      BY <2>1 DEF FileInv, EndsOK
  <1>8. \A f : References(f)' = References(f)
    BY <1>1 DEF References
  <1> QED
    BY <1>1, <1>4, <1>6, <1>7, <1>8 DEF FileInv, Tables, EndsOK, IsEnd, RefsOK, InodeFiles,
       DeadHoldNothing

LEMMA FreePageIs == FreePages # {} => Lowest(FreePages) \in FreePages
  <1>1. FreePages \in SUBSET Nat
    BY Numbers DEF FreePages
  <1> QED
    BY <1>1, LowestIsLeast

LEMMA PipeEndType ==
  ASSUME NEW k \in FreePages, NEW w \in BOOLEAN
  PROVE  PipeEnd(k, w) \in FileRecords
  BY DEF FreePages, PipeEnd, FileRecords

LEMMA PipeNoFileKeeps ==
  ASSUME FileInv, NEW p \in Procs, PipeNoFile(p)
  PROVE  FileInv'
  <1>1. PICK k \in FreePages : k = Lowest(FreePages)
    BY FreePageIs DEF PipeNoFile
  <1> DEFINE a == PipeFile(0)
             tab == Put(file, a, PipeEnd(k, FALSE))
             ps == [pipes EXCEPT ![k] = NewPipe]
  <1>2. ends(p, tab, ps)
    BY <1>1 DEF PipeNoFile, KernelFault
  <1>3. a \in Unused \cup {Null}
    BY PipeFileIs
  <1>4. file \in [Files -> FileRecords] /\ PipeEnd(k, FALSE) \in FileRecords
        /\ \A f \in Unused : f \in Files
    BY PipeEndType DEF FileInv, Tables, Unused
  <1> HIDE DEF a
  <1>5. /\ tab \in [Files -> FileRecords]
        /\ \A f \in Files : tab[f] = file[f] \/ (f \in Unused /\ f = a /\ tab[f] = PipeEnd(k, FALSE))
    BY <1>3, <1>4 DEF Put
  <1>6. \A f \in Unused : ~(file[f].ref > 0)
    BY DEF Unused, FileInv, Tables, FileRecords
  <1> HIDE DEF tab
  <1>7. \A f, g \in Unused : tab[f].ref > 0 /\ tab[f] = tab[g] => f = g
    BY <1>4, <1>5, <1>6
  <1>8. \A f \in Files : \/ tab[f] = file[f]
                         \/ f \in Unused /\ \E w \in BOOLEAN : tab[f] = PipeEnd(k, w)
    BY <1>5
  <1>9. Tables(tab, ps) /\ EndsOK(tab, ps) /\ RefsOK(tab) /\ InodeFiles(tab) = InodeFiles(file)
    BY <1>5, <1>7, <1>8, NewEnds
  <1> HIDE DEF ps
  <1>10. iref = Cardinality(InodeFiles(tab))
    BY <1>9 DEF FileInv
  <1> QED
    BY <1>2, <1>9, <1>10, EndsKeeps

LEMMA PipeKeeps ==
  ASSUME FileInv, NEW p \in Procs, Pipe(p)
  PROVE  FileInv'
  <1>1. PICK k \in FreePages : k = Lowest(FreePages)
    BY FreePageIs DEF Pipe
  <1>2. PICK a \in Unused : a = PipeFile(0)
    BY PipeFileIs DEF Pipe
  <1>3. PICK b \in Unused : b = PipeFile(1) /\ b # a
    BY <1>2, PipeFileIs DEF Pipe
  <1> DEFINE x == PipeFd(p, 0)
             y == PipeFd(p, 1)
             ps == [pipes EXCEPT ![k] = NewPipe]
  <1>4. /\ file' = [file EXCEPT ![a] = PipeEnd(k, FALSE), ![b] = PipeEnd(k, TRUE)]
        /\ pipes' = ps /\ fds' = [fds EXCEPT ![p] = Put(Put(fds[p], x, a), y, b)]
        /\ UNCHANGED <<alive, iref>> /\ p \in alive
    BY <1>1, <1>2, <1>3 DEF Pipe, PipeFiles
  <1>5. /\ file \in [Files -> FileRecords] /\ a \in Files /\ b \in Files
        /\ PipeEnd(k, FALSE) \in FileRecords /\ PipeEnd(k, TRUE) \in FileRecords
        /\ References(a) = {} /\ References(b) = {}
    BY PipeEndType, UnusedIsUnreferenced DEF FileInv, Tables
  <1>6. /\ file' \in [Files -> FileRecords]
        /\ file'[a] = PipeEnd(k, FALSE) /\ file'[b] = PipeEnd(k, TRUE)
        /\ \A f \in Files \ {a, b} : file'[f] = file[f]
    BY <1>3, <1>4, <1>5
  <1>7. Tables(file', ps) /\ EndsOK(file', ps) /\ InodeFiles(file') = InodeFiles(file)
    <2>1. \A f \in Unused : ~(file[f].ref > 0)
      BY DEF Unused, FileInv, Tables, FileRecords
    <2>2. PipeEnd(k, FALSE) # PipeEnd(k, TRUE)
      BY DEF PipeEnd
    <2>3. \A f, g \in Unused : file'[f].ref > 0 /\ file'[f] = file'[g] => f = g
      <3>1. \A f \in Unused : f \in Files
        BY DEF Unused
      <3>2. \A f \in Unused \ {a, b} : ~(file'[f].ref > 0)
        BY <3>1, <2>1, <1>6
      <3> QED
        BY <3>2, <2>2, <1>6
    <2>4. \A f \in Files : \/ file'[f] = file[f]
                           \/ f \in Unused /\ \E w \in BOOLEAN : file'[f] = PipeEnd(k, w)
      BY <1>6
    <2> HIDE DEF ps
    <2> QED
      BY <2>3, <2>4, <1>6, NewEnds DEF ps
  <1>8. /\ x # Null => x \in Fds /\ fds[p][x] = Null
        /\ y # Null => y \in Fds /\ fds[p][y] = Null /\ y # x
    BY PipeFdIs
  <1> HIDE DEF x, y
  <1>9. /\ fds' \in [Procs -> [Fds -> Files \cup {Null}]]
        /\ \A q \in Procs \ {p} : fds'[q] = fds[q]
        /\ \A j \in Fds : fds'[p][j] = IF j = y THEN b ELSE IF j = x THEN a ELSE fds[p][j]
    <2> DEFINE one == Put(fds[p], x, a)
               two == Put(one, y, b)
    <2>1. /\ one \in [Fds -> Files \cup {Null}]
          /\ \A j \in Fds : one[j] = IF j = x THEN a ELSE fds[p][j]
      BY <1>5, <1>8, Numbers DEF Put, FileInv
    <2> HIDE DEF one
    <2>2. /\ two \in [Fds -> Files \cup {Null}]
          /\ \A j \in Fds : two[j] = IF j = y THEN b ELSE one[j]
      BY <1>5, <1>8, <2>1, Numbers DEF Put
    <2> HIDE DEF two
    <2>3. fds' = [fds EXCEPT ![p] = two]
      BY <1>4 DEF one, two
    <2> QED
      BY <2>1, <2>2, <2>3 DEF FileInv
  <1>10. ASSUME NEW f \in Files, References(f)' # {}
         PROVE  file'[f].ref = Cardinality(References(f)') /\ file'[f].type # "NONE"
    <2>1. \A r \in References(f)' : r \in Procs \X Fds /\ fds'[r[1]][r[2]] = f
      BY DEF References
    <2>2. CASE f = a
      <3>1. \A q \in Procs, j \in Fds : fds'[q][j] = f => q = p /\ j = x
        <4>1. \A q \in Procs, j \in Fds : fds[q][j] # f
          <5>1. \A q \in Procs, j \in Fds : fds[q][j] = f => <<q, j>> \in References(f)
            BY DEF References
          <5> QED
            BY <5>1, <2>2, <1>5
        <4> QED
          BY <4>1, <2>2, <1>3, <1>9
      <3>2. References(f)' = {<<p, x>>}
        BY <2>1, <3>1, <1>10
      <3> QED
        <4>1. Cardinality({<<p, x>>}) = 1
          BY FS_Singleton
        <4> QED
          BY <4>1, <3>2, <2>2, <1>6 DEF PipeEnd
    <2>3. CASE f = b
      <3>1. \A q \in Procs, j \in Fds : fds'[q][j] = f => q = p /\ j = y
        <4>1. \A q \in Procs, j \in Fds : fds[q][j] # f
          <5>1. \A q \in Procs, j \in Fds : fds[q][j] = f => <<q, j>> \in References(f)
            BY DEF References
          <5> QED
            BY <5>1, <2>3, <1>5
        <4> QED
          BY <4>1, <2>3, <1>3, <1>9
      <3>2. References(f)' = {<<p, y>>}
        BY <2>1, <3>1, <1>10
      <3> QED
        <4>1. Cardinality({<<p, y>>}) = 1
          BY FS_Singleton
        <4> QED
          BY <4>1, <3>2, <2>3, <1>6 DEF PipeEnd
    <2>4. CASE f \notin {a, b}
      <3>1. \A q \in Procs, j \in Fds : fds'[q][j] = f <=> fds[q][j] = f
        BY <2>4, <1>8, <1>9, Numbers
      <3>2. Refs(fds', f) = Refs(fds, f)
        BY <3>1 DEF Refs
      <3>3. References(f)' = References(f)
        BY <3>2 DEF Refs, References
      <3> QED
        BY <3>3, <2>4, <1>6, <1>10 DEF FileInv, RefsOK
    <2> QED
      BY <2>2, <2>3, <2>4
  <1>11. RefsOK(file)'
    BY <1>10 DEF RefsOK
  <1>12. alive' \subseteq Procs /\ DeadHoldNothing'
    BY <1>4, <1>9 DEF FileInv, DeadHoldNothing
  <1>13. Tables(file, pipes)' /\ EndsOK(file, pipes)' /\ (iref = Cardinality(InodeFiles(file)))'
    BY <1>4, <1>7 DEF FileInv, Tables, EndsOK, IsEnd, InodeFiles
  <1> QED
    BY <1>9, <1>11, <1>12, <1>13 DEF FileInv

(***************************************************************************)
(* fork and spawn, and the theorems.                                       *)
(***************************************************************************)
LEMMA ForkKeeps ==
  ASSUME FileInv, NEW p \in Procs, NEW child \in Procs, Fork(p, child)
  PROVE  FileInv'
  <1>1. /\ p \in alive /\ child \notin alive /\ p # child /\ alive' = alive \cup {child}
        /\ file' = Shared(p) /\ UNCHANGED <<pipes, iref>> /\ fds[child] = NoFds
    BY DEF Fork, FileInv, DeadHoldNothing
  <1>2. fds' = [fds EXCEPT ![child] = fds[p]]
    <2>1. \A i \in Fds : fds[p][i] # Null => file[fds[p][i]].type # "NONE"
      <3>1. ASSUME NEW i \in Fds, fds[p][i] # Null
            PROVE  fds[p][i] \in Files /\ <<p, i>> \in References(fds[p][i])
        BY <3>1 DEF References, FileInv
      <3> QED
        BY <3>1 DEF FileInv, RefsOK
    <2>2. \A i \in Fds : fds[child][i] = Null
      BY <1>1 DEF NoFds
    <2>3. [i \in Fds |-> IF fds[p][i] # Null /\ file[fds[p][i]].type # "NONE"
                         THEN fds[p][i] ELSE fds[child][i]] = [i \in Fds |-> fds[p][i]]
      BY <2>1, <2>2
    <2>4. fds[p] = [i \in Fds |-> fds[p][i]]
      BY DEF FileInv
    <2> QED
      BY <2>3, <2>4 DEF Fork
  <1>3. /\ fds' \in [Procs -> [Fds -> Files \cup {Null}]] /\ fds'[child] = fds[p]
        /\ \A q \in Procs \ {child} : fds'[q] = fds[q]
    BY <1>2 DEF FileInv
  <1>4. \A f \in Files : Held(p)[f] \in Nat
    BY MineCounts
  <1>5. \A f \in Files : References(f) = {} => Held(p)[f] = 0
    <2>1. ASSUME NEW f \in Files, References(f) = {} PROVE Held(p)[f] = 0
      <3>1. Mine(p, f) = {} /\ Cardinality(Mine(p, f)) = Held(p)[f]
        BY <2>1, MineCounts
      <3> QED
        BY <3>1, FS_EmptySet
    <2> QED
      BY <2>1
  <1>6. ASSUME NEW f \in Files
        PROVE  /\ file'[f] \in FileRecords /\ file'[f].ref = file[f].ref + Held(p)[f]
               /\ file'[f].type = file[f].type /\ file'[f].writable = file[f].writable
               /\ file'[f].pipe = file[f].pipe
    <2> DEFINE t == file[f]
               h == Held(p)[f]
    <2>1. t \in FileRecords /\ h \in Nat
      BY <1>4 DEF FileInv, Tables
    <2>2. t.type = "NONE" => h = 0
      BY <1>5 DEF FileInv, RefsOK
    <2>3. file'[f] = IF t.type = "NONE" THEN t ELSE [t EXCEPT !.ref = t.ref + h]
      BY <1>1 DEF Shared
    <2> HIDE DEF t, h
    <2>4. CASE t.type = "NONE"
      <3>1. t.ref \in Nat /\ t.ref + h = t.ref /\ file'[f] = t
        BY <2>1, <2>2, <2>3, <2>4 DEF FileRecords
      <3> QED
        BY <3>1, <2>1 DEF t, h
    <2>5. CASE t.type # "NONE"
      <3>1. file'[f] = [t EXCEPT !.ref = t.ref + h] /\ t.ref + h \in Nat
        BY <2>1, <2>3, <2>5 DEF FileRecords
      <3>2. /\ file'[f] \in FileRecords /\ file'[f].ref = t.ref + h /\ file'[f].type = t.type
            /\ file'[f].writable = t.writable /\ file'[f].pipe = t.pipe
        BY <3>1, <2>1 DEF FileRecords
      <3> QED
        BY <3>2 DEF t, h
    <2> QED
      BY <2>4, <2>5
  <1>7. \A f \in Files : file'[f].ref > 0 <=> file[f].ref > 0
    <2>1. ASSUME NEW f \in Files PROVE file'[f].ref > 0 <=> file[f].ref > 0
      <3>1. file[f].ref \in Nat /\ Held(p)[f] \in Nat /\ Held(p)[f] <= file[f].ref
        BY <1>4, HeldIsCounted DEF FileInv, Tables, FileRecords
      <3> QED
        BY <3>1, <1>6
    <2> QED
      BY <2>1
  <1>8. Tables(file', pipes') /\ EndsOK(file', pipes') /\ InodeFiles(file') = InodeFiles(file)
    <2>1. file' = [f \in Files |-> file'[f]]
      BY <1>1 DEF Shared
    <2>2. Tables(file', pipes')
      BY <1>1, <1>6, <2>1 DEF FileInv, Tables
    <2>3. \A f \in Files : IsEnd(file', f) <=> IsEnd(file, f)
      BY <1>6, <1>7 DEF IsEnd
    <2>4. EndsOK(file', pipes')
      BY <1>1, <1>6, <2>3 DEF FileInv, EndsOK
    <2> QED
      BY <1>6, <1>7, <2>2, <2>4 DEF InodeFiles
  <1>9. ASSUME NEW f \in Files, References(f)' # {}
        PROVE  file'[f].ref = Cardinality(References(f)') /\ file'[f].type # "NONE"
    <2> DEFINE H == {i \in Fds : fds[p][i] = f}
               N == {child} \X H
               R == References(f)
    <2>1. \A j \in Fds : fds[child][j] # f
      BY <1>1, Numbers DEF NoFds
    <2>2. References(f)' = R \cup N
      <3>1. \A q \in Procs, j \in Fds : fds'[q][j] = f <=> fds[q][j] = f \/ <<q, j>> \in N
        BY <1>3, <2>1
      <3>2. N \in SUBSET (Procs \X Fds)
        OBVIOUS
      <3> HIDE DEF N
      <3>3. Refs(fds', f) = Refs(fds, f) \cup N
        BY <3>1, <3>2, RefsPlus
      <3> QED
        BY <3>3 DEF Refs, References
    <2>3. R \cap N = {}
      BY <2>1 DEF References
    <2>4. R # {}
      <3>1. CASE N = {}
        BY <3>1, <2>2, <1>9
      <3>2. CASE N # {}
        <4>1. PICK i \in Fds : fds[p][i] = f
          BY <3>2
        <4>2. <<p, i>> \in References(f)
          BY <4>1 DEF References
        <4> QED
          BY <4>2
      <3> QED
        BY <3>1, <3>2
    <2>5. IsFiniteSet(R) /\ Cardinality(R) \in Nat
      BY FiniteThings
    <2>6. IsFiniteSet(N) /\ Cardinality(N) = Held(p)[f]
      <3>1. IsFiniteSet(H) /\ Cardinality(H) \in Nat
        BY FiniteThings, Zenon
      <3>2. IsFiniteSet({child}) /\ Cardinality({child}) = 1
        BY FS_Singleton
      <3>3. Held(p)[f] = Cardinality(H)
        BY DEF Held
      <3> HIDE DEF H
      <3>4. IsFiniteSet({child} \X H) /\ Cardinality({child} \X H) = 1 * Cardinality(H)
        BY <3>1, <3>2, FS_Product
      <3> QED
        BY <3>1, <3>3, <3>4
    <2> HIDE DEF N, R
    <2>7. Cardinality(R \cup N) = Cardinality(R) + Cardinality(N) - Cardinality(R \cap N)
      BY <2>5, <2>6, FS_Union
    <2>8. Cardinality(R \cap N) = 0
      BY <2>3, FS_EmptySet
    <2>9. file[f].ref = Cardinality(R) /\ file[f].type # "NONE"
      BY <2>4 DEF R, FileInv, RefsOK
    <2>10. Held(p)[f] \in Nat
      BY <1>4
    <2>11. Cardinality(R \cup N) = Cardinality(R) + Held(p)[f]
      BY <2>5, <2>6, <2>7, <2>8, <2>10
    <2> QED
      BY <2>2, <2>9, <2>11, <1>6
  <1>10. RefsOK(file)'
    BY <1>9 DEF RefsOK
  <1>11. alive' \subseteq Procs /\ DeadHoldNothing'
    BY <1>1, <1>3 DEF FileInv, DeadHoldNothing
  <1>12. Tables(file, pipes)' /\ EndsOK(file, pipes)' /\ (iref = Cardinality(InodeFiles(file)))'
    BY <1>1, <1>8 DEF FileInv, Tables, EndsOK, IsEnd, InodeFiles
  <1> QED
    BY <1>3, <1>10, <1>11, <1>12 DEF FileInv

LEMMA SameTables ==
  ASSUME FileInv, UNCHANGED <<fds, file, pipes, iref>>, alive \subseteq alive', alive' \subseteq Procs
  PROVE  FileInv'
  <1>1. \A f : References(f)' = References(f)
    BY DEF References
  <1>2. RefsOK(file)'
    BY <1>1 DEF FileInv, RefsOK
  <1>3. Tables(file, pipes)' /\ EndsOK(file, pipes)' /\ (iref = Cardinality(InodeFiles(file)))'
    BY DEF FileInv, Tables, EndsOK, IsEnd, InodeFiles
  <1> QED
    BY <1>2, <1>3 DEF FileInv, DeadHoldNothing

LEMMA NextFileInv == FileInv /\ [Next]_vars => FileInv'
  <1> SUFFICES ASSUME FileInv, [Next]_vars PROVE FileInv'
    OBVIOUS
  <1>1. ASSUME NEW p \in Procs, Exit(p) PROVE FileInv'
    BY <1>1, EndsKeeps DEF Exit, FileInv
  <1>2. ASSUME NEW p \in Procs, NEW i \in Reached, Close(p, i) PROVE FileInv'
    BY <1>2, CloseKeeps
  <1>3. ASSUME NEW p \in Procs, Open(p) PROVE FileInv'
    BY <1>3, OpenKeeps
  <1>4. ASSUME NEW p \in Procs, OpenFails(p) \/ PipeBadAddress(p) PROVE FileInv'
    BY <1>4, SameTables DEF OpenFails, PipeBadAddress, FileInv
  <1>5. ASSUME NEW p \in Procs, Pipe(p) PROVE FileInv'
    BY <1>5, PipeKeeps
  <1>6. ASSUME NEW p \in Procs, PipeNoPage(p) PROVE FileInv'
    BY <1>6, PipeNoPageKeeps
  <1>7. ASSUME NEW p \in Procs, PipeNoFile(p) PROVE FileInv'
    BY <1>7, PipeNoFileKeeps
  <1>8. ASSUME NEW p \in Procs, NEW child \in Procs, Fork(p, child) PROVE FileInv'
    BY <1>8, ForkKeeps
  <1>9. ASSUME NEW p \in Procs, NEW child \in Procs, Spawn(p, child) PROVE FileInv'
    BY <1>9, SameTables DEF Spawn, FileInv
  <1>10. CASE UNCHANGED vars
    BY <1>10, SameTables DEF vars, FileInv
  <1> QED
    BY <1>1, <1>2, <1>3, <1>4, <1>5, <1>6, <1>7, <1>8, <1>9, <1>10 DEF Next

LEMMA FileInvHolds == Spec => []FileInv
  <1> QED
    BY InitFileInv, NextFileInv, PTL DEF Spec

\* Every field of the tables stays within its type.
THEOREM FileTypeCorrect == Spec => []TypeOK
  <1>1. FileInv => TypeOK
    BY InodeCount DEF FileInv, TypeOK, Tables, FileRecords, PageRecords
  <1> QED
    BY <1>1, FileInvHolds, PTL

\* The counts of fileclose, fork and filealloc: a file in some descriptor has
\* a type and the number of its descriptors for a count, and each open inode
\* file has one reference to its inode.
THEOREM CountsAreExactHolds == Spec => []CountsAreExact
  <1>1. FileInv => CountsAreExact
    BY DEF FileInv, RefsOK, InodeFiles, CountsAreExact
  <1> QED
    BY <1>1, FileInvHolds, PTL

\* pipeclose frees a page only when no open file stands for an end of the pipe
\* in it, and no two open files stand for the same end.
THEOREM PipeOutlivesFilesHolds == Spec => []PipeOutlivesFiles
  <1>1. FileInv => PipeOutlivesFiles
    BY DEF FileInv, EndsOK, IsEnd, PipeOutlivesFiles
  <1> QED
    BY <1>1, FileInvHolds, PTL
=============================================================================
