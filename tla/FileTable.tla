----------------------------- MODULE FileTable -----------------------------
(***************************************************************************)
(* Open files: the pool of struct file and its reference counts (file.c),  *)
(* the file descriptors of each process, and the ends of pipes the files   *)
(* stand for (sys_pipe, sys_close, sys_openat, and what fork, spawn and    *)
(* exit do with open files).                                               *)
(*                                                                         *)
(* No operation of this module gives up the CPU, so each is one step; the  *)
(* operations of the processes interleave in any order.  What is in files  *)
(* and pipes is left to other modules.                                     *)
(***************************************************************************)
EXTENDS Integers, FiniteSets

CONSTANTS Procs,     \* slots of the process pool
          FILE_MAX,  \* entries of filepool (2048)
          FD_MAX,    \* descriptors of a process (16); 0, 1 and 2 are never allocated
          NPIPE,     \* bound of the model: pages that can hold a pipe at once
          Boot       \* the process that runs first

ASSUME FileAssumption ==
    /\ IsFiniteSet(Procs)
    /\ FILE_MAX \in Nat \ {0}
    /\ FD_MAX \in Nat /\ FD_MAX > 3
    /\ NPIPE \in Nat
    /\ Boot \in Procs

Files  == 0 .. FILE_MAX - 1
Pages  == 0 .. NPIPE - 1
Fds    == 0 .. FD_MAX - 1
Null   == -1

VARIABLES
    alive,   \* the slots that hold a process
    fds,     \* fds[p][i]: p->files[i], a file or Null
    file,    \* filepool
    pipes,   \* pipes[k]: the pipe in page k, if the page is in use
    iref     \* the references files hold to inodes

vars == <<alive, fds, file, pipes, iref>>

NoFds    == [i \in Fds |-> Null]
FreeFile == [ref |-> 0, type |-> "NONE", writable |-> FALSE, pipe |-> Null]
FreePage == [used |-> FALSE, readopen |-> FALSE, writeopen |-> FALSE]

Init ==
    /\ alive = {Boot}
    /\ fds = [p \in Procs |-> NoFds]
    /\ file = [f \in Files |-> FreeFile]
    /\ pipes = [k \in Pages |-> FreePage]
    /\ iref = 0

Lowest(S) == CHOOSE x \in S : \A y \in S : x <= y

\* filealloc and fdalloc find the lowest free entry; the second search of
\* sys_pipe runs after the first has taken its entry.
Unused == {f \in Files : file[f].ref = 0}
FreeFds(p) == {i \in 3 .. FD_MAX - 1 : fds[p][i] = Null}
FreePages == {k \in Pages : ~pipes[k].used}
Pick(S) == IF S = {} THEN Null ELSE Lowest(S)
Put(fn, i, x) == IF i = Null THEN fn ELSE [fn EXCEPT ![i] = x]

(***************************************************************************)
(* fileclose, drop[f] times for every file f of the table tab, which hold  *)
(* pipes ps.  A file whose count reaches zero is cleared, and closes its   *)
(* end of the pipe or puts its inode; a pipe with both ends closed is freed.*)
(***************************************************************************)
Gone(tab, drop) == {f \in Files : drop[f] > 0 /\ tab[f].ref = drop[f]}

FilesAfterClose(tab, drop) ==
    [f \in Files |-> IF f \in Gone(tab, drop) THEN FreeFile
                     ELSE [tab[f] EXCEPT !.ref = @ - drop[f]]]

\* Mutant: pipeclose confuses the two ends.
ClosesEndSwapped(end, f, tab) == tab[f].writable = (end = "read")
ClosesEnd(end, f, tab) == tab[f].writable = (end = "write")

PipesAfterClose(ps, tab, drop) ==
    [k \in Pages |->
        LET closed(end) == \E f \in Gone(tab, drop) :
                               tab[f].type = "PIPE" /\ tab[f].pipe = k /\ ClosesEnd(end, f, tab)
            r == ps[k].readopen /\ ~closed("read")
            w == ps[k].writeopen /\ ~closed("write")
        IN  IF closed("read") \/ closed("write")
            THEN IF r \/ w THEN [used |-> TRUE, readopen |-> r, writeopen |-> w] ELSE FreePage
            ELSE ps[k]]

InodesPut(tab, drop) == Cardinality({f \in Gone(tab, drop) : tab[f].type = "INODE"})

\* exit closes every descriptor of p.
Held(p) == [f \in Files |-> Cardinality({i \in Fds : fds[p][i] = f})]
ends(p, tab, ps) ==
    /\ alive' = alive \ {p}
    /\ fds' = [fds EXCEPT ![p] = NoFds]
    /\ file' = FilesAfterClose(tab, Held(p))
    /\ pipes' = PipesAfterClose(ps, tab, Held(p))
    /\ iref' = iref - InodesPut(tab, Held(p))

Exit(p) == p \in alive /\ ends(p, file, pipes)

\* A null pointer dereferenced in a system call: kerneltrap calls exit(-1).
KernelFault(p, tab, ps) == ends(p, tab, ps)

(***************************************************************************)
(* System calls.                                                           *)
(***************************************************************************)
\* sys_close does not look whether the descriptor is in the table.  The words next
\* to the table, exit_code (-1, or 0 after PipeBadAddress) and the two indices of
\* the mailbox, are no addresses the kernel has mapped; the fields beyond them are
\* not modelled.
Reached == -1 .. FD_MAX

Close(p, i) ==
    /\ p \in alive /\ i # 0
    /\ IF i \notin Fds \/ fds[p][i] = Null THEN KernelFault(p, file, pipes)
       ELSE LET drop == [f \in Files |-> IF f = fds[p][i] THEN 1 ELSE 0] IN
            /\ fds' = [fds EXCEPT ![p][i] = Null]
            /\ file' = FilesAfterClose(file, drop)
            /\ pipes' = PipesAfterClose(pipes, file, drop)
            /\ iref' = iref - InodesPut(file, drop)
            /\ UNCHANGED alive

\* fileopen, once the inode is found; the inode is put again when no file or
\* no descriptor is free.
Open(p) ==
    /\ p \in alive /\ Unused # {} /\ FreeFds(p) # {}
    /\ fds' = [fds EXCEPT ![p][Lowest(FreeFds(p))] = Lowest(Unused)]
    /\ file' = [file EXCEPT ![Lowest(Unused)] = [@ EXCEPT !.ref = 1, !.type = "INODE"]]
    /\ iref' = iref + 1
    /\ UNCHANGED <<alive, pipes>>
OpenFails(p) == p \in alive /\ (Unused = {} \/ FreeFds(p) = {})
                /\ UNCHANGED <<alive, fds, file, pipes, iref>>

\* The files sys_pipe allocates; Null when filealloc finds none.
PipeFile(n) == IF n = 0 THEN Pick(Unused) ELSE Pick(Unused \ {Pick(Unused)})
Taken == Put(Put(file, PipeFile(0), [FreeFile EXCEPT !.ref = 1]),
             PipeFile(1), [FreeFile EXCEPT !.ref = 1])
PipeEnd(k, w) == [ref |-> 1, type |-> "PIPE", writable |-> w, pipe |-> k]
NewPipe == [used |-> TRUE, readopen |-> TRUE, writeopen |-> TRUE]

\* pipealloc gets no page: both files stay allocated.
PipeNoPage(p) ==
    /\ p \in alive
    /\ file' = Taken
    /\ UNCHANGED <<alive, fds, pipes, iref>>

\* pipealloc writes to a file that filealloc could not provide.
PipeNoFile(p) ==
    LET k == Lowest(FreePages) IN
    /\ p \in alive /\ FreePages # {} /\ PipeFile(1) = Null
    /\ KernelFault(p, Put(file, PipeFile(0), PipeEnd(k, FALSE)), [pipes EXCEPT ![k] = NewPipe])

\* The descriptors of the two ends, -1 (Null) where fdalloc finds none.
PipeFd(p, n) == IF n = 0 THEN Pick(FreeFds(p)) ELSE Pick(FreeFds(p) \ {Pick(FreeFds(p))})
PipeFiles(k) == [file EXCEPT ![PipeFile(0)] = PipeEnd(k, FALSE),
                             ![PipeFile(1)] = PipeEnd(k, TRUE)]

Pipe(p) ==
    LET k == Lowest(FreePages) IN
    /\ p \in alive /\ FreePages # {} /\ PipeFile(1) # Null
    /\ file' = PipeFiles(k)
    /\ pipes' = [pipes EXCEPT ![k] = NewPipe]
    /\ fds' = [fds EXCEPT ![p] = Put(Put(@, PipeFd(p, 0), PipeFile(0)), PipeFd(p, 1), PipeFile(1))]
    /\ UNCHANGED <<alive, iref>>

\* copyout of the descriptors fails: both files are closed, which frees the
\* pipe, and the descriptors cleared (a descriptor that fdalloc could not give
\* is -1, and files[-1] is exit_code, which nothing reads before exit sets it).
PipeBadAddress(p) ==
    /\ p \in alive /\ FreePages # {} /\ PipeFile(1) # Null
    /\ UNCHANGED <<alive, fds, file, pipes, iref>>

\* fork copies the descriptors of files that have a type.
\* Mutant: the counts are not raised.
SharedForgotten(p) == file
Shared(p) == [f \in Files |-> IF file[f].type = "NONE" THEN file[f]
                              ELSE [file[f] EXCEPT !.ref = @ + Held(p)[f]]]
Fork(p, child) ==
    /\ p \in alive /\ child \notin alive
    /\ alive' = alive \cup {child}
    /\ fds' = [fds EXCEPT ![child] = [i \in Fds |->
                   IF fds[p][i] # Null /\ file[fds[p][i]].type # "NONE"
                   THEN fds[p][i] ELSE fds[child][i]]]
    /\ file' = Shared(p)
    /\ UNCHANGED <<pipes, iref>>

\* spawn gives the child no open file.
Spawn(p, child) ==
    /\ p \in alive /\ child \notin alive
    /\ alive' = alive \cup {child}
    /\ UNCHANGED <<fds, file, pipes, iref>>

Next ==
    \E p \in Procs :
        \/ Exit(p) \/ (\E i \in Reached : Close(p, i))
        \/ Open(p) \/ OpenFails(p)
        \/ Pipe(p) \/ PipeNoPage(p) \/ PipeNoFile(p) \/ PipeBadAddress(p)
        \/ \E child \in Procs : Fork(p, child) \/ Spawn(p, child)

Spec == Init /\ [][Next]_vars

(***************************************************************************)
(* Properties.                                                             *)
(***************************************************************************)

\* The type invariant of the file table.
TypeOK ==
    /\ alive \subseteq Procs
    /\ fds \in [Procs -> [Fds -> Files \cup {Null}]]
    /\ file \in [Files -> [ref : Nat, type : {"NONE", "PIPE", "INODE"},
                           writable : BOOLEAN, pipe : Pages \cup {Null}]]
    /\ pipes \in [Pages -> [used : BOOLEAN, readopen : BOOLEAN, writeopen : BOOLEAN]]
    /\ iref \in Nat

References(f) == {r \in Procs \X Fds : fds[r[1]][r[2]] = f}

\* A file some process can reach has a type and the count of its descriptors,
\* however they were copied and closed: fileclose never panics on it, and does
\* not close it under a process that still has it open.  And every open inode
\* file holds one reference to its inode, which is put once.
CountsAreExact ==
    /\ \A f \in Files : References(f) # {} =>
          file[f].ref = Cardinality(References(f)) /\ file[f].type # "NONE"
    /\ iref = Cardinality({f \in Files : file[f].ref > 0 /\ file[f].type = "INODE"})

\* An open file that is an end of a pipe keeps that end open and the page of
\* the pipe allocated, and no other open file stands for the same end: no page
\* is freed, or handed to another pipe, under a descriptor.
PipeOutlivesFiles ==
    \A f \in Files : file[f].ref > 0 /\ file[f].type = "PIPE" =>
        /\ pipes[file[f].pipe].used
        /\ IF file[f].writable THEN pipes[file[f].pipe].writeopen
                               ELSE pipes[file[f].pipe].readopen
        /\ \A g \in Files : /\ file[g].ref > 0 /\ file[g].type = "PIPE"
                             /\ file[g].pipe = file[f].pipe
                             /\ file[g].writable = file[f].writable => g = f
=============================================================================
