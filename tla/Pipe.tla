-------------------------------- MODULE Pipe --------------------------------
(***************************************************************************)
(* One pipe: pipe.c, from the sys_pipe that made it until the last of its  *)
(* two ends is closed and its page is freed.                               *)
(*                                                                         *)
(* pipewrite and piperead give up the CPU only in yield(), when the pipe   *)
(* is full or empty; between two yields the turns of their loops are not   *)
(* interleaved with anything, which the variable cpu expresses.  The k-th  *)
(* byte written to the pipe, by whatever process, is the number k.         *)
(***************************************************************************)
EXTENDS Integers, Sequences

CONSTANTS Procs,      \* processes that may come to hold an end of the pipe
          PIPESIZE,   \* bytes of the ring (512 in file.h)
          WRAP,       \* nread and nwrite are counted modulo this (2^32: uint)
          Lens,       \* the lengths programs pass to read and write
          MaxBytes,   \* bound of the model: bytes asked to be written in all
          BadBuffers, \* TRUE iff a program may pass an unmapped buffer
          Watched,    \* the process whose waits fairness is about, any of them
          Nobody      \* the CPU runs user code or another system call

ASSUME PipeAssumption ==
    /\ PIPESIZE \in Nat \ {0}
    /\ WRAP \in Nat /\ WRAP > PIPESIZE /\ WRAP % PIPESIZE = 0
    /\ Lens \subseteq Int
    /\ MaxBytes \in Nat
    /\ BadBuffers \in BOOLEAN
    /\ Nobody \notin Procs /\ Watched \in Procs

Ends == {"read", "write"}

VARIABLES
    data, nread, nwrite, readopen, writeopen,  \* struct pipe
    freed,     \* the page of the pipe was given to kfree
    holds,     \* holds[p]: the ends process p has a file descriptor for
    call,      \* call[p]: the pipe system call p is in, or NoCall
    cpu,       \* the process whose pipe call is between two yields, or Nobody
    halted,    \* the kernel has panicked
    result,    \* what the call that returns in this step returns, or None
    asked,     \* bytes asked to be written so far, for the bound
    sent, got  \* history: bytes written so far, the bytes read so far

buffer == <<data, nread, nwrite>>
ends   == <<readopen, writeopen, freed, holds>>
vars   == <<buffer, ends, call, cpu, halted, result, asked, sent, got>>

NoCall == [op |-> "none", n |-> 0, done |-> 0]
None   == [op |-> "none", by |-> Nobody, val |-> 0]
Result(p, val) == [op |-> call[p].op, by |-> p, val |-> val]

Lesser(a, b) == IF a < b THEN a ELSE b
Least(a, b, c) == Lesser(Lesser(a, b), c)

Init == \* pipealloc, in a process that then holds both ends.
    /\ data = [i \in 0 .. PIPESIZE - 1 |-> 0]
    /\ nread = 0 /\ nwrite = 0
    /\ readopen = TRUE /\ writeopen = TRUE /\ freed = FALSE
    /\ \E p \in Procs : holds = [q \in Procs |-> IF q = p THEN Ends ELSE {}]
    /\ call = [p \in Procs |-> NoCall]
    /\ cpu = Nobody
    /\ halted = FALSE
    /\ result = None
    /\ asked = 0 /\ sent = 0 /\ got = <<>>

(***************************************************************************)
(* The ring.                                                               *)
(***************************************************************************)
Empty == nread = nwrite

Full == nwrite = (nread + PIPESIZE) % WRAP

\* Room and contents, as differences of unsigned integers.
\* Mutant: the difference is taken without wrapping.
RoomNoWrap == nread + PIPESIZE - nwrite
Room == (nread + PIPESIZE - nwrite) % WRAP
Filled == (nwrite - nread) % WRAP

\* The longest run of bytes that can be copied at once: what is asked for, what
\* there is, and what is left up to the end of the array.  Mutant: a read
\* forgets the second of these.
WriteSize(left) == Least(left, Room, PIPESIZE - (nwrite % PIPESIZE))
ReadSizeStale(left) == Lesser(left, PIPESIZE - (nread % PIPESIZE))
ReadSize(left) == Least(left, Filled, PIPESIZE - (nread % PIPESIZE))

(***************************************************************************)
(* Who may take a step.                                                    *)
(***************************************************************************)
InCall(p) == ~halted /\ call[p] # NoCall /\ cpu \in {p, Nobody}
InUser(p) == ~halted /\ call[p] = NoCall /\ cpu = Nobody

Panic == halted' = TRUE /\ result' = None
         /\ UNCHANGED <<buffer, ends, call, cpu, asked, sent, got>>

YieldCPU(p) == /\ cpu = p /\ cpu' = Nobody /\ result' = None
               /\ UNCHANGED <<buffer, ends, call, halted, asked, sent, got>>

ReturnFrom(p, val) == /\ call' = [call EXCEPT ![p] = NoCall]
                      /\ cpu' = Nobody
                      /\ result' = Result(p, val)
                      /\ UNCHANGED <<buffer, ends, halted, asked, sent, got>>

\* sys_read or sys_write on either end: the access mode is not looked at.
Call(p, op, n) ==
    /\ InUser(p) /\ holds[p] # {}
    /\ IF n <= 0 THEN Panic
       ELSE /\ asked' = asked + (IF op = "write" THEN n ELSE 0) /\ asked' <= MaxBytes
            /\ call' = [call EXCEPT ![p] = [op |-> op, n |-> n, done |-> 0]]
            /\ cpu' = p /\ result' = None
            /\ UNCHANGED <<buffer, ends, halted, sent, got>>

(***************************************************************************)
(* One turn of the loop of pipewrite.                                      *)
(***************************************************************************)
Writing(p) == InCall(p) /\ call[p].op = "write"

WriteDone(p) == Writing(p) /\ call[p].done = call[p].n /\ ReturnFrom(p, call[p].n)

\* Mutant: a writer that waits for room does not look at readopen.
NoReaderBlind(p) == ~readopen /\ ~Full
NoReader(p) == ~readopen
WriteNoReader(p) == /\ Writing(p) /\ call[p].done < call[p].n /\ NoReader(p)
                    /\ ReturnFrom(p, -1)

WriteFull(p) == /\ Writing(p) /\ call[p].done < call[p].n /\ readopen /\ Full
                /\ YieldCPU(p)

WriteCopy(p) ==
    LET size == WriteSize(call[p].n - call[p].done) IN
    /\ Writing(p) /\ call[p].done < call[p].n /\ readopen /\ ~Full
    /\ data' = [i \in DOMAIN data |->
                   LET k == i - (nwrite % PIPESIZE) IN
                   IF k \in 0 .. size - 1 THEN sent + 1 + k ELSE data[i]]
    /\ nwrite' = (nwrite + size) % WRAP
    /\ sent' = sent + size
    /\ call' = [call EXCEPT ![p].done = @ + size]
    /\ cpu' = p
    /\ result' = None
    /\ UNCHANGED <<nread, ends, halted, asked, got>>

(***************************************************************************)
(* piperead: the first loop waits for a byte, the second one copies.       *)
(***************************************************************************)
Reading(p) == InCall(p) /\ call[p].op = "read"

ReadWait(p) == Reading(p) /\ call[p].done = 0 /\ Empty /\ writeopen /\ YieldCPU(p)

\* Mutant: end of file is reported whenever the write end is closed.
AtEOFEarly(p) == ~writeopen
AtEOF(p) == Empty /\ ~writeopen
ReadEOF(p) == Reading(p) /\ call[p].done = 0 /\ AtEOF(p) /\ ReturnFrom(p, -1)

ReadCopy(p) ==
    LET size == ReadSize(call[p].n - call[p].done) IN
    /\ Reading(p) /\ call[p].done < call[p].n /\ ~Empty
    /\ got' = got \o [i \in 1 .. size |-> data[(nread % PIPESIZE) + i - 1]]
    /\ nread' = (nread + size) % WRAP
    /\ call' = [call EXCEPT ![p].done = @ + size]
    /\ cpu' = p
    /\ result' = None
    /\ UNCHANGED <<data, nwrite, ends, halted, asked, sent>>

ReadDone(p) == /\ Reading(p) /\ call[p].done > 0
               /\ call[p].done = call[p].n \/ Empty
               /\ ReturnFrom(p, call[p].done)

\* copyin or copyout meets an unmapped page.
BadBuffer(p) ==
    /\ BadBuffers
    /\ \/ Writing(p) /\ call[p].done < call[p].n /\ readopen /\ ~Full
       \/ Reading(p) /\ call[p].done < call[p].n /\ ~Empty
    /\ Panic

(***************************************************************************)
(* The ends: fork copies file descriptors, close and exit give them up.    *)
(* The file of an end is closed when no process holds it any more, and     *)
(* pipeclose frees the page when both are.                                 *)
(***************************************************************************)
Fork(p, child) ==
    /\ InUser(p) /\ holds[p] # {} /\ holds[child] = {} /\ child # p
    /\ holds' = [holds EXCEPT ![child] = holds[p]]
    /\ result' = None
    /\ UNCHANGED <<buffer, readopen, writeopen, freed, call, cpu, halted, asked, sent, got>>

\* Mutant: the page goes with the first end that is closed.
MayFreeEarly(r, w) == ~r \/ ~w
MayFree(r, w) == ~r /\ ~w

GiveUp(p, some) ==
    /\ InUser(p) /\ some \subseteq holds[p] /\ some # {}
    /\ holds' = [holds EXCEPT ![p] = @ \ some]
    /\ readopen' = (readopen /\ \E q \in Procs : "read" \in holds'[q])
    /\ writeopen' = (writeopen /\ \E q \in Procs : "write" \in holds'[q])
    /\ freed' = (freed \/ MayFree(readopen', writeopen'))
    /\ result' = None
    /\ UNCHANGED <<buffer, call, cpu, halted, asked, sent, got>>

Close(p) == \E end \in holds[p] : GiveUp(p, {end})
Exit(p) == GiveUp(p, holds[p])

WriteStep(p) == WriteDone(p) \/ WriteNoReader(p) \/ WriteCopy(p)
ReadStep(p) == ReadEOF(p) \/ ReadCopy(p) \/ ReadDone(p)

Next ==
    \/ \E p \in Procs :
          \/ \E op \in {"read", "write"}, n \in Lens : Call(p, op, n)
          \/ WriteStep(p) \/ WriteFull(p)
          \/ ReadStep(p) \/ ReadWait(p)
          \/ BadBuffer(p)
          \/ \E child \in Procs : Fork(p, child)
          \/ Close(p) \/ Exit(p)

Spec == Init /\ [][Next]_vars

(***************************************************************************)
(* Fairness.  A turn of a loop, once begun, goes on to the next yield or   *)
(* return.  The scheduler comes back to a process that has called yield,   *)
(* whatever the others do (NoStarvation of Proc); a process that waits on  *)
(* an end that is closed for good would then return at every such turn,    *)
(* which is what strong fairness says of these two steps and no others.    *)
(* The processes are alike: it is enough to watch one of them.             *)
(***************************************************************************)
Turn(p) == cpu = p /\ (WriteStep(p) \/ WriteFull(p) \/ ReadStep(p) \/ ReadWait(p))

FairSpec == /\ Spec
            /\ \A p \in Procs : WF_vars(Turn(p))
            /\ SF_vars(~readopen /\ WriteStep(Watched))
            /\ SF_vars(~writeopen /\ ReadStep(Watched))

(***************************************************************************)
(* Properties.                                                             *)
(***************************************************************************)

\* The type invariant of a pipe.
TypeOK ==
    /\ data \in [0 .. PIPESIZE - 1 -> Nat]
    /\ nread \in 0 .. WRAP - 1 /\ nwrite \in 0 .. WRAP - 1
    /\ readopen \in BOOLEAN /\ writeopen \in BOOLEAN /\ freed \in BOOLEAN
    /\ holds \in [Procs -> SUBSET Ends]
    /\ call \in [Procs -> [op : {"none", "read", "write"}, n : Nat, done : Nat]]
    /\ \A p \in Procs : call[p].done <= call[p].n
    /\ cpu \in Procs \cup {Nobody}
    /\ halted \in BOOLEAN
    /\ asked \in 0 .. MaxBytes /\ sent \in Nat /\ got \in Seq(Nat)

\* Bytes come out in the order they went in, none twice and none lost, across
\* the end of the array and the wrap of both counters, whoever reads or writes;
\* and the ring holds the bytes written and not yet read, at most PIPESIZE of
\* them: a writer overwrites nothing, a reader invents nothing.
RingKeepsOrder ==
    /\ \A i \in 1 .. Len(got) : got[i] = i
    /\ Filled = sent - Len(got) /\ Filled <= PIPESIZE
    /\ \A i \in 1 .. Filled : data[(nread + i - 1) % PIPESIZE] = Len(got) + i

\* The page of the pipe is never touched after kfree: a process inside a pipe
\* call, however long it has been waiting, keeps the pipe alive.
NoUseAfterFree == freed => \A p \in Procs : call[p] = NoCall /\ holds[p] = {}

\* A read reports end of file only when every byte written has been read and
\* no process could write another one.
EOFIsFinal ==
    result.op = "read" /\ result.val = -1 =>
        /\ Len(got) = sent
        /\ \A p \in Procs : "write" \notin holds[p]

\* A writer waiting for room is released when the last reader is gone, and a
\* reader waiting for a byte when the last writer is.
WaitersReleased ==
    /\ (call[Watched].op = "write" /\ ~readopen) ~> (call[Watched] = NoCall \/ halted)
    /\ (call[Watched].op = "read" /\ ~writeopen) ~> (call[Watched] = NoCall \/ halted)
=============================================================================
