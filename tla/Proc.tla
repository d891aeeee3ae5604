-------------------------------- MODULE Proc --------------------------------
(***************************************************************************)
(* The process table and the scheduler: proc.c, the process system calls   *)
(* of syscall.c and the traps of trap.c that end or preempt a process.     *)
(*                                                                         *)
(* There is one hart and the kernel runs with interrupts disabled, so a    *)
(* system call is one step up to the point where it calls sched().  Steps  *)
(* of different processes interleave where the timer interrupts a user     *)
(* program, in sched_yield, in wait, and in exit.                          *)
(*                                                                         *)
(* A pointer to struct proc is the index of a slot of pool[], Null or      *)
(* Idle.  Memory is abstracted to whether a slot holds a loaded image, and *)
(* open files are left to other modules.                                   *)
(***************************************************************************)
EXTENDS Mailbox

CONSTANTS NPROC,      \* slots of the pool (256 in proc.h)
          MaxPid,     \* bound of the model: the last pid allocpid hands out
          ExitCodes,  \* what programs pass to exit
          OOM,        \* TRUE iff kalloc may run out of pages
          MailPids,   \* the pids programs write mail to
          MailLens,   \* the lengths programs pass to mailread and mailwrite
          Alive, Reaped  \* marks of the history variable exited

ASSUME ProcAssumption ==
    /\ NPROC \in Nat /\ NPROC > 0
    /\ MaxPid \in Nat /\ MaxPid > 0
    /\ ExitCodes \subseteq Int
    /\ OOM \in BOOLEAN
    /\ MailPids \subseteq Nat
    /\ MailLens \subseteq Int
    /\ Alive \notin Int /\ Reaped \notin Int /\ Alive # Reaped

\* The pid a mail was addressed to is all that a mail says.
ASSUME MailsNameTheirAddressee == MailPids \subseteq Mails

Slots == 0 .. NPROC - 1
Pids  == 1 .. MaxPid
Null  == -1
Idle  == NPROC          \* struct proc idle lies outside the pool

VARIABLES
    state, pid, parent, exit_code, mailbox,  \* fields of pool[s]
    loaded,      \* loaded[s]: slot s has a page table with an image in it
    kctx,        \* kctx[s]: where the process in slot s will continue
    nextpid,     \* PID in allocpid
    current,     \* current_proc
    scan,        \* p in scheduler(), as an index
    all_done,    \* all_done in scheduler()
    halted,      \* why the machine has stopped, or "no"
    returned,    \* the system call that returns to user mode in this step
    creator,     \* history: creator[q] is the pid that forked or spawned q
    exited       \* history: exited[q] is the status q left, see Alive, Reaped

procvars  == <<pid, parent, exit_code, loaded>>
schedvars == <<current, scan, all_done>>
histvars  == <<creator, exited>>
vars == <<state, mailbox, kctx, nextpid, halted, returned, procvars, schedvars, histvars>>

ProcStates == {"UNUSED", "USED", "RUNNABLE", "RUNNING", "ZOMBIE"}
FaultCodes == {-1, -2, -3}        \* what the trap handlers pass to exit
Codes  == ExitCodes \cup FaultCodes

\* A process continues in user mode, or in the loop of wait with the pid it
\* was asked for and whether the user's code address is mapped.
InUserMode == [op |-> "user", pid |-> 0, ok |-> TRUE]
InWait(w, ok) == [op |-> "wait", pid |-> w, ok |-> ok]
Contexts == [op : {"user", "wait"}, pid : 0 .. MaxPid, ok : BOOLEAN]

Nothing == [call |-> "none", by |-> 0, val |-> 0, about |-> 0]
Return(call, val, about) ==
    [call |-> call, by |-> pid[current], val |-> val, about |-> about]

Init == \* procinit, then run_all_app: the shell is loaded into slot 0.
    /\ state = [s \in Slots |-> IF s = 0 THEN "RUNNABLE" ELSE "UNUSED"]
    /\ pid = [s \in Slots |-> IF s = 0 THEN 1 ELSE 0]
    /\ parent = [s \in Slots |-> Null]
    /\ exit_code = [s \in Slots |-> IF s = 0 THEN -1 ELSE 0]
    /\ loaded = [s \in Slots |-> s = 0]
    /\ mailbox = [s \in Slots |-> EmptyBox]
    /\ kctx = [s \in Slots |-> InUserMode]
    /\ nextpid = 2
    /\ current = Idle
    /\ scan = 0
    /\ all_done = TRUE
    /\ halted = "no"
    /\ returned = Nothing
    /\ creator = [q \in Pids |-> 0]
    /\ exited = [q \in Pids |-> Alive]

(***************************************************************************)
(* Searches of the pool: every loop over it finds the lowest index.        *)
(***************************************************************************)
First(S) == CHOOSE s \in S : \A t \in S : s <= t

FreeSlots == {s \in Slots : state[s] = "UNUSED"}

\* get_proc, which also matches slots no process lives in any more.
SlotsOf(q) == {s \in Slots : pid[s] = q}

\* The children wait(w) of the process in slot s considers.
Kids(s, w) == {k \in Slots : /\ state[k] # "UNUSED"
                             /\ parent[k] = s
                             /\ w <= 0 \/ pid[k] = w}

ZombieKids(s, w) == {k \in Kids(s, w) : state[k] = "ZOMBIE"}

(***************************************************************************)
(* The scheduler's loop runs whenever current_proc is idle.  swtch to a    *)
(* process returns at the p++ of the loop, which is folded into the switch.*)
(***************************************************************************)
Scheduling == halted = "no" /\ current = Idle

\* The values scheduler() gives its variables, and the state yield and wait
\* leave the caller in.  Mutants: all_done is not cleared when a process is
\* run, not set again at the top of a pass; a pass starts at the second slot;
\* yield leaves the caller RUNNING; wait puts it to sleep with no one to wake it.
AllDoneAfterRunStale == all_done
AllDoneAfterRun == FALSE
AllDoneAtStartStale == all_done
AllDoneAtStart == TRUE
FirstSlotShort == 1
FirstSlot == 0
YieldedRunning == "RUNNING"
Yielded == "RUNNABLE"
WaitingAsleep == "USED"
Waiting == "RUNNABLE"

SwitchTo ==
    /\ Scheduling /\ scan < NPROC /\ state[scan] = "RUNNABLE"
    /\ state' = [state EXCEPT ![scan] = "RUNNING"]
    /\ current' = scan
    /\ scan' = scan + 1
    /\ all_done' = AllDoneAfterRun
    /\ returned' = Nothing
    /\ UNCHANGED <<mailbox, kctx, nextpid, halted, procvars, histvars>>

PassOver ==
    /\ Scheduling /\ scan < NPROC /\ state[scan] # "RUNNABLE"
    /\ scan' = scan + 1
    /\ returned' = Nothing
    /\ UNCHANGED <<state, mailbox, kctx, nextpid, halted, current, all_done, procvars, histvars>>

NewPass ==
    /\ Scheduling /\ scan = NPROC /\ ~all_done
    /\ scan' = FirstSlot
    /\ all_done' = AllDoneAtStart
    /\ returned' = Nothing
    /\ UNCHANGED <<state, mailbox, kctx, nextpid, halted, current, procvars, histvars>>

panic(why) ==
    /\ halted' = why
    /\ returned' = Nothing
    /\ UNCHANGED <<state, mailbox, kctx, nextpid, procvars, schedvars, histvars>>

AllAppsOver == Scheduling /\ scan = NPROC /\ all_done /\ panic("all_apps_over")

(***************************************************************************)
(* What a process does once it has the CPU.                                *)
(***************************************************************************)
InUser == /\ halted = "no" /\ current \in Slots
          /\ kctx[current].op = "user"

\* An image is what makes system calls; without one the first fetch faults.
Executes == InUser /\ loaded[current]

\* yield, from sched_yield or from a timer interrupt of user code.
Yield ==
    /\ InUser
    /\ state' = [state EXCEPT ![current] = Yielded]
    /\ current' = Idle
    /\ returned' = Nothing
    /\ UNCHANGED <<mailbox, kctx, nextpid, halted, scan, all_done, procvars, histvars>>

\* What exit leaves: a zombie if there is a parent pointer, nothing otherwise.
\* Mutant: the slot is always freed.
StateAfterExitFree(s) == "UNUSED"
StateAfterExit(s) == IF parent[s] # Null THEN "ZOMBIE" ELSE "UNUSED"

\* exit(code), whatever the path that leads to it; freed are the slots wait
\* has released just before.
exit(code, freed) ==
    /\ state' = [s \in Slots |-> IF s = current THEN StateAfterExit(s)
                                 ELSE IF s \in freed THEN "UNUSED" ELSE state[s]]
    /\ exit_code' = [exit_code EXCEPT ![current] = code]
    /\ loaded' = [loaded EXCEPT ![current] = FALSE]
    /\ kctx' = [kctx EXCEPT ![current] = InUserMode]
    /\ exited' = [q \in Pids |-> IF q = pid[current] THEN code
                                 ELSE IF \E k \in freed : pid[k] = q THEN Reaped
                                 ELSE exited[q]]
    /\ current' = Idle
    /\ returned' = Nothing
    /\ UNCHANGED <<mailbox, nextpid, halted, scan, all_done, pid, parent, creator>>

Exit == Executes /\ \E code \in ExitCodes : exit(code, {})

\* Faults end in exit(-2) or exit(-3), unknown traps in exit(-1).
Fault == InUser /\ \E code \in FaultCodes : (loaded[current] \/ code = -2) /\ exit(code, {})

\* allocpid.  Mutant: the counter is read but not advanced.
PidAfterStuck(n) == n
PidAfter(n) == n + 1

\* allocproc succeeds; the caller then leaves the slot in state st, with
\* parent par and an image or not.  The old mailbox is kept.
allocproc(st, par, image) ==
    LET s == First(FreeSlots) IN
    /\ FreeSlots # {} /\ nextpid <= MaxPid
    /\ nextpid' = PidAfter(nextpid)
    /\ pid' = [pid EXCEPT ![s] = nextpid]
    /\ state' = [state EXCEPT ![s] = st]
    /\ exit_code' = [exit_code EXCEPT ![s] = -1]
    /\ parent' = [parent EXCEPT ![s] = par]
    /\ loaded' = [loaded EXCEPT ![s] = image]
    /\ kctx' = [kctx EXCEPT ![s] = InUserMode]
    /\ creator' = [creator EXCEPT ![nextpid] = pid[current]]
    /\ UNCHANGED <<halted, schedvars, exited>>

Fork ==
    /\ Executes
    /\ allocproc("RUNNABLE", current, TRUE)
    /\ returned' = Return("fork", nextpid, nextpid)
    /\ UNCHANGED mailbox

\* The parent allocproc gives a slot.  Mutant: the last occupant's is kept.
FreshParentStale == parent[First(FreeSlots)]
FreshParent == Null

\* uvmcopy runs out of pages: the pid is returned, the slot stays USED.
ForkNoMemory ==
    /\ Executes /\ OOM
    /\ allocproc("USED", FreshParent, FALSE)
    /\ returned' = Return("fork", nextpid, nextpid)
    /\ UNCHANGED mailbox

\* The pool is full: np becomes the caller, uvmcopy finds the caller's first
\* page mapped already, and the caller's own pid is returned.
ForkPoolFull ==
    /\ Executes /\ FreeSlots = {}
    /\ returned' = Return("fork", pid[current], 0)
    /\ UNCHANGED <<state, mailbox, kctx, nextpid, halted, procvars, schedvars, histvars>>

\* mail_read into a buffer that is mapped iff ok; of what call, about what.
mail_read(call, n, ok, about) ==
    /\ mailbox' = [mailbox EXCEPT ![current] = BoxAfterRead(@, n, ok)]
    /\ returned' = Return(call, ReadResult(mailbox[current], n, ok), about)

\* The case of SYS_spawn in syscall() has no break: sys_mailread runs next, on
\* the name and whatever is in a1, and its result is the one returned.  A name
\* no app has leaves the child without an image.
Spawn ==
    /\ Executes
    /\ \E found \in BOOLEAN : allocproc("RUNNABLE", current, found)
    /\ \E n \in MailLens, ok \in BOOLEAN : mail_read("spawn", n, ok, nextpid)

SpawnPoolFull == Executes /\ FreeSlots = {} /\ panic("allocproc")

\* proc_pagetable, loader or alloc_ustack cannot allocate, in fork, spawn or exec.
OutOfMemory == Executes /\ OOM /\ panic("out_of_memory")

\* exec: the image is replaced, or kept when no app has the name.
Exec ==
    /\ Executes
    /\ \E found \in BOOLEAN : returned' = Return("exec", IF found THEN 0 ELSE -1, 0)
    /\ UNCHANGED <<state, mailbox, kctx, nextpid, halted, procvars, schedvars, histvars>>

(***************************************************************************)
(* One turn of the loop of wait, on the first call and after every sched().*)
(***************************************************************************)
Waits(w, ok) ==
    /\ halted = "no" /\ current \in Slots
    /\ \/ Executes
       \/ kctx[current] = InWait(w, ok)

\* The child is released before *code is written through its address.
\* Mutant: the caller's own exit code is delivered.
DeliveredOwn(k) == exit_code[current]
Delivered(k) == exit_code[k]

WaitReap(w, ok) ==
    LET k == First(ZombieKids(current, w)) IN
    /\ Waits(w, ok) /\ ZombieKids(current, w) # {} /\ ok
    /\ state' = [state EXCEPT ![k] = "UNUSED"]
    /\ exited' = [exited EXCEPT ![pid[k]] = Reaped]
    /\ kctx' = [kctx EXCEPT ![current] = InUserMode]
    /\ returned' = Return("wait", pid[k], Delivered(k))
    /\ UNCHANGED <<mailbox, nextpid, halted, procvars, schedvars, creator>>

\* The write to *code traps in the kernel, and kerneltrap ends the caller.
WaitBadAddress(w, ok) ==
    /\ Waits(w, ok) /\ ZombieKids(current, w) # {} /\ ~ok
    /\ exit(-1, {First(ZombieKids(current, w))})

WaitNoKids(w, ok) ==
    /\ Waits(w, ok) /\ Kids(current, w) = {}
    /\ kctx' = [kctx EXCEPT ![current] = InUserMode]
    /\ returned' = Return("wait", -1, 0)
    /\ UNCHANGED <<state, mailbox, nextpid, halted, procvars, schedvars, histvars>>

WaitSched(w, ok) ==
    /\ Waits(w, ok) /\ Kids(current, w) # {} /\ ZombieKids(current, w) = {}
    /\ state' = [state EXCEPT ![current] = Waiting]
    /\ kctx' = [kctx EXCEPT ![current] = InWait(w, ok)]
    /\ current' = Idle
    /\ returned' = Nothing
    /\ UNCHANGED <<mailbox, nextpid, halted, scan, all_done, procvars, histvars>>

Wait == \E w \in 0 .. MaxPid, ok \in BOOLEAN :
            WaitReap(w, ok) \/ WaitBadAddress(w, ok) \/ WaitNoKids(w, ok) \/ WaitSched(w, ok)

(***************************************************************************)
(* Mail.                                                                   *)
(***************************************************************************)
MailRead ==
    /\ Executes /\ MailPids # {}
    /\ \E n \in MailLens, ok \in BOOLEAN :
          mail_read("mailread", n, ok, mailbox[current].items[mailbox[current].head].mail)
    /\ UNCHANGED <<state, kctx, nextpid, halted, procvars, schedvars, histvars>>

MailWrite ==
    /\ Executes
    /\ \E q \in MailPids, n \in MailLens, ok \in BOOLEAN :
          LET t == First(SlotsOf(q)) IN
          IF SlotsOf(q) = {}
          THEN returned' = Return("mailwrite", -1, q) /\ UNCHANGED mailbox
          ELSE \E over \in Overruns(mailbox[t], n) :
               /\ returned' = Return("mailwrite", WriteResult(mailbox[t], n, ok), q)
               /\ mailbox' = [mailbox EXCEPT ![t] = BoxAfterWrite(@, n, q, ok, over)]
    /\ UNCHANGED <<state, kctx, nextpid, halted, procvars, schedvars, histvars>>

\* A write of negative length also runs out of the array of mails, over the
\* fields of struct proc behind it and the slots of the pool behind that one,
\* with bytes of the program's choice.  Nothing is known of the machine then:
\* the model stops.
MailOverrun ==
    /\ Executes
    /\ \E n \in MailLens : n < 0
    /\ \E q \in MailPids : SlotsOf(q) # {} /\ ~IsFull(mailbox[First(SlotsOf(q))])
    /\ panic("overrun")

\* A panic shuts the machine down for good.
ShutDown == halted # "no" /\ UNCHANGED vars

Scheduler == SwitchTo \/ PassOver \/ NewPass \/ AllAppsOver

Next ==
    \/ Scheduler
    \/ Yield \/ Exit \/ Fault
    \/ Fork \/ ForkNoMemory \/ ForkPoolFull
    \/ Spawn \/ SpawnPoolFull \/ OutOfMemory \/ Exec
    \/ Wait
    \/ MailRead \/ MailWrite \/ MailOverrun
    \/ ShutDown

Spec == Init /\ [][Next]_vars

(***************************************************************************)
(* Fairness.  The scheduler never stops; a timer interrupt reaches every   *)
(* program in user mode, whatever it does; a process inside wait finishes  *)
(* the turn of the loop it was switched to.                                *)
(***************************************************************************)
WaitTurn == current \in Slots /\ kctx[current].op = "wait" /\ Wait

FairSpec == Spec /\ WF_vars(Scheduler) /\ WF_vars(Yield) /\ WF_vars(WaitTurn)

(***************************************************************************)
(* Properties.                                                             *)
(***************************************************************************)

\* The type invariant of the process table and the scheduler.
TypeOK ==
    /\ state \in [Slots -> ProcStates]
    /\ pid \in [Slots -> 0 .. MaxPid]
    /\ parent \in [Slots -> Slots \cup {Null}]
    /\ exit_code \in [Slots -> Codes \cup {0}]
    /\ loaded \in [Slots -> BOOLEAN]
    /\ mailbox \in [Slots -> Mailboxes]
    /\ kctx \in [Slots -> Contexts]
    /\ nextpid \in 1 .. MaxPid + 1
    /\ current \in Slots \cup {Idle}
    /\ scan \in 0 .. NPROC
    /\ all_done \in BOOLEAN
    /\ halted \in {"no", "all_apps_over", "allocproc", "out_of_memory", "overrun"}
    /\ creator \in [Pids -> 0 .. MaxPid]
    /\ exited \in [Pids -> Codes \cup {Alive, Reaped}]

\* sched() is never entered by a RUNNING process (its panic "sched running"),
\* and the scheduler never loses the process it switched to: the RUNNING slot
\* is the one current_proc points to.
RunningIsCurrent == \A s \in Slots : state[s] = "RUNNING" <=> current = s

\* The scheduler shuts the machine down only when no process could run, even
\* though processes fork, wake and wait behind its scan of the pool.
OverMeansOver ==
    halted = "all_apps_over" => \A s \in Slots : state[s] \notin {"RUNNABLE", "RUNNING"}

\* A pid names one process for ever: no two slots share one, and a pid that
\* allocpid has yet to hand out is in no slot.
PidsUnique ==
    /\ \A s, t \in Slots : pid[s] = pid[t] /\ pid[s] # 0 => s = t
    /\ \A s \in Slots : pid[s] < nextpid

\* A process that blocked in wait keeps a child to wait for, which runs or has
\* ended and is not one of the slots a fork out of memory left USED for ever: it
\* cannot wake up to the -1 that means it never had a child, nor wait for
\* something that can never happen.
WaiterHasKid ==
    \A s \in Slots :
        kctx[s].op = "wait" => \E k \in Kids(s, kctx[s].pid) : state[k] # "USED"

\* A process found under a parent pointer was made by the process in that slot,
\* or its maker is gone: while the maker lives no one else can reap the child.
KidsAreOwnOrOrphans ==
    \A k \in Slots : state[k] # "UNUSED" /\ parent[k] # Null =>
        \/ pid[parent[k]] = creator[pid[k]]
        \/ \A s \in Slots : state[s] \in {"RUNNABLE", "RUNNING"} => pid[s] # creator[pid[k]]

\* wait returns the status the child really left, and no child twice.
WaitDelivers ==
    [][returned'.call = "wait" /\ returned'.val # -1
          => exited[returned'.val] = returned'.about]_vars

\* Mailboxes behave as bounded first-in-first-out queues, one per pool slot:
\* mail_read and mail_write, with copies that fail half way and lengths of either
\* sign, lose no mail, duplicate none and change no order; and what a mail says
\* changes only where a write of negative length has just run over the oldest.
Queues == [s \in Slots |-> Contents(mailbox[s])]
WholeMails == [len : 1 .. MAILMAX, mail : Mails]
OverrunAtTail == [s \in Slots |-> mailbox[s].items[mailbox[s].tail].len < 0]
MQ == INSTANCE MailQueue WITH
          Owners <- Slots, Items <- WholeMails, Capacity <- MAILSLOTS - 1, Garbage <- NoMail,
          queue <- Queues, overrun <- OverrunAtTail
MailIsFIFO == MQ!Spec

\* Every runnable process gets the CPU, unless the machine stops.
NoStarvation ==
    \A s \in Slots : state[s] = "RUNNABLE" ~> (state[s] = "RUNNING" \/ halted # "no")

\* A process blocked in wait comes out once a child it waits for is a zombie.
WaitReturns ==
    \A s \in Slots :
        (kctx[s].op = "wait" /\ ZombieKids(s, kctx[s].pid) # {})
            ~> (kctx[s].op = "user" \/ halted # "no")

\* When nothing can run any more the scheduler notices and stops.
StopsWhenOver ==
    (\A s \in Slots : state[s] \notin {"RUNNABLE", "RUNNING"}) ~> halted # "no"
=============================================================================
