----------------------------- MODULE ProcProofs -----------------------------
(***************************************************************************)
(* Proofs about the process table and the scheduler, for every size of the *)
(* pool, every set of exit codes and mails and every bound on pids.        *)
(***************************************************************************)
EXTENDS Proc, TLAPS, WellFoundedInduction

(***************************************************************************)
(* Lemmas about the helpers.                                               *)
(***************************************************************************)

\* The loops over the pool find a slot of the set they look for.
LEMMA FirstIsIn ==
    ASSUME NEW S \in SUBSET Slots, S # {}
    PROVE  First(S) \in S /\ \A t \in S : First(S) <= t
<1> DEFINE R == OpToRel(<, Nat)
<1>1. S \subseteq Nat
  BY ProcAssumption DEF Slots
<1>2. PICK x \in S : \A y \in S : ~(<<y, x>> \in R)
  BY <1>1, WFMin, NatLessThanWellFounded
<1>3. ASSUME NEW y \in S PROVE x <= y
  <2>1. x \in Nat /\ y \in Nat /\ <<y, x>> \in Nat \X Nat
    BY <1>1
  <2>2. y < x => <<y, x>> \in R
    BY <2>1 DEF OpToRel
  <2> HIDE DEF R
  <2> QED
    BY <1>2, <2>1, <2>2
<1> QED
  BY <1>3 DEF First

LEMMA NextEntryInRing ==
    ASSUME NEW i \in 0 .. MAILSLOTS - 1
    PROVE  NextEntry(i) \in 0 .. MAILSLOTS - 1
  BY MailAssumption DEF NextEntry

LEMMA LesserIsEither ==
    ASSUME NEW a \in Int, NEW b \in Nat
    PROVE  Lesser(a, b) \in Int /\ Lesser(a, b) <= b
  BY DEF Lesser

\* mail_read and mail_write leave a mailbox.
LEMMA ReadKeepsBox ==
    ASSUME NEW m \in Mailboxes, NEW n, NEW ok
    PROVE  BoxAfterRead(m, n, ok) \in Mailboxes
  BY NextEntryInRing DEF BoxAfterRead, Mailboxes

LEMMA WriteKeepsBox ==
    ASSUME NEW m \in Mailboxes, NEW n \in Int, NEW mail \in Mails, NEW ok \in BOOLEAN,
           NEW over
    PROVE  BoxAfterWrite(m, n, mail, ok, over) \in Mailboxes
<1> DEFINE entry == [len |-> Lesser(n, MAILMAX), mail |-> IF Copies(n, ok) THEN mail ELSE NoMail]
           items == [i \in 0 .. MAILSLOTS - 1 |->
                        CASE i = m.tail -> entry
                          [] i \in m.tail + 1 .. m.tail + over -> [m.items[i] EXCEPT !.mail = NoMail]
                          [] OTHER -> m.items[i]]
           put == [m EXCEPT !.items = items]
<1>1. entry \in Entries
  BY LesserIsEither, MailAssumption DEF Entries
<1>2. put \in Mailboxes
  <2>1. \A e \in Entries : [e EXCEPT !.mail = NoMail] \in Entries
    BY DEF Entries
  <2> HIDE DEF entry
  <2>2. items \in [0 .. MAILSLOTS - 1 -> Entries]
    BY <1>1, <2>1 DEF Mailboxes
  <2> HIDE DEF items
  <2> QED BY <2>2 DEF Mailboxes
<1>3. NextEntry(m.tail) \in 0 .. MAILSLOTS - 1
  BY NextEntryInRing DEF Mailboxes
<1>4. [put EXCEPT !.tail = NextEntry(m.tail)] \in Mailboxes
  BY <1>2, <1>3 DEF Mailboxes
<1> QED
  BY <1>2, <1>4 DEF BoxAfterWrite

LEMMA EmptyBoxIsBox == EmptyBox \in Mailboxes
  BY MailAssumption DEF EmptyBox, Mailboxes, Entries

LEMMA ContextsTyped ==
    /\ InUserMode \in Contexts
    /\ \A w \in 0 .. MaxPid, ok \in BOOLEAN : InWait(w, ok) \in Contexts
  BY ProcAssumption DEF InUserMode, InWait, Contexts

(***************************************************************************)
(* Type correctness.                                                       *)
(***************************************************************************)
LEMMA TypeInit == Init => TypeOK
  BY EmptyBoxIsBox, ContextsTyped, ProcAssumption
     DEF Init, TypeOK, Slots, Pids, Null, Idle, ProcStates, Codes, FaultCodes

LEMMA TypeExit ==
    ASSUME TypeOK, current \in Slots, NEW code \in Codes, NEW freed, exit(code, freed)
    PROVE  TypeOK'
<1>1. state' \in [Slots -> ProcStates]
  BY DEF TypeOK, exit, StateAfterExit, ProcStates
<1>2. exited' \in [Pids -> Codes \cup {Alive, Reaped}]
  BY DEF TypeOK, exit
<1> QED
  BY <1>1, <1>2, ContextsTyped DEF TypeOK, exit

LEMMA TypeAlloc ==
    ASSUME TypeOK, current \in Slots, mailbox' \in [Slots -> Mailboxes],
           NEW st \in ProcStates, NEW par \in Slots \cup {Null}, NEW image \in BOOLEAN,
           allocproc(st, par, image)
    PROVE  TypeOK'
<1>1. nextpid \in Pids /\ nextpid' \in 1 .. MaxPid + 1
  BY ProcAssumption DEF TypeOK, allocproc, PidAfter, Pids
<1>2. pid' \in [Slots -> 0 .. MaxPid] /\ creator' \in [Pids -> 0 .. MaxPid]
  <2>1. nextpid \in 0 .. MaxPid /\ pid[current] \in 0 .. MaxPid
    BY <1>1, ProcAssumption DEF TypeOK, Pids
  <2> QED
    BY <2>1 DEF TypeOK, allocproc
<1>3. exit_code' \in [Slots -> Codes \cup {0}]
  BY DEF TypeOK, allocproc, Codes, FaultCodes
<1>4. /\ state' \in [Slots -> ProcStates]
      /\ parent' \in [Slots -> Slots \cup {Null}]
      /\ loaded' \in [Slots -> BOOLEAN]
      /\ kctx' \in [Slots -> Contexts]
  BY ContextsTyped DEF TypeOK, allocproc
<1> QED
  BY <1>1, <1>2, <1>3, <1>4 DEF TypeOK, allocproc, schedvars

LEMMA TypeRead ==
    ASSUME TypeOK, NEW call, NEW n, NEW ok, NEW about, mail_read(call, n, ok, about)
    PROVE  mailbox' \in [Slots -> Mailboxes]
<1>1. \A s \in Slots : BoxAfterRead(mailbox[s], n, ok) \in Mailboxes
  BY ReadKeepsBox DEF TypeOK
<1> QED
  BY <1>1 DEF TypeOK, mail_read

LEMMA TypeStep == TypeOK /\ [Next]_vars => TypeOK'
<1> SUFFICES ASSUME TypeOK, [Next]_vars PROVE TypeOK'
  OBVIOUS
<1> USE ProcAssumption
<1>1. CASE SwitchTo
  <2>1. scan \in Slots /\ scan + 1 \in 0 .. NPROC
    BY <1>1 DEF SwitchTo, AllDoneAfterRun, TypeOK, Slots
  <2> QED
    BY <1>1, <2>1 DEF SwitchTo, AllDoneAfterRun, TypeOK, ProcStates, procvars, histvars
<1>2. CASE PassOver
  BY <1>2 DEF PassOver, TypeOK, procvars, histvars
<1>3. CASE NewPass
  BY <1>3 DEF NewPass, FirstSlot, AllDoneAtStart, TypeOK, procvars, histvars
<1>4. CASE AllAppsOver
  BY <1>4 DEF AllAppsOver, panic, TypeOK, procvars, schedvars, histvars
<1>5. CASE Yield
  BY <1>5 DEF Yield, Yielded, TypeOK, ProcStates, procvars, histvars
<1>6. CASE Exit
  BY <1>6, TypeExit DEF Exit, Executes, InUser, Codes
<1>7. CASE Fault
  BY <1>7, TypeExit DEF Fault, InUser, Codes
<1>8. CASE Fork
  <2>1. current \in Slots /\ mailbox' \in [Slots -> Mailboxes]
    BY <1>8 DEF Fork, Executes, InUser, TypeOK
  <2> QED
    BY <1>8, <2>1, TypeAlloc DEF Fork, ProcStates
<1>9. CASE ForkNoMemory
  <2>1. current \in Slots /\ mailbox' \in [Slots -> Mailboxes]
    BY <1>9 DEF ForkNoMemory, FreshParent, Executes, InUser, TypeOK
  <2> QED
    BY <1>9, <2>1, TypeAlloc DEF ForkNoMemory, FreshParent, ProcStates
<1>10. CASE ForkPoolFull
  BY <1>10 DEF ForkPoolFull, TypeOK, procvars, schedvars, histvars
<1>11. CASE Spawn
  <2>1. current \in Slots /\ mailbox' \in [Slots -> Mailboxes]
    BY <1>11, TypeRead DEF Spawn, Executes, InUser
  <2> QED
    BY <1>11, <2>1, TypeAlloc DEF Spawn, ProcStates
<1>12. CASE SpawnPoolFull
  BY <1>12 DEF SpawnPoolFull, panic, TypeOK, procvars, schedvars, histvars
<1>13. CASE OutOfMemory
  BY <1>13 DEF OutOfMemory, panic, TypeOK, procvars, schedvars, histvars
<1>14. CASE Exec
  BY <1>14 DEF Exec, TypeOK, procvars, schedvars, histvars
<1>15. CASE Wait
  <2> PICK w \in 0 .. MaxPid, ok \in BOOLEAN :
           WaitReap(w, ok) \/ WaitBadAddress(w, ok) \/ WaitNoKids(w, ok) \/ WaitSched(w, ok)
    BY <1>15 DEF Wait
  <2>1. CASE WaitReap(w, ok)
    BY <2>1, ContextsTyped DEF WaitReap, TypeOK, ProcStates, procvars, schedvars
  <2>2. CASE WaitBadAddress(w, ok)
    BY <2>2, TypeExit DEF WaitBadAddress, Waits, Codes, FaultCodes
  <2>3. CASE WaitNoKids(w, ok)
    BY <2>3, ContextsTyped DEF WaitNoKids, TypeOK, procvars, schedvars, histvars
  <2>4. CASE WaitSched(w, ok)
    BY <2>4, ContextsTyped DEF WaitSched, Waiting, TypeOK, ProcStates, procvars, histvars
  <2> QED
    BY <2>1, <2>2, <2>3, <2>4
<1>16. CASE MailRead
  <2>1. mailbox' \in [Slots -> Mailboxes]
    BY <1>16, TypeRead DEF MailRead
  <2> QED
    BY <1>16, <2>1 DEF MailRead, TypeOK, procvars, schedvars, histvars
<1>17. CASE MailWrite
  <2>1. mailbox' \in [Slots -> Mailboxes]
    <3>1. CASE UNCHANGED mailbox
      BY <3>1 DEF TypeOK
    <3>2. ASSUME NEW q \in MailPids, NEW n \in MailLens, NEW ok \in BOOLEAN, NEW over, NEW t,
                 mailbox' = [mailbox EXCEPT ![t] = BoxAfterWrite(@, n, q, ok, over)]
          PROVE  mailbox' \in [Slots -> Mailboxes]
      <4>1. n \in Int /\ q \in Mails
        BY MailsNameTheirAddressee
      <4>2. \A s \in Slots : BoxAfterWrite(mailbox[s], n, q, ok, over) \in Mailboxes
        BY <4>1, WriteKeepsBox DEF TypeOK
      <4> QED
        BY <3>2, <4>2 DEF TypeOK
    <3> QED
      BY <1>17, <3>1, <3>2 DEF MailWrite
  <2> QED
    BY <1>17, <2>1 DEF MailWrite, TypeOK, procvars, schedvars, histvars
<1>18. CASE MailOverrun
  BY <1>18 DEF MailOverrun, panic, TypeOK, procvars, schedvars, histvars
<1>19. CASE UNCHANGED vars
  BY <1>19 DEF vars, TypeOK, procvars, schedvars, histvars
<1> QED
  BY <1>1, <1>2, <1>3, <1>4, <1>5, <1>6, <1>7, <1>8, <1>9, <1>10, <1>11, <1>12,
     <1>13, <1>14, <1>15, <1>16, <1>17, <1>18, <1>19 DEF Next, Scheduler, ShutDown

\* Every reachable state of the process table, the mailboxes and the scheduler is
\* well typed, whatever int lengths programs pass to the mail calls.
THEOREM TypeCorrect == Spec => []TypeOK
  BY TypeInit, TypeStep, PTL DEF Spec

(***************************************************************************)
(* The scheduler.  OverMeansOver is not inductive: what makes the scan of  *)
(* the pool trustworthy is that all_done is FALSE as soon as a process has *)
(* run in this pass, so that while it is TRUE the slots passed over have   *)
(* not changed since.                                                      *)
(***************************************************************************)
ScanIsCurrent ==
    /\ current # Idle => ~all_done
    /\ current = Idle /\ all_done => \A s \in Slots : s < scan => state[s] # "RUNNABLE"

SchedInv == TypeOK /\ RunningIsCurrent /\ ScanIsCurrent /\ OverMeansOver

LEMMA IdleNotInPool == Idle \notin Slots
  BY ProcAssumption DEF Idle, Slots

\* What a step of the process that has the CPU may change, as the scheduler
\* sees it: it keeps the CPU, or gives it up.
KeepsCPU == UNCHANGED <<current, scan, all_done, halted>>
GivesUpCPU == current' = Idle /\ UNCHANGED <<scan, all_done, halted>>

LEMMA SchedProcStep ==
    ASSUME SchedInv, TypeOK', halted = "no", current \in Slots,
           \/ KeepsCPU /\ state'[current] = "RUNNING"
           \/ GivesUpCPU /\ state'[current] # "RUNNING",
           \A s \in Slots : s # current /\ state'[s] = "RUNNING" => state[s] = "RUNNING"
    PROVE  SchedInv'
<1>1. ~all_done /\ ~all_done'
  BY IdleNotInPool DEF SchedInv, ScanIsCurrent, KeepsCPU, GivesUpCPU
<1>2. RunningIsCurrent'
  BY IdleNotInPool DEF SchedInv, RunningIsCurrent, KeepsCPU, GivesUpCPU
<1>3. halted' = "no"
  BY DEF KeepsCPU, GivesUpCPU
<1> QED
  BY <1>1, <1>2, <1>3 DEF SchedInv, ScanIsCurrent, OverMeansOver

LEMMA SchedAlloc ==
    ASSUME SchedInv, TypeOK', Executes, NEW st \in {"USED", "RUNNABLE"}, NEW par, NEW image,
           allocproc(st, par, image)
    PROVE  SchedInv'
<1>1. current \in Slots /\ halted = "no" /\ state[current] = "RUNNING"
  BY DEF Executes, InUser, SchedInv, RunningIsCurrent
<1>2. First(FreeSlots) \in FreeSlots
  BY FirstIsIn DEF allocproc, FreeSlots
<1>3. First(FreeSlots) # current
  BY <1>1, <1>2 DEF FreeSlots
<1>4. KeepsCPU
  BY DEF allocproc, schedvars, KeepsCPU
<1>5. state' = [state EXCEPT ![First(FreeSlots)] = st]
  BY DEF allocproc
<1>6. /\ state'[current] = "RUNNING"
      /\ \A s \in Slots : s # current /\ state'[s] = "RUNNING" => state[s] = "RUNNING"
  BY <1>1, <1>3, <1>5 DEF SchedInv, TypeOK
<1> QED
  BY <1>1, <1>4, <1>6, SchedProcStep

LEMMA SchedExit ==
    ASSUME SchedInv, TypeOK', current \in Slots, halted = "no",
           NEW code, NEW freed, exit(code, freed)
    PROVE  SchedInv'
<1>1. GivesUpCPU
  BY DEF exit, GivesUpCPU
<1>2. /\ state'[current] # "RUNNING"
      /\ \A s \in Slots : s # current /\ state'[s] = "RUNNING" => state[s] = "RUNNING"
  BY DEF exit, StateAfterExit
<1> QED
  BY <1>1, <1>2, SchedProcStep

LEMMA SchedInit == Init => SchedInv
  BY TypeInit, IdleNotInPool, ProcAssumption
     DEF Init, SchedInv, RunningIsCurrent, ScanIsCurrent, OverMeansOver, Slots

LEMMA SchedStep == SchedInv /\ [Next]_vars => SchedInv'
<1> SUFFICES ASSUME SchedInv, [Next]_vars PROVE SchedInv'
  OBVIOUS
<1>0. TypeOK /\ TypeOK'
  BY TypeStep DEF SchedInv
<1>1. CASE SwitchTo
  <2>1. scan \in Slots /\ current = Idle /\ halted = "no"
    BY <1>0, <1>1, ProcAssumption DEF SwitchTo, AllDoneAfterRun, Scheduling, TypeOK, Slots
  <2>2. \A s \in Slots : state[s] # "RUNNING"
    BY <2>1, IdleNotInPool DEF SchedInv, RunningIsCurrent
  <2>3. RunningIsCurrent'
    BY <1>0, <1>1, <2>1, <2>2 DEF SwitchTo, AllDoneAfterRun, RunningIsCurrent, TypeOK
  <2>4. ScanIsCurrent' /\ OverMeansOver'
    BY <1>1, <2>1, IdleNotInPool DEF SwitchTo, AllDoneAfterRun, ScanIsCurrent, OverMeansOver
  <2> QED
    BY <1>0, <2>3, <2>4 DEF SchedInv
<1>2. CASE PassOver
  <2>1. ScanIsCurrent'
    BY <1>0, <1>2, ProcAssumption
       DEF PassOver, Scheduling, SchedInv, ScanIsCurrent, TypeOK, Slots
  <2> QED
    BY <1>0, <1>2, <2>1 DEF PassOver, SchedInv, RunningIsCurrent, OverMeansOver
<1>3. CASE NewPass
  <2>1. ScanIsCurrent'
    BY <1>3, IdleNotInPool, ProcAssumption DEF NewPass, FirstSlot, AllDoneAtStart, Scheduling,
       ScanIsCurrent, Slots
  <2> QED
    BY <1>0, <1>3, <2>1 DEF NewPass, FirstSlot, AllDoneAtStart, SchedInv, RunningIsCurrent,
       OverMeansOver
<1>4. CASE AllAppsOver
  <2>1. \A s \in Slots : state[s] \notin {"RUNNABLE", "RUNNING"}
    BY <1>4, IdleNotInPool, ProcAssumption
       DEF AllAppsOver, Scheduling, SchedInv, ScanIsCurrent, RunningIsCurrent, Slots
  <2> QED
    BY <1>0, <1>4, <2>1
       DEF AllAppsOver, panic, SchedInv, RunningIsCurrent, ScanIsCurrent, OverMeansOver, schedvars
<1>5. CASE Yield
  <2>1. GivesUpCPU /\ current \in Slots /\ halted = "no"
    BY <1>5 DEF Yield, Yielded, InUser, GivesUpCPU
  <2>2. /\ state'[current] # "RUNNING"
        /\ \A s \in Slots : s # current => state'[s] = state[s]
    BY <1>0, <1>5, <2>1 DEF Yield, Yielded, TypeOK
  <2> QED
    BY <1>0, <2>1, <2>2, SchedProcStep
<1>6. CASE Exit
  BY <1>0, <1>6, SchedExit DEF Exit, Executes, InUser
<1>7. CASE Fault
  BY <1>0, <1>7, SchedExit DEF Fault, InUser
<1>8. CASE Fork \/ ForkNoMemory \/ Spawn
  BY <1>0, <1>8, SchedAlloc DEF Fork, ForkNoMemory, FreshParent, Spawn
<1>9. CASE ForkPoolFull \/ Exec \/ MailRead \/ MailWrite
  <2>1. state' = state /\ KeepsCPU
    BY <1>9 DEF ForkPoolFull, Exec, MailRead, MailWrite, KeepsCPU, schedvars
  <2> QED
    BY <1>0, <2>1 DEF SchedInv, KeepsCPU, RunningIsCurrent, ScanIsCurrent, OverMeansOver
<1>10. CASE SpawnPoolFull \/ OutOfMemory \/ MailOverrun
  <2>1. /\ halted' \in {"allocproc", "out_of_memory", "overrun"}
        /\ UNCHANGED <<state, current, scan, all_done>>
    BY <1>10 DEF SpawnPoolFull, OutOfMemory, MailOverrun, panic, schedvars
  <2> QED
    BY <1>0, <2>1 DEF SchedInv, RunningIsCurrent, ScanIsCurrent, OverMeansOver
<1>11. CASE Wait
  <2> PICK w \in 0 .. MaxPid, ok \in BOOLEAN :
           WaitReap(w, ok) \/ WaitBadAddress(w, ok) \/ WaitNoKids(w, ok) \/ WaitSched(w, ok)
    BY <1>11 DEF Wait
  <2>0. current \in Slots /\ halted = "no"
    BY DEF WaitReap, WaitBadAddress, WaitNoKids, WaitSched, Waits
  <2>1. CASE WaitReap(w, ok)
    <3>1. First(ZombieKids(current, w)) \in ZombieKids(current, w)
      BY <2>1, FirstIsIn DEF WaitReap, ZombieKids, Kids
    <3>2. KeepsCPU /\ state' = [state EXCEPT ![First(ZombieKids(current, w))] = "UNUSED"]
      BY <2>1 DEF WaitReap, KeepsCPU, schedvars
    <3>3. state[current] = "RUNNING" /\ First(ZombieKids(current, w)) # current
      BY <2>0, <3>1 DEF SchedInv, RunningIsCurrent, ZombieKids
    <3>4. /\ state'[current] = "RUNNING"
          /\ \A s \in Slots : s # current /\ state'[s] = "RUNNING" => state[s] = "RUNNING"
      BY <1>0, <2>0, <3>2, <3>3 DEF TypeOK
    <3> QED
      BY <1>0, <2>0, <3>2, <3>4, SchedProcStep
  <2>2. CASE WaitBadAddress(w, ok)
    BY <1>0, <2>0, <2>2, SchedExit DEF WaitBadAddress
  <2>3. CASE WaitNoKids(w, ok)
    <3>1. state' = state /\ KeepsCPU
      BY <2>3 DEF WaitNoKids, KeepsCPU, schedvars
    <3> QED
      BY <1>0, <3>1 DEF SchedInv, KeepsCPU, RunningIsCurrent, ScanIsCurrent, OverMeansOver
  <2>4. CASE WaitSched(w, ok)
    <3>1. GivesUpCPU /\ state' = [state EXCEPT ![current] = "RUNNABLE"]
      BY <2>4 DEF WaitSched, Waiting, GivesUpCPU
    <3>2. /\ state'[current] # "RUNNING"
          /\ \A s \in Slots : s # current => state'[s] = state[s]
      BY <1>0, <2>0, <3>1 DEF TypeOK
    <3> QED
      BY <1>0, <2>0, <3>1, <3>2, SchedProcStep
  <2> QED
    BY <2>1, <2>2, <2>3, <2>4
<1>12. CASE UNCHANGED vars
  BY <1>0, <1>12
     DEF vars, schedvars, SchedInv, RunningIsCurrent, ScanIsCurrent, OverMeansOver
<1> QED
  BY <1>1, <1>2, <1>3, <1>4, <1>5, <1>6, <1>7, <1>8, <1>9, <1>10, <1>11, <1>12
     DEF Next, Scheduler, ShutDown

LEMMA SchedInvariant == Spec => []SchedInv
  BY SchedInit, SchedStep, PTL DEF Spec

\* sched()'s panic "sched running" is unreachable: the only RUNNING slot is the
\* one current_proc points to.
THEOREM RunningIsCurrentHolds == Spec => []RunningIsCurrent
<1>1. SchedInv => RunningIsCurrent
  BY DEF SchedInv
<1> QED
  BY <1>1, SchedInvariant, PTL

\* The scheduler stops the machine only when no process could run.
THEOREM OverMeansOverHolds == Spec => []OverMeansOver
<1>1. SchedInv => OverMeansOver
  BY DEF SchedInv
<1> QED
  BY <1>1, SchedInvariant, PTL

(***************************************************************************)
(* Mail.  The refinement needs no more than that mailboxes are typed: what *)
(* is in a queue is what lies between head and tail, and a step moves one  *)
(* of them by one.  Indices stay below 2 * MAILSLOTS, where % is linear.   *)
(***************************************************************************)
LEMMA RestOfDivision ==
  ASSUME NEW a \in Int, NEW m \in Nat \ {0}, NEW r \in 0 .. m - 1, \E q \in Int : a = (m * q) + r
  PROVE  a % m = r
  OBVIOUS

\* An index that is less than two rounds into the ring.
LEMMA OnceAround ==
  ASSUME NEW a \in 0 .. 2 * MAILSLOTS - 1
  PROVE  a % MAILSLOTS = IF a < MAILSLOTS THEN a ELSE a - MAILSLOTS
<1>1. MAILSLOTS \in Nat \ {0}
  BY MailAssumption
<1>2. CASE a < MAILSLOTS
  <2>1. a \in 0 .. MAILSLOTS - 1 /\ a = (MAILSLOTS * 0) + a
    BY <1>1, <1>2
  <2>2. \E q \in Int : a = (MAILSLOTS * q) + a
    BY <2>1
  <2>3. a % MAILSLOTS = a
    BY <1>1, <2>1, <2>2, RestOfDivision
  <2> QED BY <1>2, <2>3
<1>3. CASE ~ (a < MAILSLOTS)
  <2>1. a - MAILSLOTS \in 0 .. MAILSLOTS - 1 /\ a = (MAILSLOTS * 1) + (a - MAILSLOTS)
    BY <1>1, <1>3
  <2>2. \E q \in Int : a = (MAILSLOTS * q) + (a - MAILSLOTS)
    BY <2>1
  <2>3. a \in Int
    OBVIOUS
  <2>4. a % MAILSLOTS = a - MAILSLOTS
    BY <1>1, <2>1, <2>2, <2>3, RestOfDivision
  <2> QED BY <1>3, <2>4
<1> QED BY <1>2, <1>3

\* How many mails wait between head and tail, and where the index moves.
LEMMA RingArithmetic ==
  ASSUME NEW m \in Mailboxes
  PROVE  /\ m.head \in 0 .. MAILSLOTS - 1 /\ m.tail \in 0 .. MAILSLOTS - 1
         /\ Queued(m) = IF m.tail < m.head THEN m.tail - m.head + MAILSLOTS ELSE m.tail - m.head
         /\ \A i \in 0 .. MAILSLOTS - 1 :
               NextEntry(i) = IF i + 1 = MAILSLOTS THEN 0 ELSE i + 1
<1>1. MAILSLOTS \in Nat /\ MAILSLOTS > 1
  BY MailAssumption
<1>2. m.head \in 0 .. MAILSLOTS - 1 /\ m.tail \in 0 .. MAILSLOTS - 1
  BY DEF Mailboxes
<1>3. m.tail - m.head + MAILSLOTS \in 0 .. 2 * MAILSLOTS - 1
  BY <1>1, <1>2
<1>4. Queued(m) = IF m.tail < m.head THEN m.tail - m.head + MAILSLOTS ELSE m.tail - m.head
  <2> DEFINE a == m.tail - m.head + MAILSLOTS
  <2>1. a \in 0 .. 2 * MAILSLOTS - 1
    BY <1>3
  <2>2. a % MAILSLOTS = IF a < MAILSLOTS THEN a ELSE a - MAILSLOTS
    <3> HIDE DEF a
    <3> QED BY <2>1, OnceAround
  <2> QED BY <1>1, <1>2, <2>2 DEF Queued
<1>5. ASSUME NEW i \in 0 .. MAILSLOTS - 1
      PROVE  NextEntry(i) = IF i + 1 = MAILSLOTS THEN 0 ELSE i + 1
  <2> DEFINE a == 1 + i
  <2>1. a \in 0 .. 2 * MAILSLOTS - 1
    BY <1>1
  <2>2. a % MAILSLOTS = IF a < MAILSLOTS THEN a ELSE a - MAILSLOTS
    <3> HIDE DEF a
    <3> QED BY <2>1, OnceAround
  <2> QED BY <1>1, <2>2 DEF NextEntry
<1> QED BY <1>2, <1>4, <1>5

\* The entry of the ring that holds the i-th mail.
Entry(m, i) == (m.head + i - 1) % MAILSLOTS

LEMMA EntryIs ==
  ASSUME NEW m \in Mailboxes, NEW i \in 1 .. MAILSLOTS
  PROVE  /\ Entry(m, i) \in 0 .. MAILSLOTS - 1
         /\ Entry(m, i) = IF m.head + i - 1 < MAILSLOTS THEN m.head + i - 1
                                                        ELSE m.head + i - 1 - MAILSLOTS
<1>1. MAILSLOTS \in Nat /\ m.head \in 0 .. MAILSLOTS - 1
  BY MailAssumption DEF Mailboxes
<1> DEFINE a == m.head + i - 1
<1>2. a \in 0 .. 2 * MAILSLOTS - 1
  BY <1>1
<1>3. a % MAILSLOTS = IF a < MAILSLOTS THEN a ELSE a - MAILSLOTS
  <2> HIDE DEF a
  <2> QED BY <1>2, OnceAround
<1> QED BY <1>1, <1>2, <1>3 DEF Entry

LEMMA ContentsIs ==
  ASSUME NEW m \in Mailboxes
  PROVE  /\ Queued(m) \in 0 .. MAILSLOTS - 1
         /\ Contents(m) \in Seq(Entries)
         /\ Len(Contents(m)) = Queued(m)
         /\ \A i \in 1 .. Queued(m) : Contents(m)[i] = m.items[Entry(m, i)]
<1>1. Queued(m) \in 0 .. MAILSLOTS - 1
  BY RingArithmetic, MailAssumption
<1>2. \A i \in 1 .. Queued(m) : m.items[Entry(m, i)] \in Entries
  <2> SUFFICES ASSUME NEW i \in 1 .. Queued(m) PROVE m.items[Entry(m, i)] \in Entries
    OBVIOUS
  <2>1. i \in 1 .. MAILSLOTS
    BY <1>1, MailAssumption
  <2>2. Entry(m, i) \in 0 .. MAILSLOTS - 1
    BY <2>1, EntryIs
  <2> QED BY <2>2 DEF Mailboxes
<1>3. Contents(m) = [i \in 1 .. Queued(m) |-> m.items[Entry(m, i)]]
  BY DEF Contents, Entry
<1> QED BY <1>1, <1>2, <1>3

\* mail_read takes the oldest mail out, or leaves the queue as it is.
LEMMA ReadIsReceive ==
  ASSUME NEW m \in Mailboxes, NEW n, NEW ok
  PROVE  \/ BoxAfterRead(m, n, ok) = m
         \/ /\ Contents(m) # <<>>
            /\ Contents(BoxAfterRead(m, n, ok)) = Tail(Contents(m))
<1> DEFINE r == BoxAfterRead(m, n, ok)
<1>1. CASE IsEmpty(m) \/ ~Copies(n, ok)
  BY <1>1 DEF BoxAfterRead
<1>2. CASE ~ (IsEmpty(m) \/ ~Copies(n, ok))
  <2>1. r = [m EXCEPT !.head = NextEntry(m.head)]
    BY <1>2 DEF BoxAfterRead
  <2>2. r \in Mailboxes
    BY ReadKeepsBox
  <2>3. r.head = NextEntry(m.head) /\ r.tail = m.tail /\ r.items = m.items
    BY <2>1 DEF Mailboxes
  <2>4. m.head # m.tail
    BY <1>2 DEF IsEmpty
  <2> HIDE DEF r
  <2>5. Queued(m) > 0 /\ Queued(r) = Queued(m) - 1
    BY <2>2, <2>3, <2>4, RingArithmetic, MailAssumption
  <2>6. ASSUME NEW i \in 1 .. Queued(r) PROVE Contents(r)[i] = Contents(m)[i + 1]
    <3>1. i \in 1 .. MAILSLOTS /\ i + 1 \in 1 .. MAILSLOTS /\ i + 1 \in 1 .. Queued(m)
      BY <2>5, ContentsIs, MailAssumption
    <3>2. r.head = IF m.head + 1 = MAILSLOTS THEN 0 ELSE m.head + 1
      BY <2>3, RingArithmetic
    <3>3. m.head \in 0 .. MAILSLOTS - 1
      BY RingArithmetic
    <3>4. Entry(r, i) = Entry(m, i + 1)
      BY <2>2, <3>1, <3>2, <3>3, EntryIs, MailAssumption
    <3>5. Contents(r)[i] = r.items[Entry(r, i)]
      BY <2>2, ContentsIs
    <3>6. Contents(m)[i + 1] = m.items[Entry(m, i + 1)]
      BY <3>1, ContentsIs
    <3> QED BY <2>3, <3>4, <3>5, <3>6
  <2>7. /\ Contents(m) \in Seq(Entries) /\ Len(Contents(m)) = Queued(m)
        /\ Contents(r) \in Seq(Entries) /\ Len(Contents(r)) = Queued(r)
        /\ Queued(m) \in Nat
    BY <2>2, ContentsIs
  <2> DEFINE c == Contents(m)
             d == Contents(r)
  <2>8. c \in Seq(Entries) /\ d \in Seq(Entries) /\ Len(c) > 0 /\ Len(d) = Len(c) - 1
    BY <2>5, <2>7
  <2>9. \A i \in 1 .. Len(d) : d[i] = c[i + 1]
    BY <2>6, <2>7
  <2> HIDE DEF c, d
  <2>10. c # <<>> /\ d = Tail(c)
    BY <2>8, <2>9
  <2> QED BY <2>10 DEF c, d, r
<1> QED BY <1>1, <1>2

\* What a write leaves in the ring, entry by entry.
LEMMA WrittenBox ==
  ASSUME NEW m \in Mailboxes, NEW n \in Int, NEW mail \in Mails, NEW ok \in BOOLEAN, NEW over,
         ~IsFull(m), n # 0, NEW r, r = BoxAfterWrite(m, n, mail, ok, over)
  PROVE  /\ r \in Mailboxes
         /\ r.head = m.head
         /\ r.tail = IF Copies(n, ok) THEN NextEntry(m.tail) ELSE m.tail
         /\ r.items[m.tail] = [len  |-> Lesser(n, MAILMAX),
                               mail |-> IF Copies(n, ok) THEN mail ELSE NoMail]
         /\ \A j \in 0 .. MAILSLOTS - 1 : j # m.tail =>
               r.items[j] = IF j \in m.tail + 1 .. m.tail + over
                            THEN [m.items[j] EXCEPT !.mail = NoMail] ELSE m.items[j]
<1> DEFINE entry == [len |-> Lesser(n, MAILMAX), mail |-> IF Copies(n, ok) THEN mail ELSE NoMail]
           items == [i \in 0 .. MAILSLOTS - 1 |->
                        CASE i = m.tail -> entry
                          [] i \in m.tail + 1 .. m.tail + over -> [m.items[i] EXCEPT !.mail = NoMail]
                          [] OTHER -> m.items[i]]
           put == [m EXCEPT !.items = items]
<1>1. r \in Mailboxes /\ m.tail \in 0 .. MAILSLOTS - 1
  BY WriteKeepsBox, RingArithmetic
<1>2. r = IF Copies(n, ok) THEN [put EXCEPT !.tail = NextEntry(m.tail)] ELSE put
  BY DEF BoxAfterWrite
<1>3. /\ items[m.tail] = entry
      /\ \A j \in 0 .. MAILSLOTS - 1 : j # m.tail =>
            items[j] = IF j \in m.tail + 1 .. m.tail + over
                       THEN [m.items[j] EXCEPT !.mail = NoMail] ELSE m.items[j]
  <2> HIDE DEF entry
  <2> QED BY <1>1
<1>4. /\ r.head = m.head /\ r.items = items
      /\ r.tail = IF Copies(n, ok) THEN NextEntry(m.tail) ELSE m.tail
  <2> HIDE DEF items
  <2>1. put.head = m.head /\ put.tail = m.tail /\ put.items = items
    BY DEF Mailboxes
  <2>2. put \in [head : 0 .. MAILSLOTS - 1, tail : 0 .. MAILSLOTS - 1, items : {items}]
    BY DEF Mailboxes
  <2> HIDE DEF put
  <2> QED BY <1>2, <2>1, <2>2
<1> QED BY <1>1, <1>3, <1>4

\* A mail that does not fit, is empty or cannot be copied leaves the queue as
\* it is, even where its first part was copied; otherwise it becomes the last.
LEMMA WriteIsSend ==
  ASSUME NEW m \in Mailboxes, NEW n \in Nat, NEW mail \in Mails, NEW ok \in BOOLEAN,
         NEW over \in Overruns(m, n)
  PROVE  \/ Contents(BoxAfterWrite(m, n, mail, ok, over)) = Contents(m)
         \/ /\ Len(Contents(m)) < MAILSLOTS - 1
            /\ \E item \in WholeMails :
                  Contents(BoxAfterWrite(m, n, mail, ok, over)) = Append(Contents(m), item)
<1> DEFINE entry == [len |-> Lesser(n, MAILMAX), mail |-> IF ok THEN mail ELSE NoMail]
           r == BoxAfterWrite(m, n, mail, ok, over)
<1>1. CASE IsFull(m) \/ n = 0
  BY <1>1 DEF BoxAfterWrite
<1>2. CASE ~ (IsFull(m) \/ n = 0)
  <2>0. over = 0 /\ Copies(n, ok) = ok
    BY <1>2 DEF Overruns, Copies
  <2>1. r \in Mailboxes /\ m.tail \in 0 .. MAILSLOTS - 1 /\ m.head \in 0 .. MAILSLOTS - 1
    BY WriteKeepsBox, RingArithmetic
  <2>3. /\ r.head = m.head
        /\ r.tail = IF ok THEN NextEntry(m.tail) ELSE m.tail
        /\ r.items[m.tail] = entry
        /\ \A j \in 0 .. MAILSLOTS - 1 : j # m.tail => r.items[j] = m.items[j]
    <3> HIDE DEF r
    <3>1. /\ r.head = m.head
          /\ r.tail = IF ok THEN NextEntry(m.tail) ELSE m.tail
          /\ r.items[m.tail] = entry
          /\ \A j \in 0 .. MAILSLOTS - 1 : j # m.tail =>
               r.items[j] = IF j \in m.tail + 1 .. m.tail + over
                            THEN [m.items[j] EXCEPT !.mail = NoMail] ELSE m.items[j]
      BY <1>2, <2>0, WrittenBox DEF r
    <3>2. m.tail + 1 .. m.tail + over = {}
      BY <2>0, <2>1
    <3> QED BY <3>1, <3>2
  <2>4. IF m.tail + 1 = MAILSLOTS THEN m.head # 0 ELSE m.head # m.tail + 1
    BY <1>2, <2>1, RingArithmetic DEF IsFull
  <2>5. Queued(m) < MAILSLOTS - 1 /\ Queued(m) \in Nat
    BY <2>1, <2>4, RingArithmetic, MailAssumption
  <2> HIDE DEF r, entry
  <2>6. ASSUME NEW i \in 1 .. Queued(m) PROVE r.items[Entry(r, i)] = Contents(m)[i]
    <3>1. i \in 1 .. MAILSLOTS
      BY <2>5, MailAssumption
    <3>2. Entry(r, i) = Entry(m, i)
      BY <2>3 DEF Entry
    <3>3. Entry(m, i) # m.tail /\ Entry(m, i) \in 0 .. MAILSLOTS - 1
      BY <2>1, <2>5, <3>1, EntryIs, RingArithmetic, MailAssumption
    <3>4. r.items[Entry(m, i)] = m.items[Entry(m, i)]
      BY <2>3, <3>3
    <3> QED BY <3>2, <3>4, ContentsIs
  <2>7. CASE ~ok
    <3>1. r.head = m.head /\ r.tail = m.tail
      BY <2>3, <2>7
    <3>2. Queued(r) = Queued(m)
      BY <3>1 DEF Queued
    <3>3. \A i \in 1 .. Queued(m) : Contents(r)[i] = Contents(m)[i]
      BY <2>1, <2>6, <3>2, ContentsIs
    <3>4. /\ Contents(m) \in Seq(Entries) /\ Len(Contents(m)) = Queued(m)
          /\ Contents(r) \in Seq(Entries) /\ Len(Contents(r)) = Queued(m)
      BY <2>1, <3>2, ContentsIs
    <3> DEFINE c == Contents(m)
               d == Contents(r)
    <3>5. c \in Seq(Entries) /\ d \in Seq(Entries) /\ Len(c) = Len(d)
      BY <3>4
    <3>6. \A i \in 1 .. Len(c) : d[i] = c[i]
      BY <3>3, <3>4
    <3> HIDE DEF c, d
    <3>7. d = c
      BY <3>5, <3>6
    <3> QED BY <3>7 DEF c, d, r
  <2>8. CASE ok
    <3>1. r.head = m.head /\ r.tail = IF m.tail + 1 = MAILSLOTS THEN 0 ELSE m.tail + 1
      BY <2>1, <2>3, <2>8, RingArithmetic
    <3>2. Queued(r) = Queued(m) + 1
      BY <2>1, <2>4, <3>1, RingArithmetic, MailAssumption
    <3>3. \A i \in 1 .. Queued(m) : Contents(r)[i] = Contents(m)[i]
      BY <2>1, <2>5, <2>6, <3>2, ContentsIs
    <3>4. Contents(r)[Queued(m) + 1] = entry
      <4> DEFINE k == Queued(m) + 1
      <4>1. k \in 1 .. MAILSLOTS /\ k \in 1 .. Queued(r)
        BY <2>5, <3>2, MailAssumption
      <4>2. Entry(m, k) = m.tail
        BY <2>1, <2>5, <4>1, EntryIs, RingArithmetic, MailAssumption
      <4>3. Entry(r, k) = Entry(m, k)
        BY <3>1 DEF Entry
      <4>4. Contents(r)[k] = r.items[Entry(r, k)]
        BY <2>1, <4>1, ContentsIs
      <4> QED BY <2>3, <4>2, <4>3, <4>4
    <3>5. /\ Contents(m) \in Seq(Entries) /\ Len(Contents(m)) = Queued(m)
          /\ Contents(r) \in Seq(Entries) /\ Len(Contents(r)) = Queued(m) + 1
      BY <2>1, <3>2, ContentsIs
    <3>6. entry \in WholeMails
      <4>1. Lesser(n, MAILMAX) \in 1 .. MAILMAX
        BY <1>2, MailAssumption DEF Lesser
      <4> QED BY <2>8, <4>1 DEF entry, WholeMails
    <3> DEFINE c == Contents(m)
               d == Contents(r)
    <3>7. c \in Seq(Entries) /\ d \in Seq(Entries) /\ Len(d) = Len(c) + 1
      BY <3>5
    <3>8. (\A i \in 1 .. Len(c) : d[i] = c[i]) /\ d[Len(c) + 1] = entry
      BY <3>3, <3>4, <3>5
    <3> HIDE DEF c, d
    <3>9. d = Append(c, entry)
      BY <3>7, <3>8
    <3>10. Contents(r) = Append(Contents(m), entry) /\ Len(Contents(m)) < MAILSLOTS - 1
      BY <2>5, <3>5, <3>9 DEF c, d
    <3> QED BY <3>6, <3>10 DEF r
  <2> QED BY <2>7, <2>8
<1> QED BY <1>1, <1>2

\* A write of negative length adds no mail.  Where the ring is wrapped it may
\* run over mails that wait: the oldest, which lie before the end of the array.
LEMMA WriteGarbles ==
  ASSUME NEW m \in Mailboxes, NEW n \in Int, n < 0, NEW mail \in Mails, NEW ok \in BOOLEAN,
         NEW over \in Overruns(m, n), NEW r, r = BoxAfterWrite(m, n, mail, ok, over)
  PROVE  \/ Contents(r) = Contents(m)
         \/ /\ r.items[r.tail].len < 0
            /\ \E k \in 1 .. Len(Contents(m)) : Contents(r) = MQ!Garbled(Contents(m), k)
<1>1. CASE IsFull(m)
  BY <1>1 DEF BoxAfterWrite
<1>2. CASE ~IsFull(m)
  <2>1. /\ r \in Mailboxes /\ r.head = m.head /\ r.tail = m.tail
        /\ r.items[m.tail].len = Lesser(n, MAILMAX)
        /\ \A j \in 0 .. MAILSLOTS - 1 : j # m.tail =>
               r.items[j] = IF j \in m.tail + 1 .. m.tail + over
                            THEN [m.items[j] EXCEPT !.mail = NoMail] ELSE m.items[j]
    <3>1. ~Copies(n, ok) /\ n # 0
      BY DEF Copies
    <3>2. /\ r \in Mailboxes /\ r.head = m.head
          /\ r.tail = IF Copies(n, ok) THEN NextEntry(m.tail) ELSE m.tail
          /\ r.items[m.tail] = [len  |-> Lesser(n, MAILMAX),
                                mail |-> IF Copies(n, ok) THEN mail ELSE NoMail]
          /\ \A j \in 0 .. MAILSLOTS - 1 : j # m.tail =>
               r.items[j] = IF j \in m.tail + 1 .. m.tail + over
                            THEN [m.items[j] EXCEPT !.mail = NoMail] ELSE m.items[j]
      BY <1>2, <3>1, WrittenBox
    <3> QED BY <3>1, <3>2
  <2>2. r.items[r.tail].len < 0
    BY <2>1, MailAssumption DEF Lesser
  <2>3. over \in 0 .. MAILSLOTS - 1 - m.tail
    BY DEF Overruns
  <2>4. /\ m.head \in 0 .. MAILSLOTS - 1 /\ m.tail \in 0 .. MAILSLOTS - 1
        /\ Queued(m) = IF m.tail < m.head THEN m.tail - m.head + MAILSLOTS ELSE m.tail - m.head
        /\ Queued(m) \in 0 .. MAILSLOTS - 1 /\ Queued(r) = Queued(m)
    BY <2>1, RingArithmetic, ContentsIs DEF Queued
  <2> DEFINE k == IF m.tail < m.head /\ m.head <= m.tail + over THEN m.tail + over - m.head + 1
                                                               ELSE 0
             c == Contents(m)
             d == Contents(r)
  <2>5. k \in 0 .. Queued(m)
    BY <2>3, <2>4, MailAssumption
  <2>6. ASSUME NEW i \in 1 .. Queued(m)
        PROVE  d[i] = IF i <= k THEN [c[i] EXCEPT !.mail = NoMail] ELSE c[i]
    <3>1. i \in 1 .. MAILSLOTS
      BY <2>4, MailAssumption
    <3>2. /\ Entry(m, i) \in 0 .. MAILSLOTS - 1
          /\ Entry(m, i) = IF m.head + i - 1 < MAILSLOTS THEN m.head + i - 1
                                                         ELSE m.head + i - 1 - MAILSLOTS
      BY <3>1, EntryIs
    <3>3. Entry(m, i) # m.tail
      BY <2>4, <3>2, MailAssumption
    <3>4. Entry(m, i) \in m.tail + 1 .. m.tail + over <=> i <= k
      BY <2>3, <2>4, <3>2, MailAssumption
    <3>5. c[i] = m.items[Entry(m, i)] /\ d[i] = r.items[Entry(r, i)] /\ Entry(r, i) = Entry(m, i)
      BY <2>1, <2>4, ContentsIs DEF Entry
    <3> QED BY <2>1, <3>2, <3>3, <3>4, <3>5
  <2>7. c \in Seq(Entries) /\ d \in Seq(Entries) /\ Len(c) = Queued(m) /\ Len(d) = Queued(m)
    BY <2>1, <2>4, ContentsIs
  <2> HIDE DEF c, d, k
  <2>8. d = [i \in 1 .. Len(c) |-> d[i]] /\ c = [i \in 1 .. Len(c) |-> c[i]]
    BY <2>7
  <2>9. CASE k = 0
    <3>1. \A i \in 1 .. Len(c) : d[i] = c[i]
      BY <2>6, <2>7, <2>9
    <3>2. d = c
      BY <2>8, <3>1
    <3> QED BY <3>2 DEF c, d
  <2>10. CASE k # 0
    <3>1. d = MQ!Garbled(c, k)
      BY <2>6, <2>7, <2>8 DEF MQ!Garbled
    <3>2. k \in 1 .. Len(c)
      BY <2>5, <2>7, <2>10
    <3> QED BY <2>2, <3>1, <3>2 DEF c, d
  <2> QED BY <2>9, <2>10
<1> QED BY <1>1, <1>2

\* What a step may do to the mailboxes: change one of them, as a queue would.
OneQueueMoves(t, m) ==
    \/ Contents(m) = Contents(mailbox[t])
    \/ /\ Contents(mailbox[t]) # <<>>
       /\ Contents(m) = Tail(Contents(mailbox[t]))
    \/ /\ Len(Contents(mailbox[t])) < MAILSLOTS - 1
       /\ \E item \in WholeMails : Contents(m) = Append(Contents(mailbox[t]), item)
    \/ /\ m.items[m.tail].len < 0
       /\ \E k \in 1 .. Len(Contents(mailbox[t])) :
             Contents(m) = MQ!Garbled(Contents(mailbox[t]), k)

LEMMA OneBoxIsOneQueue ==
  ASSUME TypeOK, NEW t \in Slots, NEW m, OneQueueMoves(t, m),
         mailbox' = [mailbox EXCEPT ![t] = m]
  PROVE  [MQ!Next]_Queues
<1>1. \A s \in Slots : Queues[s] = Contents(mailbox[s])
  BY DEF Queues
<1>2. Queues' = [Queues EXCEPT ![t] = Contents(m)]
  <2>1. \A s \in Slots : Contents(mailbox'[s]) = IF s = t THEN Contents(m) ELSE Contents(mailbox[s])
    BY DEF TypeOK
  <2>2. Queues' = [s \in Slots |-> Contents(mailbox'[s])]
    BY DEF Queues, Contents, Queued
  <2> QED BY <2>1, <2>2 DEF Queues
<1>3. CASE Contents(m) = Contents(mailbox[t])
  <2>1. Queues' = Queues
    BY <1>2, <1>3 DEF Queues
  <2> QED BY <2>1
<1>4. CASE /\ Contents(mailbox[t]) # <<>>
           /\ Contents(m) = Tail(Contents(mailbox[t]))
  <2>1. MQ!Receive(t)
    BY <1>1, <1>2, <1>4 DEF MQ!Receive
  <2> QED BY <2>1 DEF MQ!Next
<1>5. CASE /\ Len(Contents(mailbox[t])) < MAILSLOTS - 1
           /\ \E item \in WholeMails : Contents(m) = Append(Contents(mailbox[t]), item)
  <2>1. MQ!Send(t)
    BY <1>1, <1>2, <1>5 DEF MQ!Send
  <2> QED BY <2>1 DEF MQ!Next
<1>6. CASE /\ m.items[m.tail].len < 0
           /\ \E k \in 1 .. Len(Contents(mailbox[t])) :
                 Contents(m) = MQ!Garbled(Contents(mailbox[t]), k)
  <2>1. OverrunAtTail'[t]
    BY <1>6 DEF OverrunAtTail, TypeOK
  <2>2. MQ!Garble(t)
    BY <1>1, <1>2, <1>6, <2>1 DEF MQ!Garble
  <2> QED BY <2>2 DEF MQ!Next
<1> QED BY <1>3, <1>4, <1>5, <1>6 DEF OneQueueMoves

LEMMA SameBoxesSameQueues ==
  ASSUME UNCHANGED mailbox
  PROVE  [MQ!Next]_Queues
<1>1. Queues' = Queues
  BY DEF Queues, Contents, Queued
<1> QED BY <1>1

LEMMA MailReadStep ==
  ASSUME TypeOK, current \in Slots, NEW call, NEW n, NEW ok, NEW about,
         mail_read(call, n, ok, about)
  PROVE  [MQ!Next]_Queues
<1> DEFINE m == BoxAfterRead(mailbox[current], n, ok)
<1>1. mailbox[current] \in Mailboxes
  BY DEF TypeOK
<1>2. OneQueueMoves(current, m)
  BY <1>1, ReadIsReceive DEF OneQueueMoves
<1>3. mailbox' = [mailbox EXCEPT ![current] = m]
  BY DEF mail_read
<1> HIDE DEF m
<1> QED BY <1>2, <1>3, OneBoxIsOneQueue

LEMMA MailWriteStep ==
  ASSUME TypeOK, MailWrite
  PROVE  [MQ!Next]_Queues
<1>1. CASE UNCHANGED mailbox
  BY <1>1, SameBoxesSameQueues
<1>2. ASSUME NEW q \in MailPids, NEW n \in MailLens, NEW ok \in BOOLEAN, SlotsOf(q) # {},
             NEW over \in Overruns(mailbox[First(SlotsOf(q))], n),
             mailbox' = [mailbox EXCEPT ![First(SlotsOf(q))] = BoxAfterWrite(@, n, q, ok, over)]
      PROVE  [MQ!Next]_Queues
  <2> DEFINE t == First(SlotsOf(q))
             m == BoxAfterWrite(mailbox[t], n, q, ok, over)
  <2>1. t \in Slots
    BY <1>2, FirstIsIn DEF SlotsOf
  <2>2. mailbox[t] \in Mailboxes /\ n \in Int /\ q \in Mails
    BY <2>1, ProcAssumption, MailsNameTheirAddressee DEF TypeOK
  <2>3. mailbox' = [mailbox EXCEPT ![t] = m] /\ over \in Overruns(mailbox[t], n)
    BY <1>2
  <2> HIDE DEF t
  <2>4. CASE n >= 0
    <3>1. n \in Nat
      BY <2>2, <2>4
    <3> QED BY <2>2, <2>1, <2>3, <3>1, WriteIsSend, OneBoxIsOneQueue DEF OneQueueMoves
  <2>5. CASE n < 0
    <3>1. OneQueueMoves(t, m)
      BY <2>2, <2>3, <2>5, WriteGarbles DEF OneQueueMoves
    <3> HIDE DEF m
    <3> QED BY <2>1, <2>3, <3>1, OneBoxIsOneQueue
  <2> QED BY <2>2, <2>4, <2>5
<1> QED BY <1>1, <1>2 DEF MailWrite

LEMMA QueuesInit == Init => MQ!Init
<1> SUFFICES ASSUME Init PROVE MQ!Init
  OBVIOUS
<1>1. Contents(EmptyBox) = <<>>
  <2>1. EmptyBox \in Mailboxes /\ EmptyBox.head = 0 /\ EmptyBox.tail = 0
    BY EmptyBoxIsBox DEF EmptyBox
  <2>2. Queued(EmptyBox) = 0
    BY <2>1, RingArithmetic
  <2>3. Contents(EmptyBox) \in Seq(Entries) /\ Len(Contents(EmptyBox)) = 0
    BY <2>1, <2>2, ContentsIs
  <2> QED BY <2>3
<1> QED BY <1>1 DEF Init, MQ!Init, Queues

LEMMA StepOfQueues == TypeOK /\ [Next]_vars => [MQ!Next]_Queues
<1> SUFFICES ASSUME TypeOK, [Next]_vars PROVE [MQ!Next]_Queues
  OBVIOUS
<1>1. CASE Spawn
  BY <1>1, MailReadStep DEF Spawn, Executes, InUser
<1>2. CASE MailRead
  BY <1>2, MailReadStep DEF MailRead, Executes, InUser
<1>3. CASE MailWrite
  BY <1>3, MailWriteStep
<1>4. CASE \/ Scheduler \/ Yield \/ SpawnPoolFull \/ OutOfMemory \/ MailOverrun
           \/ Exec \/ UNCHANGED vars
  <2>1. UNCHANGED mailbox
    BY <1>4 DEF Scheduler, SwitchTo, PassOver, NewPass, AllAppsOver, Yield, SpawnPoolFull,
                OutOfMemory, MailOverrun, panic, Exec, vars
  <2> QED BY <2>1, SameBoxesSameQueues
<1>5. CASE Fork \/ ForkNoMemory \/ ForkPoolFull \/ Exit \/ Fault
  <2>1. UNCHANGED mailbox
    BY <1>5 DEF Fork, ForkNoMemory, ForkPoolFull, Exit, Fault, exit
  <2> QED BY <2>1, SameBoxesSameQueues
<1>6. CASE Wait
  <2>1. UNCHANGED mailbox
    BY <1>6 DEF Wait, WaitReap, WaitBadAddress, exit, WaitNoKids, WaitSched
  <2> QED BY <2>1, SameBoxesSameQueues
<1> QED BY <1>1, <1>2, <1>3, <1>4, <1>5, <1>6 DEF Next, ShutDown

\* Mailboxes are bounded first-in-first-out queues: mail_read takes the oldest
\* mail, mail_write adds a whole one behind the others, a full or failing write
\* and a failing read change nothing, and what spawn does is a read as well.  A
\* write of negative length moves no mail either; what it runs over is the text
\* of the oldest ones.
THEOREM MailIsFIFOHolds == Spec => MailIsFIFO
<1>1. Spec => MQ!Init /\ [][MQ!Next]_Queues
  BY TypeCorrect, QueuesInit, StepOfQueues, PTL DEF Spec
<1> QED BY <1>1 DEF MailIsFIFO, MQ!Spec

(***************************************************************************)
(* Pids, parents and wait.  A slot is reused while parent pointers to it   *)
(* are still around; the argument rests on pids, which are never reused.   *)
(***************************************************************************)

(***************************************************************************)
(* What a step does to the table.  All steps but those that allocate a     *)
(* slot, free one or block in wait are quiet.                              *)
(***************************************************************************)
Runs == {"RUNNABLE", "RUNNING"}

Quiet ==
    /\ UNCHANGED <<pid, parent, exit_code, nextpid, creator, exited>>
    /\ \A s \in Slots : \/ kctx'[s] = kctx[s]
                        \/ kctx'[s] = InUserMode
    /\ \A s \in Slots : \/ state'[s] = state[s]
                        \/ state[s] \in Runs /\ state'[s] \in Runs

Allocates(st, par, image) == Executes /\ allocproc(st, par, image)

Exits(code, freed) ==
    /\ current \in Slots /\ state[current] = "RUNNING"
    /\ freed \subseteq {k \in Slots : state[k] = "ZOMBIE" /\ parent[k] = current}
    /\ exit(code, freed)

Shape ==
    \/ Quiet
    \/ \E st \in {"USED", "RUNNABLE"}, par \in {current, Null}, image \in BOOLEAN :
          (st = "USED" => par = Null) /\ Allocates(st, par, image)
    \/ \E code \in Codes, freed \in SUBSET Slots : Exits(code, freed)
    \/ \E w \in 0 .. MaxPid, ok \in BOOLEAN : WaitReap(w, ok) \/ WaitSched(w, ok)

LEMMA StepShape == SchedInv /\ [Next]_vars => Shape
<1> SUFFICES ASSUME SchedInv, [Next]_vars PROVE Shape
  OBVIOUS
<1>0. TypeOK /\ (current \in Slots => state[current] = "RUNNING")
  BY DEF SchedInv, RunningIsCurrent
<1>1. CASE SwitchTo
  <2>1. Quiet
    BY <1>0, <1>1 DEF SwitchTo, AllDoneAfterRun, Quiet, TypeOK, Runs, procvars, histvars
  <2> QED
    BY <2>1 DEF Shape
<1>2. CASE PassOver \/ NewPass
  <2>1. Quiet
    BY <1>2 DEF PassOver, NewPass,  Quiet, procvars, histvars
  <2> QED
    BY <2>1 DEF Shape
<1>3. CASE AllAppsOver \/ SpawnPoolFull \/ OutOfMemory \/ MailOverrun
  <2>1. Quiet
    BY <1>3 DEF AllAppsOver, SpawnPoolFull, OutOfMemory, MailOverrun, panic, Quiet, procvars, histvars
  <2> QED
    BY <2>1 DEF Shape
<1>4. CASE Yield
  <2>1. Quiet
    BY <1>0, <1>4 DEF Yield, Yielded, InUser, Quiet, TypeOK, Runs, procvars, histvars
  <2> QED
    BY <2>1 DEF Shape
<1>5. CASE Exit
  <2>1. PICK code \in ExitCodes : exit(code, {})
    BY <1>5 DEF Exit
  <2>2. Exits(code, {})
    BY <1>0, <1>5, <2>1 DEF Exit, Executes, InUser, Exits
  <2> QED
    BY <2>2 DEF Shape, Codes
<1>6. CASE Fault
  <2>1. PICK code \in FaultCodes : exit(code, {})
    BY <1>6 DEF Fault
  <2>2. Exits(code, {})
    BY <1>0, <1>6, <2>1 DEF Fault, InUser, Exits
  <2> QED
    BY <2>2 DEF Shape, Codes
<1>7. CASE Fork
  <2>1. Allocates("RUNNABLE", current, TRUE)
    BY <1>7 DEF Fork, Allocates
  <2> QED
    BY <2>1 DEF Shape
<1>8. CASE ForkNoMemory
  <2>1. Allocates("USED", Null, FALSE)
    BY <1>8 DEF ForkNoMemory, FreshParent, Allocates
  <2> QED
    BY <2>1 DEF Shape
<1>9. CASE Spawn
  <2>1. PICK found \in BOOLEAN : Allocates("RUNNABLE", current, found)
    BY <1>9 DEF Spawn, Allocates
  <2> QED
    BY <2>1 DEF Shape
<1>10. CASE ForkPoolFull \/ Exec \/ MailRead \/ MailWrite
  <2>1. Quiet
    BY <1>10 DEF ForkPoolFull, Exec, MailRead, MailWrite, Quiet, procvars, histvars
  <2> QED
    BY <2>1 DEF Shape
<1>11. CASE Wait
  <2> PICK w \in 0 .. MaxPid, ok \in BOOLEAN :
           WaitReap(w, ok) \/ WaitBadAddress(w, ok) \/ WaitNoKids(w, ok) \/ WaitSched(w, ok)
    BY <1>11 DEF Wait
  <2>1. CASE WaitReap(w, ok) \/ WaitSched(w, ok)
    BY <2>1 DEF Shape
  <2>2. CASE WaitBadAddress(w, ok)
    <3> DEFINE k == First(ZombieKids(current, w))
    <3>1. k \in ZombieKids(current, w) /\ ZombieKids(current, w) \subseteq Slots
      BY <2>2, FirstIsIn DEF WaitBadAddress, ZombieKids, Kids
    <3>2. Exits(-1, {k})
      BY <1>0, <2>2, <3>1 DEF WaitBadAddress, Waits, Exits, ZombieKids, Kids
    <3> QED
      BY <3>1, <3>2 DEF Shape, Codes, FaultCodes
  <2>3. CASE WaitNoKids(w, ok)
    <3>1. Quiet
      BY <1>0, <2>3 DEF WaitNoKids, Quiet, TypeOK, procvars, histvars
    <3> QED
      BY <3>1 DEF Shape
  <2> QED
    BY <2>1, <2>2, <2>3
<1>12. CASE UNCHANGED vars
  <2>1. Quiet
    BY <1>12 DEF vars, Quiet, procvars, histvars
  <2> QED
    BY <2>1 DEF Shape
<1> QED
  BY <1>1, <1>2, <1>3, <1>4, <1>5, <1>6, <1>7, <1>8, <1>9, <1>10, <1>11, <1>12
     DEF Next, Scheduler, ShutDown

\* The child WaitReap picks, and the slot allocproc picks.
LEMMA ReapedKid ==
    ASSUME NEW w, NEW ok, WaitReap(w, ok)
    PROVE  /\ First(ZombieKids(current, w)) \in Slots
           /\ state[First(ZombieKids(current, w))] = "ZOMBIE"
           /\ parent[First(ZombieKids(current, w))] = current
<1>1. ZombieKids(current, w) \subseteq Slots /\ ZombieKids(current, w) # {}
  BY DEF WaitReap, ZombieKids, Kids
<1> QED
  BY <1>1, FirstIsIn DEF ZombieKids, Kids

LEMMA FreeSlot ==
    ASSUME NEW st, NEW par, NEW image, allocproc(st, par, image)
    PROVE  First(FreeSlots) \in Slots /\ state[First(FreeSlots)] = "UNUSED"
<1>1. FreeSlots \subseteq Slots /\ FreeSlots # {}
  BY DEF allocproc, FreeSlots
<1> QED
  BY <1>1, FirstIsIn DEF FreeSlots

(***************************************************************************)
(* Pids.                                                                   *)
(***************************************************************************)
LivePids == \A s \in Slots : state[s] # "UNUSED" => pid[s] # 0
CreatorsKnown == \A q \in Pids : creator[q] < nextpid
PidInv == PidsUnique /\ LivePids /\ CreatorsKnown

LEMMA PidInit == Init => PidInv
  BY ProcAssumption DEF Init, PidInv, PidsUnique, LivePids, CreatorsKnown

\* A step that allocates no pid.
LEMMA PidKeep ==
    ASSUME PidInv, UNCHANGED <<pid, nextpid, creator>>,
           \A s \in Slots : state'[s] # "UNUSED" => state[s] # "UNUSED"
    PROVE  PidInv'
  BY DEF PidInv, PidsUnique, LivePids, CreatorsKnown

LEMMA PidStep == SchedInv /\ PidInv /\ [Next]_vars => PidInv'
<1> SUFFICES ASSUME SchedInv, PidInv, [Next]_vars PROVE PidInv'
  OBVIOUS
<1>0. TypeOK /\ Shape
  BY StepShape DEF SchedInv
<1>1. CASE Quiet
  <2>1. \A s \in Slots : state'[s] # "UNUSED" => state[s] # "UNUSED"
    BY <1>1 DEF Quiet, Runs
  <2> QED
    BY <1>1, <2>1, PidKeep DEF Quiet
<1>2. ASSUME NEW st \in {"USED", "RUNNABLE"}, NEW par, NEW image, Allocates(st, par, image)
      PROVE  PidInv'
  <2> DEFINE s == First(FreeSlots)
  <2>1. s \in Slots /\ state[s] = "UNUSED"
    BY <1>2, FreeSlot DEF Allocates
  <2>2. /\ pid' = [pid EXCEPT ![s] = nextpid]
        /\ creator' = [creator EXCEPT ![nextpid] = pid[current]]
        /\ state' = [state EXCEPT ![s] = st]
        /\ nextpid' = nextpid + 1
        /\ current \in Slots
    BY <1>2 DEF Allocates, allocproc, PidAfter, Executes, InUser
  <2> HIDE DEF s
  <2>3. nextpid \in Nat /\ nextpid > 0 /\ pid \in [Slots -> Nat] /\ creator \in [Pids -> Nat]
    BY <1>0, ProcAssumption DEF TypeOK
  <2>4. PidsUnique'
    BY <2>1, <2>2, <2>3 DEF PidInv, PidsUnique
  <2>5. LivePids'
    BY <1>0, <2>1, <2>2, <2>3 DEF PidInv, LivePids, TypeOK
  <2>6. CreatorsKnown'
    BY <2>2, <2>3 DEF PidInv, CreatorsKnown, PidsUnique
  <2> QED
    BY <2>4, <2>5, <2>6 DEF PidInv
<1>3. ASSUME NEW code \in Codes, NEW freed \in SUBSET Slots, Exits(code, freed) PROVE PidInv'
  <2>1. \A s \in Slots : state'[s] # "UNUSED" => state[s] # "UNUSED"
    BY <1>3 DEF Exits, exit
  <2> QED
    BY <1>3, <2>1, PidKeep DEF Exits, exit
<1>4. ASSUME NEW w \in 0 .. MaxPid, NEW ok \in BOOLEAN, WaitReap(w, ok) \/ WaitSched(w, ok)
      PROVE  PidInv'
  <2>1. \A s \in Slots : state'[s] # "UNUSED" => state[s] # "UNUSED"
    BY <1>0, <1>4 DEF WaitReap, WaitSched, Waits, SchedInv, RunningIsCurrent, TypeOK
  <2> QED
    BY <1>4, <2>1, PidKeep DEF WaitReap, WaitSched, procvars, histvars
<1> QED
  BY <1>0, <1>1, <1>2, <1>3, <1>4 DEF Shape

LEMMA PidInvariant == Spec => [](SchedInv /\ PidInv)
  BY SchedInit, SchedStep, PidInit, PidStep, PTL DEF Spec

\* No pid is in two slots, and none is in use before allocpid hands it out.
THEOREM PidsUniqueHolds == Spec => []PidsUnique
<1>1. SchedInv /\ PidInv => PidsUnique
  BY DEF PidInv
<1> QED
  BY <1>1, PidInvariant, PTL

(***************************************************************************)
(* wait.  A waiter's child can only be released by the waiter itself.      *)
(***************************************************************************)

\* A slot fork left USED for ever has no parent that could wait for it.
StuckIsOrphan == \A k \in Slots : state[k] = "USED" => parent[k] = Null
WaitInv == StuckIsOrphan /\ WaiterHasKid

LEMMA WaiterInit == Init => WaitInv
  BY DEF Init, WaitInv, StuckIsOrphan, WaiterHasKid, InUserMode

LEMMA StuckStep == SchedInv /\ StuckIsOrphan /\ [Next]_vars => StuckIsOrphan'
<1> SUFFICES ASSUME SchedInv, StuckIsOrphan, [Next]_vars PROVE StuckIsOrphan'
  OBVIOUS
<1>0. TypeOK /\ Shape
  BY StepShape DEF SchedInv
<1> USE DEF StuckIsOrphan
<1>1. CASE Quiet
  BY <1>1 DEF Quiet, Runs
<1>2. ASSUME NEW st \in {"USED", "RUNNABLE"}, NEW par \in {current, Null}, NEW image,
             st = "USED" => par = Null, Allocates(st, par, image)
      PROVE  StuckIsOrphan'
  <2> DEFINE n == First(FreeSlots)
  <2>1. state' = [state EXCEPT ![n] = st] /\ parent' = [parent EXCEPT ![n] = par]
    BY <1>2 DEF Allocates, allocproc
  <2> HIDE DEF n
  <2> QED
    BY <1>0, <1>2, <2>1 DEF TypeOK
<1>3. ASSUME NEW code \in Codes, NEW freed \in SUBSET Slots, Exits(code, freed)
      PROVE  StuckIsOrphan'
  <2>1. parent' = parent /\ \A k \in Slots : state'[k] = "USED" => state[k] = "USED"
    BY <1>3 DEF Exits, exit, StateAfterExit
  <2> QED
    BY <2>1
<1>4. ASSUME NEW w \in 0 .. MaxPid, NEW ok \in BOOLEAN, WaitReap(w, ok) \/ WaitSched(w, ok)
      PROVE  StuckIsOrphan'
  <2>1. parent' = parent /\ \A k \in Slots : state'[k] = "USED" => state[k] = "USED"
    BY <1>0, <1>4 DEF WaitReap, WaitSched, Waiting, procvars, TypeOK
  <2> QED
    BY <2>1
<1> QED
  BY <1>0, <1>1, <1>2, <1>3, <1>4 DEF Shape

\* The children that keep a waiter's hope up.
Lives(k) == state[k] \notin {"UNUSED", "USED"}

LEMMA WaiterStep == SchedInv /\ WaitInv /\ [Next]_vars => WaitInv'
<1> SUFFICES ASSUME SchedInv, WaitInv, [Next]_vars PROVE WaitInv'
  OBVIOUS
<1>0. TypeOK /\ Shape
  BY StepShape DEF SchedInv
<1>s. StuckIsOrphan'
  BY StuckStep DEF WaitInv
<1> SUFFICES WaiterHasKid'
  BY <1>s DEF WaitInv
<1>w. \A s \in Slots : kctx[s].op = "wait" =>
        \E k \in Slots : /\ Lives(k) /\ parent[k] = s
                         /\ kctx[s].pid <= 0 \/ pid[k] = kctx[s].pid
  BY DEF WaitInv, WaiterHasKid, Kids, Lives
<1> SUFFICES \A s \in Slots : kctx'[s].op = "wait" =>
        \E k \in Slots : /\ Lives(k)' /\ parent'[k] = s
                         /\ kctx'[s].pid <= 0 \/ pid'[k] = kctx'[s].pid
  BY DEF WaiterHasKid, Kids, Lives
<1> DEFINE Goal == \A s \in Slots : kctx'[s].op = "wait" =>
        \E k \in Slots : /\ Lives(k)' /\ parent'[k] = s
                         /\ kctx'[s].pid <= 0 \/ pid'[k] = kctx'[s].pid
<1>1. CASE Quiet
  <2>1. \A s \in Slots : Lives(s) => Lives(s)'
    BY <1>1 DEF Quiet, Runs, Lives
  <2>2. \A s \in Slots : kctx'[s].op = "wait" => kctx'[s] = kctx[s]
    BY <1>1 DEF Quiet, InUserMode
  <2> QED
    BY <1>1, <1>w, <2>1, <2>2 DEF Quiet
<1>2. ASSUME NEW st \in {"USED", "RUNNABLE"}, NEW par, NEW image, Allocates(st, par, image)
      PROVE  Goal
  <2> DEFINE n == First(FreeSlots)
  <2>1. n \in Slots /\ ~Lives(n)
    BY <1>2, FreeSlot DEF Allocates, Lives
  <2>2. \A s \in Slots : s # n => /\ state'[s] = state[s] /\ parent'[s] = parent[s]
                                  /\ pid'[s] = pid[s] /\ kctx'[s] = kctx[s]
    BY <1>0, <1>2 DEF Allocates, allocproc, TypeOK
  <2>3. kctx'[n].op = "user"
    BY <1>0, <1>2, <2>1 DEF Allocates, allocproc, TypeOK, InUserMode
  <2>4. \A s \in Slots : s # n /\ Lives(s) => Lives(s)'
    BY <2>2 DEF Lives
  <2> HIDE DEF n
  <2> QED
    BY <1>w, <2>1, <2>2, <2>3, <2>4
<1>3. ASSUME NEW code \in Codes, NEW freed \in SUBSET Slots, Exits(code, freed)
      PROVE  Goal
  <2>1. \A k \in Slots : Lives(k) /\ parent[k] \in Slots \ {current} => Lives(k)'
    BY <1>3, ProcAssumption DEF Exits, exit, StateAfterExit, Null, Slots, Lives
  <2>2. UNCHANGED <<pid, parent>> /\ kctx' = [kctx EXCEPT ![current] = InUserMode]
    BY <1>3 DEF Exits, exit
  <2>3. \A s \in Slots : kctx'[s].op = "wait" => s # current /\ kctx'[s] = kctx[s]
    BY <1>0, <2>2 DEF TypeOK, InUserMode
  <2> QED
    BY <1>w, <2>1, <2>2, <2>3
<1>4. ASSUME NEW w \in 0 .. MaxPid, NEW ok \in BOOLEAN, WaitReap(w, ok)
      PROVE  Goal
  <2>1. \A k \in Slots : Lives(k) /\ parent[k] \in Slots \ {current} => Lives(k)'
    <3> DEFINE z == First(ZombieKids(current, w))
    <3>1. z \in Slots /\ parent[z] = current
      BY <1>4, ReapedKid
    <3>2. state' = [state EXCEPT ![z] = "UNUSED"]
      BY <1>4 DEF WaitReap
    <3> HIDE DEF z
    <3> QED
      BY <1>0, <3>1, <3>2 DEF TypeOK, Lives
  <2>2. UNCHANGED <<pid, parent>> /\ kctx' = [kctx EXCEPT ![current] = InUserMode]
    BY <1>4 DEF WaitReap, procvars
  <2>3. \A s \in Slots : kctx'[s].op = "wait" => s # current /\ kctx'[s] = kctx[s]
    BY <1>0, <2>2 DEF TypeOK, InUserMode
  <2> QED
    BY <1>w, <2>1, <2>2, <2>3
<1>5. ASSUME NEW w \in 0 .. MaxPid, NEW ok \in BOOLEAN, WaitSched(w, ok)
      PROVE  Goal
  <2>1. current \in Slots /\ Kids(current, w) # {}
    BY <1>5 DEF WaitSched, Waiting, Waits
  <2>2. /\ UNCHANGED <<pid, parent>> /\ kctx' = [kctx EXCEPT ![current] = InWait(w, ok)]
        /\ state' = [state EXCEPT ![current] = "RUNNABLE"]
    BY <1>5 DEF WaitSched, Waiting, procvars
  <2>3. \A k \in Slots : Lives(k) => Lives(k)'
    BY <1>0, <2>2 DEF TypeOK, Lives
  <2>4. \E k \in Slots : /\ Lives(k) /\ parent[k] = current
                         /\ w <= 0 \/ pid[k] = w
    <3>1. PICK k \in Slots : /\ state[k] # "UNUSED" /\ parent[k] = current
                             /\ w <= 0 \/ pid[k] = w
      BY <2>1 DEF Kids
    <3>2. current # Null
      BY <2>1, ProcAssumption DEF Slots, Null
    <3>3. Lives(k)
      BY <3>1, <3>2 DEF WaitInv, StuckIsOrphan, Lives
    <3> QED
      BY <3>1, <3>3
  <2>5. kctx'[current].pid = w /\ \A s \in Slots : s # current => kctx'[s] = kctx[s]
    BY <1>0, <2>1, <2>2 DEF TypeOK, InWait
  <2> QED
    BY <1>w, <2>2, <2>3, <2>4, <2>5
<1> QED
  BY <1>0, <1>1, <1>2, <1>3, <1>4, <1>5 DEF Shape

\* A process blocked in wait always has a child left to wait for, and not one of
\* the slots that stay USED.
THEOREM WaiterHasKidHolds == Spec => []WaiterHasKid
<1>1. Spec => [](SchedInv /\ WaitInv)
  BY SchedInit, SchedStep, WaiterInit, WaiterStep, PTL DEF Spec
<1>2. WaitInv => WaiterHasKid
  BY DEF WaitInv
<1> QED
  BY <1>1, <1>2, PTL

(***************************************************************************)
(* Parents.  When allocproc reuses the slot a parent pointer names, the    *)
(* maker's pid leaves the table with it and never returns.                 *)
(***************************************************************************)
LEMMA KidsInit == Init => KidsAreOwnOrOrphans
  BY DEF Init, KidsAreOwnOrOrphans

LEMMA KidsKeep ==
    ASSUME KidsAreOwnOrOrphans, UNCHANGED <<pid, parent, creator>>,
           \A s \in Slots : /\ state'[s] # "UNUSED" => state[s] # "UNUSED"
                            /\ state'[s] \in Runs => state[s] \in Runs
    PROVE  KidsAreOwnOrOrphans'
  BY DEF KidsAreOwnOrOrphans, Runs

LEMMA KidsStep ==
    SchedInv /\ PidInv /\ KidsAreOwnOrOrphans /\ [Next]_vars => KidsAreOwnOrOrphans'
<1> SUFFICES ASSUME SchedInv, PidInv, KidsAreOwnOrOrphans, [Next]_vars
             PROVE  KidsAreOwnOrOrphans'
  OBVIOUS
<1>0. TypeOK /\ Shape
  BY StepShape DEF SchedInv
<1>1. CASE Quiet
  <2>1. \A s \in Slots : /\ state'[s] # "UNUSED" => state[s] # "UNUSED"
                         /\ state'[s] \in Runs => state[s] \in Runs
    BY <1>1 DEF Quiet, Runs
  <2> QED
    BY <1>1, <2>1, KidsKeep DEF Quiet
<1>2. ASSUME NEW st \in {"USED", "RUNNABLE"}, NEW par \in {current, Null}, NEW image,
             Allocates(st, par, image)
      PROVE  KidsAreOwnOrOrphans'
  <2> DEFINE n == First(FreeSlots)
  <2>1. n \in Slots /\ state[n] = "UNUSED"
    BY <1>2, FreeSlot DEF Allocates
  <2>2. /\ pid' = [pid EXCEPT ![n] = nextpid]
        /\ parent' = [parent EXCEPT ![n] = par]
        /\ creator' = [creator EXCEPT ![nextpid] = pid[current]]
        /\ state' = [state EXCEPT ![n] = st]
        /\ current \in Slots /\ state[current] = "RUNNING" /\ nextpid \in Pids
    BY <1>0, <1>2, ProcAssumption
       DEF Allocates, allocproc, Executes, InUser, SchedInv, RunningIsCurrent, TypeOK, Pids
  <2> HIDE DEF n
  <2>3. current # n
    BY <2>1, <2>2
  <2> SUFFICES ASSUME NEW k \in Slots, state'[k] # "UNUSED", parent'[k] # Null
               PROVE  \/ pid'[parent'[k]] = creator'[pid'[k]]
                      \/ \A s \in Slots : state'[s] \in {"RUNNABLE", "RUNNING"}
                                            => pid'[s] # creator'[pid'[k]]
    BY DEF KidsAreOwnOrOrphans
  <2>4. CASE k = n
    BY <1>0, <2>1, <2>2, <2>3, <2>4 DEF TypeOK
  <2>5. CASE k # n
    <3>1. /\ state[k] # "UNUSED" /\ parent[k] # Null /\ parent'[k] = parent[k]
          /\ pid'[k] = pid[k] /\ parent[k] \in Slots
      BY <1>0, <2>1, <2>2, <2>5 DEF TypeOK
    <3>2. pid[k] \in Pids /\ pid[k] < nextpid
      BY <1>0, <3>1, ProcAssumption DEF PidInv, LivePids, PidsUnique, TypeOK, Pids
    <3>3. creator'[pid'[k]] = creator[pid[k]] /\ creator[pid[k]] < nextpid
      BY <1>0, <2>2, <3>1, <3>2, ProcAssumption DEF TypeOK, Pids, PidInv, CreatorsKnown
    <3>4. CASE parent[k] = n /\ pid[n] = creator[pid[k]]
      <4>1. ASSUME NEW s \in Slots, state'[s] \in {"RUNNABLE", "RUNNING"}
            PROVE  pid'[s] # pid[n]
        <5>1. CASE s = n
          BY <1>0, <2>1, <2>2, <5>1, ProcAssumption DEF TypeOK, PidInv, PidsUnique
        <5>2. CASE s # n
          BY <1>0, <2>1, <2>2, <4>1, <5>2 DEF TypeOK, PidInv, PidsUnique, LivePids
        <5> QED
          BY <5>1, <5>2
      <4> QED
        BY <3>3, <3>4, <4>1
    <3>5. CASE parent[k] # n /\ pid[parent[k]] = creator[pid[k]]
      BY <1>0, <2>2, <3>1, <3>3, <3>5 DEF TypeOK
    <3>6. CASE \A s \in Slots : state[s] \in {"RUNNABLE", "RUNNING"} => pid[s] # creator[pid[k]]
      <4>1. ASSUME NEW s \in Slots, state'[s] \in {"RUNNABLE", "RUNNING"}
            PROVE  pid'[s] # creator[pid[k]]
        <5>1. CASE s = n
          BY <1>0, <2>1, <2>2, <3>3, <5>1, ProcAssumption DEF TypeOK
        <5>2. CASE s # n
          BY <1>0, <2>2, <3>6, <4>1, <5>2 DEF TypeOK
        <5> QED
          BY <5>1, <5>2
      <4> QED
        BY <3>3, <4>1
    <3> QED
      BY <3>1, <3>4, <3>5, <3>6 DEF KidsAreOwnOrOrphans
  <2> QED
    BY <2>4, <2>5
<1>3. ASSUME NEW code \in Codes, NEW freed \in SUBSET Slots, Exits(code, freed)
      PROVE  KidsAreOwnOrOrphans'
  <2>1. \A s \in Slots : /\ state'[s] # "UNUSED" => state[s] # "UNUSED"
                         /\ state'[s] \in Runs => state[s] \in Runs
    BY <1>3 DEF Exits, exit, StateAfterExit, Runs
  <2> QED
    BY <1>3, <2>1, KidsKeep DEF Exits, exit
<1>4. ASSUME NEW w \in 0 .. MaxPid, NEW ok \in BOOLEAN, WaitReap(w, ok) \/ WaitSched(w, ok)
      PROVE  KidsAreOwnOrOrphans'
  <2>1. \A s \in Slots : /\ state'[s] # "UNUSED" => state[s] # "UNUSED"
                         /\ state'[s] \in Runs => state[s] \in Runs
    BY <1>0, <1>4 DEF WaitReap, WaitSched, Waits, SchedInv, RunningIsCurrent, TypeOK, Runs
  <2> QED
    BY <1>4, <2>1, KidsKeep DEF WaitReap, WaitSched, procvars, histvars
<1> QED
  BY <1>0, <1>1, <1>2, <1>3, <1>4 DEF Shape

\* While the process that made a child lives, only it has the child among its
\* kids; a stranger that took over its slot can only have inherited orphans.
THEOREM KidsAreOwnOrOrphansHolds == Spec => []KidsAreOwnOrOrphans
<1>1. Spec => [](SchedInv /\ PidInv /\ KidsAreOwnOrOrphans)
  BY SchedInit, SchedStep, PidInit, PidStep, KidsInit, KidsStep, PTL DEF Spec
<1> QED
  BY <1>1, PTL

(***************************************************************************)
(* Exit status.                                                            *)
(***************************************************************************)
ZombieStatus == \A s \in Slots : state[s] = "ZOMBIE" => exited[pid[s]] = exit_code[s]

LEMMA ZombieInit == Init => ZombieStatus
  BY DEF Init, ZombieStatus

LEMMA ZombieStep == SchedInv /\ PidInv /\ ZombieStatus /\ [Next]_vars => ZombieStatus'
<1> SUFFICES ASSUME SchedInv, PidInv, ZombieStatus, [Next]_vars PROVE ZombieStatus'
  OBVIOUS
<1>0. TypeOK /\ Shape
  BY StepShape DEF SchedInv
<1>u. \A s, r \in Slots : state[s] # "UNUSED" /\ pid[s] = pid[r] => s = r
  BY DEF PidInv, PidsUnique, LivePids
<1>p. \A s \in Slots : state[s] # "UNUSED" => pid[s] \in Pids
  BY <1>0, ProcAssumption DEF PidInv, LivePids, TypeOK, Pids
<1>1. CASE Quiet
  BY <1>1 DEF Quiet, Runs, ZombieStatus
<1>2. ASSUME NEW st \in {"USED", "RUNNABLE"}, NEW par, NEW image, Allocates(st, par, image)
      PROVE  ZombieStatus'
  <2> DEFINE n == First(FreeSlots)
  <2>1. \A s \in Slots : s # n => /\ state'[s] = state[s] /\ pid'[s] = pid[s]
                                  /\ exit_code'[s] = exit_code[s]
    BY <1>0, <1>2 DEF Allocates, allocproc, TypeOK
  <2>2. exited' = exited /\ (n \in Slots => state'[n] # "ZOMBIE")
    BY <1>0, <1>2 DEF Allocates, allocproc, TypeOK
  <2> HIDE DEF n
  <2> QED
    BY <2>1, <2>2 DEF ZombieStatus
<1>3. ASSUME NEW code \in Codes, NEW freed \in SUBSET Slots, Exits(code, freed)
      PROVE  ZombieStatus'
  <2> SUFFICES ASSUME NEW s \in Slots, state'[s] = "ZOMBIE"
               PROVE  exited'[pid'[s]] = exit_code'[s]
    BY DEF ZombieStatus
  <2>1. s \notin freed \/ s = current
    BY <1>3 DEF Exits, exit
  <2>2. CASE s = current
    BY <1>0, <1>3, <1>p, <2>2 DEF Exits, exit, TypeOK
  <2>3. CASE s # current
    <3>1. state[s] = "ZOMBIE" /\ pid[s] # pid[current] /\ \A k \in freed : pid[k] # pid[s]
      BY <1>3, <1>u, <2>1, <2>3 DEF Exits, exit
    <3> QED
      BY <1>0, <1>3, <1>p, <2>3, <3>1 DEF Exits, exit, TypeOK, ZombieStatus
  <2> QED
    BY <2>2, <2>3
<1>4. ASSUME NEW w \in 0 .. MaxPid, NEW ok \in BOOLEAN, WaitReap(w, ok)
      PROVE  ZombieStatus'
  <2> DEFINE z == First(ZombieKids(current, w))
  <2>1. z \in Slots /\ state[z] = "ZOMBIE"
    BY <1>4, ReapedKid
  <2>2. /\ state' = [state EXCEPT ![z] = "UNUSED"]
        /\ exited' = [exited EXCEPT ![pid[z]] = Reaped]
        /\ UNCHANGED <<pid, exit_code>>
    BY <1>4 DEF WaitReap, procvars
  <2> HIDE DEF z
  <2> QED
    BY <1>0, <1>u, <1>p, <2>1, <2>2 DEF ZombieStatus, TypeOK
<1>5. ASSUME NEW w \in 0 .. MaxPid, NEW ok \in BOOLEAN, WaitSched(w, ok)
      PROVE  ZombieStatus'
  BY <1>0, <1>5 DEF WaitSched, Waiting, TypeOK, ZombieStatus, procvars, histvars
<1> QED
  BY <1>0, <1>1, <1>2, <1>3, <1>4, <1>5 DEF Shape

LEMMA WaitReturnsFromWait ==
    ASSUME Next, ~ UNCHANGED vars, returned'.call = "wait"
    PROVE  \E w \in 0 .. MaxPid, ok \in BOOLEAN : WaitReap(w, ok) \/ WaitNoKids(w, ok)
<1>1. ~Scheduler
  BY DEF Scheduler, SwitchTo, PassOver, NewPass, AllAppsOver, panic, Nothing
<1>2. ~Yield /\ ~Exit /\ ~Fault
  BY DEF Yield, Yielded, Exit, Fault, exit, Nothing
<1>3. ~Fork /\ ~ForkNoMemory /\ ~ForkPoolFull
  <2>1. ASSUME NEW v, NEW a PROVE Return("fork", v, a).call # "wait"
    BY DEF Return
  <2> QED
    BY <2>1 DEF Fork, ForkNoMemory, ForkPoolFull
<1>4. ~Spawn /\ ~SpawnPoolFull /\ ~OutOfMemory /\ ~MailOverrun
  BY DEF Spawn, mail_read, SpawnPoolFull, OutOfMemory, MailOverrun, panic, Nothing, Return
<1>5. ~Exec /\ ~MailRead
  BY DEF Exec, MailRead, mail_read, Return
<1>6. ~MailWrite
  BY DEF MailWrite, Return
<1>7. PICK w \in 0 .. MaxPid, ok \in BOOLEAN :
           WaitReap(w, ok) \/ WaitBadAddress(w, ok) \/ WaitNoKids(w, ok) \/ WaitSched(w, ok)
  BY <1>1, <1>2, <1>3, <1>4, <1>5, <1>6 DEF Next, Wait, ShutDown
<1>8. ~WaitBadAddress(w, ok) /\ ~WaitSched(w, ok)
  BY DEF WaitBadAddress, exit, WaitSched, Nothing
<1> QED
  BY <1>7, <1>8

\* What wait returns is the status the child left when it exited, and the child
\* has not been returned before.
THEOREM WaitDeliversHolds == Spec => WaitDelivers
<1>1. Spec => [](SchedInv /\ PidInv /\ ZombieStatus)
  BY SchedInit, SchedStep, PidInit, PidStep, ZombieInit, ZombieStep, PTL DEF Spec
<1>2. SchedInv /\ PidInv /\ ZombieStatus /\ [Next]_vars
        => [returned'.call = "wait" /\ returned'.val # -1
              => exited[returned'.val] = returned'.about]_vars
  <2> SUFFICES ASSUME ZombieStatus, Next, returned'.call = "wait", returned'.val # -1,
                      ~ UNCHANGED vars
               PROVE  exited[returned'.val] = returned'.about
    OBVIOUS
  <2>1. PICK w \in 0 .. MaxPid, ok \in BOOLEAN : WaitReap(w, ok)
    BY WaitReturnsFromWait DEF WaitNoKids, Return
  <2>2. returned' = [call |-> "wait", by |-> pid[current],
                     val |-> pid[First(ZombieKids(current, w))],
                     about |-> exit_code[First(ZombieKids(current, w))]]
    BY <2>1 DEF WaitReap, Return, Delivered
  <2> QED
    BY <2>1, <2>2, ReapedKid DEF ZombieStatus
<1> QED
  BY <1>1, <1>2, PTL DEF Spec, WaitDelivers
=============================================================================
