-------------------------------- MODULE Trap --------------------------------
(***************************************************************************)
(* How the CPU gets from a program into the kernel and back, and from one  *)
(* kernel thread to another: trampoline.S, kernelvec.S, switch.S, trap.c   *)
(* and the parts of proc.c, loader.c and syscall.c that set up or change   *)
(* trap frames, contexts and kernel stacks.                                *)
(*                                                                         *)
(* The registers in Regs stand for all: s0 for s0 to s11, t1 for t1 to t6, *)
(* a1 for a1 to a7.  Values are tuples that say where they come from, so   *)
(* that no two are equal by accident.  The piece of code that runs is      *)
(* cpu.pc; an interrupt comes between two pieces.  Which calls programs    *)
(* make and what becomes of processes is the matter of Proc: here a call   *)
(* is one of the ways in which it can use the CPU.                         *)
(***************************************************************************)
EXTENDS Integers, Sequences

CONSTANTS Procs,   \* slots of pool
          Idle,    \* the slot of the scheduler
          Gens     \* how many values programs leave in a register

\* The page table of the kernel is not that of a process.
ASSUME TrapAssumption == Idle \notin Procs /\ "kernel" \notin Procs /\ Gens \subseteq Nat

VARIABLES
    cpu,      \* the registers of the CPU
    tf,       \* p->trapframe
    ctx,      \* p->context
    stack,    \* the frames on kstack[p], or on the boot stack for Idle
    status,   \* p->state
    parent,   \* p->parent, or Idle
    current,  \* current_proc
    busy,     \* the disk has not finished the request that is waited for
    due       \* history: the registers and the pc program p is to find

vars == <<cpu, tf, ctx, stack, status, parent, current, busy, due>>
procs == <<status, parent, current>>

Regs   == {"ra", "sp", "gp", "tp", "t0", "t1", "a0", "a1", "s0"}
Callee == {"ra", "sp", "s0"}  \* struct context
Causes == {"timer", "external", "ecall", "fault"}

Zero      == <<"zero">>
HART      == <<"hart">>
TRAPFRAME == <<"TRAPFRAME">>
Kernel    == <<"kernel">>  \* satp of the kernel's page table, <<p>> is that of p
Returned  == <<"ret">>     \* what a system call returned

ZeroFrame == [regs |-> [r \in Regs |-> Zero], epc |-> Zero, kernel_satp |-> Zero,
              kernel_sp |-> Zero, kernel_trap |-> Zero, kernel_hartid |-> Zero]
Nothing   == [regs |-> ZeroFrame.regs, pc |-> Zero]
NoContext == [r \in Callee |-> Zero]

\* An address on the kernel stack of q, with d frames above it.
Addr(q, d) == <<"stack", q, d>>
Top(q) == Addr(q, 0)

\* The registers after compiled code of thread q has run for a while: it keeps
\* what the calling convention says, and what it has no use for.
Compiled(regs, q) ==
    [r \in Regs |-> IF r \in {"sp", "gp", "tp"} THEN regs[r] ELSE <<"C", q, r>>]

Init == \* main has come to the first read of the disk, in fsinit.
    /\ \E spp \in BOOLEAN :
        cpu = [regs |-> Compiled([r \in Regs |-> IF r = "sp" THEN Top(Idle) ELSE HART], Idle),
               pc |-> <<"disk">>, mode |-> "S", sepc |-> Zero, stvec |-> <<"kernelvec">>,
               satp |-> Kernel, sscratch |-> Zero, cause |-> "ecall",
               spp |-> spp, spie |-> FALSE, sie |-> TRUE]
    /\ tf = [p \in Procs |-> ZeroFrame]
    /\ ctx = [q \in Procs \cup {Idle} |-> NoContext]
    /\ stack = [q \in Procs \cup {Idle} |-> <<>>]
    /\ status = [p \in Procs |-> "UNUSED"]
    /\ parent = [p \in Procs |-> Idle]
    /\ current = Idle
    /\ busy = TRUE
    /\ due = [p \in Procs |-> Nothing]

(***************************************************************************)
(* The hardware.                                                           *)
(***************************************************************************)
Enter(c, cause) ==
    [c EXCEPT !.sepc = c.pc, !.spp = (c.mode = "S"), !.spie = c.sie, !.sie = FALSE,
              !.mode = "S", !.cause = cause, !.pc = c.stvec]

sret(c) ==
    [c EXCEPT !.pc = c.sepc, !.mode = IF c.spp THEN "S" ELSE "U", !.sie = c.spie,
              !.spie = TRUE, !.spp = FALSE]

csrrw_a0_sscratch(c) == [c EXCEPT !.regs.a0 = c.sscratch, !.sscratch = c.regs.a0]

\* A program runs, leaves what it likes in the registers, and traps.
UserTrap(cause) ==
    /\ cpu.mode = "U"
    /\ \E g \in Gens :
        LET regs == [r \in Regs |-> <<current, r, g>>] IN
        /\ cpu' = Enter([cpu EXCEPT !.regs = regs, !.pc = <<"user", 8 * g>>], cause)
        /\ due' = [due EXCEPT ![current] =
              [regs |-> regs, pc |-> <<"user", IF cause = "ecall" THEN 8 * g + 4 ELSE 8 * g>>]]
    /\ UNCHANGED <<tf, ctx, stack, procs, busy>>

\* An interrupt of the kernel.
Interrupt(cause) ==
    /\ cpu.mode = "S" /\ cpu.sie
    /\ cpu' = Enter(cpu, cause)
    /\ UNCHANGED <<tf, ctx, stack, procs, busy, due>>

(***************************************************************************)
(* trampoline.S.  TRAPFRAME is an address in the page table of a process.  *)
(***************************************************************************)
At(code) == cpu.pc = <<code>>
Stops(how) == cpu' = [cpu EXCEPT !.pc = <<how>>] /\ UNCHANGED tf

\* The registers as uservec stores them: all but a0, then a0 out of sscratch.
Saved(c) == [c.regs EXCEPT !.a0 = c.sscratch]

uservec ==
    LET c == csrrw_a0_sscratch(cpu)
        f == tf[cpu.satp[1]]
    IN  /\ At("uservec")
        /\ IF c.regs.a0 = TRAPFRAME /\ cpu.satp # Kernel
           THEN /\ tf' = [tf EXCEPT ![cpu.satp[1]] = [@ EXCEPT !.regs = Saved(c), !.epc = c.sepc]]
                /\ cpu' = [c EXCEPT
                      !.regs = [@ EXCEPT !.sp = f.kernel_sp, !.tp = f.kernel_hartid,
                                         !.t0 = f.kernel_trap, !.t1 = f.kernel_satp],
                      !.satp = f.kernel_satp, !.pc = f.kernel_trap]
           ELSE Stops("fault")
        /\ UNCHANGED <<ctx, stack, procs, busy, due>>

userret ==
    LET f == tf[cpu.regs.a1[1]]
        c == [cpu EXCEPT !.satp = cpu.regs.a1, !.sscratch = f.regs.a0,
                         !.regs = [f.regs EXCEPT !.a0 = cpu.regs.a0]]
    IN  /\ At("userret")
        /\ cpu' = sret(csrrw_a0_sscratch(c))
        /\ UNCHANGED <<tf, ctx, stack, procs, busy, due>>

(***************************************************************************)
(* trap.c.                                                                 *)
(***************************************************************************)
\* Where usertrap goes on: yield for the timer, virtio_disk_intr and back for
\* another interrupt, the system call, or exit.
Handler(cause) == CASE cause = "timer" -> "yield"
                    [] cause = "external" -> "usertrapret"
                    [] cause = "ecall" -> "syscall"
                    [] OTHER -> "exit"

usertrap ==
    /\ At("usertrap")
    /\ IF cpu.spp THEN Stops("panic")
       ELSE /\ cpu' = [cpu EXCEPT !.stvec = <<"kernelvec">>, !.regs = Compiled(@, current),
                                  !.pc = <<Handler(cpu.cause)>>]
            /\ tf' = [tf EXCEPT ![current].epc =
                          IF cpu.cause = "ecall" THEN <<@[1], @[2] + 4>> ELSE @]
    /\ UNCHANGED <<ctx, stack, procs, busy, due>>

\* Mutant: SPP stays as the last trap left it.
UserModeKept(c) == [c EXCEPT !.spie = TRUE]
UserMode(c) == [c EXCEPT !.spp = FALSE, !.spie = TRUE]

usertrapret ==
    /\ At("usertrapret")
    /\ tf' = [tf EXCEPT ![current] = [@ EXCEPT !.kernel_satp = cpu.satp,
                 !.kernel_sp = Top(current), !.kernel_trap = <<"usertrap">>,
                 !.kernel_hartid = cpu.regs.tp]]
    /\ cpu' = [UserMode(cpu) EXCEPT !.stvec = <<"uservec">>, !.sepc = tf[current].epc,
                  !.regs = [Compiled(@, current) EXCEPT !.a0 = TRAPFRAME, !.a1 = <<current>>],
                  !.pc = <<"userret">>]
    /\ UNCHANGED <<ctx, stack, procs, busy, due>>

(***************************************************************************)
(* kernelvec.S, and kerneltrap between its two halves.                     *)
(***************************************************************************)
\* The kernel stack sp is on, and how deep.
Owner == cpu.regs.sp[2]
Depth == cpu.regs.sp[3]
Push(frame) == [stack EXCEPT ![Owner] = Append(SubSeq(@, 1, Depth), frame)]
Deeper == Addr(Owner, Depth + 1)
Higher == Addr(Owner, Depth - 1)

kernelvec ==
    /\ At("kernelvec")
    /\ stack' = Push([cpu.regs EXCEPT !.sp = Deeper])
    /\ cpu' = [cpu EXCEPT !.regs = [@ EXCEPT !.sp = Deeper, !.ra = <<"kernelret">>],
                          !.pc = <<"kerneltrap">>]
    /\ UNCHANGED <<tf, ctx, procs, busy, due>>

\* The timer does not yield here, as SPP is set, so that sepc and sstatus, which
\* kerneltrap puts back, have not changed.  An exception ends the process.
kerneltrap ==
    /\ At("kerneltrap")
    /\ IF ~cpu.spp THEN Stops("panic")
       ELSE /\ cpu' = [cpu EXCEPT !.regs = [Compiled(@, "handler") EXCEPT !.s0 = cpu.regs.s0],
                                  !.pc = IF cpu.cause = "fault" THEN <<"exit">> ELSE cpu.regs.ra]
            /\ UNCHANGED tf
    /\ busy' = (busy /\ cpu.cause # "external")
    /\ UNCHANGED <<ctx, stack, procs, due>>

\* tp is not loaded.  Mutant: neither are the registers a C function may change.
RestoredCallee(regs, frame) == [r \in Regs |-> IF r \in Callee THEN frame[r] ELSE regs[r]]
Restored(regs, frame) == [frame EXCEPT !.tp = regs.tp]

kernelret ==
    LET frame == stack[Owner][Depth] IN
    /\ At("kernelret")
    /\ cpu' = sret([cpu EXCEPT !.regs = [Restored(@, frame) EXCEPT !.sp = Higher]])
    /\ UNCHANGED <<tf, ctx, stack, procs, busy, due>>

(***************************************************************************)
(* Kernel threads: swtch, sched and scheduler.                             *)
(***************************************************************************)
\* swtch saves the registers of the caller in old and loads those of new.
swtch(regs, old, new) ==
    /\ ctx' = [ctx EXCEPT ![old] = [r \in Callee |-> regs[r]]]
    /\ cpu' = [cpu EXCEPT !.regs = [r \in Regs |-> IF r \in Callee THEN ctx[new][r] ELSE regs[r]],
                          !.pc = ctx[new].ra]

\* The process gives up the CPU in a function that goes on at code.
sched(code) ==
    /\ stack' = Push(<<code>>)
    /\ swtch([Compiled(cpu.regs, current) EXCEPT !.sp = Deeper, !.ra = <<"sched">>], current, Idle)
    /\ current' = Idle
    /\ UNCHANGED <<tf, parent, busy, due>>

schedReturns ==
    /\ At("sched")
    /\ cpu' = [cpu EXCEPT !.pc = stack[Owner][Depth],
                          !.regs = [Compiled(@, current) EXCEPT !.s0 = cpu.regs.s0, !.sp = Higher]]
    /\ UNCHANGED <<tf, ctx, stack, procs, busy, due>>

scheduler(p) ==
    /\ At("scheduler") /\ status[p] = "RUNNABLE"
    /\ status' = [status EXCEPT ![p] = "RUNNING"]
    /\ current' = p
    /\ swtch([Compiled(cpu.regs, Idle) EXCEPT !.ra = <<"scheduler">>], Idle, p)
    /\ UNCHANGED <<tf, stack, parent, busy, due>>

Ready(p) == [status EXCEPT ![p] = "RUNNABLE"]
yield == At("yield") /\ status' = Ready(current) /\ sched("usertrapret")

exit ==
    /\ At("exit")
    /\ status' = [status EXCEPT ![current] = IF parent[current] # Idle THEN "ZOMBIE" ELSE "UNUSED"]
    /\ sched("exit")

(***************************************************************************)
(* New processes: the trap frame and the context they start from.          *)
(***************************************************************************)
allocproc(p) ==
    /\ status[p] = "UNUSED"
    /\ ctx' = [ctx EXCEPT ![p] = [NoContext EXCEPT !.ra = <<"usertrapret">>, !.sp = Top(p)]]
    /\ stack' = [stack EXCEPT ![p] = <<>>]

\* The trap frame after loader, and what a program that starts from f is to find.
Loaded == [ZeroFrame EXCEPT !.epc = <<"user", 0>>, !.regs.sp = <<"ustack">>]
Finds(f) == [regs |-> f.regs, pc |-> f.epc]

run_all_app(p) ==
    /\ At("run_all_app") /\ allocproc(p)
    /\ tf' = [tf EXCEPT ![p] = Loaded]
    /\ due' = [due EXCEPT ![p] = Finds(Loaded)]
    /\ status' = Ready(p)
    /\ cpu' = [cpu EXCEPT !.pc = <<"scheduler">>]
    /\ UNCHANGED <<parent, current, busy>>

(***************************************************************************)
(* System calls.                                                           *)
(***************************************************************************)
\* The C code runs on to the next piece.
GoOn(code) == cpu' = [cpu EXCEPT !.pc = <<code>>, !.regs = Compiled(@, current)]

\* A call that stays in the kernel, or that begins to wait for a child or exit.
CallGoesOn ==
    /\ At("syscall")
    /\ \E code \in {"syscall_returns", "wait", "exit"} : GoOn(code)
    /\ UNCHANGED <<tf, ctx, stack, procs, busy, due>>

\* sched_yield, and a pipe call that has to wait.
CallYields == At("syscall") /\ status' = Ready(current) /\ sched("syscall_returns")

\* fork returns 0 in the child.
ChildFrame(f) == [f EXCEPT !.regs.a0 = Zero]

fork(np) ==
    /\ At("syscall") /\ allocproc(np)
    /\ tf' = [tf EXCEPT ![np] = ChildFrame(tf[current])]
    /\ due' = [due EXCEPT ![np] = [due[current] EXCEPT !.regs.a0 = Zero]]
    /\ parent' = [parent EXCEPT ![np] = current]
    /\ status' = Ready(np)
    /\ GoOn("syscall_returns")
    /\ UNCHANGED <<current, busy>>

\* spawn makes the process runnable before it looks for the program: when there
\* is none, the process starts from a trap frame of zeros.
spawn(np) ==
    /\ At("syscall") /\ allocproc(np)
    /\ \E f \in {Loaded, ZeroFrame} : /\ tf' = [tf EXCEPT ![np] = f]
                                     /\ due' = [due EXCEPT ![np] = Finds(f)]
    /\ parent' = [parent EXCEPT ![np] = current]
    /\ status' = Ready(np)
    /\ GoOn("syscall_returns")
    /\ UNCHANGED <<current, busy>>

exec ==
    /\ At("syscall")
    /\ tf' = [tf EXCEPT ![current] = Loaded]
    /\ due' = [due EXCEPT ![current] = Finds(Loaded)]
    /\ GoOn("syscall_returns")
    /\ UNCHANGED <<ctx, stack, procs, busy>>

\* A call that reads or writes the disk: intr_on, and the wait.
CallDisk ==
    /\ At("syscall")
    /\ busy' = TRUE
    /\ cpu' = [cpu EXCEPT !.pc = <<"disk">>, !.regs = Compiled(@, current), !.sie = TRUE]
    /\ UNCHANGED <<tf, ctx, stack, procs, due>>

\* Mutant: interrupts stay on.
intr_offNot(c) == c
intr_off(c) == [c EXCEPT !.sie = FALSE]

DiskReturns ==
    /\ At("disk") /\ ~busy
    /\ cpu' = [intr_off(cpu) EXCEPT
                  !.pc = IF current = Idle THEN <<"run_all_app">> ELSE <<"syscall_returns">>]
    /\ UNCHANGED <<tf, ctx, stack, procs, busy, due>>

\* wait takes a zombie; the address it stores the exit code at may be bad.
Kids == {k \in Procs : status[k] # "UNUSED" /\ parent[k] = current}
WaitReaps(k) ==
    /\ At("wait") /\ k \in Kids /\ status[k] = "ZOMBIE"
    /\ status' = [status EXCEPT ![k] = "UNUSED"]
    /\ \/ GoOn("syscall_returns")
       \/ cpu' = Enter(cpu, "fault")
    /\ UNCHANGED <<tf, ctx, stack, parent, current, busy, due>>
WaitFails ==
    /\ At("wait") /\ Kids = {} /\ GoOn("syscall_returns")
    /\ UNCHANGED <<tf, ctx, stack, procs, busy, due>>
WaitYields ==
    /\ At("wait") /\ Kids # {} /\ \A k \in Kids : status[k] # "ZOMBIE"
    /\ status' = Ready(current) /\ sched("wait")

\* The end of syscall stores the result.
CallReturns ==
    /\ At("syscall_returns")
    /\ tf' = [tf EXCEPT ![current].regs.a0 = Returned]
    /\ due' = [due EXCEPT ![current].regs.a0 = Returned]
    /\ GoOn("usertrapret")
    /\ UNCHANGED <<ctx, stack, procs, busy>>

Next ==
    \/ \E cause \in Causes : UserTrap(cause)
    \/ \E cause \in {"timer", "external"} : Interrupt(cause)
    \/ uservec \/ userret
    \/ usertrap \/ usertrapret
    \/ kernelvec \/ kerneltrap \/ kernelret
    \/ schedReturns \/ yield \/ exit
    \/ \E p \in Procs : scheduler(p) \/ run_all_app(p) \/ fork(p) \/ spawn(p) \/ WaitReaps(p)
    \/ CallGoesOn \/ CallYields \/ exec \/ CallDisk \/ DiskReturns
    \/ WaitFails \/ WaitYields \/ CallReturns

Spec == Init /\ [][Next]_vars

(***************************************************************************)
(* Properties.                                                             *)
(***************************************************************************)

\* Wherever a program was interrupted, and whatever ran since, it goes on in
\* user mode, in its own memory, with interrupts on, at the instruction it had
\* come to and with the registers it had, but for the result of a call; a child
\* finds the registers of its parent.
ProgramGoesOn ==
    /\ cpu.pc[1] = "user" => cpu.mode = "U"
    /\ cpu.mode = "U" => /\ current \in Procs /\ cpu.satp = <<current>> /\ cpu.sie
                         /\ cpu.pc = due[current].pc /\ cpu.regs = due[current].regs

\* The kernel runs on the stack of the process it works for, in its own memory,
\* and goes on after an interrupt or a switch with the registers it had.
KernelGoesOn ==
    /\ cpu.mode = "S" /\ cpu.pc # <<"uservec">> =>
          /\ cpu.regs.sp[1] = "stack" /\ Owner = current /\ cpu.regs.tp = HART
          /\ cpu.satp = Kernel
    /\ At("disk") => cpu.regs = Compiled(cpu.regs, current)
    /\ cpu.pc[1] \in {"sched", "wait", "syscall_returns"} => cpu.regs.s0 = <<"C", current, "s0">>

\* No trap goes where it cannot be handled: the kernel can be interrupted only in
\* the wait for the disk, and kernelvec is there to save its registers; uservec
\* finds the trap frame, and neither usertrap nor kerneltrap meets a trap meant
\* for the other.
TrapsArrive ==
    /\ cpu.pc \notin {<<"fault">>, <<"panic">>}
    /\ cpu.mode = "S" /\ cpu.sie => At("disk") /\ cpu.stvec = <<"kernelvec">>
=============================================================================
