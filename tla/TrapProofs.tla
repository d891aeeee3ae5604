----------------------------- MODULE TrapProofs -----------------------------
(***************************************************************************)
(* Theorems about Trap, for any number of processes: programs and kernel   *)
(* threads go on with the registers they had, and traps meet their         *)
(* handlers.                                                               *)
(***************************************************************************)
EXTENDS Trap, SequenceTheorems, TLAPS

Threads == Procs \cup {Idle}

(***************************************************************************)
(* Shapes: what is updated field by field is a record with these fields.   *)
(***************************************************************************)
IsRegs(x) == x = [r \in Regs |-> x[r]]

IsFrame(f) ==
    /\ f = [regs |-> f.regs, epc |-> f.epc, kernel_satp |-> f.kernel_satp,
            kernel_sp |-> f.kernel_sp, kernel_trap |-> f.kernel_trap,
            kernel_hartid |-> f.kernel_hartid]
    /\ IsRegs(f.regs)

IsCpu(c) ==
    /\ c = [regs |-> c.regs, pc |-> c.pc, mode |-> c.mode, sepc |-> c.sepc, stvec |-> c.stvec,
            satp |-> c.satp, sscratch |-> c.sscratch, cause |-> c.cause, spp |-> c.spp,
            spie |-> c.spie, sie |-> c.sie]
    /\ IsRegs(c.regs)

IsDue(d) == d = [regs |-> d.regs, pc |-> d.pc] /\ IsRegs(d.regs)

Shapes ==
    /\ IsCpu(cpu)
    /\ tf = [p \in Procs |-> tf[p]] /\ \A p \in Procs : IsFrame(tf[p])
    /\ due = [p \in Procs |-> due[p]] /\ \A p \in Procs : IsDue(due[p])
    /\ ctx = [q \in Threads |-> ctx[q]]
    /\ stack = [q \in Threads |-> stack[q]]
    /\ status = [p \in Procs |-> status[p]]

(***************************************************************************)
(* What is in memory for a process that does not run, and for one that     *)
(* does.                                                                   *)
(***************************************************************************)
UserPc(x) == x = Zero \/ (x = <<"user", x[2]>> /\ x[2] \in Nat)

\* The trap frame has what the program is to find.
SavedFor(p) == /\ tf[p].regs = due[p].regs /\ tf[p].epc = due[p].pc /\ UserPc(due[p].pc)

\* usertrapret has prepared the next trap.
Prepared(p) == /\ tf[p].kernel_satp = Kernel /\ tf[p].kernel_sp = Top(p)
               /\ tf[p].kernel_trap = <<"usertrap">> /\ tf[p].kernel_hartid = HART

\* The thread goes on in usertrapret for the first time, or after sched.
Resumes(p) ==
    \/ ctx[p].ra = <<"usertrapret">> /\ ctx[p].sp = Top(p)
    \/ /\ ctx[p].ra = <<"sched">> /\ ctx[p].sp = Addr(p, 1) /\ ctx[p].s0 = <<"C", p, "s0">>
       /\ stack[p][1] \in {<<"usertrapret">>, <<"syscall_returns">>, <<"wait">>}

Others ==
    /\ current \in Threads
    /\ \A p \in Procs : status[p] = "RUNNING" <=> p = current
    /\ \A p \in Procs : status[p] = "RUNNABLE" => SavedFor(p) /\ Resumes(p)
    /\ current \in Procs => ctx[Idle].ra = <<"scheduler">> /\ ctx[Idle].sp = Top(Idle)

(***************************************************************************)
(* What is in the CPU, by the piece of code it has come to.                *)
(***************************************************************************)
InProgram ==
    /\ cpu.mode = "U" /\ cpu.sie = TRUE /\ cpu.stvec = <<"uservec">>
    /\ cpu.satp = <<current>> /\ cpu.sscratch = TRAPFRAME
    /\ current \in Procs /\ Prepared(current)
    /\ cpu.pc = due[current].pc /\ cpu.regs = due[current].regs /\ UserPc(due[current].pc)

\* The pc the program is to find, from the one it trapped at.
After(epc) == IF cpu.cause = "ecall" THEN <<epc[1], epc[2] + 4>> ELSE epc

AtUservec ==
    /\ cpu.pc = <<"uservec">> /\ cpu.mode = "S" /\ cpu.sie = FALSE /\ cpu.spp = FALSE
    /\ cpu.satp = <<current>> /\ cpu.sscratch = TRAPFRAME
    /\ current \in Procs /\ Prepared(current)
    /\ cpu.regs = due[current].regs /\ due[current].pc = After(cpu.sepc)
    /\ UserPc(cpu.sepc) /\ UserPc(due[current].pc)

InKernel == cpu.mode = "S" /\ cpu.satp = Kernel /\ cpu.regs.tp = HART
OnStack(d) == cpu.regs.sp = Addr(current, d)

AtUsertrap ==
    /\ cpu.pc = <<"usertrap">> /\ InKernel /\ OnStack(0) /\ cpu.sie = FALSE /\ cpu.spp = FALSE
    /\ current \in Procs
    /\ tf[current].regs = due[current].regs /\ due[current].pc = After(tf[current].epc)
    /\ UserPc(due[current].pc)

AtUserret ==
    /\ cpu.pc = <<"userret">> /\ InKernel /\ OnStack(0)
    /\ cpu.sie = FALSE /\ cpu.spp = FALSE /\ cpu.spie = TRUE
    /\ cpu.stvec = <<"uservec">> /\ cpu.sepc = due[current].pc
    /\ cpu.regs.a0 = TRAPFRAME /\ cpu.regs.a1 = <<current>>
    /\ current \in Procs /\ Prepared(current) /\ SavedFor(current)

InHandler ==
    /\ InKernel /\ cpu.sie = FALSE /\ cpu.stvec = <<"kernelvec">>
    /\ current \in Procs /\ SavedFor(current)
    /\ \/ /\ cpu.pc \in {<<"yield">>, <<"usertrapret">>, <<"syscall">>,
                         <<"wait">>, <<"syscall_returns">>}
          /\ OnStack(0)
       \/ /\ cpu.pc = <<"sched">> /\ OnStack(1)
          /\ stack[current][1] \in {<<"usertrapret">>, <<"syscall_returns">>, <<"wait">>}
    /\ cpu.pc \in {<<"sched">>, <<"wait">>, <<"syscall_returns">>} =>
          cpu.regs.s0 = <<"C", current, "s0">>

AtExit ==
    /\ cpu.pc = <<"exit">> /\ InKernel /\ cpu.sie = FALSE /\ cpu.stvec = <<"kernelvec">>
    /\ current \in Procs /\ (OnStack(0) \/ OnStack(1))

InScheduler ==
    /\ cpu.pc \in {<<"scheduler">>, <<"run_all_app">>}
    /\ InKernel /\ cpu.sie = FALSE /\ cpu.stvec = <<"kernelvec">>
    /\ current = Idle /\ OnStack(0)

AtDisk ==
    /\ cpu.pc = <<"disk">> /\ InKernel /\ cpu.sie = TRUE /\ cpu.stvec = <<"kernelvec">>
    /\ OnStack(0) /\ cpu.regs = Compiled(cpu.regs, current)
    /\ current \in Procs => SavedFor(current)

\* An interrupt of the wait for the disk, or a fault of a process.
OfDisk == cpu.cause # "fault" /\ cpu.sepc = <<"disk">> /\ cpu.spie = TRUE
          /\ (current \in Procs => SavedFor(current))
OfFault == cpu.cause = "fault" /\ current \in Procs

\* The registers that were pushed are those of the wait.
Pushed ==
    LET frame == stack[current][1] IN
    /\ IsRegs(frame) /\ frame.tp = HART
    /\ \A r \in Regs \ {"sp", "gp", "tp"} : frame[r] = <<"C", current, r>>

InTrap ==
    /\ InKernel /\ cpu.sie = FALSE /\ cpu.spp = TRUE /\ cpu.stvec = <<"kernelvec">>
    /\ \/ /\ cpu.pc = <<"kernelvec">> /\ OnStack(0)
          /\ OfFault \/ (OfDisk /\ cpu.regs = Compiled(cpu.regs, current))
       \/ /\ cpu.pc = <<"kerneltrap">> /\ OnStack(1) /\ cpu.regs.ra = <<"kernelret">>
          /\ OfFault \/ (OfDisk /\ Pushed)
       \/ cpu.pc = <<"kernelret">> /\ OnStack(1) /\ OfDisk /\ Pushed

CpuInv == \/ InProgram \/ AtUservec \/ AtUsertrap \/ AtUserret
          \/ InHandler \/ AtExit \/ InScheduler \/ AtDisk \/ InTrap

TrapInv == Shapes /\ Others /\ CpuInv

(***************************************************************************)
(* Which part of CpuInv holds is told by the code that is about to run.    *)
(***************************************************************************)
LEMMA WhereUser ==
  ASSUME CpuInv, cpu.mode = "U"
  PROVE  InProgram
  BY DEF CpuInv, AtUservec, AtUsertrap, AtUserret, InHandler, AtExit, InScheduler, AtDisk,
     InTrap, InKernel

LEMMA WhereInterrupts ==
  ASSUME CpuInv, cpu.mode = "S", cpu.sie
  PROVE  AtDisk
  BY DEF CpuInv, InProgram, AtUservec, AtUsertrap, AtUserret, InHandler, AtExit, InScheduler, InTrap

LEMMA UserPcIsElsewhere ==
  ASSUME NEW x, UserPc(x), NEW code, code \notin {"zero", "user"}
  PROVE  x # <<code>>
  BY DEF UserPc, Zero

LEMMA WhereUservec ==
  ASSUME CpuInv, At("uservec")
  PROVE  AtUservec
  BY UserPcIsElsewhere DEF At, CpuInv, InProgram, AtUsertrap, AtUserret, InHandler, AtExit,
     InScheduler, AtDisk, InTrap

LEMMA WhereUsertrap ==
  ASSUME CpuInv, At("usertrap")
  PROVE  AtUsertrap
  BY UserPcIsElsewhere DEF At, CpuInv, InProgram, AtUservec, AtUserret, InHandler, AtExit,
     InScheduler, AtDisk, InTrap

LEMMA WhereUserret ==
  ASSUME CpuInv, At("userret")
  PROVE  AtUserret
  BY UserPcIsElsewhere DEF At, CpuInv, InProgram, AtUservec, AtUsertrap, InHandler, AtExit,
     InScheduler, AtDisk, InTrap

LEMMA WhereHandler ==
  ASSUME CpuInv, \/ At("yield") \/ At("usertrapret") \/ At("syscall")
                 \/ At("wait") \/ At("syscall_returns") \/ At("sched")
  PROVE  InHandler
  BY UserPcIsElsewhere DEF InProgram, At, CpuInv, AtUservec, AtUsertrap, AtUserret, AtExit,
     InScheduler, AtDisk, InTrap

LEMMA WhereExit ==
  ASSUME CpuInv, At("exit")
  PROVE  AtExit
  BY UserPcIsElsewhere DEF At, CpuInv, InProgram, AtUservec, AtUsertrap, AtUserret, InHandler,
     InScheduler, AtDisk, InTrap

LEMMA WhereScheduler ==
  ASSUME CpuInv, At("scheduler") \/ At("run_all_app")
  PROVE  InScheduler
  BY UserPcIsElsewhere DEF InProgram, At, CpuInv, AtUservec, AtUsertrap, AtUserret, InHandler,
     AtExit, AtDisk, InTrap

LEMMA WhereDisk ==
  ASSUME CpuInv, At("disk")
  PROVE  AtDisk
  BY UserPcIsElsewhere DEF At, CpuInv, InProgram, AtUservec, AtUsertrap, AtUserret, InHandler,
     AtExit, InScheduler, InTrap

LEMMA WhereTrap ==
  ASSUME CpuInv, At("kernelvec") \/ At("kerneltrap") \/ At("kernelret")
  PROVE  InTrap
  BY UserPcIsElsewhere DEF InProgram, At, CpuInv, AtUservec, AtUsertrap, AtUserret, InHandler,
     AtExit, InScheduler, AtDisk

(***************************************************************************)
(* The processes that do not run keep what they need when a step changes   *)
(* only what is of the running one, or makes one more runnable.            *)
(***************************************************************************)
Keeps(p) == tf'[p] = tf[p] /\ due'[p] = due[p] /\ stack'[p] = stack[p] /\ ctx'[p] = ctx[p]

LEMMA OthersKept ==
  ASSUME Others, current' = current, status' = status, ctx' = ctx,
         \A p \in Procs \ {current} : Keeps(p)
  PROVE  Others'
  BY DEF Others, Keeps, SavedFor, Resumes, Threads

LEMMA OthersAndNew ==
  ASSUME Others, NEW np \in Procs, np # current, status = [p \in Procs |-> status[p]],
         current' = current, status' = Ready(np), ctx'[Idle] = ctx[Idle],
         \A p \in Procs \ {current, np} : Keeps(p), SavedFor(np)', Resumes(np)'
  PROVE  Others'
  BY DEF Others, Keeps, SavedFor, Resumes, Threads, Ready

\* Updates of one process.
LEMMA FrameUpdate ==
  ASSUME Shapes, NEW p \in Procs, NEW f, IsFrame(f), tf' = [tf EXCEPT ![p] = f]
  PROVE  /\ tf' = [q \in Procs |-> tf'[q]] /\ \A q \in Procs : IsFrame(tf'[q])
         /\ tf'[p] = f /\ \A q \in Procs \ {p} : tf'[q] = tf[q]
  <1>1. /\ tf' = [q \in Procs |-> tf'[q]] /\ tf'[p] = f
        /\ \A q \in Procs \ {p} : tf'[q] = tf[q]
    BY DEF Shapes
  <1> QED
    BY <1>1 DEF Shapes

LEMMA DueUpdate ==
  ASSUME Shapes, NEW p \in Procs, NEW d, IsDue(d), due' = [due EXCEPT ![p] = d]
  PROVE  /\ due' = [q \in Procs |-> due'[q]] /\ \A q \in Procs : IsDue(due'[q])
         /\ due'[p] = d /\ \A q \in Procs \ {p} : due'[q] = due[q]
  <1>1. /\ due' = [q \in Procs |-> due'[q]] /\ due'[p] = d
        /\ \A q \in Procs \ {p} : due'[q] = due[q]
    BY DEF Shapes
  <1> QED
    BY <1>1 DEF Shapes

LEMMA CompiledRegs ==
  ASSUME NEW x, NEW q
  PROVE  /\ IsRegs(Compiled(x, q)) /\ Compiled(x, q).sp = x.sp /\ Compiled(x, q).tp = x.tp
         /\ Compiled(x, q).s0 = <<"C", q, "s0">>
         /\ Compiled(Compiled(x, q), q) = Compiled(x, q)
  BY DEF Compiled, IsRegs, Regs

\* csrrw and the store of sscratch put a0 where it was.
LEMMA PutBack ==
  ASSUME NEW x, IsRegs(x), NEW v
  PROVE  [[x EXCEPT !.a0 = v] EXCEPT !.a0 = x.a0] = x
  BY DEF IsRegs, Regs

(***************************************************************************)
(* Initially, and the steps between a program and the kernel.              *)
(***************************************************************************)
LEMMA InitTrapInv == Init => TrapInv
  <1> SUFFICES ASSUME Init PROVE TrapInv
    OBVIOUS
  <1>1. Shapes
    BY DEF Init, Shapes, IsCpu, IsRegs, IsFrame, IsDue, ZeroFrame, Nothing, NoContext, Compiled,
       Threads
  <1>2. Others
    BY TrapAssumption DEF Init, Others, Threads
  <1>3. AtDisk
    BY TrapAssumption DEF Init, AtDisk, InKernel, OnStack, Compiled, Top, Regs
  <1> QED
    BY <1>1, <1>2, <1>3 DEF TrapInv, CpuInv

LEMMA UserTrapKeeps ==
  ASSUME TrapInv, NEW cause \in Causes, UserTrap(cause)
  PROVE  TrapInv'
  <1>1. InProgram /\ Shapes /\ Others
    BY WhereUser DEF TrapInv, UserTrap
  <1>2. PICK g \in Gens :
          /\ cpu' = Enter([cpu EXCEPT !.regs = [r \in Regs |-> <<current, r, g>>],
                                      !.pc = <<"user", 8 * g>>], cause)
          /\ due' = [due EXCEPT ![current] =
                [regs |-> [r \in Regs |-> <<current, r, g>>],
                 pc |-> <<"user", IF cause = "ecall" THEN 8 * g + 4 ELSE 8 * g>>]]
    BY DEF UserTrap
  <1>3. UNCHANGED <<tf, ctx, stack, status, parent, current, busy>> /\ current \in Procs
    BY <1>1 DEF UserTrap, procs, InProgram
  <1> DEFINE regs == [r \in Regs |-> <<current, r, g>>]
  <1>4. /\ IsCpu(cpu') /\ cpu'.regs = regs /\ cpu'.pc = <<"uservec">> /\ cpu'.mode = "S"
        /\ cpu'.sepc = <<"user", 8 * g>> /\ cpu'.satp = cpu.satp /\ cpu'.sscratch = cpu.sscratch
        /\ cpu'.cause = cause /\ cpu'.spp = FALSE /\ cpu'.sie = FALSE
    BY <1>1, <1>2 DEF Enter, Shapes, IsCpu, IsRegs, InProgram
  <1>5. /\ due' = [p \in Procs |-> due'[p]] /\ \A p \in Procs \ {current} : due'[p] = due[p]
        /\ due'[current].regs = regs /\ IsDue(due'[current])
        /\ due'[current].pc = <<"user", IF cause = "ecall" THEN 8 * g + 4 ELSE 8 * g>>
    BY <1>1, <1>2, <1>3 DEF Shapes, IsDue, IsRegs
  <1>6. Shapes'
    BY <1>1, <1>3, <1>4, <1>5 DEF Shapes, Threads
  <1>7. Others'
    BY <1>1, <1>3, <1>5, OthersKept DEF Keeps
  <1>8. UserPc(cpu'.sepc) /\ UserPc(due'[current].pc) /\ due'[current].pc = After(cpu.sepc)'
    BY <1>4, <1>5, TrapAssumption DEF UserPc, After
  <1>9. AtUservec'
    BY <1>1, <1>3, <1>4, <1>5, <1>8 DEF AtUservec, InProgram, Prepared
  <1> QED
    BY <1>6, <1>7, <1>9 DEF TrapInv, CpuInv

LEMMA InterruptKeeps ==
  ASSUME TrapInv, NEW cause \in {"timer", "external"}, Interrupt(cause)
  PROVE  TrapInv'
  <1>1. AtDisk /\ Shapes /\ Others
    BY WhereInterrupts DEF TrapInv, Interrupt
  <1>2. cpu' = Enter(cpu, cause) /\ UNCHANGED <<tf, ctx, stack, status, parent, current, busy, due>>
    BY DEF Interrupt, procs
  <1>3. /\ IsCpu(cpu') /\ cpu'.regs = cpu.regs /\ cpu'.pc = <<"kernelvec">> /\ cpu'.mode = "S"
        /\ cpu'.sepc = <<"disk">> /\ cpu'.satp = cpu.satp /\ cpu'.stvec = cpu.stvec
        /\ cpu'.cause = cause /\ cpu'.spp = TRUE /\ cpu'.sie = FALSE /\ cpu'.spie = TRUE
    BY <1>1, <1>2 DEF Enter, Shapes, IsCpu, AtDisk, InKernel
  <1>4. Shapes'
    BY <1>1, <1>2, <1>3 DEF Shapes, Threads
  <1>5. Others'
    BY <1>1, <1>2, OthersKept DEF Keeps
  <1>6. OfDisk'
    BY <1>1, <1>2, <1>3 DEF OfDisk, AtDisk, SavedFor
  <1>7. InTrap'
    BY <1>1, <1>2, <1>3, <1>6 DEF InTrap, AtDisk, InKernel, OnStack
  <1> QED
    BY <1>4, <1>5, <1>7 DEF TrapInv, CpuInv

LEMMA UservecKeeps ==
  ASSUME TrapInv, uservec
  PROVE  TrapInv'
  <1> DEFINE c == csrrw_a0_sscratch(cpu)
             f == tf[cpu.satp[1]]
  <1>1. AtUservec /\ Shapes /\ Others
    BY WhereUservec DEF TrapInv, uservec
  <1>2. cpu.satp[1] = current /\ current \in Procs /\ Prepared(current)
    BY <1>1 DEF AtUservec
  <1>3. /\ c = [cpu EXCEPT !.regs = [cpu.regs EXCEPT !.a0 = TRAPFRAME], !.sscratch = cpu.regs.a0]
        /\ IsCpu(cpu)
    BY <1>1 DEF AtUservec, Shapes, csrrw_a0_sscratch, IsCpu
  <1>4. /\ IsCpu(c) /\ c.regs = [cpu.regs EXCEPT !.a0 = TRAPFRAME] /\ c.sscratch = cpu.regs.a0
        /\ c.sepc = cpu.sepc /\ c.mode = cpu.mode /\ c.cause = cpu.cause
        /\ c.spp = cpu.spp /\ c.sie = cpu.sie
    BY <1>3 DEF IsCpu, IsRegs
  <1>5. Saved(c) = cpu.regs /\ c.regs.a0 = TRAPFRAME
    <2>1. IsRegs(cpu.regs)
      BY <1>3 DEF IsCpu
    <2>2. Saved(c) = cpu.regs
      BY <2>1, <1>4, PutBack DEF Saved
    <2> QED
      BY <2>1, <2>2, <1>4 DEF IsRegs, Regs
  <1> HIDE DEF c
  <1>6. cpu.satp # Kernel
    BY <1>1, <1>2, TrapAssumption DEF AtUservec, Kernel
  <1>7. /\ tf' = [tf EXCEPT ![current] = [@ EXCEPT !.regs = cpu.regs, !.epc = cpu.sepc]]
        /\ cpu' = [c EXCEPT
                      !.regs = [@ EXCEPT !.sp = Top(current), !.tp = HART,
                                         !.t0 = <<"usertrap">>, !.t1 = Kernel],
                      !.satp = Kernel, !.pc = <<"usertrap">>]
    BY <1>2, <1>4, <1>5, <1>6 DEF uservec, Prepared, c
  <1>8. UNCHANGED <<ctx, stack, status, parent, current, busy, due>>
    BY DEF uservec, procs
  <1>9. /\ IsCpu(cpu') /\ cpu'.pc = <<"usertrap">> /\ cpu'.satp = Kernel /\ cpu'.mode = "S"
        /\ cpu'.regs.tp = HART /\ cpu'.regs.sp = Top(current)
        /\ cpu'.sie = FALSE /\ cpu'.spp = FALSE /\ cpu'.cause = cpu.cause
    BY <1>1, <1>4, <1>7 DEF AtUservec, IsCpu, IsRegs, Regs
  <1>10. /\ tf' = [p \in Procs |-> tf'[p]] /\ \A p \in Procs \ {current} : tf'[p] = tf[p]
         /\ IsFrame(tf'[current]) /\ tf'[current].regs = cpu.regs /\ tf'[current].epc = cpu.sepc
    <2>1. tf' = [tf EXCEPT ![current] = [tf[current] EXCEPT !.regs = cpu.regs, !.epc = cpu.sepc]]
      BY <1>7
    <2>2. /\ tf' = [p \in Procs |-> tf'[p]] /\ \A p \in Procs \ {current} : tf'[p] = tf[p]
          /\ tf'[current] = [tf[current] EXCEPT !.regs = cpu.regs, !.epc = cpu.sepc]
      BY <1>1, <1>2, <2>1 DEF Shapes
    <2>3. IsFrame(tf[current]) /\ IsRegs(cpu.regs)
      BY <1>1, <1>2, <1>3 DEF Shapes, IsCpu
    <2> QED
      BY <2>2, <2>3 DEF IsFrame
  <1>11. Shapes'
    BY <1>1, <1>8, <1>9, <1>10 DEF Shapes, Threads
  <1>12. Others'
    BY <1>1, <1>8, <1>10, OthersKept DEF Keeps
  <1>13. AtUsertrap'
    BY <1>1, <1>2, <1>8, <1>9, <1>10 DEF AtUsertrap, AtUservec, InKernel, OnStack, Top, After
  <1> QED
    BY <1>11, <1>12, <1>13 DEF TrapInv, CpuInv

LEMMA UserretKeeps ==
  ASSUME TrapInv, userret
  PROVE  TrapInv'
  <1> DEFINE f == tf[current]
             c == [cpu EXCEPT !.satp = <<current>>, !.sscratch = f.regs.a0,
                              !.regs = [f.regs EXCEPT !.a0 = TRAPFRAME]]
  <1>1. AtUserret /\ Shapes /\ Others
    BY WhereUserret DEF TrapInv, userret
  <1>2. /\ cpu.regs.a1 = <<current>> /\ cpu.regs.a0 = TRAPFRAME /\ current \in Procs
        /\ IsFrame(f) /\ IsRegs(f.regs) /\ IsCpu(cpu)
    BY <1>1 DEF AtUserret, Shapes, IsFrame
  <1>3. /\ cpu' = sret(csrrw_a0_sscratch(c))
        /\ UNCHANGED <<tf, ctx, stack, status, parent, current, busy, due>>
    BY <1>2 DEF userret, procs
  <1>4. /\ IsCpu(c) /\ c.regs = [f.regs EXCEPT !.a0 = TRAPFRAME] /\ c.sscratch = f.regs.a0
        /\ c.satp = <<current>> /\ c.regs.a0 = TRAPFRAME /\ c.spp = FALSE /\ c.spie = TRUE
        /\ c.stvec = <<"uservec">> /\ c.sepc = due[current].pc
    <2> DEFINE g == [f.regs EXCEPT !.a0 = TRAPFRAME]
               a == f.regs.a0
    <2>1. IsRegs(g) /\ g.a0 = TRAPFRAME
      BY <1>2 DEF IsRegs, Regs
    <2>2. c = [cpu EXCEPT !.satp = <<current>>, !.sscratch = a, !.regs = g]
      OBVIOUS
    <2> HIDE DEF g, a, c, f
    <2>3. /\ IsCpu(c) /\ c.regs = g /\ c.sscratch = a /\ c.satp = <<current>> /\ c.spp = cpu.spp
          /\ c.spie = cpu.spie /\ c.stvec = cpu.stvec /\ c.sepc = cpu.sepc
      BY <2>1, <2>2, <1>2 DEF IsCpu
    <2> QED
      BY <2>1, <2>3, <1>1 DEF AtUserret, g, a
  <1> HIDE DEF c
  <1>5. csrrw_a0_sscratch(c) = [c EXCEPT !.regs = [c.regs EXCEPT !.a0 = c.sscratch],
                                         !.sscratch = c.regs.a0]
    BY <1>4 DEF csrrw_a0_sscratch, IsCpu
  <1>6. [c.regs EXCEPT !.a0 = c.sscratch] = f.regs
    BY <1>2, <1>4, PutBack
  <1> HIDE DEF f
  <1>7. /\ IsCpu(cpu') /\ cpu'.regs = f.regs /\ cpu'.sscratch = TRAPFRAME
        /\ cpu'.pc = due[current].pc /\ cpu'.mode = "U" /\ cpu'.sie = TRUE
        /\ cpu'.satp = <<current>> /\ cpu'.stvec = <<"uservec">>
    BY <1>2, <1>3, <1>4, <1>5, <1>6 DEF sret, IsCpu
  <1>8. Shapes'
    BY <1>1, <1>3, <1>7 DEF Shapes, Threads
  <1>9. Others'
    BY <1>1, <1>3, OthersKept DEF Keeps
  <1>10. InProgram'
    BY <1>1, <1>3, <1>7 DEF InProgram, AtUserret, Prepared, SavedFor, f
  <1> QED
    BY <1>8, <1>9, <1>10 DEF TrapInv, CpuInv

LEMMA UsertrapKeeps ==
  ASSUME TrapInv, usertrap
  PROVE  TrapInv'
  <1> DEFINE epc == IF cpu.cause = "ecall" THEN <<tf[current].epc[1], tf[current].epc[2] + 4>>
                    ELSE tf[current].epc
             f == [tf[current] EXCEPT !.epc = epc]
  <1>1. AtUsertrap /\ Shapes /\ Others
    BY WhereUsertrap DEF TrapInv, usertrap
  <1>2. IsFrame(tf[current]) /\ IsCpu(cpu) /\ current \in Procs /\ cpu.spp = FALSE
    BY <1>1 DEF AtUsertrap, Shapes
  <1>3. /\ cpu' = [cpu EXCEPT !.stvec = <<"kernelvec">>, !.regs = Compiled(cpu.regs, current),
                              !.pc = <<Handler(cpu.cause)>>]
        /\ tf' = [tf EXCEPT ![current] = f]
        /\ UNCHANGED <<ctx, stack, status, parent, current, busy, due>>
    BY <1>1, <1>2 DEF usertrap, procs, IsCpu, Shapes
  <1>4. /\ IsFrame(f) /\ f.regs = tf[current].regs /\ f.epc = epc /\ epc = due[current].pc
    BY <1>1, <1>2 DEF IsFrame, AtUsertrap, After
  <1> HIDE DEF f, epc
  <1>5. /\ IsCpu(cpu') /\ cpu'.regs = Compiled(cpu.regs, current) /\ cpu'.mode = cpu.mode
        /\ cpu'.pc = <<Handler(cpu.cause)>> /\ cpu'.stvec = <<"kernelvec">>
        /\ cpu'.satp = cpu.satp /\ cpu'.sie = cpu.sie
    BY <1>2, <1>3, CompiledRegs DEF IsCpu
  <1>6. /\ tf' = [q \in Procs |-> tf'[q]] /\ \A q \in Procs : IsFrame(tf'[q])
        /\ tf'[current] = f /\ \A q \in Procs \ {current} : tf'[q] = tf[q]
    BY <1>1, <1>2, <1>3, <1>4, FrameUpdate
  <1>7. Shapes'
    BY <1>1, <1>3, <1>5, <1>6 DEF Shapes, Threads
  <1>8. Others'
    BY <1>1, <1>3, <1>6, OthersKept DEF Keeps
  <1>9. InKernel' /\ OnStack(0)' /\ cpu'.sie = FALSE
    BY <1>1, <1>3, <1>5, CompiledRegs DEF AtUsertrap, InKernel, OnStack
  <1>10. SavedFor(current)'
    BY <1>1, <1>3, <1>4, <1>6 DEF SavedFor, AtUsertrap
  <1>11. Handler(cpu.cause) \in {"yield", "usertrapret", "syscall", "exit"}
    BY DEF Handler
  <1>12. CASE Handler(cpu.cause) = "exit"
    <2>1. AtExit'
      BY <1>12, <1>2, <1>3, <1>5, <1>9 DEF AtExit
    <2> QED
      BY <1>7, <1>8, <2>1 DEF TrapInv, CpuInv
  <1>13. CASE Handler(cpu.cause) # "exit"
    <2>1. InHandler'
      BY <1>13, <1>2, <1>3, <1>5, <1>9, <1>10, <1>11 DEF InHandler
    <2> QED
      BY <1>7, <1>8, <2>1 DEF TrapInv, CpuInv
  <1> QED
    BY <1>12, <1>13

LEMMA UsertrapretKeeps ==
  ASSUME TrapInv, usertrapret
  PROVE  TrapInv'
  <1> DEFINE f == [tf[current] EXCEPT !.kernel_satp = cpu.satp, !.kernel_sp = Top(current),
                      !.kernel_trap = <<"usertrap">>, !.kernel_hartid = cpu.regs.tp]
             regs == [Compiled(cpu.regs, current) EXCEPT !.a0 = TRAPFRAME, !.a1 = <<current>>]
  <1>1. InHandler /\ Shapes /\ Others
    BY WhereHandler DEF TrapInv, usertrapret
  <1>2. /\ IsFrame(tf[current]) /\ IsCpu(cpu) /\ current \in Procs /\ InKernel /\ OnStack(0)
        /\ SavedFor(current) /\ cpu.sie = FALSE
    BY <1>1 DEF InHandler, Shapes, usertrapret, At
  <1>3. /\ tf' = [tf EXCEPT ![current] = f]
        /\ cpu' = [UserMode(cpu) EXCEPT !.stvec = <<"uservec">>, !.sepc = tf[current].epc,
                      !.regs = regs, !.pc = <<"userret">>]
        /\ UNCHANGED <<ctx, stack, status, parent, current, busy, due>>
    BY <1>1, <1>2 DEF usertrapret, procs, IsCpu, UserMode
  <1>4. /\ IsFrame(f) /\ f.regs = tf[current].regs /\ f.epc = tf[current].epc
        /\ f.kernel_satp = Kernel /\ f.kernel_sp = Top(current)
        /\ f.kernel_trap = <<"usertrap">> /\ f.kernel_hartid = HART
    <2>1. cpu.satp = Kernel /\ cpu.regs.tp = HART
      BY <1>2 DEF InKernel
    <2> DEFINE t == tf[current]
    <2>2. IsFrame(t) /\ f = [t EXCEPT !.kernel_satp = Kernel, !.kernel_sp = Top(current),
                      !.kernel_trap = <<"usertrap">>, !.kernel_hartid = HART]
      BY <1>2, <2>1
    <2> HIDE DEF t, f
    <2>3. /\ IsFrame(f) /\ f.regs = t.regs /\ f.epc = t.epc
          /\ f.kernel_satp = Kernel /\ f.kernel_sp = Top(current)
          /\ f.kernel_trap = <<"usertrap">> /\ f.kernel_hartid = HART
      BY <2>2 DEF IsFrame
    <2> QED
      BY <2>3 DEF t
  <1>5. /\ IsRegs(regs) /\ regs.a0 = TRAPFRAME /\ regs.a1 = <<current>>
        /\ regs.tp = HART /\ regs.sp = Top(current)
    BY <1>2 DEF Compiled, InKernel, OnStack, IsRegs, Regs, Top
  <1> HIDE DEF f, regs
  <1>6. /\ IsCpu(cpu') /\ cpu'.regs = regs /\ cpu'.mode = cpu.mode /\ cpu'.pc = <<"userret">>
        /\ cpu'.stvec = <<"uservec">> /\ cpu'.satp = cpu.satp /\ cpu'.sie = cpu.sie
        /\ cpu'.sepc = tf[current].epc /\ cpu'.spp = FALSE /\ cpu'.spie = TRUE
    BY <1>2, <1>3, <1>5 DEF IsCpu, UserMode
  <1>7. /\ tf' = [q \in Procs |-> tf'[q]] /\ \A q \in Procs : IsFrame(tf'[q])
        /\ tf'[current] = f /\ \A q \in Procs \ {current} : tf'[q] = tf[q]
    BY <1>1, <1>2, <1>3, <1>4, FrameUpdate
  <1>8. Shapes'
    BY <1>1, <1>3, <1>6, <1>7 DEF Shapes, Threads
  <1>9. Others'
    BY <1>1, <1>3, <1>7, OthersKept DEF Keeps
  <1>10. Prepared(current)' /\ SavedFor(current)'
    BY <1>2, <1>3, <1>4, <1>7 DEF Prepared, SavedFor
  <1>11. AtUserret'
    BY <1>2, <1>3, <1>5, <1>6, <1>10 DEF AtUserret, InKernel, OnStack, Top, SavedFor
  <1> QED
    BY <1>8, <1>9, <1>11 DEF TrapInv, CpuInv

(***************************************************************************)
(* Interrupts of the kernel.                                               *)
(***************************************************************************)
LEMMA PushOnStack ==
  ASSUME Shapes, current \in Threads, NEW d \in {0, 1}, OnStack(d), NEW v, stack' = Push(v)
  PROVE  /\ stack' = [q \in Threads |-> stack'[q]]
         /\ \A q \in Threads \ {current} : stack'[q] = stack[q]
         /\ d = 0 => stack'[current][1] = v
         /\ Owner = current /\ Deeper = Addr(current, d + 1)
  <1>1. Owner = current /\ Depth = d
    BY DEF Owner, Depth, OnStack, Addr
  <1>2. stack' = [stack EXCEPT ![current] = Append(SubSeq(stack[current], 1, d), v)]
    BY <1>1 DEF Push
  <1>3. d = 0 => Append(SubSeq(stack[current], 1, d), v)[1] = v
    <2>1. SubSeq(stack[current], 1, 0) = <<>>
      BY SubSeqEmpty
    <2>2. <<>> \in Seq({v}) /\ v \in {v} /\ Len(<<>>) + 1 = 1
      OBVIOUS
    <2>3. Append(<<>>, v)[1] = v
      BY <2>2, AppendProperties
    <2> QED
      BY <2>1, <2>3
  <1>4. /\ stack' = [q \in Threads |-> stack'[q]]
        /\ \A q \in Threads \ {current} : stack'[q] = stack[q]
        /\ stack'[current] = Append(SubSeq(stack[current], 1, d), v)
    BY <1>2 DEF Shapes
  <1> QED
    BY <1>1, <1>3, <1>4 DEF Deeper

LEMMA KernelvecKeeps ==
  ASSUME TrapInv, kernelvec
  PROVE  TrapInv'
  <1> DEFINE frame == [cpu.regs EXCEPT !.sp = Deeper]
             regs == [cpu.regs EXCEPT !.sp = Deeper, !.ra = <<"kernelret">>]
  <1>1. InTrap /\ Shapes /\ Others
    BY WhereTrap DEF TrapInv, kernelvec
  <1>2. /\ InKernel /\ OnStack(0) /\ cpu.sie = FALSE /\ cpu.spp = TRUE /\ cpu.stvec = <<"kernelvec">>
        /\ OfFault \/ (OfDisk /\ cpu.regs = Compiled(cpu.regs, current))
        /\ IsCpu(cpu) /\ IsRegs(cpu.regs) /\ current \in Threads
    BY <1>1 DEF InTrap, kernelvec, At, Shapes, IsCpu, Others
  <1>3. /\ stack' = Push(frame)
        /\ cpu' = [cpu EXCEPT !.regs = regs, !.pc = <<"kerneltrap">>]
        /\ UNCHANGED <<tf, ctx, status, parent, current, busy, due>>
    BY DEF kernelvec, procs
  <1>4. /\ stack' = [q \in Threads |-> stack'[q]]
        /\ \A q \in Threads \ {current} : stack'[q] = stack[q]
        /\ stack'[current][1] = frame
        /\ Deeper = Addr(current, 1)
    BY <1>1, <1>2, <1>3, PushOnStack
  <1>5. /\ IsRegs(regs) /\ regs.sp = Addr(current, 1) /\ regs.ra = <<"kernelret">> /\ regs.tp = cpu.regs.tp
        /\ IsRegs(frame) /\ frame.tp = cpu.regs.tp
        /\ \A r \in Regs \ {"sp", "gp", "tp"} : frame[r] = cpu.regs[r]
    BY <1>2, <1>4 DEF IsRegs, Regs
  <1> HIDE DEF frame, regs
  <1>6. /\ IsCpu(cpu') /\ cpu'.regs = regs /\ cpu'.pc = <<"kerneltrap">> /\ cpu'.mode = cpu.mode
        /\ cpu'.stvec = cpu.stvec /\ cpu'.satp = cpu.satp /\ cpu'.sie = cpu.sie /\ cpu'.cause = cpu.cause
        /\ cpu'.sepc = cpu.sepc /\ cpu'.spp = cpu.spp /\ cpu'.spie = cpu.spie
    BY <1>2, <1>3, <1>5 DEF IsCpu
  <1>7. Shapes'
    BY <1>1, <1>3, <1>4, <1>6 DEF Shapes, Threads
  <1>8. Others'
    BY <1>1, <1>3, <1>4, OthersKept DEF Keeps, Threads
  <1>9. InKernel' /\ OnStack(1)'
    BY <1>2, <1>3, <1>5, <1>6 DEF InKernel, OnStack
  <1>10. OfFault => OfFault'
    BY <1>3, <1>6 DEF OfFault
  <1>11. OfDisk => OfDisk'
    BY <1>3, <1>6 DEF OfDisk, SavedFor
  <1>12. cpu.regs = Compiled(cpu.regs, current) => Pushed'
    <2> SUFFICES ASSUME cpu.regs = Compiled(cpu.regs, current) PROVE Pushed'
      OBVIOUS
    <2>1. \A r \in Regs \ {"sp", "gp", "tp"} : cpu.regs[r] = <<"C", current, r>>
      BY DEF Compiled
    <2> QED
      BY <2>1, <1>2, <1>3, <1>4, <1>5 DEF Pushed, InKernel
  <1>13. InTrap'
    BY <1>2, <1>5, <1>6, <1>9, <1>10, <1>11, <1>12 DEF InTrap
  <1> QED
    BY <1>7, <1>8, <1>13 DEF TrapInv, CpuInv

LEMMA KerneltrapKeeps ==
  ASSUME TrapInv, kerneltrap
  PROVE  TrapInv'
  <1> DEFINE regs == [Compiled(cpu.regs, "handler") EXCEPT !.s0 = cpu.regs.s0]
             code == IF cpu.cause = "fault" THEN <<"exit">> ELSE cpu.regs.ra
  <1>1. InTrap /\ Shapes /\ Others
    BY WhereTrap DEF TrapInv, kerneltrap
  <1>2. /\ InKernel /\ OnStack(1) /\ cpu.sie = FALSE /\ cpu.spp = TRUE /\ cpu.stvec = <<"kernelvec">>
        /\ cpu.regs.ra = <<"kernelret">> /\ IsCpu(cpu)
        /\ OfFault \/ (OfDisk /\ Pushed)
    BY <1>1 DEF InTrap, kerneltrap, At, Shapes
  <1>3. /\ cpu' = [cpu EXCEPT !.regs = regs, !.pc = code]
        /\ UNCHANGED <<tf, ctx, stack, status, parent, current, due>>
    BY <1>2 DEF kerneltrap, procs
  <1>4. IsRegs(regs) /\ regs.sp = cpu.regs.sp /\ regs.tp = cpu.regs.tp
    BY DEF Compiled, IsRegs, Regs
  <1> HIDE DEF regs, code
  <1>5. /\ IsCpu(cpu') /\ cpu'.regs = regs /\ cpu'.pc = code /\ cpu'.mode = cpu.mode
        /\ cpu'.stvec = cpu.stvec /\ cpu'.satp = cpu.satp /\ cpu'.sie = cpu.sie /\ cpu'.cause = cpu.cause
        /\ cpu'.sepc = cpu.sepc /\ cpu'.spp = cpu.spp /\ cpu'.spie = cpu.spie
    BY <1>2, <1>3, <1>4 DEF IsCpu
  <1>6. Shapes'
    BY <1>1, <1>3, <1>5 DEF Shapes, Threads
  <1>7. Others'
    BY <1>1, <1>3, OthersKept DEF Keeps
  <1>8. InKernel' /\ OnStack(1)'
    BY <1>2, <1>3, <1>4, <1>5 DEF InKernel, OnStack
  <1>9. CASE OfFault
    <2>1. AtExit'
      BY <1>9, <1>2, <1>3, <1>5, <1>8 DEF AtExit, OfFault, code
    <2> QED
      BY <1>6, <1>7, <2>1 DEF TrapInv, CpuInv
  <1>10. CASE OfDisk /\ Pushed
    <2>1. OfDisk' /\ Pushed'
      BY <1>10, <1>3, <1>5 DEF OfDisk, SavedFor, Pushed
    <2>2. cpu'.pc = <<"kernelret">>
      BY <1>10, <1>2, <1>5 DEF OfDisk, code
    <2>3. InTrap'
      BY <1>2, <1>5, <1>8, <2>1, <2>2 DEF InTrap
    <2> QED
      BY <1>6, <1>7, <2>3 DEF TrapInv, CpuInv
  <1> QED
    BY <1>2, <1>9, <1>10

LEMMA KernelretKeeps ==
  ASSUME TrapInv, kernelret
  PROVE  TrapInv'
  <1> DEFINE frame == stack[current][1]
             regs == [[frame EXCEPT !.tp = cpu.regs.tp] EXCEPT !.sp = Addr(current, 0)]
             c == [cpu EXCEPT !.regs = regs]
  <1>1. InTrap /\ Shapes /\ Others
    BY WhereTrap DEF TrapInv, kernelret
  <1>2. /\ InKernel /\ OnStack(1) /\ cpu.sie = FALSE /\ cpu.spp = TRUE /\ cpu.stvec = <<"kernelvec">>
        /\ OfDisk /\ Pushed /\ IsCpu(cpu)
    BY <1>1 DEF InTrap, kernelret, At, Shapes
  <1>3. Owner = current /\ Depth = 1 /\ Higher = Addr(current, 0)
    BY <1>2 DEF Owner, Depth, Higher, OnStack, Addr
  <1>4. cpu' = sret(c) /\ UNCHANGED <<tf, ctx, stack, status, parent, current, busy, due>>
    BY <1>3 DEF kernelret, procs, Restored
  <1>5. /\ IsRegs(regs) /\ regs.sp = Addr(current, 0) /\ regs.tp = HART
        /\ regs = Compiled(regs, current)
    <2>1. /\ IsRegs(frame) /\ cpu.regs.tp = HART
          /\ \A r \in Regs \ {"sp", "gp", "tp"} : frame[r] = <<"C", current, r>>
      BY <1>2 DEF Pushed, InKernel
    <2> HIDE DEF frame
    <2>2. IsRegs(regs) /\ regs.sp = Addr(current, 0) /\ regs.tp = HART
      BY <2>1 DEF IsRegs, Regs
    <2>3. \A r \in Regs \ {"sp", "gp", "tp"} : regs[r] = <<"C", current, r>>
      BY <2>1 DEF IsRegs
    <2> HIDE DEF regs
    <2> QED
      BY <2>2, <2>3 DEF IsRegs, Compiled
  <1> HIDE DEF regs
  <1>6. /\ IsCpu(cpu') /\ cpu'.regs = regs /\ cpu'.pc = <<"disk">> /\ cpu'.mode = "S"
        /\ cpu'.stvec = cpu.stvec /\ cpu'.satp = cpu.satp /\ cpu'.sie = TRUE
    BY <1>2, <1>4, <1>5 DEF IsCpu, sret, OfDisk
  <1>7. Shapes'
    BY <1>1, <1>4, <1>6 DEF Shapes, Threads
  <1>8. Others'
    BY <1>1, <1>4, OthersKept DEF Keeps
  <1>9. AtDisk'
    BY <1>2, <1>4, <1>5, <1>6 DEF AtDisk, InKernel, OnStack, OfDisk, SavedFor
  <1> QED
    BY <1>7, <1>8, <1>9 DEF TrapInv, CpuInv

(***************************************************************************)
(* Kernel threads.                                                         *)
(***************************************************************************)
LEMMA SchedKeeps ==
  ASSUME Shapes, Others, InKernel, cpu.sie = FALSE, cpu.stvec = <<"kernelvec">>, current \in Procs,
         NEW d \in {0, 1}, OnStack(d), NEW code, sched(code),
         NEW s, s # "RUNNING", status' = [status EXCEPT ![current] = s],
         s = "RUNNABLE" => /\ d = 0 /\ SavedFor(current)
                           /\ <<code>> \in {<<"usertrapret">>, <<"syscall_returns">>, <<"wait">>}
  PROVE  TrapInv'
  <1> DEFINE regs == [Compiled(cpu.regs, current) EXCEPT !.sp = Deeper, !.ra = <<"sched">>]
             saved == [r \in Callee |-> regs[r]]
             new == [r \in Regs |-> IF r \in Callee THEN ctx[Idle][r] ELSE regs[r]]
  <1>1. /\ stack' = Push(<<code>>) /\ ctx' = [ctx EXCEPT ![current] = saved]
        /\ cpu' = [cpu EXCEPT !.regs = new, !.pc = ctx[Idle].ra]
        /\ current' = Idle
        /\ UNCHANGED <<tf, parent, busy, due>>
    BY DEF sched, swtch
  <1>2. IsCpu(cpu) /\ current \in Threads /\ Idle \in Threads /\ Idle # current
    BY TrapAssumption DEF Shapes, Threads
  <1>3. /\ stack' = [q \in Threads |-> stack'[q]]
        /\ \A q \in Threads \ {current} : stack'[q] = stack[q]
        /\ d = 0 => stack'[current][1] = <<code>>
        /\ Deeper = Addr(current, d + 1)
    BY <1>1, <1>2, PushOnStack
  <1>4. /\ saved.ra = <<"sched">> /\ saved.sp = Addr(current, d + 1)
        /\ saved.s0 = <<"C", current, "s0">>
    <2>1. /\ regs.ra = <<"sched">> /\ regs.sp = Addr(current, d + 1)
          /\ regs.s0 = <<"C", current, "s0">>
      BY <1>3 DEF Compiled, Regs
    <2> HIDE DEF regs
    <2> QED
      BY <2>1 DEF Callee
  <1>5. /\ IsRegs(new) /\ new.ra = ctx[Idle].ra /\ new.sp = ctx[Idle].sp /\ new.tp = cpu.regs.tp
    <2>1. regs.tp = cpu.regs.tp
      BY DEF Compiled, Regs
    <2> HIDE DEF regs
    <2> QED
      BY <2>1 DEF IsRegs, Regs, Callee
  <1>6. ctx[Idle].ra = <<"scheduler">> /\ ctx[Idle].sp = Top(Idle)
    BY DEF Others
  <1> HIDE DEF saved, new
  <1>7. /\ IsCpu(cpu') /\ cpu'.regs = new /\ cpu'.pc = <<"scheduler">> /\ cpu'.mode = cpu.mode
        /\ cpu'.satp = cpu.satp /\ cpu'.stvec = cpu.stvec /\ cpu'.sie = cpu.sie
    BY <1>1, <1>2, <1>5, <1>6 DEF IsCpu
  <1>8. InScheduler'
    BY <1>1, <1>5, <1>6, <1>7 DEF InScheduler, InKernel, OnStack, Top
  <1>9. /\ ctx' = [q \in Threads |-> ctx'[q]] /\ ctx'[current] = saved
        /\ \A q \in Threads \ {current} : ctx'[q] = ctx[q]
    BY <1>1, <1>2 DEF Shapes
  <1>10. /\ status' = [p \in Procs |-> status'[p]] /\ status'[current] = s
         /\ \A p \in Procs \ {current} : status'[p] = status[p]
    BY DEF Shapes
  <1>11. Shapes'
    BY <1>1, <1>3, <1>7, <1>9, <1>10 DEF Shapes, Threads
  <1>12. ASSUME NEW p \in Procs, status'[p] = "RUNNABLE"
         PROVE  SavedFor(p)' /\ Resumes(p)'
    <2>1. CASE p = current
      <3>1. d = 0 /\ SavedFor(p) /\ s = "RUNNABLE"
            /\ <<code>> \in {<<"usertrapret">>, <<"syscall_returns">>, <<"wait">>}
        BY <2>1, <1>10, <1>12
      <3>2. stack'[p][1] = <<code>> /\ ctx'[p] = saved /\ d + 1 = 1
        BY <3>1, <2>1, <1>3, <1>9
      <3> QED
        BY <3>1, <3>2, <2>1, <1>1, <1>4 DEF SavedFor, Resumes
    <2>2. CASE p # current
      <3>1. status[p] = "RUNNABLE" /\ p \in Threads
        BY <2>2, <1>10, <1>12 DEF Threads
      <3>2. SavedFor(p) /\ Resumes(p)
        BY <3>1 DEF Others
      <3>3. Keeps(p)
        BY <2>2, <3>1, <1>1, <1>3, <1>9 DEF Keeps
      <3> QED
        BY <3>2, <3>3 DEF Keeps, SavedFor, Resumes
    <2> QED
      BY <2>1, <2>2
  <1>13. \A p \in Procs : status'[p] # "RUNNING" /\ p # Idle
    BY <1>10, TrapAssumption DEF Others
  <1>14. Others'
    BY <1>1, <1>2, <1>12, <1>13 DEF Others, Threads
  <1> QED
    BY <1>8, <1>11, <1>14 DEF TrapInv, CpuInv

LEMMA YieldKeeps ==
  ASSUME TrapInv, yield \/ CallYields \/ WaitYields
  PROVE  TrapInv'
  <1>1. InHandler /\ Shapes /\ Others
    BY WhereHandler DEF TrapInv, yield, CallYields, WaitYields
  <1>2. /\ InKernel /\ cpu.sie = FALSE /\ cpu.stvec = <<"kernelvec">> /\ current \in Procs
        /\ OnStack(0) /\ SavedFor(current)
    BY <1>1 DEF InHandler, At, yield, CallYields, WaitYields
  <1>3. status' = [status EXCEPT ![current] = "RUNNABLE"]
    BY DEF yield, CallYields, WaitYields, Ready
  <1>4. sched("usertrapret") \/ sched("syscall_returns") \/ sched("wait")
    BY DEF yield, CallYields, WaitYields
  <1> QED
    BY <1>1, <1>2, <1>3, <1>4, SchedKeeps

LEMMA ExitKeeps ==
  ASSUME TrapInv, exit
  PROVE  TrapInv'
  <1>1. AtExit /\ Shapes /\ Others
    BY WhereExit DEF TrapInv, exit
  <1>2. PICK d \in {0, 1} : OnStack(d)
    BY <1>1 DEF AtExit
  <1> DEFINE s == IF parent[current] # Idle THEN "ZOMBIE" ELSE "UNUSED"
  <1>3. status' = [status EXCEPT ![current] = s] /\ sched("exit")
    BY DEF exit
  <1>4. s # "RUNNING" /\ s # "RUNNABLE"
    OBVIOUS
  <1>5. InKernel /\ cpu.sie = FALSE /\ cpu.stvec = <<"kernelvec">> /\ current \in Procs
    BY <1>1 DEF AtExit
  <1> HIDE DEF s
  <1> QED
    BY <1>1, <1>2, <1>3, <1>4, <1>5, SchedKeeps

LEMMA SchedReturnsKeeps ==
  ASSUME TrapInv, schedReturns
  PROVE  TrapInv'
  <1> DEFINE regs == [Compiled(cpu.regs, current) EXCEPT !.s0 = cpu.regs.s0, !.sp = Addr(current, 0)]
             code == stack[current][1]
  <1>1. InHandler /\ Shapes /\ Others
    BY WhereHandler DEF TrapInv, schedReturns
  <1>2. /\ InKernel /\ cpu.sie = FALSE /\ cpu.stvec = <<"kernelvec">> /\ current \in Procs
        /\ OnStack(1) /\ SavedFor(current) /\ cpu.regs.s0 = <<"C", current, "s0">> /\ IsCpu(cpu)
        /\ code \in {<<"usertrapret">>, <<"syscall_returns">>, <<"wait">>}
    BY <1>1 DEF InHandler, At, schedReturns, Shapes
  <1>3. Owner = current /\ Depth = 1 /\ Higher = Addr(current, 0)
    BY <1>2 DEF Owner, Depth, Higher, OnStack, Addr
  <1>4. /\ cpu' = [cpu EXCEPT !.pc = code, !.regs = regs]
        /\ UNCHANGED <<tf, ctx, stack, status, parent, current, busy, due>>
    BY <1>3 DEF schedReturns, procs
  <1>5. /\ IsRegs(regs) /\ regs.sp = Addr(current, 0) /\ regs.tp = cpu.regs.tp
        /\ regs.s0 = <<"C", current, "s0">>
    BY <1>2 DEF Compiled, IsRegs, Regs
  <1> HIDE DEF regs, code
  <1>6. /\ IsCpu(cpu') /\ cpu'.regs = regs /\ cpu'.pc = code /\ cpu'.mode = cpu.mode
        /\ cpu'.satp = cpu.satp /\ cpu'.stvec = cpu.stvec /\ cpu'.sie = cpu.sie
    BY <1>2, <1>4, <1>5 DEF IsCpu
  <1>7. Shapes'
    BY <1>1, <1>4, <1>6 DEF Shapes, Threads
  <1>8. Others'
    BY <1>1, <1>4, OthersKept DEF Keeps
  <1>9. InHandler'
    BY <1>2, <1>4, <1>5, <1>6 DEF InHandler, InKernel, OnStack, SavedFor
  <1> QED
    BY <1>7, <1>8, <1>9 DEF TrapInv, CpuInv

LEMMA SchedulerKeeps ==
  ASSUME TrapInv, NEW p \in Procs, scheduler(p)
  PROVE  TrapInv'
  <1> DEFINE regs == [Compiled(cpu.regs, Idle) EXCEPT !.ra = <<"scheduler">>]
             saved == [r \in Callee |-> regs[r]]
             new == [r \in Regs |-> IF r \in Callee THEN ctx[p][r] ELSE regs[r]]
  <1>1. InScheduler /\ Shapes /\ Others
    BY WhereScheduler DEF TrapInv, scheduler
  <1>2. /\ status[p] = "RUNNABLE" /\ status' = [status EXCEPT ![p] = "RUNNING"] /\ current' = p
        /\ ctx' = [ctx EXCEPT ![Idle] = saved]
        /\ cpu' = [cpu EXCEPT !.regs = new, !.pc = ctx[p].ra]
        /\ UNCHANGED <<tf, stack, parent, busy, due>>
    BY DEF scheduler, swtch
  <1>3. /\ IsCpu(cpu) /\ InKernel /\ cpu.sie = FALSE /\ cpu.stvec = <<"kernelvec">>
        /\ current = Idle /\ cpu.regs.sp = Top(Idle) /\ p # Idle
    BY <1>1, TrapAssumption DEF InScheduler, Shapes, OnStack, Top
  <1>4. saved.ra = <<"scheduler">> /\ saved.sp = Top(Idle)
    <2>1. regs.ra = <<"scheduler">> /\ regs.sp = Top(Idle)
      BY <1>3 DEF Compiled, Regs
    <2> HIDE DEF regs
    <2> QED
      BY <2>1 DEF Callee
  <1>5. /\ IsRegs(new) /\ new.sp = ctx[p].sp /\ new.s0 = ctx[p].s0 /\ new.tp = cpu.regs.tp
    <2>1. regs.tp = cpu.regs.tp
      BY DEF Compiled, Regs
    <2> HIDE DEF regs
    <2> QED
      BY <2>1 DEF IsRegs, Regs, Callee
  <1> HIDE DEF saved, new
  <1>6. /\ IsCpu(cpu') /\ cpu'.regs = new /\ cpu'.pc = ctx[p].ra /\ cpu'.mode = cpu.mode
        /\ cpu'.satp = cpu.satp /\ cpu'.stvec = cpu.stvec /\ cpu'.sie = cpu.sie
    BY <1>2, <1>3, <1>5 DEF IsCpu
  <1>7. /\ ctx' = [q \in Threads |-> ctx'[q]] /\ ctx'[Idle] = saved
        /\ \A q \in Procs : ctx'[q] = ctx[q]
    BY <1>1, <1>2, TrapAssumption DEF Shapes, Threads
  <1>8. /\ status' = [q \in Procs |-> status'[q]] /\ status'[p] = "RUNNING"
        /\ \A q \in Procs \ {p} : status'[q] = status[q]
    BY <1>1, <1>2 DEF Shapes
  <1>9. Shapes'
    BY <1>1, <1>2, <1>6, <1>7, <1>8 DEF Shapes, Threads
  <1>10. \A q \in Procs : SavedFor(q) /\ Resumes(q) => SavedFor(q)' /\ Resumes(q)'
    BY <1>2, <1>7 DEF SavedFor, Resumes
  <1>11. Others'
    <2>1. \A q \in Procs : status'[q] = "RUNNING" <=> q = p
      BY <1>1, <1>3, <1>8, TrapAssumption DEF Others
    <2>2. \A q \in Procs : status'[q] = "RUNNABLE" => SavedFor(q)' /\ Resumes(q)'
      BY <1>1, <1>8, <1>10 DEF Others
    <2> QED
      BY <2>1, <2>2, <1>2, <1>4, <1>7 DEF Others, Threads
  <1>12. SavedFor(p) /\ Resumes(p)
    BY <1>1, <1>2 DEF Others
  <1>13. SavedFor(current)'
    BY <1>2, <1>10, <1>12 DEF SavedFor
  <1>14. InHandler'
    <2>1. /\ InKernel' /\ cpu'.sie = FALSE /\ cpu'.stvec = <<"kernelvec">> /\ current' \in Procs
          /\ SavedFor(current)'
      BY <1>2, <1>3, <1>5, <1>6, <1>13 DEF InKernel
    <2>2. CASE ctx[p].ra = <<"usertrapret">> /\ ctx[p].sp = Top(p)
      <3>1. cpu'.pc = <<"usertrapret">> /\ OnStack(0)'
        BY <2>2, <1>2, <1>5, <1>6 DEF OnStack, Top
      <3> QED
        BY <2>1, <3>1 DEF InHandler
    <2>3. CASE /\ ctx[p].ra = <<"sched">> /\ ctx[p].sp = Addr(p, 1) /\ ctx[p].s0 = <<"C", p, "s0">>
               /\ stack[p][1] \in {<<"usertrapret">>, <<"syscall_returns">>, <<"wait">>}
      <3>1. /\ cpu'.pc = <<"sched">> /\ OnStack(1)' /\ cpu'.regs.s0 = <<"C", current', "s0">>
            /\ stack'[current'][1] \in {<<"usertrapret">>, <<"syscall_returns">>, <<"wait">>}
        BY <2>3, <1>2, <1>5, <1>6 DEF OnStack
      <3> QED
        BY <2>1, <3>1 DEF InHandler
    <2> QED
      BY <2>2, <2>3, <1>12 DEF Resumes
  <1> QED
    BY <1>9, <1>11, <1>14 DEF TrapInv, CpuInv

(***************************************************************************)
(* New processes and system calls.                                         *)
(***************************************************************************)
LEMMA AllocprocResumes ==
  ASSUME Shapes, NEW p \in Procs, allocproc(p)
  PROVE  /\ ctx' = [q \in Threads |-> ctx'[q]] /\ stack' = [q \in Threads |-> stack'[q]]
         /\ Resumes(p)' /\ ctx'[Idle] = ctx[Idle]
         /\ \A q \in Procs \ {p} : ctx'[q] = ctx[q] /\ stack'[q] = stack[q]
  <1> DEFINE c == [NoContext EXCEPT !.ra = <<"usertrapret">>, !.sp = Top(p)]
  <1>1. ctx' = [ctx EXCEPT ![p] = c] /\ stack' = [stack EXCEPT ![p] = <<>>]
    BY DEF allocproc
  <1>2. c.ra = <<"usertrapret">> /\ c.sp = Top(p)
    BY DEF NoContext, Callee
  <1> HIDE DEF c
  <1>3. /\ ctx' = [q \in Threads |-> ctx'[q]] /\ stack' = [q \in Threads |-> stack'[q]]
        /\ ctx'[p] = c /\ ctx'[Idle] = ctx[Idle]
        /\ \A q \in Procs \ {p} : ctx'[q] = ctx[q] /\ stack'[q] = stack[q]
    BY <1>1, TrapAssumption DEF Shapes, Threads
  <1> QED
    BY <1>2, <1>3 DEF Resumes

LEMMA LoadedFrame ==
  /\ IsFrame(ZeroFrame) /\ IsFrame(Loaded)
  /\ IsDue(Finds(ZeroFrame)) /\ IsDue(Finds(Loaded))
  /\ UserPc(ZeroFrame.epc) /\ UserPc(Loaded.epc)
  <1>1. IsFrame(ZeroFrame) /\ UserPc(ZeroFrame.epc)
    BY DEF IsFrame, IsRegs, ZeroFrame, UserPc
  <1>2. Loaded = [ZeroFrame EXCEPT !.epc = <<"user", 0>>,
                                   !.regs = [ZeroFrame.regs EXCEPT !.sp = <<"ustack">>]]
    BY <1>1 DEF Loaded, IsFrame
  <1>3. IsFrame(Loaded) /\ UserPc(Loaded.epc)
    <2>1. IsRegs([ZeroFrame.regs EXCEPT !.sp = <<"ustack">>])
      BY <1>1 DEF IsFrame, IsRegs
    <2>2. /\ IsFrame(Loaded) /\ Loaded.epc = <<"user", 0>>
      BY <2>1, <1>1, <1>2 DEF IsFrame
    <2> QED
      BY <2>2 DEF UserPc
  <1> QED
    BY <1>1, <1>3 DEF IsFrame, IsDue, Finds

\* A new process gets the trap frame f, with the registers and the pc of d.
LEMMA NewProcess ==
  ASSUME Shapes, Others, NEW np \in Procs, allocproc(np), NEW f, NEW d,
         IsFrame(f), IsDue(d), f.regs = d.regs, f.epc = d.pc, UserPc(d.pc),
         tf' = [tf EXCEPT ![np] = f], due' = [due EXCEPT ![np] = d],
         status' = Ready(np), current' = current, IsCpu(cpu')
  PROVE  Shapes' /\ Others' /\ np # current /\ (current \in Procs => tf'[current] = tf[current] /\ due'[current] = due[current])
  <1>1. np # current
    BY DEF allocproc, Others
  <1>2. /\ ctx' = [q \in Threads |-> ctx'[q]] /\ stack' = [q \in Threads |-> stack'[q]]
        /\ Resumes(np)' /\ ctx'[Idle] = ctx[Idle]
        /\ \A q \in Procs \ {np} : ctx'[q] = ctx[q] /\ stack'[q] = stack[q]
    BY AllocprocResumes
  <1>3. /\ tf' = [q \in Procs |-> tf'[q]] /\ \A q \in Procs : IsFrame(tf'[q])
        /\ tf'[np] = f /\ \A q \in Procs \ {np} : tf'[q] = tf[q]
    BY FrameUpdate
  <1>4. /\ due' = [q \in Procs |-> due'[q]] /\ \A q \in Procs : IsDue(due'[q])
        /\ due'[np] = d /\ \A q \in Procs \ {np} : due'[q] = due[q]
    BY DueUpdate
  <1>5. status' = [q \in Procs |-> status'[q]]
    BY DEF Ready, Shapes
  <1>6. Shapes'
    BY <1>2, <1>3, <1>4, <1>5 DEF Shapes, Threads
  <1>7. SavedFor(np)'
    BY <1>3, <1>4 DEF SavedFor
  <1>8. \A q \in Procs \ {current, np} : Keeps(q)
    BY <1>2, <1>3, <1>4 DEF Keeps
  <1>9. status = [q \in Procs |-> status[q]]
    BY DEF Shapes
  <1>10. Others'
    BY <1>1, <1>2, <1>7, <1>8, <1>9, OthersAndNew
  <1> QED
    BY <1>1, <1>3, <1>4, <1>6, <1>10

LEMMA RunAllAppKeeps ==
  ASSUME TrapInv, NEW p \in Procs, run_all_app(p)
  PROVE  TrapInv'
  <1>1. InScheduler /\ Shapes /\ Others
    BY WhereScheduler DEF TrapInv, run_all_app
  <1>2. /\ allocproc(p) /\ tf' = [tf EXCEPT ![p] = Loaded] /\ due' = [due EXCEPT ![p] = Finds(Loaded)]
        /\ status' = Ready(p) /\ cpu' = [cpu EXCEPT !.pc = <<"scheduler">>] /\ current' = current
    BY DEF run_all_app
  <1>3. /\ IsCpu(cpu') /\ cpu'.regs = cpu.regs /\ cpu'.pc = <<"scheduler">> /\ cpu'.mode = cpu.mode
        /\ cpu'.satp = cpu.satp /\ cpu'.stvec = cpu.stvec /\ cpu'.sie = cpu.sie
    BY <1>1, <1>2 DEF Shapes, IsCpu
  <1>4. Finds(Loaded).regs = Loaded.regs /\ Finds(Loaded).pc = Loaded.epc
    BY DEF Finds
  <1>5. Shapes' /\ Others'
    BY <1>1, <1>2, <1>3, <1>4, LoadedFrame, NewProcess
  <1>6. InScheduler'
    BY <1>1, <1>2, <1>3 DEF InScheduler, InKernel, OnStack
  <1> QED
    BY <1>5, <1>6 DEF TrapInv, CpuInv

\* A call that goes on in the kernel.
LEMMA GoOnCpu ==
  ASSUME IsCpu(cpu), NEW code, GoOn(code)
  PROVE  /\ IsCpu(cpu') /\ cpu'.pc = <<code>> /\ cpu'.regs = Compiled(cpu.regs, current)
         /\ cpu'.mode = cpu.mode /\ cpu'.satp = cpu.satp /\ cpu'.stvec = cpu.stvec
         /\ cpu'.sie = cpu.sie
  BY CompiledRegs DEF GoOn, IsCpu

LEMMA GoOnInHandler ==
  ASSUME Shapes, InHandler, OnStack(0), current' = current, SavedFor(current)',
         NEW code \in {"usertrapret", "syscall_returns", "wait"}, GoOn(code)
  PROVE  InHandler' /\ IsCpu(cpu')
  <1>1. /\ IsCpu(cpu') /\ cpu'.pc = <<code>> /\ cpu'.regs = Compiled(cpu.regs, current)
        /\ cpu'.mode = cpu.mode /\ cpu'.satp = cpu.satp /\ cpu'.stvec = cpu.stvec
        /\ cpu'.sie = cpu.sie
    BY GoOnCpu DEF Shapes
  <1>2. /\ cpu'.regs.sp = cpu.regs.sp /\ cpu'.regs.tp = cpu.regs.tp
        /\ cpu'.regs.s0 = <<"C", current', "s0">>
    BY <1>1, CompiledRegs
  <1>3. /\ InKernel' /\ OnStack(0)' /\ cpu'.sie = FALSE /\ cpu'.stvec = <<"kernelvec">>
        /\ current' \in Procs
    BY <1>1, <1>2 DEF InHandler, InKernel, OnStack
  <1> QED
    BY <1>1, <1>2, <1>3 DEF InHandler

LEMMA CallGoesOnKeeps ==
  ASSUME TrapInv, CallGoesOn
  PROVE  TrapInv'
  <1>1. InHandler /\ Shapes /\ Others
    BY WhereHandler DEF TrapInv, CallGoesOn
  <1>2. PICK code \in {"syscall_returns", "wait", "exit"} : GoOn(code)
    BY DEF CallGoesOn
  <1>3. /\ UNCHANGED <<tf, ctx, stack, status, parent, current, busy, due>>
        /\ OnStack(0) /\ SavedFor(current) /\ current \in Procs
    BY <1>1 DEF CallGoesOn, procs, InHandler, At
  <1>4. SavedFor(current)'
    BY <1>3 DEF SavedFor
  <1>5. /\ IsCpu(cpu') /\ cpu'.pc = <<code>> /\ cpu'.regs = Compiled(cpu.regs, current)
        /\ cpu'.mode = cpu.mode /\ cpu'.satp = cpu.satp /\ cpu'.stvec = cpu.stvec
        /\ cpu'.sie = cpu.sie
    BY <1>1, <1>2, GoOnCpu DEF Shapes
  <1>6. Shapes'
    BY <1>1, <1>3, <1>5 DEF Shapes, Threads
  <1>7. Others'
    BY <1>1, <1>3, OthersKept DEF Keeps
  <1>8. CASE code = "exit"
    <2>1. AtExit'
      BY <1>8, <1>1, <1>3, <1>5, CompiledRegs DEF AtExit, InHandler, InKernel, OnStack
    <2> QED
      BY <1>6, <1>7, <2>1 DEF TrapInv, CpuInv
  <1>9. CASE code # "exit"
    <2>1. InHandler'
      BY <1>9, <1>1, <1>2, <1>3, <1>4, GoOnInHandler
    <2> QED
      BY <1>6, <1>7, <2>1 DEF TrapInv, CpuInv
  <1> QED
    BY <1>8, <1>9

LEMMA ForkKeeps ==
  ASSUME TrapInv, NEW np \in Procs, fork(np)
  PROVE  TrapInv'
  <1> DEFINE f == ChildFrame(tf[current])
             d == [due[current] EXCEPT !.regs.a0 = Zero]
  <1>1. InHandler /\ Shapes /\ Others
    BY WhereHandler DEF TrapInv, fork
  <1>2. /\ current \in Procs /\ OnStack(0) /\ SavedFor(current)
        /\ IsFrame(tf[current]) /\ IsDue(due[current])
    BY <1>1 DEF InHandler, At, fork, Shapes
  <1>3. /\ allocproc(np) /\ tf' = [tf EXCEPT ![np] = f] /\ due' = [due EXCEPT ![np] = d]
        /\ status' = Ready(np) /\ GoOn("syscall_returns") /\ current' = current
    BY DEF fork
  <1>4. /\ f = [tf[current] EXCEPT !.regs = [tf[current].regs EXCEPT !.a0 = Zero]]
        /\ d = [due[current] EXCEPT !.regs = [due[current].regs EXCEPT !.a0 = Zero]]
    BY <1>2 DEF ChildFrame, IsFrame, IsDue
  <1>5. IsFrame(f) /\ f.epc = tf[current].epc /\ f.regs = [tf[current].regs EXCEPT !.a0 = Zero]
    <2> DEFINE t == tf[current]
               g == [t.regs EXCEPT !.a0 = Zero]
    <2>1. IsRegs(g) /\ IsFrame(t) /\ f = [t EXCEPT !.regs = g]
      BY <1>2, <1>4 DEF IsFrame, IsRegs
    <2> HIDE DEF f, g, t
    <2>2. IsFrame(f) /\ f.epc = t.epc /\ f.regs = g
      BY <2>1 DEF IsFrame
    <2> QED
      BY <2>2 DEF g, t
  <1>6. IsDue(d) /\ d.pc = due[current].pc /\ d.regs = [due[current].regs EXCEPT !.a0 = Zero]
    <2> DEFINE t == due[current]
               g == [t.regs EXCEPT !.a0 = Zero]
    <2>1. IsRegs(g) /\ IsDue(t) /\ d = [t EXCEPT !.regs = g]
      BY <1>2, <1>4 DEF IsDue, IsRegs
    <2> HIDE DEF d, g, t
    <2>2. IsDue(d) /\ d.pc = t.pc /\ d.regs = g
      BY <2>1 DEF IsDue
    <2> QED
      BY <2>2 DEF g, t
  <1> HIDE DEF f, d
  <1>7. f.regs = d.regs /\ f.epc = d.pc /\ UserPc(d.pc)
    BY <1>2, <1>5, <1>6 DEF SavedFor
  <1>8. IsCpu(cpu')
    BY <1>1, <1>3, GoOnCpu DEF Shapes
  <1>9. Shapes' /\ Others' /\ tf'[current] = tf[current] /\ due'[current] = due[current]
    BY <1>1, <1>2, <1>3, <1>5, <1>6, <1>7, <1>8, NewProcess
  <1>10. SavedFor(current)'
    BY <1>2, <1>3, <1>9 DEF SavedFor
  <1>11. InHandler'
    BY <1>1, <1>2, <1>3, <1>10, GoOnInHandler
  <1> QED
    BY <1>9, <1>11 DEF TrapInv, CpuInv

LEMMA SpawnKeeps ==
  ASSUME TrapInv, NEW np \in Procs, spawn(np)
  PROVE  TrapInv'
  <1>1. InHandler /\ Shapes /\ Others
    BY WhereHandler DEF TrapInv, spawn
  <1>2. current \in Procs /\ OnStack(0) /\ SavedFor(current)
    BY <1>1 DEF InHandler, At, spawn
  <1>3. /\ allocproc(np) /\ status' = Ready(np) /\ GoOn("syscall_returns") /\ current' = current
    BY DEF spawn
  <1>4. PICK f \in {Loaded, ZeroFrame} :
          tf' = [tf EXCEPT ![np] = f] /\ due' = [due EXCEPT ![np] = Finds(f)]
    BY DEF spawn
  <1>5. Finds(f).regs = f.regs /\ Finds(f).pc = f.epc
    BY DEF Finds
  <1>6. IsFrame(f) /\ IsDue(Finds(f)) /\ UserPc(Finds(f).pc)
    BY <1>4, <1>5, LoadedFrame
  <1>7. IsCpu(cpu')
    BY <1>1, <1>3, GoOnCpu DEF Shapes
  <1>8. Shapes' /\ Others' /\ tf'[current] = tf[current] /\ due'[current] = due[current]
    BY <1>1, <1>2, <1>3, <1>4, <1>5, <1>6, <1>7, NewProcess
  <1>9. SavedFor(current)'
    BY <1>2, <1>3, <1>8 DEF SavedFor
  <1>10. InHandler'
    BY <1>1, <1>2, <1>3, <1>9, GoOnInHandler
  <1> QED
    BY <1>8, <1>10 DEF TrapInv, CpuInv

LEMMA ExecKeeps ==
  ASSUME TrapInv, exec
  PROVE  TrapInv'
  <1>1. InHandler /\ Shapes /\ Others
    BY WhereHandler DEF TrapInv, exec
  <1>2. current \in Procs /\ OnStack(0)
    BY <1>1 DEF InHandler, At, exec
  <1>3. /\ tf' = [tf EXCEPT ![current] = Loaded] /\ due' = [due EXCEPT ![current] = Finds(Loaded)]
        /\ GoOn("syscall_returns") /\ UNCHANGED <<ctx, stack, status, current>>
    BY DEF exec, procs
  <1>4. Finds(Loaded).regs = Loaded.regs /\ Finds(Loaded).pc = Loaded.epc
    BY DEF Finds
  <1>5. /\ tf' = [q \in Procs |-> tf'[q]] /\ \A q \in Procs : IsFrame(tf'[q])
        /\ tf'[current] = Loaded /\ \A q \in Procs \ {current} : tf'[q] = tf[q]
    BY <1>1, <1>2, <1>3, LoadedFrame, FrameUpdate
  <1>6. /\ due' = [q \in Procs |-> due'[q]] /\ \A q \in Procs : IsDue(due'[q])
        /\ due'[current] = Finds(Loaded) /\ \A q \in Procs \ {current} : due'[q] = due[q]
    BY <1>1, <1>2, <1>3, LoadedFrame, DueUpdate
  <1>7. SavedFor(current)'
    BY <1>3, <1>4, <1>5, <1>6, LoadedFrame DEF SavedFor
  <1>8. InHandler' /\ IsCpu(cpu')
    BY <1>1, <1>2, <1>3, <1>7, GoOnInHandler
  <1>9. Shapes'
    BY <1>1, <1>3, <1>5, <1>6, <1>8 DEF Shapes, Threads
  <1>10. Others'
    BY <1>1, <1>3, <1>5, <1>6, OthersKept DEF Keeps
  <1> QED
    BY <1>8, <1>9, <1>10 DEF TrapInv, CpuInv

LEMMA CallReturnsKeeps ==
  ASSUME TrapInv, CallReturns
  PROVE  TrapInv'
  <1> DEFINE t == tf[current]
             d == due[current]
             f == [t EXCEPT !.regs = [t.regs EXCEPT !.a0 = Returned]]
             e == [d EXCEPT !.regs = [d.regs EXCEPT !.a0 = Returned]]
  <1>1. InHandler /\ Shapes /\ Others
    BY WhereHandler DEF TrapInv, CallReturns
  <1>2. /\ current \in Procs /\ OnStack(0) /\ SavedFor(current) /\ IsFrame(t) /\ IsDue(d)
    BY <1>1 DEF InHandler, At, CallReturns, Shapes
  <1>3. /\ tf' = [tf EXCEPT ![current] = f] /\ due' = [due EXCEPT ![current] = e]
    <2>1. /\ tf' = [tf EXCEPT ![current].regs.a0 = Returned]
          /\ due' = [due EXCEPT ![current].regs.a0 = Returned]
      BY DEF CallReturns
    <2> QED
      BY <2>1
  <1>4. GoOn("usertrapret") /\ UNCHANGED <<ctx, stack, status, current>>
    BY DEF CallReturns, procs
  <1>5. IsRegs([t.regs EXCEPT !.a0 = Returned]) /\ IsRegs([d.regs EXCEPT !.a0 = Returned])
    BY <1>2 DEF IsFrame, IsDue, IsRegs
  <1>6. t.regs = d.regs /\ t.epc = d.pc /\ UserPc(d.pc)
    BY <1>2 DEF SavedFor
  <1>7. /\ IsFrame(f) /\ f.regs = [t.regs EXCEPT !.a0 = Returned] /\ f.epc = t.epc
    <2> DEFINE g == [t.regs EXCEPT !.a0 = Returned]
    <2> HIDE DEF t, g
    <2>1. IsFrame([t EXCEPT !.regs = g]) /\ [t EXCEPT !.regs = g].regs = g
          /\ [t EXCEPT !.regs = g].epc = t.epc
      BY <1>2, <1>5 DEF IsFrame, g
    <2> QED
      BY <2>1 DEF g
  <1>8. /\ IsDue(e) /\ e.regs = [d.regs EXCEPT !.a0 = Returned] /\ e.pc = d.pc
    <2> DEFINE g == [d.regs EXCEPT !.a0 = Returned]
    <2> HIDE DEF d, g
    <2>1. IsDue([d EXCEPT !.regs = g]) /\ [d EXCEPT !.regs = g].regs = g
          /\ [d EXCEPT !.regs = g].pc = d.pc
      BY <1>2, <1>5 DEF IsDue, g
    <2> QED
      BY <2>1 DEF g
  <1> HIDE DEF t, d, e, f
  <1>9. /\ tf' = [q \in Procs |-> tf'[q]] /\ \A q \in Procs : IsFrame(tf'[q])
        /\ tf'[current] = f /\ \A q \in Procs \ {current} : tf'[q] = tf[q]
    BY <1>1, <1>2, <1>3, <1>7, FrameUpdate
  <1>10. /\ due' = [q \in Procs |-> due'[q]] /\ \A q \in Procs : IsDue(due'[q])
         /\ due'[current] = e /\ \A q \in Procs \ {current} : due'[q] = due[q]
    BY <1>1, <1>2, <1>3, <1>8, DueUpdate
  <1>11. SavedFor(current)'
    BY <1>4, <1>6, <1>7, <1>8, <1>9, <1>10 DEF SavedFor
  <1>12. InHandler' /\ IsCpu(cpu')
    BY <1>1, <1>2, <1>4, <1>11, GoOnInHandler
  <1>13. Shapes'
    BY <1>1, <1>4, <1>9, <1>10, <1>12 DEF Shapes, Threads
  <1>14. Others'
    BY <1>1, <1>4, <1>9, <1>10, OthersKept DEF Keeps
  <1> QED
    BY <1>12, <1>13, <1>14 DEF TrapInv, CpuInv

LEMMA CallDiskKeeps ==
  ASSUME TrapInv, CallDisk
  PROVE  TrapInv'
  <1> DEFINE regs == Compiled(cpu.regs, current)
  <1>1. InHandler /\ Shapes /\ Others
    BY WhereHandler DEF TrapInv, CallDisk
  <1>2. /\ cpu' = [cpu EXCEPT !.pc = <<"disk">>, !.regs = regs, !.sie = TRUE]
        /\ UNCHANGED <<tf, ctx, stack, status, parent, current, due>>
        /\ OnStack(0) /\ SavedFor(current) /\ InKernel /\ cpu.stvec = <<"kernelvec">>
    BY <1>1 DEF CallDisk, procs, InHandler, At
  <1>3. /\ IsRegs(regs) /\ regs.sp = cpu.regs.sp /\ regs.tp = cpu.regs.tp
        /\ regs = Compiled(regs, current)
    BY CompiledRegs
  <1> HIDE DEF regs
  <1>4. /\ IsCpu(cpu') /\ cpu'.regs = regs /\ cpu'.pc = <<"disk">> /\ cpu'.mode = cpu.mode
        /\ cpu'.stvec = cpu.stvec /\ cpu'.satp = cpu.satp /\ cpu'.sie = TRUE
    BY <1>1, <1>2, <1>3 DEF IsCpu, Shapes
  <1>5. Shapes'
    BY <1>1, <1>2, <1>4 DEF Shapes, Threads
  <1>6. Others'
    BY <1>1, <1>2, OthersKept DEF Keeps
  <1>7. AtDisk'
    BY <1>2, <1>3, <1>4 DEF AtDisk, InKernel, OnStack, SavedFor
  <1> QED
    BY <1>5, <1>6, <1>7 DEF TrapInv, CpuInv

LEMMA DiskReturnsKeeps ==
  ASSUME TrapInv, DiskReturns
  PROVE  TrapInv'
  <1> DEFINE code == IF current = Idle THEN <<"run_all_app">> ELSE <<"syscall_returns">>
  <1>1. AtDisk /\ Shapes /\ Others
    BY WhereDisk DEF TrapInv, DiskReturns
  <1>2. /\ cpu' = [intr_off(cpu) EXCEPT !.pc = code]
        /\ UNCHANGED <<tf, ctx, stack, status, parent, current, busy, due>>
    BY DEF DiskReturns, procs
  <1> HIDE DEF code
  <1>3. /\ IsCpu(cpu') /\ cpu'.regs = cpu.regs /\ cpu'.pc = code /\ cpu'.mode = cpu.mode
        /\ cpu'.stvec = cpu.stvec /\ cpu'.satp = cpu.satp /\ cpu'.sie = FALSE
    BY <1>1, <1>2 DEF IsCpu, Shapes, intr_off
  <1>4. Shapes'
    BY <1>1, <1>2, <1>3 DEF Shapes, Threads
  <1>5. Others'
    BY <1>1, <1>2, OthersKept DEF Keeps
  <1>6. cpu.regs.s0 = <<"C", current, "s0">>
    BY <1>1 DEF AtDisk, Compiled, Regs
  <1>7. InKernel' /\ OnStack(0)' /\ cpu'.sie = FALSE /\ cpu'.stvec = <<"kernelvec">>
    BY <1>1, <1>2, <1>3 DEF AtDisk, InKernel, OnStack
  <1>8. CASE current = Idle
    <2>1. InScheduler'
      BY <1>8, <1>2, <1>3, <1>7 DEF InScheduler, code
    <2> QED
      BY <1>4, <1>5, <2>1 DEF TrapInv, CpuInv
  <1>9. CASE current # Idle
    <2>1. current \in Procs /\ SavedFor(current)
      BY <1>1, <1>9 DEF Others, Threads, AtDisk
    <2>2. SavedFor(current)' /\ cpu'.pc = <<"syscall_returns">>
      BY <2>1, <1>2, <1>3, <1>9 DEF SavedFor, code
    <2>3. InHandler'
      BY <2>1, <2>2, <1>2, <1>3, <1>6, <1>7 DEF InHandler
    <2> QED
      BY <1>4, <1>5, <2>3 DEF TrapInv, CpuInv
  <1> QED
    BY <1>8, <1>9

LEMMA WaitFailsKeeps ==
  ASSUME TrapInv, WaitFails
  PROVE  TrapInv'
  <1>1. InHandler /\ Shapes /\ Others
    BY WhereHandler DEF TrapInv, WaitFails
  <1>2. /\ GoOn("syscall_returns") /\ UNCHANGED <<tf, ctx, stack, status, parent, current, busy, due>>
        /\ OnStack(0) /\ SavedFor(current)
    BY <1>1 DEF WaitFails, procs, InHandler, At
  <1>3. SavedFor(current)'
    BY <1>2 DEF SavedFor
  <1>4. InHandler' /\ IsCpu(cpu')
    BY <1>1, <1>2, <1>3, GoOnInHandler
  <1>5. Shapes'
    BY <1>1, <1>2, <1>4 DEF Shapes, Threads
  <1>6. Others'
    BY <1>1, <1>2, OthersKept DEF Keeps
  <1> QED
    BY <1>4, <1>5, <1>6 DEF TrapInv, CpuInv

LEMMA WaitReapsKeeps ==
  ASSUME TrapInv, NEW k \in Procs, WaitReaps(k)
  PROVE  TrapInv'
  <1>1. InHandler /\ Shapes /\ Others
    BY WhereHandler DEF TrapInv, WaitReaps
  <1>2. /\ UNCHANGED <<tf, ctx, stack, parent, current, busy, due>>
        /\ InKernel /\ OnStack(0) /\ SavedFor(current) /\ current \in Procs
        /\ cpu.stvec = <<"kernelvec">> /\ IsCpu(cpu)
        /\ status[k] = "ZOMBIE" /\ status' = [status EXCEPT ![k] = "UNUSED"]
    BY <1>1 DEF WaitReaps, procs, InHandler, At, Shapes
  <1>3. SavedFor(current)'
    BY <1>2 DEF SavedFor
  <1>4. /\ status' = [q \in Procs |-> status'[q]] /\ status'[k] = "UNUSED"
        /\ \A q \in Procs \ {k} : status'[q] = status[q]
    BY <1>1, <1>2 DEF Shapes
  <1>5. Others'
    <2>1. \A q \in Procs : status'[q] = "RUNNING" <=> q = current
      BY <1>1, <1>2, <1>4 DEF Others
    <2>2. \A q \in Procs : status'[q] = "RUNNABLE" => SavedFor(q)' /\ Resumes(q)'
      BY <1>1, <1>2, <1>4 DEF Others, SavedFor, Resumes
    <2> QED
      BY <2>1, <2>2, <1>1, <1>2 DEF Others, Threads
  <1>6. IsCpu(cpu') => Shapes'
    BY <1>1, <1>2, <1>4 DEF Shapes, Threads
  <1>7. CASE GoOn("syscall_returns")
    <2>1. InHandler' /\ IsCpu(cpu')
      BY <1>7, <1>1, <1>2, <1>3, GoOnInHandler
    <2> QED
      BY <2>1, <1>5, <1>6 DEF TrapInv, CpuInv
  <1>8. CASE cpu' = Enter(cpu, "fault")
    <2>1. /\ IsCpu(cpu') /\ cpu'.regs = cpu.regs /\ cpu'.pc = <<"kernelvec">> /\ cpu'.mode = "S"
          /\ cpu'.satp = cpu.satp /\ cpu'.stvec = cpu.stvec
          /\ cpu'.cause = "fault" /\ cpu'.spp = TRUE /\ cpu'.sie = FALSE
      BY <1>8, <1>2 DEF Enter, IsCpu, InKernel
    <2>2. OfFault'
      BY <2>1, <1>2 DEF OfFault
    <2>3. InTrap'
      BY <2>1, <2>2, <1>2 DEF InTrap, InKernel, OnStack
    <2> QED
      BY <2>1, <2>3, <1>5, <1>6 DEF TrapInv, CpuInv
  <1> QED
    BY <1>7, <1>8 DEF WaitReaps

(***************************************************************************)
(* The theorems.                                                           *)
(***************************************************************************)
LEMMA NextTrapInv == TrapInv /\ [Next]_vars => TrapInv'
  <1> SUFFICES ASSUME TrapInv, [Next]_vars PROVE TrapInv'
    OBVIOUS
  <1>1. ASSUME NEW cause \in Causes, UserTrap(cause) PROVE TrapInv'
    BY <1>1, UserTrapKeeps
  <1>2. ASSUME NEW cause \in {"timer", "external"}, Interrupt(cause) PROVE TrapInv'
    BY <1>2, InterruptKeeps
  <1>3. ASSUME NEW p \in Procs,
               scheduler(p) \/ run_all_app(p) \/ fork(p) \/ spawn(p) \/ WaitReaps(p)
        PROVE  TrapInv'
    BY <1>3, SchedulerKeeps, RunAllAppKeeps, ForkKeeps, SpawnKeeps, WaitReapsKeeps
  <1>4. CASE UNCHANGED vars
    <2>1. UNCHANGED <<cpu, tf, ctx, stack, status, parent, current, busy, due>>
      BY <1>4 DEF vars
    <2>2. Shapes'
      BY <2>1 DEF TrapInv, Shapes, Threads
    <2>3. Others'
      BY <2>1, OthersKept DEF TrapInv, Keeps
    <2>4. CpuInv'
      <3>1. InProgram => InProgram'
        BY <2>1 DEF InProgram, Prepared
      <3>2. AtUservec => AtUservec'
        BY <2>1 DEF AtUservec, Prepared, After
      <3>3. AtUsertrap => AtUsertrap'
        BY <2>1 DEF AtUsertrap, After, InKernel, OnStack
      <3>4. AtUserret => AtUserret'
        BY <2>1 DEF AtUserret, Prepared, SavedFor, InKernel, OnStack
      <3>5. InHandler => InHandler'
        BY <2>1 DEF InHandler, SavedFor, InKernel, OnStack
      <3>6. AtExit => AtExit'
        BY <2>1 DEF AtExit, InKernel, OnStack
      <3>7. InScheduler => InScheduler'
        BY <2>1 DEF InScheduler, InKernel, OnStack
      <3>8. AtDisk => AtDisk'
        BY <2>1 DEF AtDisk, SavedFor, InKernel, OnStack
      <3>9. InTrap => InTrap'
        BY <2>1 DEF InTrap, SavedFor, InKernel, OnStack, OfDisk, OfFault, Pushed
      <3> QED
        BY <3>1, <3>2, <3>3, <3>4, <3>5, <3>6, <3>7, <3>8, <3>9 DEF TrapInv, CpuInv
    <2> QED
      BY <2>2, <2>3, <2>4 DEF TrapInv
  <1> QED
    BY <1>1, <1>2, <1>3, <1>4, UservecKeeps, UserretKeeps, UsertrapKeeps, UsertrapretKeeps,
       KernelvecKeeps, KerneltrapKeeps, KernelretKeeps, SchedReturnsKeeps, YieldKeeps, ExitKeeps,
       CallGoesOnKeeps, ExecKeeps, CallDiskKeeps, DiskReturnsKeeps, WaitFailsKeeps, CallReturnsKeeps
    DEF Next

LEMMA TrapInvHolds == Spec => []TrapInv
  <1> QED
    BY InitTrapInv, NextTrapInv, PTL DEF Spec

LEMMA ProgramFollows == TrapInv => ProgramGoesOn
  <1> SUFFICES ASSUME TrapInv PROVE ProgramGoesOn
    OBVIOUS
  <1>1. cpu.mode = "U" => /\ current \in Procs /\ cpu.satp = <<current>> /\ cpu.sie
                          /\ cpu.pc = due[current].pc /\ cpu.regs = due[current].regs
    BY WhereUser DEF TrapInv, InProgram
  <1>2. cpu.pc[1] = "user" => cpu.mode = "U"
    BY DEF TrapInv, CpuInv, InProgram, AtUservec, AtUsertrap, AtUserret, InHandler, AtExit,
           InScheduler, AtDisk, InTrap
  <1> QED
    BY <1>1, <1>2 DEF ProgramGoesOn

LEMMA KernelFollows == TrapInv => KernelGoesOn
  <1> SUFFICES ASSUME TrapInv PROVE KernelGoesOn
    OBVIOUS
  <1>1. cpu.mode = "S" /\ cpu.pc # <<"uservec">> =>
          InKernel /\ (OnStack(0) \/ OnStack(1))
    BY DEF TrapInv, CpuInv, InProgram, AtUservec, AtUsertrap, AtUserret, InHandler, AtExit,
           InScheduler, AtDisk, InTrap
  <1>2. OnStack(0) \/ OnStack(1) => cpu.regs.sp[1] = "stack" /\ Owner = current
    BY DEF OnStack, Addr, Owner
  <1>3. At("disk") => cpu.regs = Compiled(cpu.regs, current)
    BY WhereDisk DEF TrapInv, AtDisk
  <1>4. cpu.pc[1] \in {"sched", "wait", "syscall_returns"} => cpu.regs.s0 = <<"C", current, "s0">>
    <2>1. InProgram => cpu.pc[1] \in {"zero", "user"}
      BY DEF InProgram, UserPc, Zero
    <2> QED
      BY <2>1 DEF TrapInv, CpuInv, AtUservec, AtUsertrap, AtUserret, InHandler, AtExit,
                  InScheduler, AtDisk, InTrap
  <1> QED
    BY <1>1, <1>2, <1>3, <1>4 DEF KernelGoesOn, InKernel

LEMMA TrapsFollow == TrapInv => TrapsArrive
  <1> SUFFICES ASSUME TrapInv PROVE TrapsArrive
    OBVIOUS
  <1>1. cpu.mode = "S" /\ cpu.sie => At("disk") /\ cpu.stvec = <<"kernelvec">>
    BY WhereInterrupts DEF TrapInv, AtDisk, At
  <1>2. cpu.pc \notin {<<"fault">>, <<"panic">>}
    BY UserPcIsElsewhere DEF TrapInv, CpuInv, InProgram, AtUservec, AtUsertrap, AtUserret,
       InHandler,
       AtExit, InScheduler, AtDisk, InTrap
  <1> QED
    BY <1>1, <1>2 DEF TrapsArrive

\* A program that was interrupted anywhere goes on in user mode, in its own
\* memory, with interrupts on, at its instruction and with its registers:
\* uservec and userret in trampoline.S, usertrap and usertrapret in trap.c, and
\* everything that runs between them.
THEOREM ProgramGoesOnHolds == Spec => []ProgramGoesOn
  <1> QED
    BY TrapInvHolds, ProgramFollows, PTL

\* The kernel runs on the stack of current_proc, in its own memory and with its
\* hart id in tp, and has its registers again after kernelvec and swtch.
THEOREM KernelGoesOnHolds == Spec => []KernelGoesOn
  <1> QED
    BY TrapInvHolds, KernelFollows, PTL

\* The kernel is interrupted only in the wait for the disk, and by way of
\* kernelvec; uservec never misses the trap frame, and the panics of usertrap and
\* kerneltrap about the mode are not reached.
THEOREM TrapsArriveHolds == Spec => []TrapsArrive
  <1> QED
    BY TrapInvHolds, TrapsFollow, PTL
=============================================================================
