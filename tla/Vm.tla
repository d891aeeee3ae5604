--------------------------------- MODULE Vm ---------------------------------
(***************************************************************************)
(* Physical pages and user page tables: kalloc.c, vm.c, and the calls that *)
(* build, copy and free an address space (fork, exec, spawn, exit, mmap    *)
(* and munmap in proc.c, loader.c and syscall.c).                          *)
(*                                                                         *)
(* A page table is a tree of nodes <<h, i>>: <<0, v>> is the entry of page *)
(* v, and above it stand the table pages of heights 1, 2 and 3, the last   *)
(* being the root.  pt[p][n] is what slot p has at node n.                 *)
(*                                                                         *)
(* The kernel is not preempted.  A call that allocates is modelled page by *)
(* page, in the order of the code's loops, and while one is under way (op) *)
(* nothing else happens; what is freed is freed in one step.  kalloc gives *)
(* some free page: which one the list has in front is left open.           *)
(*                                                                         *)
(* The page of slot p's trapframe, which procinit took for good, is called *)
(* p.  Ranges are not bounded, except that mmap and munmap compute with    *)
(* 64 bits, and mmap's page counter with 32: ranges that wrap around, or   *)
(* of 2 GiB and more, are not modelled.                                    *)
(***************************************************************************)
EXTENDS Integers, Sequences

CONSTANTS Procs,    \* slots of the process pool, and their trapframes
          Frames,   \* pages of memory the allocator starts with
          PGSIZE,   \* bytes of a page
          Radix,    \* entries of a table page (512)
          MaxVpn,   \* pages below MAXVA
          Images,   \* sizes, in pages, of the programs that can be loaded
          Maps,     \* the ranges [start, len] programs pass to mmap
          Unmaps,   \* and to munmap
          MaxCalls, \* bound of the model: calls that programs make
          None,     \* an entry that is not valid
          Zero,     \* an entry that maps physical address 0
          Fixed,    \* an entry for the trampoline
          Nobody

Vpns == 0 .. MaxVpn - 1
TRAMPOLINE == MaxVpn - 1
TRAPFRAME == MaxVpn - 2
UserVpns == 0 .. MaxVpn - 3
Ranges == [start : Nat, len : Nat]
FirstPage(r) == r.start \div PGSIZE
Rounded(r) == (r.len + PGSIZE - 1) \div PGSIZE  \* pages of len, rounded up

\* A program passes aligned addresses (others are refused at once), wherever the
\* range ends; programs fit below the trapframe.
ASSUME VmAssumption ==
    /\ PGSIZE \in Nat \ {0} /\ Radix \in Nat \ {0}
    /\ MaxVpn \in Nat /\ MaxVpn > 2 /\ MaxVpn <= Radix * Radix * Radix
    /\ Images \subseteq Nat /\ \A n \in Images : n + 1 < TRAPFRAME
    /\ Maps \cup Unmaps \subseteq Ranges
    /\ \A r \in Maps \cup Unmaps : r.start % PGSIZE = 0
    /\ MaxCalls \in Nat /\ Nobody \notin Procs /\ Frames \cap Procs = {}
    /\ {None, Zero, Fixed} \cap (Frames \cup Procs) = {}
    /\ None # Zero /\ None # Fixed /\ Zero # Fixed

VARIABLES
    free,     \* the pages of kmem.freelist
    pt,       \* the page tables
    sz,       \* p->sz, in pages
    stat,     \* "unused", "used" (a fork that failed) or "alive"
    op,       \* the call that is allocating pages, or Idle
    panicked, \* why the kernel stopped, or "no"
    calls,    \* calls made so far, for the bound
    lost,     \* history: pages that were dropped without kfree
    holed     \* history: slots whose program unmapped part of its own image

Memory == Frames \cup Procs  \* what kfree accepts

mem == <<free, pt, lost>>
vars == <<mem, sz, stat, op, panicked, calls, holed>>

(***************************************************************************)
(* The tree.                                                               *)
(***************************************************************************)
Leaf(v) == <<0, v>>
Up(n) == <<n[1] + 1, n[2] \div Radix>>
TablesOf(v) == {Up(Leaf(v)), Up(Up(Leaf(v))), Up(Up(Up(Leaf(v))))}
Leaves == {Leaf(v) : v \in Vpns}
Tables == UNION {TablesOf(v) : v \in Vpns}
Nodes == Leaves \cup Tables
Empty == [n \in Nodes |-> None]

LeavesOf(S) == {Leaf(v) : v \in S}
Below(n) == {v \in Vpns : v < n}
FramesAt(p, S) == {pt[p][n] : n \in S} \cap Frames

\* The table pages walk would have to allocate to reach v.
Missing(p, v) == {t \in TablesOf(v) : pt[p][t] = None}
Mapped(p, S) == \A v \in S : pt[p][Leaf(v)] # None

\* The pages that have a byte of the range.
PagesOf(r) == {v \in Vpns : v * PGSIZE >= r.start /\ v * PGSIZE < r.start + r.len}
Beyond(r) == r.len > 0 /\ r.start + r.len > MaxVpn * PGSIZE
Between(a, n) == [i \in 1 .. n |-> a + i - 1]

(***************************************************************************)
(* Calls that allocate.                                                    *)
(***************************************************************************)
NoRange == [start |-> 0, len |-> 0]
Op(call, p, np, todo, size, range) ==
    [call |-> call, by |-> p, np |-> np, todo |-> todo, hand |-> None,
     ok |-> TRUE, range |-> range, size |-> size]
Running(call, p, np, todo, size) == Op(call, p, np, todo, size, NoRange)
Idle == Running("none", Nobody, Nobody, <<>>, 0)

\* proc_pagetable, then bin_loader and alloc_ustack.
PageTable == <<TRAMPOLINE, TRAPFRAME>>
ImagePages(n) == Between(1, n) \o <<0>>
\* uvmcopy
CopyPages(n) == Between(0, n)

Init == \* run_all_app
    /\ free = Frames
    /\ pt = [p \in Procs |-> Empty]
    /\ sz = [p \in Procs |-> 0]
    /\ \E p \in Procs, n \in Images :
        /\ stat = [q \in Procs |-> IF q = p THEN "alive" ELSE "unused"]
        /\ op = Running("spawn", p, p, PageTable \o ImagePages(n), n + 1)
    /\ panicked = "no" /\ calls = 0 /\ lost = {} /\ holed = {}

Panic(why) == panicked' = why /\ UNCHANGED <<mem, sz, stat, op, holed>>

\* A process that has a program makes a call.
Calls(p) ==
    /\ panicked = "no" /\ op = Idle /\ stat[p] = "alive" /\ sz[p] > 0
    /\ calls < MaxCalls /\ calls' = calls + 1

IsUnused(np) == stat[np] = "unused"

Fork(p, np) ==
    /\ Calls(p) /\ IsUnused(np)
    /\ stat' = [stat EXCEPT ![np] = "used"] /\ sz' = [sz EXCEPT ![np] = 0]
    /\ op' = Running("fork", p, np, PageTable \o CopyPages(sz[p]), sz[p])
    /\ UNCHANGED <<mem, panicked, holed>>

\* No slot: fork goes on with np = curr_proc().
ForkPoolFull(p) ==
    /\ Calls(p) /\ \A np \in Procs : ~ IsUnused(np)
    /\ op' = Running("fork", p, p, CopyPages(sz[p]), sz[p])
    /\ UNCHANGED <<mem, sz, stat, panicked, holed>>

SpawnAs(p, np, todo, size) ==
    /\ Calls(p) /\ IsUnused(np)
    /\ stat' = [stat EXCEPT ![np] = "alive"] /\ sz' = [sz EXCEPT ![np] = 0]
    /\ op' = Running("spawn", p, np, todo, size)
    /\ UNCHANGED <<mem, panicked, holed>>

Spawn(p, np) == \E n \in Images : SpawnAs(p, np, PageTable \o ImagePages(n), n + 1)
\* get_id_by_name finds no program, after allocproc.
SpawnUnknown(p, np) == SpawnAs(p, np, PageTable, 0)

\* Mutant: len is rounded down.
MmapPagesFloor(r) == Between(FirstPage(r), r.len \div PGSIZE)
MmapPages(r) == Between(FirstPage(r), Rounded(r))

Mmap(p, r) ==
    /\ Calls(p)
    /\ op' = Op("mmap", p, p, MmapPages(r), 0, r)
    /\ UNCHANGED <<mem, sz, stat, panicked, holed>>

(***************************************************************************)
(* The steps of a call that allocates.                                     *)
(***************************************************************************)
Busy == panicked = "no" /\ op # Idle
Page == Head(op.todo)
IsKernelPage == op.call # "mmap" /\ Page \in {TRAMPOLINE, TRAPFRAME}
Copying == op.call = "fork" /\ ~ IsKernelPage

kalloc == CHOOSE f \in Memory : f \in free

\* The page the caller of mappages has for the entry: one from kalloc, which
\* sys_mmap does not check.  uvmcopy looks at the parent's entry first.
TakeKernelPage ==
    /\ Busy /\ op.todo # <<>> /\ op.hand = None /\ IsKernelPage
    /\ op' = [op EXCEPT !.hand = IF Page = TRAPFRAME THEN op.np ELSE Fixed]
    /\ UNCHANGED <<mem, sz, stat, panicked, calls, holed>>

MayTake ==
    /\ Busy /\ op.todo # <<>> /\ op.hand = None /\ ~ IsKernelPage
    /\ Copying => pt[op.by][Leaf(Page)] # None

TakePage ==
    /\ MayTake /\ free # {}
    /\ Copying => pt[op.by][Leaf(Page)] \in Frames
    /\ op' = [op EXCEPT !.hand = kalloc]
    /\ free' = free \ {kalloc}
    /\ UNCHANGED <<pt, lost, sz, stat, panicked, calls, holed>>

\* uvmcopy: the page should exist.  When there is a page for the copy, memmove
\* from address 0 faults in the kernel, and the exit that follows frees page 0,
\* which kfree refuses.
CopyPanic ==
    /\ Busy /\ UNCHANGED calls /\ op.todo # <<>> /\ op.hand = None /\ Copying
    /\ \/ pt[op.by][Leaf(Page)] = None /\ Panic("uvmcopy")
       \/ pt[op.by][Leaf(Page)] = Zero /\ free # {} /\ Panic("kfree")

TakeNothing ==
    /\ MayTake /\ free = {} /\ op.call = "mmap"
    /\ op' = [op EXCEPT !.hand = Zero]
    /\ UNCHANGED <<mem, sz, stat, panicked, calls, holed>>

\* uvmunmap in uvmcopy, after i pages were copied.
\* Mutant: one page too few.
UndoPagesLess(i) == Below(i - 1)
UndoPages(i) == Below(i)

GiveUpFork(hand) ==
    /\ IF Mapped(op.np, UndoPages(Page))
       THEN panicked' = panicked ELSE panicked' = "uvmunmap"
    /\ free' = free \cup hand \cup FramesAt(op.np, LeavesOf(UndoPages(Page)))
    /\ pt' = [pt EXCEPT ![op.np] =
                [n \in Nodes |-> IF n \in LeavesOf(UndoPages(Page)) THEN None ELSE @[n]]]
    /\ op' = Idle
    /\ UNCHANGED <<lost, sz, stat, calls, holed>>

ForkNoPage == MayTake /\ free = {} /\ op.call = "fork" /\ GiveUpFork({})

\* bin_loader, alloc_ustack
LoadNoPage == MayTake /\ free = {} /\ op.call \in {"exec", "spawn"} /\ UNCHANGED calls /\ Panic("memory")

\* walk with alloc set: at MAXVA and beyond it panics.
WalkPanic ==
    /\ Busy /\ UNCHANGED calls /\ op.hand # None /\ Page \notin Vpns
    /\ Panic("walk")

\* Otherwise it goes from the root down (uvmcreate for the root itself).
WalkAllocates(t) ==
    /\ Busy /\ op.hand # None /\ Page \in Vpns
    /\ t \in Missing(op.np, Page) /\ free # {}
    /\ Up(t) \notin Missing(op.np, Page)
    /\ pt' = [pt EXCEPT ![op.np][t] = kalloc]
    /\ free' = free \ {kalloc}
    /\ UNCHANGED <<lost, sz, stat, op, panicked, calls, holed>>

NextTodo == [op EXCEPT !.todo = Tail(@), !.hand = None]

MapPage ==
    /\ Busy /\ op.hand # None /\ Page \in Vpns /\ Missing(op.np, Page) = {}
    /\ pt[op.np][Leaf(Page)] = None
    /\ pt' = [pt EXCEPT ![op.np][Leaf(Page)] = op.hand]
    /\ op' = [NextTodo EXCEPT !.ok = TRUE]
    /\ UNCHANGED <<free, lost, sz, stat, panicked, calls, holed>>

\* mappages returns -1: no table page, or the page is mapped.
Refused ==
    /\ Busy /\ op.hand # None /\ Page \in Vpns
    /\ \/ Missing(op.np, Page) # {} /\ free = {}
       \/ Missing(op.np, Page) = {} /\ pt[op.np][Leaf(Page)] # None

MmapRefused ==
    /\ Refused /\ op.call = "mmap"
    /\ op' = [NextTodo EXCEPT !.ok = FALSE]
    /\ lost' = lost \cup ({op.hand} \cap Frames)
    /\ UNCHANGED <<free, pt, sz, stat, panicked, calls, holed>>

\* Mutant: the page is not given back.
ReturnedNot == {}
Returned == {op.hand}

CopyRefused == Refused /\ Copying /\ GiveUpFork(Returned)

PageTableRefused == Refused /\ op.call # "mmap" /\ ~ Copying /\ UNCHANGED calls /\ Panic("memory")

Return ==
    /\ Busy /\ op.todo = <<>>
    /\ sz' = IF op.call = "mmap" THEN sz ELSE [sz EXCEPT ![op.np] = op.size]
    /\ stat' = [stat EXCEPT ![op.np] = "alive"]
    /\ op' = Idle
    /\ UNCHANGED <<mem, panicked, calls, holed>>

(***************************************************************************)
(* Calls that free.                                                        *)
(***************************************************************************)
\* uvmunmap finds every page of the set, and kfree accepts it.
CanFree(p, S) == \A v \in S : pt[p][Leaf(v)] \in Frames
WhyNot(p, S) == IF Mapped(p, S) THEN "kfree" ELSE "uvmunmap"

\* proc_freepagetable: the two kernel pages are unmapped and not freed, the
\* pages below sz are; freewalk frees the table pages and passes over entries
\* of pages that are still mapped.
\* Mutant: the kernel's pages are freed as well.
FreedNodesAll(p) == LeavesOf(Below(sz[p])) \cup Tables
FreedFramesKernel(p) ==
    {pt[p][n] : n \in LeavesOf(Below(sz[p]) \cup {TRAMPOLINE, TRAPFRAME}) \cup Tables} \ {None}
FreedFrames(p) == FramesAt(p, FreedNodesAll(p))
AfterFree(p) == Empty

FreePageTable(p) ==
    /\ CanFree(p, Below(sz[p]))
    /\ free' = free \cup FreedFrames(p)
    /\ lost' = lost \cup FramesAt(p, Leaves \ LeavesOf(Below(sz[p])))
    /\ pt' = [pt EXCEPT ![p] = AfterFree(p)]
    /\ holed' = holed \ {p}

\* exit, also after a fault; a zombie has no memory.
EndOf(p) ==
    /\ FreePageTable(p)
    /\ stat' = [stat EXCEPT ![p] = "unused"]
    /\ UNCHANGED <<sz, op, panicked>>

Exit(p) ==
    /\ panicked = "no" /\ op = Idle /\ stat[p] = "alive"
    /\ EndOf(p)
    /\ UNCHANGED calls

Exec(p) ==
    /\ Calls(p)
    /\ FreePageTable(p)
    /\ sz' = [sz EXCEPT ![p] = 0]
    /\ \E n \in Images : op' = Running("exec", p, p, PageTable \o ImagePages(n), n + 1)
    /\ UNCHANGED <<stat, panicked>>

\* exit or exec
FreePanic(p) ==
    /\ panicked = "no" /\ op = Idle /\ stat[p] = "alive"
    /\ ~ CanFree(p, Below(sz[p]))
    /\ UNCHANGED calls
    /\ Panic(WhyNot(p, Below(sz[p])))

\* Mutant: the entries are left as they are.
UnmappedKept(p, S) == pt[p]
Unmapped(p, S) == [n \in Nodes |-> IF n \in LeavesOf(S) THEN None ELSE pt[p][n]]

Accepted(p, S) == \A v \in S : pt[p][Leaf(v)] \in Memory

\* When the trapframe is among the pages, userret faults on it, and so does
\* uservec, for ever.
Munmap(p, r) ==
    /\ Calls(p) /\ ~ Beyond(r) /\ Accepted(p, PagesOf(r))
    /\ free' = free \cup {pt[p][n] : n \in LeavesOf(PagesOf(r))}
    /\ panicked' = IF TRAPFRAME \in PagesOf(r) THEN "trapframe" ELSE panicked
    /\ pt' = [pt EXCEPT ![p] = Unmapped(p, PagesOf(r))]
    /\ holed' = IF PagesOf(r) \cap Below(sz[p]) = {} THEN holed ELSE holed \cup {p}
    /\ UNCHANGED <<lost, sz, stat, op>>

\* The loop that looks for the pages reaches MAXVA; or kfree refuses one.
MunmapPanic(p, r) ==
    /\ Calls(p) /\ Mapped(p, PagesOf(r))
    /\ \/ Beyond(r) /\ Panic("walk")
       \/ ~ Beyond(r) /\ ~ Accepted(p, PagesOf(r)) /\ Panic("kfree")

\* The first page that is not mapped has no table: sys_munmap reads through the
\* null pointer walk returns, and kerneltrap ends the process.  (With a table
\* munmap returns -1 and changes nothing.)
MunmapFault(p, r) ==
    /\ Calls(p)
    /\ \E v \in PagesOf(r) : /\ Missing(p, v) # {}
                             /\ Mapped(p, PagesOf(r) \cap Below(v))
    /\ EndOf(p)

Next ==
    \/ \E p, np \in Procs : Fork(p, np) \/ Spawn(p, np) \/ SpawnUnknown(p, np)
    \/ \E p \in Procs : ForkPoolFull(p) \/ Exit(p) \/ Exec(p) \/ FreePanic(p)
    \/ \E p \in Procs, r \in Maps : Mmap(p, r)
    \/ \E p \in Procs, r \in Unmaps : Munmap(p, r) \/ MunmapPanic(p, r) \/ MunmapFault(p, r)
    \/ TakeKernelPage \/ TakePage \/ TakeNothing \/ CopyPanic \/ ForkNoPage \/ LoadNoPage
    \/ \E t \in Tables : WalkAllocates(t)
    \/ WalkPanic \/ MapPage \/ MmapRefused \/ CopyRefused \/ PageTableRefused
    \/ Return

Spec == Init /\ [][Next]_vars

(***************************************************************************)
(* Properties.                                                             *)
(***************************************************************************)
Entries == Memory \cup {None, Zero, Fixed}
Ops == [call : {"none", "fork", "spawn", "exec", "mmap"}, by : Procs \cup {Nobody},
        np : Procs \cup {Nobody}, todo : Seq(Nat), hand : Entries, ok : BOOLEAN,
        range : Ranges, size : 0 .. TRAPFRAME]

\* The type invariant: among other things, only pages that were allocated are on
\* the free list, never the trampoline or address 0.
TypeOK ==
    /\ free \subseteq Memory /\ lost \subseteq Frames
    /\ pt \in [Procs -> [Nodes -> Entries]]
    /\ sz \in [Procs -> 0 .. TRAPFRAME]
    /\ stat \in [Procs -> {"unused", "used", "alive"}]
    /\ op \in Ops
    /\ panicked \in {"no", "memory", "uvmunmap", "uvmcopy", "kfree", "walk", "trapframe"}
    /\ calls \in Nat /\ holed \subseteq Procs

\* No page has two owners, whatever was forked, unmapped, refused and freed
\* before: it stands in one entry of one page table, or is free, or is in the
\* hand of the call under way, or is lost.
FramesOwned ==
    /\ \A p \in Procs : \A m \in Nodes : pt[p][m] \in Frames =>
        \A q \in Procs : \A n \in Nodes : pt[q][n] = pt[p][m] => q = p /\ n = m
    /\ \A p \in Procs : \A n \in Nodes : pt[p][n] \notin free \cup lost \cup ({op.hand} \cap Frames)
    /\ op.hand \notin free \cup lost
    /\ free \cap lost = {}

\* The page of a trapframe stands in its own slot's table, in the trapframe's
\* entry, and is free only when its program has unmapped it, which is the end.
TrapframesOwned ==
    /\ \A p, q \in Procs : \A n \in Nodes : pt[p][n] = q => q = p /\ n = Leaf(TRAPFRAME)
    /\ \A q \in Procs : q \in free => panicked = "trapframe"

\* Both, through every fork, exec, exit, mmap and munmap of any range.
OneOwner == FramesOwned /\ TrapframesOwned

\* Every page is accounted for: it is free, in a page table, in the hand of the
\* call under way, or dropped where the code drops it without kfree (a page mapped
\* beyond p->sz at exit or exec, a page mmap could not map).  So what a failed
\* fork, or a munmap, takes away it gives back.
NothingVanishes ==
    Frames \subseteq free \cup lost \cup {op.hand} \cup UNION {FramesAt(p, Nodes) : p \in Procs}

\* The memory of a program is complete, so that its exit, exec and fork cannot
\* panic, unless it has unmapped part of itself; and uvmunmap and uvmcopy panic
\* for no other reason, the undoing of a failed fork included.  A fork that failed
\* half way leaves no page of the program in the new slot.
ImageIsComplete ==
    /\ \A p \in Procs \ holed : stat[p] = "alive" => CanFree(p, Below(sz[p]))
    /\ panicked \in {"uvmunmap", "uvmcopy"} => holed # {}
    /\ \A p \in Procs : stat[p] = "used" /\ op = Idle /\ panicked = "no" =>
          \A v \in UserVpns : pt[p][Leaf(v)] = None

\* When mmap returns the length, every byte of the range is mapped, unless the
\* memory has run out.
MmapMapsAll ==
    op.call = "mmap" /\ op.todo = <<>> /\ op.ok /\ free # {} => Mapped(op.np, PagesOf(op.range))
=============================================================================
