------------------------------ MODULE VmProofs ------------------------------
(***************************************************************************)
(* For any number of slots, pages, table entries and programs: the types   *)
(* of Vm, and that no page of memory ever has two owners.                  *)
(***************************************************************************)
EXTENDS Vm, SequenceTheorems, TLAPS

\* The call under way has a process and, while it holds a page, an entry to put
\* it in; uvmcopy holds a page from kalloc, and a trapframe is for its own slot.
OpInv ==
    /\ op # Idle => op.by \in Procs /\ op.np \in Procs
    /\ op.hand # None => op # Idle /\ op.todo # <<>>
    /\ op.hand # None /\ Copying => op.hand \in Frames
    /\ op.hand \in Procs => op.hand = op.np /\ Page = TRAPFRAME

IInv == TypeOK /\ OpInv /\ OneOwner

(***************************************************************************)
(* Facts about pages and nodes.                                            *)
(***************************************************************************)
\* Quotients of lengths and addresses are natural numbers.
LEMMA DivNat == \A a \in Nat : \A b \in Nat \ {0} : a \div b \in Nat
  OBVIOUS

\* A run of pages is a sequence of page numbers.
LEMMA BetweenIsSeq ==
  ASSUME NEW a \in Nat, NEW n \in Nat
  PROVE  Between(a, n) \in Seq(Nat)
  BY DEF Between

\* The lists of pages that calls go through are sequences of page numbers.
LEMMA TodosAreSeqs ==
  /\ PageTable \in Seq(Nat)
  /\ \A n \in Images : PageTable \o ImagePages(n) \in Seq(Nat)
  /\ \A n \in 0 .. TRAPFRAME : CopyPages(n) \in Seq(Nat) /\ PageTable \o CopyPages(n) \in Seq(Nat)
  /\ \A r \in Maps : MmapPages(r) \in Seq(Nat)
<1>1. PageTable \in Seq(Nat)
  BY VmAssumption DEF PageTable, TRAMPOLINE, TRAPFRAME
<1>2. \A n \in Images : ImagePages(n) \in Seq(Nat)
  BY BetweenIsSeq, VmAssumption DEF ImagePages
<1>3. \A n \in 0 .. TRAPFRAME : CopyPages(n) \in Seq(Nat)
  BY BetweenIsSeq, VmAssumption DEF CopyPages, TRAPFRAME
<1>4. \A r \in Maps : MmapPages(r) \in Seq(Nat)
  <2> SUFFICES ASSUME NEW r \in Maps PROVE MmapPages(r) \in Seq(Nat)
    OBVIOUS
  <2>1. r.start \in Nat /\ r.len + PGSIZE - 1 \in Nat /\ PGSIZE \in Nat \ {0}
    BY VmAssumption DEF Ranges
  <2>2. FirstPage(r) \in Nat /\ Rounded(r) \in Nat
    BY <2>1, DivNat DEF FirstPage, Rounded
  <2> QED BY <2>2, BetweenIsSeq DEF MmapPages
<1> QED BY <1>1, <1>2, <1>3, <1>4

\* An entry of a page is not a table page.
LEMMA LeavesAndTables == Leaves \cap Tables = {} /\ Leaves \subseteq Nodes /\ Tables \subseteq Nodes
  BY DEF Leaves, Tables, Nodes, TablesOf, Leaf, Up

\* A page that kalloc returns was free, and is none of the trapframes.
LEMMA KallocFree ==
  ASSUME TypeOK, TrapframesOwned, panicked = "no", free # {}
  PROVE  kalloc \in free /\ kalloc \in Frames
<1>1. \E f \in Memory : f \in free
  BY DEF TypeOK
<1>2. kalloc \in Memory /\ kalloc \in free
  BY <1>1 DEF kalloc
<1> QED BY <1>2 DEF TrapframesOwned, Memory

\* The pages of a set of entries.
LEMMA FramesAtFact ==
  ASSUME NEW p, NEW S
  PROVE  /\ FramesAt(p, S) \subseteq Frames
         /\ \A f \in FramesAt(p, S) : \E n \in S : pt[p][n] = f
         /\ \A n \in S : pt[p][n] \in Frames => pt[p][n] \in FramesAt(p, S)
  BY DEF FramesAt

\* The call that begins is well typed.
LEMMA RunningTyped ==
  ASSUME NEW c \in {"fork", "spawn", "exec", "mmap"}, NEW p \in Procs, NEW np \in Procs,
         NEW todo \in Seq(Nat), NEW size \in 0 .. TRAPFRAME, NEW r \in Ranges
  PROVE  /\ Op(c, p, np, todo, size, r) \in Ops
         /\ Op(c, p, np, todo, size, r).by = p /\ Op(c, p, np, todo, size, r).np = np
         /\ Op(c, p, np, todo, size, r).hand = None
  BY VmAssumption DEF Op, Ops, Ranges, Entries, TRAPFRAME

\* The absence of a call is well typed.
LEMMA IdleTyped == Idle \in Ops /\ Idle.hand = None /\ NoRange \in Ranges
  BY VmAssumption DEF Idle, Running, Op, NoRange, Ops, Ranges, Entries, TRAPFRAME

(***************************************************************************)
(* Owners: one lemma for each way in which pages change hands, and one for *)
(* the trapframes.                                                         *)
(***************************************************************************)
\* A trapframe is entered in its own place, and freed when it is the end.
LEMMA TrapframesKept ==
  ASSUME IInv,
         \A p \in Procs : \A n \in Nodes :
            \/ pt'[p][n] \in {pt[p][n], None} \/ pt'[p][n] \notin Procs
            \/ pt'[p][n] = p /\ n = Leaf(TRAPFRAME),
         \A q \in Procs : q \in free' => q \in free \/ panicked' = "trapframe",
         panicked \in {panicked', "no"}
  PROVE  TrapframesOwned'
<1>1. TrapframesOwned
  BY DEF IInv, OneOwner
<1> QED BY <1>1, VmAssumption DEF TrapframesOwned

\* A call begins or ends, or the hand gets what is no page of the allocator.
LEMMA OwnersUnchanged ==
  ASSUME IInv, UNCHANGED mem, op'.hand \in {op.hand, None, Zero, Fixed} \cup Procs,
         op'.hand # op.hand /\ op'.hand \in Procs => panicked = "no", panicked \in {panicked', "no"}
  PROVE  OneOwner'
<1>1. TrapframesOwned'
  BY TrapframesKept DEF mem
<1>2. op'.hand = op.hand \/ op'.hand \notin free \cup lost \cup Frames
  <2>1. CASE op'.hand \in {op.hand, None, Zero, Fixed}
    BY <2>1, VmAssumption DEF IInv, TypeOK, Memory
  <2>2. CASE op'.hand # op.hand /\ op'.hand \in Procs
    BY <2>2, VmAssumption DEF IInv, TypeOK, OneOwner, TrapframesOwned
  <2> QED BY <2>1, <2>2
<1>3. FramesOwned'
  BY <1>2 DEF IInv, OneOwner, FramesOwned, mem
<1> QED BY <1>1, <1>3 DEF OneOwner

\* kalloc for the caller of mappages.
LEMMA OwnersTakePage ==
  ASSUME IInv, NEW f \in free, free' = free \ {f}, op'.hand = f, op.hand = None,
         pt' = pt, lost' = lost, panicked' = panicked
  PROVE  OneOwner'
<1>1. TrapframesOwned'
  BY TrapframesKept
<1>2. FramesOwned'
  BY VmAssumption DEF IInv, OneOwner, FramesOwned, TypeOK
<1> QED BY <1>1, <1>2 DEF OneOwner

\* kalloc for a table page that is missing.
LEMMA OwnersWalk ==
  ASSUME IInv, NEW f \in free, NEW q \in Procs, NEW t \in Nodes, pt[q][t] = None,
         f \in Frames, free' = free \ {f}, pt' = [pt EXCEPT ![q][t] = f],
         op' = op, lost' = lost, panicked' = panicked
  PROVE  OneOwner'
<1>1. \A p \in Procs, n \in Nodes : pt'[p][n] = IF p = q /\ n = t THEN f ELSE pt[p][n]
  BY DEF IInv, TypeOK
<1>2. f # op.hand /\ f \notin lost
  BY DEF IInv, OneOwner, FramesOwned
<1>3. \A p \in Procs, n \in Nodes : pt[p][n] # f
  BY DEF IInv, OneOwner, FramesOwned
<1>4. FramesOwned'
  BY <1>1, <1>2, <1>3, VmAssumption DEF IInv, OneOwner, FramesOwned, TypeOK
<1>5. TrapframesOwned'
  BY <1>1, VmAssumption, TrapframesKept
<1> QED BY <1>4, <1>5 DEF OneOwner

\* The page in hand goes into an entry that is free.
LEMMA OwnersMap ==
  ASSUME IInv, NEW q \in Procs, NEW t \in Nodes, pt[q][t] = None,
         pt' = [pt EXCEPT ![q][t] = op.hand], op'.hand = None,
         op.hand \in Procs => op.hand = q /\ t = Leaf(TRAPFRAME),
         free' = free, lost' = lost, panicked' = panicked
  PROVE  OneOwner'
<1>1. \A p \in Procs, n \in Nodes : pt'[p][n] = IF p = q /\ n = t THEN op.hand ELSE pt[p][n]
  BY DEF IInv, TypeOK
<1>2. op.hand \in Frames => \A p \in Procs, n \in Nodes : pt[p][n] # op.hand
  BY DEF IInv, OneOwner, FramesOwned
<1>3. FramesOwned'
  BY <1>1, <1>2, VmAssumption DEF IInv, OneOwner, FramesOwned, TypeOK, Memory
<1>4. TrapframesOwned'
  BY <1>1, TrapframesKept
<1> QED BY <1>3, <1>4 DEF OneOwner

\* The page in hand is forgotten.
LEMMA OwnersLose ==
  ASSUME IInv, lost' = lost \cup ({op.hand} \cap Frames), op'.hand = None,
         free' = free, pt' = pt, panicked' = panicked
  PROVE  OneOwner'
<1>1. TrapframesOwned'
  BY TrapframesKept
<1>2. FramesOwned'
  BY VmAssumption DEF IInv, OneOwner, FramesOwned, TypeOK, Memory
<1> QED BY <1>1, <1>2 DEF OneOwner

\* The pages of some entries of q, which are cleared, are freed with the page in
\* hand and with a trapframe.
LEMMA OwnersFree ==
  ASSUME IInv, NEW q \in Procs, NEW S \in SUBSET Nodes, NEW H \in SUBSET ({op.hand} \cap Frames),
         NEW T \in SUBSET Procs, T # {} => panicked' = "trapframe",
         \A p \in Procs : \A n \in Nodes : pt'[p][n] \notin T,
         panicked = "no",
         pt' = [pt EXCEPT ![q] = [n \in Nodes |-> IF n \in S THEN None ELSE pt[q][n]]],
         free' = free \cup H \cup T \cup FramesAt(q, S), lost' = lost, op'.hand = None
  PROVE  OneOwner'
<1>1. \A p \in Procs, n \in Nodes : pt'[p][n] = IF p = q /\ n \in S THEN None ELSE pt[p][n]
  BY DEF IInv, TypeOK
<1>2. \A f \in FramesAt(q, S) : f \in Frames /\ \E n \in S : pt[q][n] = f
  BY FramesAtFact
<1>3. \A p \in Procs, n \in Nodes : pt'[p][n] \notin FramesAt(q, S)
  BY <1>1, <1>2, VmAssumption DEF IInv, OneOwner, FramesOwned
<1>4. FramesAt(q, S) \cap lost = {} /\ H \cap lost = {} /\ T \cap lost = {}
  BY <1>2, VmAssumption DEF IInv, OneOwner, FramesOwned, TypeOK
<1>5. \A p \in Procs, n \in Nodes : pt'[p][n] \notin H
  BY <1>1, VmAssumption DEF IInv, OneOwner, FramesOwned
<1>6. \A p \in Procs, n \in Nodes : pt'[p][n] \notin free' \cup lost'
  BY <1>1, <1>3, <1>5, VmAssumption DEF IInv, OneOwner, FramesOwned, TypeOK, Memory
<1>7. None \notin free' \cup lost'
  BY <1>2, VmAssumption DEF IInv, TypeOK, Memory
<1>8. \A p \in Procs : \A m \in Nodes : pt'[p][m] \in Frames =>
        \A r \in Procs : \A n \in Nodes : pt'[r][n] = pt'[p][m] => r = p /\ n = m
  BY <1>1, VmAssumption DEF IInv, OneOwner, FramesOwned
<1>9. free' \cap lost' = {}
  BY <1>4 DEF IInv, OneOwner, FramesOwned
<1>10. FramesOwned'
  BY <1>6, <1>7, <1>8, <1>9, VmAssumption DEF FramesOwned
<1>11. TrapframesOwned'
  BY <1>1, <1>2, VmAssumption, TrapframesKept
<1> QED BY <1>10, <1>11 DEF OneOwner

\* A whole page table goes: part of its pages is freed, the rest is lost.
LEMMA OwnersFreeAll ==
  ASSUME IInv, NEW q \in Procs, NEW S \in SUBSET Nodes, NEW R \in SUBSET Nodes, S \cap R = {},
         pt' = [pt EXCEPT ![q] = Empty],
         free' = free \cup FramesAt(q, S), lost' = lost \cup FramesAt(q, R),
         op.hand = None, op'.hand = None, panicked' = panicked
  PROVE  OneOwner'
<1>1. \A p \in Procs, n \in Nodes : pt'[p][n] = IF p = q THEN None ELSE pt[p][n]
  BY DEF IInv, TypeOK, Empty
<1>2. /\ \A f \in FramesAt(q, S) : f \in Frames /\ \E n \in S : pt[q][n] = f
      /\ \A f \in FramesAt(q, R) : f \in Frames /\ \E n \in R : pt[q][n] = f
  BY FramesAtFact
<1>3. \A p \in Procs, n \in Nodes : pt'[p][n] \notin FramesAt(q, S) \cup FramesAt(q, R)
  BY <1>1, <1>2, VmAssumption DEF IInv, OneOwner, FramesOwned
<1>4. FramesAt(q, S) \cap FramesAt(q, R) = {}
  BY <1>2 DEF IInv, OneOwner, FramesOwned
<1>5. FramesAt(q, S) \cap lost = {} /\ FramesAt(q, R) \cap free = {}
  BY <1>2 DEF IInv, OneOwner, FramesOwned
<1>6. \A p \in Procs, n \in Nodes : pt'[p][n] \notin free' \cup lost'
  BY <1>1, <1>3, VmAssumption DEF IInv, OneOwner, FramesOwned, TypeOK, Memory
<1>7. None \notin free' \cup lost'
  BY <1>2, VmAssumption DEF IInv, TypeOK, Memory
<1>8. \A p \in Procs : \A m \in Nodes : pt'[p][m] \in Frames =>
        \A r \in Procs : \A n \in Nodes : pt'[r][n] = pt'[p][m] => r = p /\ n = m
  BY <1>1, VmAssumption DEF IInv, OneOwner, FramesOwned
<1>9. free' \cap lost' = {}
  BY <1>4, <1>5 DEF IInv, OneOwner, FramesOwned
<1>10. FramesOwned'
  BY <1>6, <1>7, <1>8, <1>9, VmAssumption DEF FramesOwned
<1>11. TrapframesOwned'
  BY <1>1, <1>2, VmAssumption, TrapframesKept
<1> QED BY <1>10, <1>11 DEF OneOwner

(***************************************************************************)
(* The actions.                                                            *)
(***************************************************************************)
\* A call begins.
LEMMA BeginKeeps ==
  ASSUME IInv, NEW c \in {"fork", "spawn", "exec", "mmap"}, NEW p \in Procs, NEW np \in Procs,
         NEW todo \in Seq(Nat), NEW size \in 0 .. TRAPFRAME, NEW r \in Ranges,
         op' = Op(c, p, np, todo, size, r)
  PROVE  op' \in Ops /\ OpInv' /\ op'.hand = None
<1>1. op' \in Ops /\ op'.by = p /\ op'.np = np /\ op'.hand = None
  BY RunningTyped
<1> QED BY <1>1, VmAssumption DEF OpInv

\* The calls that begin and change nothing else than the tables of the pool.
LEMMA CallsKeep ==
  ASSUME IInv, NEW p \in Procs, NEW np \in Procs, NEW r,
         \/ Fork(p, np) \/ Spawn(p, np) \/ SpawnUnknown(p, np) \/ ForkPoolFull(p)
         \/ r \in Maps /\ Mmap(p, r)
  PROVE  IInv'
<1>1. /\ sz[p] \in 0 .. TRAPFRAME /\ 0 \in 0 .. TRAPFRAME
      /\ NoRange \in Ranges /\ Maps \subseteq Ranges
  BY VmAssumption, IdleTyped DEF IInv, TypeOK, TRAPFRAME
<1>2. op' \in Ops /\ OpInv' /\ op'.hand = None
  <2>1. CASE Fork(p, np)
    BY <1>1, <2>1, TodosAreSeqs, BeginKeeps DEF Fork, Running
  <2>2. CASE Spawn(p, np)
    <3>1. PICK n \in Images : SpawnAs(p, np, PageTable \o ImagePages(n), n + 1)
      BY <2>2 DEF Spawn
    <3>2. n + 1 \in 0 .. TRAPFRAME
      BY VmAssumption DEF TRAPFRAME
    <3> QED BY <1>1, <3>1, <3>2, TodosAreSeqs, BeginKeeps DEF SpawnAs, Running
  <2>3. CASE SpawnUnknown(p, np)
    BY <1>1, <2>3, TodosAreSeqs, BeginKeeps DEF SpawnUnknown, SpawnAs, Running
  <2>4. CASE ForkPoolFull(p)
    BY <1>1, <2>4, TodosAreSeqs, BeginKeeps DEF ForkPoolFull, Running
  <2>5. CASE r \in Maps /\ Mmap(p, r)
    BY <1>1, <2>5, TodosAreSeqs, BeginKeeps DEF Mmap
  <2> QED BY <2>1, <2>2, <2>3, <2>4, <2>5
<1>3. UNCHANGED <<mem, panicked, holed>> /\ calls' = calls + 1
  BY DEF Fork, Spawn, SpawnUnknown, SpawnAs, ForkPoolFull, Mmap, Calls, mem
<1>4. sz' \in [Procs -> 0 .. TRAPFRAME] /\ stat' \in [Procs -> {"unused", "used", "alive"}]
  BY <1>1 DEF Fork, Spawn, SpawnUnknown, SpawnAs, ForkPoolFull, Mmap, IInv, TypeOK
<1>5. TypeOK'
  BY <1>2, <1>3, <1>4 DEF IInv, TypeOK, mem
<1> QED BY <1>2, <1>3, <1>5, VmAssumption, OwnersUnchanged DEF IInv

\* The steps in which the call under way gets the page for an entry.
LEMMA TakeKeeps ==
  ASSUME IInv, TakeKernelPage \/ TakePage \/ TakeNothing
  PROVE  IInv'
<1>1. op \in Ops /\ op # Idle /\ op.todo # <<>> /\ op.hand = None
  BY DEF IInv, TypeOK, TakeKernelPage, TakePage, TakeNothing, MayTake, Busy
<1>2. ASSUME NEW h \in Entries \ {None}, op' = [op EXCEPT !.hand = h], Copying => h \in Frames,
             h \in Procs => h = op.np /\ Page = TRAPFRAME
      PROVE  op' \in Ops /\ OpInv' /\ op'.hand = h
  <2>1. op' \in Ops /\ op'.hand = h /\ op'.by = op.by /\ op'.np = op.np /\ op'.todo = op.todo
        /\ op'.call = op.call
    BY <1>1, <1>2 DEF Ops
  <2>2. op' # Idle
    BY <2>1, IdleTyped
  <2>3. Copying' = Copying /\ Page' = Page
    BY <2>1 DEF Copying, IsKernelPage, Page
  <2> QED BY <1>1, <1>2, <2>1, <2>2, <2>3 DEF IInv, OpInv
<1>3. CASE TakeKernelPage
  <2>0. op.np \in Procs /\ op.np \in Entries \ {None} /\ Fixed \in Entries \ {None}
    BY <1>1, VmAssumption DEF IInv, OpInv, Entries, Memory
  <2> DEFINE h == IF Page = TRAPFRAME THEN op.np ELSE Fixed
  <2>1. op' \in Ops /\ OpInv' /\ op'.hand = h
    <3>1. h \in Entries \ {None} /\ (h \in Procs => h = op.np /\ Page = TRAPFRAME) /\ ~ Copying
      BY <1>3, <2>0, VmAssumption DEF TakeKernelPage, Copying
    <3>2. op' = [op EXCEPT !.hand = h]
      BY <1>3 DEF TakeKernelPage
    <3> HIDE DEF h
    <3> QED BY <1>2, <3>1, <3>2
  <2>2. TypeOK'
    BY <1>3, <2>1 DEF IInv, TypeOK, TakeKernelPage, mem
  <2>3. op.np = op'.np /\ panicked = "no"
    BY <1>1, <1>3 DEF TakeKernelPage, Busy, Ops
  <2>4. op'.hand \in {Fixed} \cup Procs
    BY <2>0, <2>1
  <2>5. UNCHANGED mem /\ panicked' = panicked
    BY <1>3 DEF TakeKernelPage
  <2> QED BY <2>1, <2>2, <2>3, <2>4, <2>5, OwnersUnchanged DEF IInv
<1>4. CASE TakePage
  <2>1. kalloc \in free /\ kalloc \in Frames
    BY <1>4, KallocFree DEF IInv, OneOwner, TakePage, MayTake, Busy
  <2>2. op' \in Ops /\ OpInv' /\ op'.hand = kalloc
    <3> DEFINE h == kalloc
    <3>1. h \in Entries \ {None} /\ h \in Frames /\ h \notin Procs /\ op' = [op EXCEPT !.hand = h]
      BY <1>4, <2>1, VmAssumption DEF TakePage, Entries, Memory
    <3> HIDE DEF h
    <3>2. op' \in Ops /\ OpInv' /\ op'.hand = h
      BY <1>2, <3>1
    <3> QED BY <3>2 DEF h
  <2>3. TypeOK'
    BY <1>4, <2>2 DEF IInv, TypeOK, TakePage
  <2> QED BY <1>1, <1>4, <2>1, <2>2, <2>3, OwnersTakePage DEF IInv, TakePage
<1>5. CASE TakeNothing
  <2>1. op' \in Ops /\ OpInv' /\ op'.hand = Zero
    BY <1>2, <1>5, VmAssumption DEF TakeNothing, Entries, Memory, Copying
  <2>2. TypeOK'
    BY <1>5, <2>1 DEF IInv, TypeOK, TakeNothing, mem
  <2> QED BY <1>5, <2>1, <2>2, VmAssumption, OwnersUnchanged DEF IInv, TakeNothing
<1> QED BY <1>3, <1>4, <1>5

\* A table page is allocated.
LEMMA WalkKeeps ==
  ASSUME IInv, NEW t \in Tables, WalkAllocates(t)
  PROVE  IInv'
<1>1. op.np \in Procs /\ t \in Nodes /\ pt[op.np][t] = None
  BY LeavesAndTables DEF IInv, OpInv, WalkAllocates, Busy, Missing
<1>2. kalloc \in free /\ kalloc \in Frames
  BY KallocFree DEF IInv, OneOwner, WalkAllocates, Busy
<1>3. TypeOK'
  BY <1>1, <1>2 DEF IInv, TypeOK, WalkAllocates, Entries, Memory
<1>4. OpInv'
  BY DEF IInv, OpInv, WalkAllocates, Copying, IsKernelPage, Page
<1>5. OneOwner'
  BY <1>1, <1>2, OwnersWalk DEF WalkAllocates
<1> QED BY <1>3, <1>4, <1>5 DEF IInv

\* The call under way goes on to its next page.
LEMMA NextTodoKeeps ==
  ASSUME IInv, op.hand # None, NEW b \in BOOLEAN, op' = [NextTodo EXCEPT !.ok = b]
  PROVE  op' \in Ops /\ OpInv' /\ op'.hand = None
<1>1. op \in Ops /\ op # Idle /\ op.todo # <<>> /\ op.by \in Procs /\ op.np \in Procs
  BY DEF IInv, OpInv, TypeOK
<1>2. Tail(op.todo) \in Seq(Nat)
  BY <1>1 DEF Ops
<1>3. /\ op' = [[[op EXCEPT !.todo = Tail(op.todo)] EXCEPT !.hand = None] EXCEPT !.ok = b]
      /\ op.call \in {"none", "fork", "spawn", "exec", "mmap"}
  BY <1>1 DEF NextTodo, Ops
<1>4. op' \in Ops /\ op'.hand = None /\ op'.by = op.by /\ op'.np = op.np
  BY <1>1, <1>2, <1>3 DEF Ops, Entries
<1> QED BY <1>1, <1>4, VmAssumption DEF OpInv

\* mappages fills an entry, or refuses to and sys_mmap goes on.
LEMMA MapKeeps ==
  ASSUME IInv, MapPage \/ MmapRefused
  PROVE  IInv'
<1>1. op.np \in Procs /\ Leaf(Page) \in Nodes /\ op.hand # None /\ op.hand \in Entries
  <2>1. op \in Ops /\ op.todo # <<>> /\ op.np \in Procs /\ op.hand # None
    BY DEF IInv, OpInv, TypeOK, MapPage, MmapRefused, Refused
  <2>2. Page \in Vpns
    BY DEF MapPage, MmapRefused, Refused
  <2> QED BY <2>1, <2>2, LeavesAndTables DEF Leaves, Ops
<1>2. CASE MapPage
  <2>1. op' \in Ops /\ OpInv' /\ op'.hand = None
    BY <1>1, <1>2, NextTodoKeeps DEF MapPage
  <2>2. TypeOK'
    BY <1>1, <1>2, <2>1 DEF IInv, TypeOK, MapPage
  <2>3. OneOwner'
    BY <1>1, <1>2, <2>1, OwnersMap DEF MapPage, IInv, OpInv
  <2> QED BY <2>1, <2>2, <2>3 DEF IInv
<1>3. CASE MmapRefused
  <2>1. op' \in Ops /\ OpInv' /\ op'.hand = None
    BY <1>1, <1>3, NextTodoKeeps DEF MmapRefused
  <2>2. TypeOK'
    BY <1>3, <2>1 DEF IInv, TypeOK, MmapRefused
  <2>3. OneOwner'
    BY <1>3, <2>1, OwnersLose DEF MmapRefused
  <2> QED BY <2>1, <2>2, <2>3 DEF IInv
<1> QED BY <1>2, <1>3

\* A fork that fails gives back what it has copied.
LEMMA GiveUpKeeps ==
  ASSUME IInv, ForkNoPage \/ CopyRefused
  PROVE  IInv'
<1>1. op # Idle /\ op.np \in Procs
  BY DEF IInv, OpInv, ForkNoPage, CopyRefused, MayTake, Refused, Busy
<1>2. PICK H \in SUBSET ({op.hand} \cap Frames) : GiveUpFork(H)
  <2>1. CASE ForkNoPage
    BY <2>1 DEF ForkNoPage
  <2>2. CASE CopyRefused
    <3>1. op.hand \in Frames
      BY <2>2 DEF IInv, OpInv, CopyRefused, Refused
    <3> QED BY <2>2, <3>1 DEF CopyRefused, Returned
  <2> QED BY <2>1, <2>2
<1> DEFINE S == LeavesOf(UndoPages(Page))
<1>3. S \in SUBSET Nodes
  BY LeavesAndTables DEF LeavesOf, UndoPages, Below, Leaves
<1>4. pt' = [pt EXCEPT ![op.np] = [n \in Nodes |-> IF n \in S THEN None ELSE pt[op.np][n]]]
  BY <1>1, <1>2 DEF GiveUpFork, IInv, TypeOK
<1>5. free' = free \cup H \cup FramesAt(op.np, S) /\ lost' = lost
  BY <1>2 DEF GiveUpFork
<1>6. op' = Idle /\ op' \in Ops /\ op'.hand = None
  BY <1>2, IdleTyped DEF GiveUpFork
<1>7. OpInv'
  BY <1>6, VmAssumption DEF OpInv
<1>8. pt' \in [Procs -> [Nodes -> Entries]]
  BY <1>1, <1>3, <1>4 DEF IInv, TypeOK, Entries
<1>9. free' \subseteq Memory
  BY <1>2, <1>5, FramesAtFact DEF IInv, TypeOK, Memory
<1>10. /\ panicked' \in {"no", "memory", "uvmunmap", "uvmcopy", "kfree", "walk", "trapframe"}
       /\ panicked = "no"
  BY <1>2 DEF GiveUpFork, IInv, TypeOK, ForkNoPage, CopyRefused, MayTake, Refused, Busy
<1>11. TypeOK'
  BY <1>2, <1>5, <1>6, <1>8, <1>9, <1>10 DEF IInv, TypeOK, GiveUpFork
<1>12. OneOwner'
  <2>0. PICK T \in SUBSET Procs : T = {}
    OBVIOUS
  <2>1. free' = free \cup H \cup T \cup FramesAt(op.np, S) /\ op'.hand = None
    BY <1>5, <1>6, <2>0
  <2>2. H \in SUBSET ({op.hand} \cap Frames)
    BY <1>2
  <2> HIDE DEF S
  <2>3. panicked = "no" /\ lost' = lost /\ op.np \in Procs
    BY <1>1, <1>5, <1>10
  <2>4. \A p \in Procs : \A n \in Nodes : pt'[p][n] \notin T
    BY <2>0
  <2>5. T # {} => panicked' = "trapframe"
    BY <2>0
  <2> QED BY <1>3, <1>4, <2>1, <2>2, <2>3, <2>4, <2>5, OwnersFree
<1> QED BY <1>7, <1>11, <1>12 DEF IInv

\* A call returns.
LEMMA ReturnKeeps ==
  ASSUME IInv, Return
  PROVE  IInv'
<1>1. op # Idle /\ op.np \in Procs /\ op \in Ops
  BY DEF IInv, OpInv, TypeOK, Return, Busy
<1>2. op' = Idle /\ op' \in Ops /\ op'.hand = None /\ UNCHANGED mem
  BY IdleTyped DEF Return
<1>3. op.size \in 0 .. TRAPFRAME
  BY <1>1 DEF Ops
<1>4. sz' \in [Procs -> 0 .. TRAPFRAME] /\ stat' \in [Procs -> {"unused", "used", "alive"}]
  BY <1>1, <1>3 DEF Return, IInv, TypeOK
<1>5. TypeOK'
  BY <1>2, <1>4 DEF IInv, TypeOK, Return, mem
<1>6. OpInv'
  BY <1>2, VmAssumption DEF OpInv
<1> QED BY <1>2, <1>5, <1>6, VmAssumption, OwnersUnchanged DEF IInv, Return

\* exit, exec, and a munmap that ends the process.
LEMMA FreeKeeps ==
  ASSUME IInv, NEW p \in Procs, NEW r, Exit(p) \/ Exec(p) \/ MunmapFault(p, r)
  PROVE  IInv'
<1>1. op = Idle /\ op.hand = None /\ FreePageTable(p)
  BY IdleTyped DEF Exit, Exec, MunmapFault, EndOf, Calls
<1>2. op' \in Ops /\ OpInv' /\ op'.hand = None
  <2>1. CASE Exit(p) \/ MunmapFault(p, r)
    <3>1. op' = op /\ op' = Idle
      BY <1>1, <2>1 DEF Exit, MunmapFault, EndOf
    <3> QED BY <3>1, IdleTyped, VmAssumption DEF OpInv
  <2>2. CASE Exec(p)
    <3>1. PICK n \in Images : op' = Running("exec", p, p, PageTable \o ImagePages(n), n + 1)
      BY <2>2 DEF Exec
    <3>2. n + 1 \in 0 .. TRAPFRAME
      BY VmAssumption DEF TRAPFRAME
    <3> QED BY <3>1, <3>2, TodosAreSeqs, BeginKeeps, IdleTyped DEF Running
  <2> QED BY <2>1, <2>2
<1> DEFINE S == LeavesOf(Below(sz[p])) \cup Tables
           R == Leaves \ LeavesOf(Below(sz[p]))
<1>3. S \in SUBSET Nodes /\ R \in SUBSET Nodes /\ S \cap R = {}
  BY LeavesAndTables DEF LeavesOf, Below, Leaves
<1>4. /\ pt' = [pt EXCEPT ![p] = Empty]
      /\ free' = free \cup FramesAt(p, S) /\ lost' = lost \cup FramesAt(p, R)
      /\ holed' = holed \ {p}
  BY <1>1 DEF FreePageTable, AfterFree, FreedFrames, FreedNodesAll
<1>5. pt' \in [Procs -> [Nodes -> Entries]]
  BY <1>4 DEF IInv, TypeOK, Empty, Entries
<1>6. free' \subseteq Memory /\ lost' \subseteq Frames
  BY <1>4, FramesAtFact DEF IInv, TypeOK, Memory
<1>7. /\ sz' \in [Procs -> 0 .. TRAPFRAME] /\ stat' \in [Procs -> {"unused", "used", "alive"}]
      /\ calls' \in Nat /\ panicked' = panicked
  <2>1. 0 \in 0 .. TRAPFRAME
    BY VmAssumption DEF TRAPFRAME
  <2>2. CASE Exec(p)
    BY <2>1, <2>2 DEF IInv, TypeOK, Exec, Calls
  <2>3. CASE Exit(p) \/ MunmapFault(p, r)
    BY <2>3 DEF IInv, TypeOK, Exit, MunmapFault, EndOf, Calls
  <2> QED BY <2>2, <2>3
<1>8. TypeOK'
  BY <1>2, <1>4, <1>5, <1>6, <1>7 DEF IInv, TypeOK
<1>9. OneOwner'
  <2> HIDE DEF S, R
  <2> QED BY <1>1, <1>2, <1>3, <1>4, <1>7, OwnersFreeAll
<1> QED BY <1>2, <1>8, <1>9 DEF IInv

\* What munmap frees: pages of the allocator, and the trapframe if it is there.
LEMMA MunmapFrees ==
  ASSUME IInv, NEW p \in Procs, NEW r \in Unmaps, Munmap(p, r)
  PROVE  \E T \in SUBSET {p} :
           /\ free' = free \cup T \cup FramesAt(p, LeavesOf(PagesOf(r)))
           /\ T # {} => TRAPFRAME \in PagesOf(r) /\ pt[p][Leaf(TRAPFRAME)] = p
<1> DEFINE S == LeavesOf(PagesOf(r))
           T == {pt[p][n] : n \in S} \cap Procs
<1>1. S \in SUBSET Nodes
  BY LeavesAndTables DEF LeavesOf, PagesOf, Leaves
<1>2. \A n \in S : pt[p][n] \in Frames \cup Procs
  BY DEF Munmap, Accepted, LeavesOf, Memory
<1>3. \A n \in S : pt[p][n] \in Procs => pt[p][n] = p /\ n = Leaf(TRAPFRAME)
  BY <1>1 DEF IInv, OneOwner, TrapframesOwned
<1>4. Leaf(TRAPFRAME) \in S => TRAPFRAME \in PagesOf(r)
  BY DEF LeavesOf, Leaf
<1>5. free' = free \cup {pt[p][n] : n \in S}
  BY DEF Munmap
<1>6. {pt[p][n] : n \in S} = T \cup FramesAt(p, S)
  BY <1>2 DEF FramesAt
<1>7. T \in SUBSET {p}
  BY <1>3
<1>8. T # {} => Leaf(TRAPFRAME) \in S /\ pt[p][Leaf(TRAPFRAME)] = p
  BY <1>3
<1> QED BY <1>4, <1>5, <1>6, <1>7, <1>8

\* munmap
LEMMA MunmapKeeps ==
  ASSUME IInv, NEW p \in Procs, NEW r \in Unmaps, Munmap(p, r)
  PROVE  IInv'
<1>1. op' = op /\ op = Idle /\ op' \in Ops /\ op'.hand = None /\ panicked = "no"
  BY IdleTyped DEF Munmap, Calls
<1> DEFINE S == LeavesOf(PagesOf(r))
<1>2. S \in SUBSET Nodes
  BY LeavesAndTables DEF LeavesOf, PagesOf, Leaves
<1>3. PICK T \in SUBSET {p} :
        /\ free' = free \cup T \cup FramesAt(p, S)
        /\ T # {} => TRAPFRAME \in PagesOf(r) /\ pt[p][Leaf(TRAPFRAME)] = p
  BY MunmapFrees
<1>4. pt' = [pt EXCEPT ![p] = [n \in Nodes |-> IF n \in S THEN None ELSE pt[p][n]]] /\ lost' = lost
  BY DEF Munmap, Unmapped
<1>5. pt' \in [Procs -> [Nodes -> Entries]]
  BY <1>4 DEF IInv, TypeOK, Entries
<1>6. free' \subseteq Memory /\ holed' \subseteq Procs /\ calls' \in Nat
  BY <1>3, FramesAtFact DEF IInv, TypeOK, Munmap, Calls, Memory
<1>7. panicked' \in {"no", "trapframe"} /\ (T # {} => panicked' = "trapframe")
  BY <1>1, <1>3 DEF Munmap
<1>8. TypeOK'
  BY <1>1, <1>4, <1>5, <1>6, <1>7 DEF IInv, TypeOK, Munmap
<1>9. OpInv'
  BY <1>1, VmAssumption DEF OpInv
<1>10. \A q \in Procs : \A n \in Nodes : pt'[q][n] \notin T
  <2>1. ASSUME NEW q \in Procs, NEW n \in Nodes, pt'[q][n] \in T PROVE FALSE
    <3>1. pt'[q][n] = p
      BY <2>1
    <3>2. pt'[q][n] = IF q = p /\ n \in S THEN None ELSE pt[q][n]
      BY <1>4 DEF IInv, TypeOK
    <3>3. pt[q][n] = p /\ ~ (q = p /\ n \in S)
      BY <3>1, <3>2, VmAssumption
    <3>4. q = p /\ n = Leaf(TRAPFRAME)
      BY <3>3 DEF IInv, OneOwner, TrapframesOwned
    <3>5. Leaf(TRAPFRAME) \in S
      BY <1>3, <2>1 DEF LeavesOf
    <3> QED BY <3>3, <3>4, <3>5
  <2> QED BY <2>1
<1>11. OneOwner'
  <2>1. free' = free \cup {} \cup T \cup FramesAt(p, S) /\ {} \in SUBSET ({op.hand} \cap Frames)
    BY <1>3
  <2>2. T \in SUBSET Procs
    OBVIOUS
  <2> HIDE DEF S
  <2> QED BY <1>1, <1>2, <1>4, <1>7, <1>10, <2>1, <2>2, OwnersFree
<1> QED BY <1>8, <1>9, <1>11 DEF IInv

\* A panic changes nothing but the reason.
LEMMA PanicKeeps ==
  ASSUME IInv, NEW why \in {"memory", "uvmunmap", "uvmcopy", "kfree", "walk"}, Panic(why),
         panicked = "no", calls' \in Nat
  PROVE  IInv'
<1>1. TypeOK'
  BY DEF IInv, TypeOK, Panic, mem
<1>2. OpInv'
  BY DEF IInv, OpInv, Panic, Copying, IsKernelPage, Page
<1> QED BY <1>1, <1>2, OwnersUnchanged DEF IInv, Panic

\* The actions that panic.
LEMMA PanicsKeep ==
  ASSUME IInv,
         \/ CopyPanic \/ LoadNoPage \/ WalkPanic \/ PageTableRefused
         \/ \E p \in Procs : FreePanic(p) \/ \E r \in Unmaps : MunmapPanic(p, r)
  PROVE  IInv'
<1>1. calls' \in Nat /\ panicked = "no"
  BY DEF IInv, TypeOK, CopyPanic, LoadNoPage, WalkPanic, PageTableRefused, FreePanic, MunmapPanic,
         Calls, MayTake, Refused, Busy
<1>2. \E why \in {"memory", "uvmunmap", "uvmcopy", "kfree", "walk"} : Panic(why)
  BY DEF CopyPanic, LoadNoPage, WalkPanic, PageTableRefused, FreePanic, MunmapPanic, WhyNot
<1> QED BY <1>1, <1>2, PanicKeeps

\* The first program is about to be loaded.
LEMMA InitHolds == Init => IInv
<1> SUFFICES ASSUME Init PROVE IInv
  OBVIOUS
<1>1. PICK p \in Procs, n \in Images :
        /\ stat = [q \in Procs |-> IF q = p THEN "alive" ELSE "unused"]
        /\ op = Running("spawn", p, p, PageTable \o ImagePages(n), n + 1)
  BY DEF Init
<1>2. n + 1 \in 0 .. TRAPFRAME /\ 0 \in 0 .. TRAPFRAME
  BY VmAssumption DEF TRAPFRAME
<1>3. op \in Ops /\ op.by = p /\ op.np = p /\ op.hand = None
  <2> DEFINE todo == PageTable \o ImagePages(n)
  <2>1. todo \in Seq(Nat) /\ NoRange \in Ranges
    BY TodosAreSeqs, IdleTyped
  <2>2. op = Op("spawn", p, p, todo, n + 1, NoRange)
    BY <1>1 DEF Running
  <2> HIDE DEF todo
  <2> QED BY <1>2, <2>1, <2>2, RunningTyped
<1>4. TypeOK
  BY <1>1, <1>2, <1>3 DEF Init, TypeOK, Empty, Entries, Memory
<1>5. OpInv
  BY <1>3, VmAssumption DEF OpInv
<1>6. OneOwner
  BY <1>3, VmAssumption DEF Init, OneOwner, FramesOwned, TrapframesOwned, Empty
<1> QED BY <1>4, <1>5, <1>6 DEF IInv

\* Every step keeps the invariant.
LEMMA NextKeeps == IInv /\ [Next]_vars => IInv'
<1> SUFFICES ASSUME IInv, [Next]_vars PROVE IInv'
  OBVIOUS
<1>1. ASSUME NEW p \in Procs, NEW np \in Procs, Fork(p, np) \/ Spawn(p, np) \/ SpawnUnknown(p, np)
      PROVE  IInv'
  BY <1>1, CallsKeep
<1>2. ASSUME NEW p \in Procs, ForkPoolFull(p) \/ Exit(p) \/ Exec(p) \/ FreePanic(p)
      PROVE  IInv'
  BY <1>2, CallsKeep, FreeKeeps, PanicsKeep
<1>3. ASSUME NEW p \in Procs, NEW r \in Maps, Mmap(p, r)
      PROVE  IInv'
  BY <1>3, CallsKeep
<1>4. ASSUME NEW p \in Procs, NEW r \in Unmaps,
             Munmap(p, r) \/ MunmapPanic(p, r) \/ MunmapFault(p, r)
      PROVE  IInv'
  BY <1>4, MunmapKeeps, PanicsKeep, FreeKeeps
<1>5. CASE TakeKernelPage \/ TakePage \/ TakeNothing
  BY <1>5, TakeKeeps
<1>6. CASE CopyPanic \/ LoadNoPage \/ WalkPanic \/ PageTableRefused
  BY <1>6, PanicsKeep
<1>7. CASE ForkNoPage \/ CopyRefused
  BY <1>7, GiveUpKeeps
<1>8. ASSUME NEW t \in Tables, WalkAllocates(t)
      PROVE  IInv'
  BY <1>8, WalkKeeps
<1>9. CASE MapPage \/ MmapRefused
  BY <1>9, MapKeeps
<1>10. CASE Return
  BY <1>10, ReturnKeeps
<1>11. CASE UNCHANGED vars
  <2>1. TypeOK' /\ OpInv'
    BY <1>11 DEF IInv, TypeOK, OpInv, vars, mem, Copying, IsKernelPage, Page
  <2> QED BY <1>11, <2>1, OwnersUnchanged DEF IInv, vars
<1> QED
  BY <1>1, <1>2, <1>3, <1>4, <1>5, <1>6, <1>7, <1>8, <1>9, <1>10, <1>11 DEF Next

\* The types of the allocator and the page tables, for every number of pages and
\* slots and whatever ranges programs map and unmap: only pages that were once
\* allocated are freed, never the trampoline or address 0.
THEOREM VmTypeCorrect == Spec => []TypeOK
<1>1. IInv => TypeOK
  BY DEF IInv
<1> QED BY <1>1, InitHolds, NextKeeps, PTL DEF Spec

\* No page of memory has two owners: two processes never share a page, a table
\* page is never also data, and nothing in use is on the free list, through
\* every fork, exec, exit, mmap and munmap of any range, failed or not; and the
\* trapframe of a slot is in no other table, and is free only when its own program
\* has unmapped it, after which nothing runs.
THEOREM OneOwnerHolds == Spec => []OneOwner
<1>1. IInv => OneOwner
  BY DEF IInv
<1> QED BY <1>1, InitHolds, NextKeeps, PTL DEF Spec

(***************************************************************************)
(* Nothing vanishes.  Kept is the property without its sets of sets, and   *)
(* each way in which pages change hands keeps it.                          *)
(***************************************************************************)
Kept ==
    \A f \in Frames : \/ f \in free \cup lost \/ f = op.hand
                      \/ \E p \in Procs : \E n \in Nodes : pt[p][n] = f

\* Kept is what NothingVanishes says.
LEMMA KeptMeans == Kept <=> NothingVanishes
<1>1. \A f \in Frames : f \in UNION {FramesAt(p, Nodes) : p \in Procs}
                          <=> \E p \in Procs : \E n \in Nodes : pt[p][n] = f
  BY FramesAtFact
<1> QED BY <1>1 DEF Kept, NothingVanishes

\* No page changes hands.
LEMMA KeptUnchanged ==
  ASSUME Kept, UNCHANGED mem, op'.hand = op.hand \/ op.hand \notin Frames
  PROVE  Kept'
  BY DEF Kept, mem

\* A call begins, returns, panics, or takes what is no page of the allocator.
LEMMA KeptQuiet ==
  ASSUME IInv, Kept, NEW p, NEW np, NEW r,
         \/ Fork(p, np) \/ Spawn(p, np) \/ SpawnUnknown(p, np) \/ ForkPoolFull(p) \/ Mmap(p, r)
         \/ FreePanic(p) \/ MunmapPanic(p, r) \/ CopyPanic \/ LoadNoPage \/ PageTableRefused
         \/ WalkPanic \/ TakeKernelPage \/ TakeNothing \/ Return \/ UNCHANGED vars
  PROVE  Kept'
<1>1. UNCHANGED mem
  BY DEF Fork, Spawn, SpawnUnknown, SpawnAs, ForkPoolFull, Mmap, FreePanic, MunmapPanic,
         CopyPanic, LoadNoPage, WalkPanic, PageTableRefused, Panic, TakeKernelPage, TakeNothing,
         Return, vars
<1>2. op' = op \/ op.hand = None
  BY IdleTyped
  DEF Fork, Spawn, SpawnUnknown, SpawnAs, ForkPoolFull, Mmap, Calls, FreePanic, MunmapPanic,
      CopyPanic, LoadNoPage, WalkPanic, PageTableRefused, Panic, TakeKernelPage, TakeNothing, MayTake,
      Return, vars, IInv, OpInv
<1> QED BY <1>1, <1>2, KeptUnchanged, VmAssumption

\* kalloc, for an entry.
LEMMA KeptTake ==
  ASSUME IInv, Kept, TakePage
  PROVE  Kept'
<1>1. op'.hand = kalloc /\ op.hand = None
  BY DEF IInv, TypeOK, Ops, TakePage, MayTake
<1> QED BY <1>1, VmAssumption DEF TakePage, Kept

\* kalloc, for a table page.
LEMMA KeptWalk ==
  ASSUME IInv, Kept, NEW t \in Tables, WalkAllocates(t)
  PROVE  Kept'
<1>1. op.np \in Procs /\ t \in Nodes /\ pt[op.np][t] = None /\ UNCHANGED <<op, lost>>
  BY LeavesAndTables DEF IInv, OpInv, WalkAllocates, Busy, Missing
<1>2. \A p \in Procs : \A n \in Nodes :
        pt'[p][n] = IF p = op.np /\ n = t THEN kalloc ELSE pt[p][n]
  BY <1>1 DEF IInv, TypeOK, WalkAllocates
<1>3. free' = free \ {kalloc} /\ pt'[op.np][t] = kalloc
  BY <1>1, <1>2 DEF WalkAllocates
<1>4. \A p \in Procs : \A n \in Nodes : pt[p][n] \in Frames => pt'[p][n] = pt[p][n]
  BY <1>1, <1>2, VmAssumption
<1>5. ASSUME NEW f \in Frames
      PROVE  \/ f \in free' \cup lost' \/ f = op'.hand
             \/ \E p \in Procs : \E n \in Nodes : pt'[p][n] = f
  <2>1. CASE f = kalloc
    BY <1>1, <1>3, <2>1
  <2>2. CASE f # kalloc
    BY <1>1, <1>3, <1>4, <2>2 DEF Kept
  <2> QED BY <2>1, <2>2
<1> QED BY <1>5 DEF Kept

\* mappages fills an entry, or refuses to and sys_mmap forgets the page.
LEMMA KeptMap ==
  ASSUME IInv, Kept, MapPage \/ MmapRefused
  PROVE  Kept'
<1>1. op \in Ops /\ op.todo # <<>> /\ op.np \in Procs
  BY DEF IInv, OpInv, TypeOK, MapPage, MmapRefused, Refused
<1>2. CASE MapPage
  <2>1. Leaf(Page) \in Nodes /\ pt[op.np][Leaf(Page)] = None
    BY <1>2, LeavesAndTables DEF MapPage, Leaves
  <2>2. \A p \in Procs : \A n \in Nodes :
          pt'[p][n] = IF p = op.np /\ n = Leaf(Page) THEN op.hand ELSE pt[p][n]
    BY <1>1, <1>2, <2>1 DEF IInv, TypeOK, MapPage
  <2>3. \A p \in Procs : \A n \in Nodes : pt[p][n] \in Frames => pt'[p][n] = pt[p][n]
    BY <2>1, <2>2, VmAssumption
  <2>4. free' = free /\ lost' = lost
    BY <1>2 DEF MapPage
  <2> QED BY <1>1, <2>1, <2>2, <2>3, <2>4 DEF Kept
<1>3. CASE MmapRefused
  BY <1>3 DEF MmapRefused, Kept
<1> QED BY <1>2, <1>3

\* The pages of some entries of q, which are cleared, are freed or lost.
LEMMA KeptFree ==
  ASSUME IInv, Kept, NEW q \in Procs, NEW S, NEW R,
         \A n \in Nodes : n \in S \cup R \/ pt'[q][n] = pt[q][n],
         \A p \in Procs \ {q} : pt'[p] = pt[p],
         free \cup FramesAt(q, S) \subseteq free', lost \cup FramesAt(q, R) \subseteq lost',
         op.hand \in free' \/ op.hand \notin Frames
  PROVE  Kept'
<1>1. \A n \in S : pt[q][n] \in Frames => pt[q][n] \in free'
  BY FramesAtFact
<1>2. \A n \in R : pt[q][n] \in Frames => pt[q][n] \in lost'
  BY FramesAtFact
<1>3. ASSUME NEW f \in Frames, NEW p \in Procs, NEW n \in Nodes, pt[p][n] = f
      PROVE  f \in free' \cup lost' \/ \E r \in Procs : \E m \in Nodes : pt'[r][m] = f
  BY <1>1, <1>2, <1>3
<1> QED BY <1>3 DEF Kept

\* A fork that fails gives back what it has copied, and the page in hand.
LEMMA KeptGiveUp ==
  ASSUME IInv, Kept, ForkNoPage \/ CopyRefused
  PROVE  Kept'
<1>1. op # Idle /\ op.np \in Procs
  BY DEF IInv, OpInv, ForkNoPage, CopyRefused, MayTake, Refused, Busy
<1>2. PICK H : GiveUpFork(H) /\ (op.hand \in H \/ op.hand = None)
  BY DEF ForkNoPage, MayTake, CopyRefused, Returned
<1> DEFINE S == LeavesOf(UndoPages(Page))
<1>3. pt' = [pt EXCEPT ![op.np] = [n \in Nodes |-> IF n \in S THEN None ELSE pt[op.np][n]]]
  BY <1>1, <1>2 DEF GiveUpFork, IInv, TypeOK
<1>4. free' = free \cup H \cup FramesAt(op.np, S) /\ lost' = lost
  BY <1>2 DEF GiveUpFork
<1> HIDE DEF S
<1>5. /\ \A n \in Nodes : n \in S \cup {} \/ pt'[op.np][n] = pt[op.np][n]
      /\ \A p \in Procs \ {op.np} : pt'[p] = pt[p]
  BY <1>1, <1>3 DEF IInv, TypeOK
<1>6. FramesAt(op.np, {}) = {}
  BY FramesAtFact
<1>7. op.hand \in free' \/ op.hand \notin Frames
  BY <1>2, <1>4, VmAssumption
<1> QED BY <1>1, <1>4, <1>5, <1>6, <1>7, KeptFree

\* exit, exec and munmap.
LEMMA KeptReleased ==
  ASSUME IInv, Kept, NEW p \in Procs, NEW r,
         Exit(p) \/ Exec(p) \/ MunmapFault(p, r) \/ Munmap(p, r)
  PROVE  Kept'
<1>1. op.hand \notin Frames
  BY IdleTyped, VmAssumption DEF Exit, Exec, MunmapFault, Munmap, Calls
<1>2. CASE Munmap(p, r)
  <2> DEFINE S == LeavesOf(PagesOf(r))
  <2>1. /\ pt' = [pt EXCEPT ![p] = [n \in Nodes |-> IF n \in S THEN None ELSE pt[p][n]]]
        /\ free \cup FramesAt(p, S) \subseteq free' /\ lost' = lost
    BY <1>2 DEF Munmap, Unmapped, FramesAt
  <2> HIDE DEF S
  <2>2. /\ \A n \in Nodes : n \in S \cup {} \/ pt'[p][n] = pt[p][n]
        /\ \A q \in Procs \ {p} : pt'[q] = pt[q]
    BY <2>1 DEF IInv, TypeOK
  <2>3. FramesAt(p, {}) = {}
    BY FramesAtFact
  <2> QED BY <1>1, <2>1, <2>2, <2>3, KeptFree
<1>3. CASE Exit(p) \/ Exec(p) \/ MunmapFault(p, r)
  <2> DEFINE S == LeavesOf(Below(sz[p])) \cup Tables
             R == Leaves \ LeavesOf(Below(sz[p]))
  <2>1. FreePageTable(p)
    BY <1>3 DEF Exit, Exec, MunmapFault, EndOf
  <2>2. /\ pt' = [pt EXCEPT ![p] = Empty]
        /\ free' = free \cup FramesAt(p, S) /\ lost' = lost \cup FramesAt(p, R)
    BY <2>1 DEF FreePageTable, AfterFree, FreedFrames, FreedNodesAll
  <2>3. \A n \in Nodes : n \in S \cup R
    BY DEF Nodes
  <2> HIDE DEF S, R
  <2>4. \A q \in Procs \ {p} : pt'[q] = pt[q]
    BY <2>2 DEF IInv, TypeOK
  <2> QED BY <1>1, <2>2, <2>3, <2>4, KeptFree
<1> QED BY <1>2, <1>3

\* Every step keeps track of every page.
LEMMA NextKept == IInv /\ Kept /\ [Next]_vars => Kept'
<1> SUFFICES ASSUME IInv, Kept, [Next]_vars PROVE Kept'
  OBVIOUS
<1>1. ASSUME NEW p \in Procs, NEW np \in Procs, Fork(p, np) \/ Spawn(p, np) \/ SpawnUnknown(p, np)
      PROVE  Kept'
  BY <1>1, KeptQuiet
<1>2. ASSUME NEW p \in Procs, ForkPoolFull(p) \/ Exit(p) \/ Exec(p) \/ FreePanic(p)
      PROVE  Kept'
  BY <1>2, KeptQuiet, KeptReleased
<1>3. ASSUME NEW p \in Procs, NEW r \in Maps, Mmap(p, r)
      PROVE  Kept'
  BY <1>3, KeptQuiet
<1>4. ASSUME NEW p \in Procs, NEW r \in Unmaps,
             Munmap(p, r) \/ MunmapPanic(p, r) \/ MunmapFault(p, r)
      PROVE  Kept'
  BY <1>4, KeptQuiet, KeptReleased
<1>5. CASE \/ TakeKernelPage \/ TakeNothing \/ CopyPanic \/ LoadNoPage \/ PageTableRefused
           \/ WalkPanic \/ Return \/ UNCHANGED vars
  BY <1>5, KeptQuiet
<1>6. ASSUME NEW t \in Tables, WalkAllocates(t)
      PROVE  Kept'
  BY <1>6, KeptWalk
<1>7. CASE ForkNoPage \/ CopyRefused
  BY <1>7, KeptGiveUp
<1>8. CASE MapPage \/ MmapRefused
  BY <1>8, KeptMap
<1>9. CASE TakePage
  BY <1>9, KeptTake
<1> QED
  BY <1>1, <1>2, <1>3, <1>4, <1>5, <1>6, <1>7, <1>8, <1>9 DEF Next

\* No page of memory is ever forgotten, whatever fails half way: a page is free,
\* in a page table, in the hand of the call under way, or among those that mmap
\* had mapped beyond p->sz or could not map.
THEOREM NothingVanishesHolds == Spec => []NothingVanishes
<1>1. Init => Kept
  BY DEF Init, Kept
<1>2. IInv /\ Kept /\ [Next]_vars => IInv' /\ Kept'
  BY NextKeeps, NextKept
<1>3. Kept => NothingVanishes
  BY KeptMeans
<1> QED BY <1>1, <1>2, <1>3, InitHolds, PTL DEF Spec

(***************************************************************************)
(* The image of a program.  While a call is under way, what it has done so *)
(* far can be read off its list of pages.                                  *)
(***************************************************************************)
InTodo(v) == \E i \in 1 .. Len(op.todo) : op.todo[i] = v

\* No page of a program, and the pages below k.
NoImage(p) == \A v \in UserVpns : pt[p][Leaf(v)] = None
CopiedTo(p, k) ==
    /\ \A v \in Below(k) : pt[p][Leaf(v)] \in Frames
    /\ \A v \in UserVpns : v >= k => pt[p][Leaf(v)] = None

\* A program that has not unmapped part of itself is complete, and a panic of
\* uvmunmap or uvmcopy has such a program; a slot without a program has no
\* pages of one, unless a fork is filling it.
Complete == \A p \in Procs \ holed : stat[p] = "alive" => CanFree(p, Below(sz[p]))
Blamed == panicked \in {"uvmunmap", "uvmcopy"} => holed # {}
Clean ==
    \A p \in Procs : stat[p] # "alive" /\ ~ (op.call = "fork" /\ op.np = p) => NoImage(p)

\* spawn and exec have mapped the pages that are no longer on their list; so has
\* mmap, while there is memory.  Only mmap goes on without a page.
Loading ==
    /\ op # Idle => op.call # "none"
    /\ op # Idle /\ op.call # "fork" => stat[op.np] = "alive"
    /\ op.hand # None /\ ~ IsKernelPage => op.hand \in Frames \/ op.call = "mmap"
    /\ op.call \in {"spawn", "exec"} =>
         \A v \in Below(op.size) : pt[op.np][Leaf(v)] \in Frames \/ InTodo(v)
Mapping ==
    op.call = "mmap" /\ free # {} =>
      \A v \in PagesOf(op.range) : pt[op.np][Leaf(v)] # None \/ InTodo(v)

\* fork has copied the pages before the one it is at.  Without a free slot it
\* stops at the first, which is mapped.
Forking ==
    op.call = "fork" =>
      /\ stat[op.by] = "alive" /\ op.size = sz[op.by]
      /\ op.np = op.by => /\ op.todo = CopyPages(op.size) /\ op.size > 0
                          /\ op.hand # None => pt[op.by][Leaf(0)] \in Frames
      /\ op.np # op.by =>
           /\ stat[op.np] = "used"
           /\ \/ /\ op.todo \in {PageTable \o CopyPages(op.size), <<TRAPFRAME>> \o CopyPages(op.size)}
                 /\ NoImage(op.np)
              \/ \E k \in 0 .. op.size :
                   op.todo = Between(k, op.size - k) /\ CopiedTo(op.np, k)

ImageInv == Complete /\ Blamed /\ Clean /\ Loading /\ Mapping /\ Forking

\* Runs of pages, element by element.
LEMMA BetweenFacts ==
  ASSUME NEW a \in Nat, NEW n \in Nat
  PROVE  /\ Between(a, n) \in Seq(Nat) /\ Len(Between(a, n)) = n
         /\ \A i \in 1 .. n : Between(a, n)[i] = a + i - 1
         /\ n > 0 => /\ Between(a, n) # <<>> /\ Head(Between(a, n)) = a
                     /\ Tail(Between(a, n)) = Between(a + 1, n - 1)
         /\ n = 0 => Between(a, n) = <<>>
<1>1. /\ Between(a, n) \in Seq(Nat) /\ Len(Between(a, n)) = n
      /\ \A i \in 1 .. n : Between(a, n)[i] = a + i - 1
  BY DEF Between
<1>2. ASSUME n > 0
      PROVE  /\ Between(a, n) # <<>> /\ Head(Between(a, n)) = a
             /\ Tail(Between(a, n)) = Between(a + 1, n - 1)
  <2>1. Between(a, n) # <<>> /\ Head(Between(a, n)) = a
    BY <1>1, <1>2
  <2>2. Len(Tail(Between(a, n))) = n - 1 /\ Tail(Between(a, n)) \in Seq(Nat)
    BY <1>1, <2>1
  <2>3. \A i \in 1 .. n - 1 : Tail(Between(a, n))[i] = a + i
    BY <1>1, <1>2, <2>1
  <2>4. Between(a + 1, n - 1) = [i \in 1 .. n - 1 |-> a + i]
    BY <1>2 DEF Between
  <2>5. /\ Between(a + 1, n - 1) \in Seq(Nat) /\ Len(Between(a + 1, n - 1)) = n - 1
        /\ \A i \in 1 .. n - 1 : Between(a + 1, n - 1)[i] = a + i
    BY <1>2, <2>4
  <2>6. Tail(Between(a, n)) = Between(a + 1, n - 1)
    BY <2>2, <2>3, <2>5, SeqEqual
  <2> QED BY <2>1, <2>6
<1>3. n = 0 => Between(a, n) = <<>>
  BY <1>1
<1> QED BY <1>1, <1>2, <1>3

\* The lists that begin with the kernel's pages.
LEMMA PageTableFacts ==
  ASSUME NEW s \in Seq(Nat)
  PROVE  /\ PageTable \o s # <<>> /\ Head(PageTable \o s) = TRAMPOLINE
         /\ Tail(PageTable \o s) = <<TRAPFRAME>> \o s
         /\ <<TRAPFRAME>> \o s # <<>> /\ Head(<<TRAPFRAME>> \o s) = TRAPFRAME
         /\ Tail(<<TRAPFRAME>> \o s) = s
<1>1. TRAMPOLINE \in Nat /\ TRAPFRAME \in Nat
  BY VmAssumption DEF TRAMPOLINE, TRAPFRAME
<1>2. /\ PageTable \o s # <<>> /\ Head(PageTable \o s) = TRAMPOLINE
      /\ <<TRAPFRAME>> \o s # <<>> /\ Head(<<TRAPFRAME>> \o s) = TRAPFRAME
  BY <1>1 DEF PageTable
<1>3. Tail(PageTable \o s) = <<TRAPFRAME>> \o s
  BY <1>1 DEF PageTable
<1>4. Tail(<<TRAPFRAME>> \o s) = s
  BY <1>1
<1> QED BY <1>2, <1>3, <1>4

\* Every page below the size of a program is on the list of its loader.
LEMMA ImageListed ==
  ASSUME NEW n \in Images, NEW v \in Below(n + 1)
  PROVE  \E i \in 1 .. Len(PageTable \o ImagePages(n)) : (PageTable \o ImagePages(n))[i] = v
<1> DEFINE b == Between(1, n)
           s == PageTable \o ImagePages(n)
<1>1. n \in Nat /\ v \in Nat /\ v <= n
  BY VmAssumption DEF Below, Vpns
<1>2. b \in Seq(Nat) /\ Len(b) = n /\ \A i \in 1 .. n : b[i] = i
  BY <1>1 DEF Between
<1>3. PageTable \in Seq(Nat) /\ Len(PageTable) = 2
  BY VmAssumption DEF PageTable, TRAMPOLINE, TRAPFRAME
<1> HIDE DEF b
<1>4. ImagePages(n) = b \o <<0>>
  BY DEF ImagePages, b
<1>5. /\ Len(ImagePages(n)) = n + 1 /\ ImagePages(n)[n + 1] = 0 /\ ImagePages(n) \in Seq(Nat)
      /\ \A i \in 1 .. n : ImagePages(n)[i] = i
  BY <1>1, <1>2, <1>4
<1> DEFINE t == ImagePages(n)
<1> HIDE DEF t
<1>9. t \in Seq(Nat) /\ Len(t) = n + 1 /\ s = PageTable \o t
  BY <1>5 DEF t
<1> HIDE DEF s
<1>6. Len(s) = n + 3 /\ \A i \in 1 .. n + 1 : s[i + 2] = t[i]
  <2>1. \A i \in 1 .. n + 1 : i + 2 \in 1 .. n + 3
    BY <1>1
  <2>2. Len(s) = n + 3 /\ \A i \in 1 .. n + 3 : s[i] = IF i <= 2 THEN PageTable[i] ELSE t[i - 2]
    <3> DEFINE h == PageTable
    <3> HIDE DEF h
    <3>1. h \in Seq(Nat) /\ Len(h) = 2 /\ s = h \o t
      BY <1>3, <1>9 DEF h
    <3>2. /\ Len(h \o t) = Len(h) + Len(t)
          /\ \A i \in 1 .. Len(h) + Len(t) :
                (h \o t)[i] = IF i <= Len(h) THEN h[i] ELSE t[i - Len(h)]
      BY <1>9, <3>1, ConcatProperties
    <3>3. Len(h) + Len(t) = n + 3
      BY <1>1, <1>9, <3>1
    <3> QED BY <3>1, <3>2, <3>3 DEF h
  <2>3. ASSUME NEW i \in 1 .. n + 1 PROVE s[i + 2] = t[i]
    <3>1. i + 2 \in 1 .. n + 3 /\ ~ (i + 2 <= 2) /\ (i + 2) - 2 = i
      BY <1>1
    <3> QED BY <2>2, <3>1
  <2> QED BY <2>2, <2>3
<1>7. CASE v = 0
  BY <1>1, <1>5, <1>6, <1>7 DEF s, t
<1>8. CASE v # 0
  <2>1. v \in 1 .. n /\ v + 2 \in 1 .. Len(s) /\ s[v + 2] = v
    BY <1>1, <1>5, <1>6, <1>8 DEF t
  <2> QED BY <2>1 DEF s
<1> QED BY <1>7, <1>8

\* A step through the list leaves the other pages on it.
LEMMA TailKeeps ==
  ASSUME op.todo \in Seq(Nat), op.todo # <<>>, op'.todo = Tail(op.todo), NEW v, InTodo(v)
  PROVE  v = Page \/ InTodo(v)'
<1>1. PICK i \in 1 .. Len(op.todo) : op.todo[i] = v
  BY DEF InTodo
<1>2. CASE i = 1
  BY <1>1, <1>2 DEF Page
<1>3. CASE i # 1
  <2>1. i - 1 \in 1 .. Len(Tail(op.todo)) /\ Tail(op.todo)[i - 1] = op.todo[i]
    BY <1>1, <1>3
  <2> QED BY <1>1, <2>1 DEF InTodo
<1> QED BY <1>2, <1>3

\* Division, and products of natural numbers compared.
LEMMA DivMod ==
  ASSUME NEW a \in Nat, NEW b \in Nat \ {0}
  PROVE  a = (a \div b) * b + (a % b) /\ a % b < b /\ a % b \in Nat
<1>1. a % b \in 0 .. b - 1
  OBVIOUS
<1>2. a = b * (a \div b) + (a % b)
  OBVIOUS
<1>3. b * (a \div b) = (a \div b) * b
  BY DivNat
<1> QED BY <1>1, <1>2, <1>3

LEMMA TimesLess ==
  ASSUME NEW a \in Nat, NEW b \in Nat, NEW c \in Nat, a * c < b * c
  PROVE  a < b
<1> SUFFICES ASSUME a >= b PROVE FALSE
  OBVIOUS
<1>1. PICK d \in Nat : a = b + d
  <2>1. a - b \in Nat /\ a = b + (a - b)
    OBVIOUS
  <2> QED BY <2>1
<1>2. a * c = b * c + d * c /\ d * c \in Nat /\ b * c \in Nat
  BY <1>1
<1> QED BY <1>2

\* A page v with a byte of a range that starts at page F lies in the first R
\* pages when R pages hold the range.
LEMMA RangeArithmetic ==
  ASSUME NEW P \in Nat \ {0}, NEW F \in Nat, NEW R \in Nat, NEW v \in Nat, NEW len \in Nat,
         R * P >= len, v * P >= F * P, v * P < F * P + len
  PROVE  F <= v /\ v < F + R
<1>1. v * P < (F + R) * P
  <2>1. (F + R) * P = F * P + R * P
    OBVIOUS
  <2>2. v * P \in Nat /\ F * P \in Nat /\ R * P \in Nat
    OBVIOUS
  <2> QED BY <2>1, <2>2
<1>2. F * P < (v + 1) * P
  <2>1. (v + 1) * P = v * P + P
    OBVIOUS
  <2>2. v * P \in Nat /\ F * P \in Nat
    OBVIOUS
  <2> QED BY <2>1, <2>2
<1>3. v < F + R
  BY <1>1, TimesLess
<1>4. F < v + 1
  BY <1>2, TimesLess
<1> QED BY <1>3, <1>4

\* sys_mmap goes through every page that has a byte of the range.
LEMMA RangeListed ==
  ASSUME NEW r \in Maps, NEW v \in PagesOf(r)
  PROVE  \E i \in 1 .. Len(MmapPages(r)) : MmapPages(r)[i] = v
<1>1. /\ PGSIZE \in Nat \ {0} /\ r.start \in Nat /\ r.len \in Nat /\ r.start % PGSIZE = 0
      /\ v \in Nat /\ v * PGSIZE >= r.start /\ v * PGSIZE < r.start + r.len
  BY VmAssumption DEF PagesOf, Ranges, Vpns
<1> DEFINE m == r.len + PGSIZE - 1
<1>2. m \in Nat
  BY <1>1
<1>3. FirstPage(r) \in Nat /\ Rounded(r) \in Nat /\ Rounded(r) = m \div PGSIZE
  BY <1>1, <1>2, DivNat DEF FirstPage, Rounded
<1>4. r.start = FirstPage(r) * PGSIZE + 0
  BY <1>1, DivMod DEF FirstPage
<1>5. m = Rounded(r) * PGSIZE + (m % PGSIZE) /\ m % PGSIZE < PGSIZE /\ m % PGSIZE \in Nat
  <2>1. m = (m \div PGSIZE) * PGSIZE + (m % PGSIZE) /\ m % PGSIZE < PGSIZE /\ m % PGSIZE \in Nat
    <3> HIDE DEF m
    <3> QED BY <1>1, <1>2, DivMod
  <2> QED BY <1>3, <2>1
<1> DEFINE F == FirstPage(r)
           R == Rounded(r)
           q == m % PGSIZE
<1>6. m = r.len + PGSIZE - 1
  OBVIOUS
<1> HIDE DEF F, R, q, m
<1>7. /\ F \in Nat /\ R \in Nat /\ F * PGSIZE = r.start
      /\ m = R * PGSIZE + q /\ q < PGSIZE /\ q \in Nat
  <2>1. F \in Nat /\ r.start = F * PGSIZE + 0
    BY <1>3, <1>4 DEF F
  <2>2. F * PGSIZE \in Nat
    BY <1>1, <2>1
  <2>3. F * PGSIZE = r.start
    BY <2>1, <2>2
  <2>4. R \in Nat
    BY <1>3 DEF R
  <2>5. m = R * PGSIZE + q /\ q < PGSIZE /\ q \in Nat
    BY <1>5 DEF R, q
  <2> QED BY <2>1, <2>3, <2>4, <2>5
<1>8. R * PGSIZE >= r.len
  <2>1. R * PGSIZE \in Nat
    BY <1>1, <1>7
  <2> QED BY <1>1, <1>6, <1>7, <2>1
<1>9. F <= v /\ v < F + R
  BY <1>1, <1>7, <1>8, RangeArithmetic
<1>10. MmapPages(r) = Between(F, R)
  BY DEF MmapPages, F, R
<1>11. v - F + 1 \in 1 .. R /\ F + (v - F + 1) - 1 = v
  BY <1>1, <1>7, <1>9
<1>12. Len(Between(F, R)) = R /\ \A i \in 1 .. R : Between(F, R)[i] = F + i - 1
  BY <1>7, BetweenFacts
<1> QED BY <1>10, <1>11, <1>12

(***************************************************************************)
(* What each step does to the pages of programs.                           *)
(***************************************************************************)
\* Entries of pages are no table pages, and pages below p->sz are a program's.
LEMMA LeafFacts ==
  /\ \A v \in Vpns : Leaf(v) \in Nodes /\ Leaf(v) \notin Tables
  /\ \A u, v \in Vpns : Leaf(u) = Leaf(v) => u = v
  /\ UserVpns \subseteq Vpns /\ TRAMPOLINE \notin UserVpns /\ TRAPFRAME \notin UserVpns
  /\ \A n \in 0 .. TRAPFRAME : Below(n) \subseteq UserVpns /\ Below(n) = 0 .. n - 1
  /\ Below(0) = {}
<1>1. \A v \in Vpns : Leaf(v) \in Nodes /\ Leaf(v) \notin Tables
  BY LeavesAndTables DEF Leaves
<1>2. \A u, v \in Vpns : Leaf(u) = Leaf(v) => u = v
  BY DEF Leaf
<1>3. /\ UserVpns \subseteq Vpns /\ TRAMPOLINE \notin UserVpns /\ TRAPFRAME \notin UserVpns
      /\ \A n \in 0 .. TRAPFRAME : Below(n) \subseteq UserVpns /\ Below(n) = 0 .. n - 1
      /\ Below(0) = {}
  BY VmAssumption DEF UserVpns, Vpns, TRAMPOLINE, TRAPFRAME, Below
<1> QED BY <1>1, <1>2, <1>3

\* The call that begins, field by field.
LEMMA OpFields ==
  ASSUME NEW c, NEW p, NEW np, NEW todo, NEW size, NEW r
  PROVE  /\ Op(c, p, np, todo, size, r).call = c /\ Op(c, p, np, todo, size, r).by = p
         /\ Op(c, p, np, todo, size, r).np = np /\ Op(c, p, np, todo, size, r).todo = todo
         /\ Op(c, p, np, todo, size, r).size = size /\ Op(c, p, np, todo, size, r).range = r
         /\ Op(c, p, np, todo, size, r).hand = None
  BY DEF Op

LEMMA IdleFields == Idle.call = "none" /\ Idle.hand = None /\ Idle.by = Nobody /\ Idle.np = Nobody
  BY DEF Idle, Running, Op

\* fork begins, in a new slot.
LEMMA ForkImage ==
  ASSUME IInv, ImageInv, NEW p \in Procs, NEW np \in Procs, Fork(p, np)
  PROVE  ImageInv'
<1>1. /\ op = Idle /\ stat[p] = "alive" /\ stat[np] = "unused" /\ np # p
      /\ stat' = [stat EXCEPT ![np] = "used"] /\ sz' = [sz EXCEPT ![np] = 0]
      /\ UNCHANGED <<free, pt, lost, panicked, holed>>
  BY DEF Fork, Calls, IsUnused, mem
<1>2. /\ op'.call = "fork" /\ op'.by = p /\ op'.np = np /\ op'.hand = None
      /\ op'.todo = PageTable \o CopyPages(sz[p]) /\ op'.size = sz[p]
  <2> DEFINE todo == PageTable \o CopyPages(sz[p])
  <2>1. op' = Op("fork", p, np, todo, sz[p], NoRange)
    BY DEF Fork, Running
  <2> HIDE DEF todo
  <2>2. /\ op'.call = "fork" /\ op'.by = p /\ op'.np = np /\ op'.hand = None
        /\ op'.todo = todo /\ op'.size = sz[p]
    BY <2>1, OpFields
  <2> QED BY <2>2 DEF todo
<1>3. /\ \A q \in Procs : stat'[q] = IF q = np THEN "used" ELSE stat[q]
      /\ \A q \in Procs : sz'[q] = IF q = np THEN 0 ELSE sz[q]
  BY <1>1 DEF IInv, TypeOK
<1>4. NoImage(np)
  BY <1>1, IdleFields DEF ImageInv, Clean
<1>5. Complete'
  BY <1>1, <1>3 DEF ImageInv, Complete, CanFree
<1>6. Blamed' /\ Mapping'
  BY <1>1, <1>2 DEF ImageInv, Blamed, Mapping
<1>7. Clean'
  BY <1>1, <1>2, <1>3, IdleFields DEF ImageInv, Clean, NoImage
<1>8. Loading'
  BY <1>2 DEF Loading
<1>9. Forking'
  BY <1>1, <1>2, <1>3, <1>4 DEF Forking, NoImage
<1> QED BY <1>5, <1>6, <1>7, <1>8, <1>9 DEF ImageInv

\* fork begins, and there is no slot.
LEMMA ForkPoolFullImage ==
  ASSUME IInv, ImageInv, NEW p \in Procs, ForkPoolFull(p)
  PROVE  ImageInv'
<1>1. /\ op = Idle /\ stat[p] = "alive" /\ sz[p] > 0
      /\ UNCHANGED <<free, pt, lost, sz, stat, panicked, holed>>
  BY DEF ForkPoolFull, Calls, mem
<1>2. /\ op'.call = "fork" /\ op'.by = p /\ op'.np = p /\ op'.hand = None
      /\ op'.todo = CopyPages(sz[p]) /\ op'.size = sz[p]
  BY OpFields DEF ForkPoolFull, Running
<1>3. Complete' /\ Blamed' /\ Mapping'
  BY <1>1, <1>2 DEF ImageInv, Complete, CanFree, Blamed, Mapping
<1>4. Clean'
  BY <1>1, <1>2, IdleFields DEF ImageInv, Clean, NoImage
<1>5. Loading' /\ Forking'
  BY <1>1, <1>2 DEF Loading, Forking
<1> QED BY <1>3, <1>4, <1>5 DEF ImageInv

\* spawn begins, with a program or without.
LEMMA SpawnImage ==
  ASSUME IInv, ImageInv, NEW p \in Procs, NEW np \in Procs, Spawn(p, np) \/ SpawnUnknown(p, np)
  PROVE  ImageInv'
<1>1. PICK todo, size :
        /\ SpawnAs(p, np, todo, size)
        /\ \A v \in Below(size) : \E i \in 1 .. Len(todo) : todo[i] = v
  <2>1. CASE Spawn(p, np)
    <3>1. PICK n \in Images : SpawnAs(p, np, PageTable \o ImagePages(n), n + 1)
      BY <2>1 DEF Spawn
    <3> DEFINE t == PageTable \o ImagePages(n)
    <3>2. \A v \in Below(n + 1) : \E i \in 1 .. Len(t) : t[i] = v
      BY ImageListed
    <3>3. SpawnAs(p, np, t, n + 1)
      BY <3>1
    <3> HIDE DEF t
    <3> QED BY <3>2, <3>3
  <2>2. CASE SpawnUnknown(p, np)
    BY <2>2, LeafFacts DEF SpawnUnknown
  <2> QED BY <2>1, <2>2
<1>2. /\ op = Idle /\ stat[p] = "alive" /\ stat[np] = "unused"
      /\ stat' = [stat EXCEPT ![np] = "alive"] /\ sz' = [sz EXCEPT ![np] = 0]
      /\ UNCHANGED <<free, pt, lost, panicked, holed>>
  BY <1>1 DEF SpawnAs, Calls, IsUnused, mem
<1>3. /\ op'.call = "spawn" /\ op'.np = np /\ op'.hand = None
      /\ op'.todo = todo /\ op'.size = size
  BY <1>1, OpFields DEF SpawnAs, Running
<1>4. /\ \A q \in Procs : stat'[q] = IF q = np THEN "alive" ELSE stat[q]
      /\ \A q \in Procs : sz'[q] = IF q = np THEN 0 ELSE sz[q]
  BY <1>2 DEF IInv, TypeOK
<1>5. Complete'
  BY <1>2, <1>4, LeafFacts DEF ImageInv, Complete, CanFree
<1>6. Blamed' /\ Mapping' /\ Forking'
  BY <1>2, <1>3 DEF ImageInv, Blamed, Mapping, Forking
<1>7. Clean'
  BY <1>2, <1>3, <1>4, IdleFields DEF ImageInv, Clean, NoImage
<1>8. Loading'
  BY <1>1, <1>3, <1>4 DEF Loading, InTodo
<1> QED BY <1>5, <1>6, <1>7, <1>8 DEF ImageInv

\* mmap begins.
LEMMA MmapImage ==
  ASSUME IInv, ImageInv, NEW p \in Procs, NEW r \in Maps, Mmap(p, r)
  PROVE  ImageInv'
<1>1. /\ op = Idle /\ stat[p] = "alive"
      /\ UNCHANGED <<free, pt, lost, sz, stat, panicked, holed>>
  BY DEF Mmap, Calls, mem
<1>2. /\ op'.call = "mmap" /\ op'.np = p /\ op'.hand = None
      /\ op'.todo = MmapPages(r) /\ op'.range = r
  BY OpFields DEF Mmap
<1>3. Complete' /\ Blamed' /\ Forking'
  BY <1>1, <1>2 DEF ImageInv, Complete, CanFree, Blamed, Forking
<1>4. Clean'
  BY <1>1, <1>2, IdleFields DEF ImageInv, Clean, NoImage
<1>5. Loading' /\ Mapping'
  BY <1>1, <1>2, RangeListed DEF Loading, Mapping, InTodo
<1> QED BY <1>3, <1>4, <1>5 DEF ImageInv

\* The call under way gets a page, or the kernel's page, or none.
LEMMA TakeImage ==
  ASSUME IInv, ImageInv, TakeKernelPage \/ TakePage \/ TakeNothing
  PROVE  ImageInv'
<1>1. /\ op \in Ops /\ op # Idle /\ op.hand = None /\ op.todo # <<>>
      /\ UNCHANGED <<pt, sz, stat, panicked, holed>>
  BY DEF IInv, TypeOK, TakeKernelPage, TakePage, TakeNothing, MayTake, Busy, mem
<1>2. PICK h : /\ op' = [op EXCEPT !.hand = h]
               /\ IsKernelPage \/ h \in Frames \/ op.call = "mmap"
  <2>1. TakePage => kalloc \in Frames
    BY KallocFree DEF IInv, OneOwner, TakePage, MayTake, Busy
  <2> QED BY <2>1 DEF TakeKernelPage, TakePage, TakeNothing, MayTake
<1>3. /\ op'.call = op.call /\ op'.by = op.by /\ op'.np = op.np /\ op'.todo = op.todo
      /\ op'.size = op.size /\ op'.range = op.range /\ op'.hand = h
  BY <1>1, <1>2 DEF Ops
<1>4. free' \subseteq free
  BY DEF TakeKernelPage, TakePage, TakeNothing, mem
<1>5. Complete' /\ Blamed' /\ Clean'
  BY <1>1, <1>3 DEF ImageInv, Complete, CanFree, Blamed, Clean, NoImage
<1>6. Loading'
  BY <1>1, <1>2, <1>3 DEF ImageInv, Loading, InTodo, IsKernelPage, Page
<1>7. Mapping'
  BY <1>1, <1>3, <1>4 DEF ImageInv, Mapping, InTodo
<1>8. ASSUME op.call = "fork", op.np = op.by
      PROVE  pt[op.by][Leaf(0)] \in Frames
  <2>1. op.todo = CopyPages(op.size) /\ op.size > 0 /\ op.size \in Nat
    BY <1>1, <1>8, VmAssumption DEF ImageInv, Forking, Ops, TRAPFRAME
  <2>2. Page = 0
    BY <2>1, BetweenFacts DEF Page, CopyPages
  <2>3. ~ IsKernelPage
    BY <2>2, VmAssumption DEF IsKernelPage, TRAMPOLINE, TRAPFRAME
  <2> QED BY <1>8, <2>2, <2>3 DEF TakeKernelPage, TakePage, TakeNothing, MayTake, Copying
<1>9. Forking'
  BY <1>1, <1>3, <1>8 DEF ImageInv, Forking, NoImage, CopiedTo
<1> QED BY <1>5, <1>6, <1>7, <1>9 DEF ImageInv

\* A table page is allocated: no page of a program changes.
LEMMA WalkImage ==
  ASSUME IInv, ImageInv, NEW t \in Tables, WalkAllocates(t)
  PROVE  ImageInv'
<1>1. op.np \in Procs /\ t \in Nodes /\ UNCHANGED <<sz, stat, op, panicked, holed>>
  BY LeavesAndTables DEF IInv, OpInv, WalkAllocates, Busy
<1>2. \A p \in Procs : \A v \in Vpns : pt'[p][Leaf(v)] = pt[p][Leaf(v)]
  BY <1>1, LeafFacts DEF WalkAllocates, IInv, TypeOK
<1>3. free' \subseteq free
  BY DEF WalkAllocates
<1>4. op \in Ops /\ op.by \in Procs
  BY DEF IInv, OpInv, TypeOK, WalkAllocates, Busy
<1>5. /\ \A p \in Procs : \A v \in UserVpns : pt'[p][Leaf(v)] = pt[p][Leaf(v)]
      /\ \A p \in Procs : \A n : \A v \in Below(n) : pt'[p][Leaf(v)] = pt[p][Leaf(v)]
  BY <1>2, LeafFacts DEF Below
<1>6. Complete' /\ Blamed' /\ Clean'
  BY <1>1, <1>5 DEF ImageInv, Complete, CanFree, Blamed, Clean, NoImage
<1>7. Loading'
  BY <1>1, <1>5 DEF ImageInv, Loading, InTodo, IsKernelPage, Page
<1>8. Mapping'
  BY <1>1, <1>2, <1>3 DEF ImageInv, Mapping, InTodo, PagesOf
<1>9. 0 \in Vpns
  BY VmAssumption DEF Vpns
<1>10. Forking'
  BY <1>1, <1>2, <1>4, <1>5, <1>9 DEF ImageInv, Forking, NoImage, CopiedTo
<1> QED BY <1>6, <1>7, <1>8, <1>10 DEF ImageInv

\* The call under way goes on to its next page, field by field.
LEMMA NextTodoFields ==
  ASSUME IInv, op # Idle, NEW b \in BOOLEAN, op' = [NextTodo EXCEPT !.ok = b]
  PROVE  /\ op'.call = op.call /\ op'.by = op.by /\ op'.np = op.np /\ op'.todo = Tail(op.todo)
         /\ op'.size = op.size /\ op'.range = op.range /\ op'.hand = None
<1>1. op \in Ops
  BY DEF IInv, TypeOK
<1>2. op' = [[[op EXCEPT !.todo = Tail(op.todo)] EXCEPT !.hand = None] EXCEPT !.ok = b]
  BY <1>1 DEF NextTodo, Ops
<1> QED BY <1>1, <1>2 DEF Ops

\* The page a fork is at.
LEMMA ForkPage ==
  ASSUME IInv, Forking, op.call = "fork", op.todo # <<>>, op.np # op.by
  PROVE  \/ /\ op.todo = PageTable \o CopyPages(op.size) /\ Page = TRAMPOLINE
            /\ Tail(op.todo) = <<TRAPFRAME>> \o CopyPages(op.size) /\ NoImage(op.np)
         \/ /\ op.todo = <<TRAPFRAME>> \o CopyPages(op.size) /\ Page = TRAPFRAME
            /\ Tail(op.todo) = CopyPages(op.size) /\ NoImage(op.np)
         \/ /\ Page \in 0 .. op.size - 1 /\ CopiedTo(op.np, Page)
            /\ Tail(op.todo) = Between(Page + 1, op.size - (Page + 1))
<1>1. op.size \in Nat /\ op.size <= TRAPFRAME
  BY VmAssumption DEF IInv, TypeOK, Ops, TRAPFRAME
<1>2. CopyPages(op.size) \in Seq(Nat)
  BY <1>1, BetweenFacts DEF CopyPages
<1>3. CASE /\ op.todo \in {PageTable \o CopyPages(op.size), <<TRAPFRAME>> \o CopyPages(op.size)}
           /\ NoImage(op.np)
  BY <1>2, <1>3, PageTableFacts DEF Page
<1>4. ASSUME NEW k \in 0 .. op.size,
             op.todo = Between(k, op.size - k), CopiedTo(op.np, k)
      PROVE  /\ Page \in 0 .. op.size - 1 /\ CopiedTo(op.np, Page)
             /\ Tail(op.todo) = Between(Page + 1, op.size - (Page + 1))
  <2>1. PICK n : n = op.size - k
    OBVIOUS
  <2>2. k \in Nat /\ n \in Nat
    BY <1>1, <2>1
  <2>3. op.todo = Between(k, n) /\ n # 0
    BY <1>4, <2>1, <2>2, BetweenFacts
  <2>4. Head(Between(k, n)) = k /\ Tail(Between(k, n)) = Between(k + 1, n - 1)
    BY <2>2, <2>3, BetweenFacts
  <2>5. n - 1 = op.size - (k + 1) /\ k \in 0 .. op.size - 1
    BY <1>1, <2>1, <2>2, <2>3
  <2>6. Page = k
    BY <2>3, <2>4 DEF Page
  <2> QED BY <1>4, <2>3, <2>4, <2>5, <2>6
<1> QED BY <1>3, <1>4 DEF Forking

\* A fork without a slot is at page 0.
LEMMA ForkFirstPage ==
  ASSUME IInv, Forking, op.call = "fork", op.np = op.by
  PROVE  op.todo # <<>> /\ Page = 0
<1>1. op.size \in Nat /\ op.size > 0 /\ op.todo = CopyPages(op.size)
  BY VmAssumption DEF IInv, TypeOK, Ops, TRAPFRAME, Forking
<1>2. PICK n : n = op.size
  OBVIOUS
<1>3. Between(0, n) # <<>> /\ Head(Between(0, n)) = 0
  BY <1>1, <1>2, BetweenFacts
<1>4. op.todo = Between(0, n)
  BY <1>1, <1>2 DEF CopyPages
<1> QED BY <1>3, <1>4 DEF Page

\* mappages fills the entry of the page.
LEMMA MapImage ==
  ASSUME IInv, ImageInv, MapPage
  PROVE  ImageInv'
<1>1. /\ op \in Ops /\ op # Idle /\ op.todo # <<>> /\ op.np \in Procs /\ op.by \in Procs
      /\ op.hand # None /\ Page \in Vpns /\ pt[op.np][Leaf(Page)] = None
      /\ UNCHANGED <<free, sz, stat, panicked, holed>>
  <2>1. op \in Ops /\ op # Idle /\ op.todo # <<>> /\ op.np \in Procs /\ op.by \in Procs
    BY DEF IInv, OpInv, TypeOK, MapPage, Busy
  <2> QED BY <2>1 DEF MapPage
<1>2. /\ op'.call = op.call /\ op'.by = op.by /\ op'.np = op.np /\ op'.todo = Tail(op.todo)
      /\ op'.size = op.size /\ op'.range = op.range /\ op'.hand = None
  BY <1>1, NextTodoFields DEF MapPage
<1>3. op.size \in 0 .. TRAPFRAME /\ op.todo \in Seq(Nat)
  BY <1>1 DEF Ops
<1> DEFINE L(p, v) == IF p = op.np /\ v = Page THEN op.hand ELSE pt[p][Leaf(v)]
<1>4. \A p \in Procs : \A v \in Vpns : pt'[p][Leaf(v)] = L(p, v)
  BY <1>1, LeafFacts DEF MapPage, IInv, TypeOK
<1>5. \A p \in Procs : \A v \in Vpns : pt[p][Leaf(v)] \in Frames => pt'[p][Leaf(v)] \in Frames
  BY <1>1, <1>4, VmAssumption
<1>6. Complete' /\ Blamed'
  <2>1. \A p \in Procs : CanFree(p, Below(sz[p])) => CanFree(p, Below(sz[p]))'
    BY <1>1, <1>5 DEF CanFree, Below
  <2> QED BY <1>1, <2>1 DEF ImageInv, Complete, Blamed
<1>7. Clean'
  <2> SUFFICES ASSUME NEW p \in Procs, stat[p] # "alive", ~ (op.call = "fork" /\ op.np = p)
               PROVE  NoImage(p)'
    BY <1>1, <1>2 DEF Clean
  <2>1. p # op.np
    BY <1>1 DEF ImageInv, Loading
  <2>2. NoImage(p)
    BY DEF ImageInv, Clean
  <2> QED BY <1>4, <2>1, <2>2, LeafFacts DEF NoImage
<1>8. ASSUME Page \in UserVpns, op.call # "mmap" PROVE op.hand \in Frames
  BY <1>1, <1>8, LeafFacts DEF ImageInv, Loading, IsKernelPage
<1>9. Loading'
  <2>1. ASSUME op.call \in {"spawn", "exec"}, NEW v \in Below(op.size)
        PROVE  pt'[op.np][Leaf(v)] \in Frames \/ InTodo(v)'
    <3>1. v \in UserVpns /\ v \in Vpns
      BY <1>3, LeafFacts
    <3>2. CASE pt[op.np][Leaf(v)] \in Frames
      BY <1>1, <1>5, <3>1, <3>2
    <3>3. CASE InTodo(v)
      <4>1. v = Page \/ InTodo(v)'
        BY <1>1, <1>2, <1>3, <3>3, TailKeeps
      <4>2. CASE v = Page
        BY <1>1, <1>4, <1>8, <2>1, <3>1, <4>2
      <4> QED BY <4>1, <4>2
    <3> QED BY <2>1, <3>2, <3>3 DEF ImageInv, Loading
  <2>2. op'.call # "none" /\ (op.call # "fork" => stat[op.np] = "alive")
    BY <1>1, <1>2 DEF ImageInv, Loading
  <2> QED BY <1>1, <1>2, <2>1, <2>2 DEF Loading
<1>10. Mapping'
  <2>1. ASSUME op.call = "mmap", free # {}, NEW v \in PagesOf(op.range)
        PROVE  pt'[op.np][Leaf(v)] # None \/ InTodo(v)'
    <3>1. v \in Vpns
      BY DEF PagesOf
    <3>2. CASE pt[op.np][Leaf(v)] # None
      BY <1>1, <1>4, <3>1, <3>2
    <3>3. CASE InTodo(v)
      <4>1. v = Page \/ InTodo(v)'
        BY <1>1, <1>2, <1>3, <3>3, TailKeeps
      <4>2. CASE v = Page
        BY <1>1, <1>4, <3>1, <4>2
      <4> QED BY <4>1, <4>2
    <3> QED BY <2>1, <3>2, <3>3 DEF ImageInv, Mapping
  <2> QED BY <1>1, <1>2, <2>1 DEF Mapping
<1>11. Forking'
  <2> SUFFICES ASSUME op.call = "fork" PROVE Forking'
    BY <1>2 DEF Forking
  <2>1. Forking
    BY DEF ImageInv
  <2>2. op.np # op.by
    <3>1. ASSUME op.np = op.by PROVE FALSE
      <4>1. Page = 0
        BY <2>1, <3>1, ForkFirstPage
      <4>2. pt[op.by][Leaf(0)] \in Frames
        BY <1>1, <2>1, <3>1 DEF Forking
      <4> QED BY <1>1, <3>1, <4>1, <4>2, VmAssumption
    <3> QED BY <3>1
  <2>3. /\ stat'[op'.by] = "alive" /\ op'.size = sz'[op'.by] /\ op'.np # op'.by
        /\ stat'[op'.np] = "used"
    BY <1>1, <1>2, <2>1, <2>2 DEF Forking
  <2>4. ASSUME NoImage(op.np), Page \in {TRAMPOLINE, TRAPFRAME}
        PROVE  NoImage(op.np)'
    <3>1. \A v \in UserVpns : v # Page
      BY <2>4, LeafFacts
    <3> QED BY <1>1, <1>2, <1>4, <2>4, <3>1, LeafFacts DEF NoImage
  <2>5. CASE /\ Page = TRAMPOLINE /\ NoImage(op.np)
             /\ Tail(op.todo) = <<TRAPFRAME>> \o CopyPages(op.size)
    BY <1>2, <2>3, <2>4, <2>5 DEF Forking
  <2>6. CASE Page = TRAPFRAME /\ NoImage(op.np) /\ Tail(op.todo) = CopyPages(op.size)
    <3>1. \A v \in UserVpns : pt'[op.np][Leaf(v)] = None
      BY <1>2, <2>4, <2>6 DEF NoImage
    <3>2. CopiedTo(op.np, 0)'
      BY <1>2, <3>1, LeafFacts DEF CopiedTo
    <3>3. op.size - 0 = op.size /\ 0 \in 0 .. op.size
      BY <1>3, VmAssumption DEF TRAPFRAME
    <3>4. op'.todo = Between(0, op'.size - 0) /\ 0 \in 0 .. op'.size
      BY <1>2, <2>6, <3>3 DEF CopyPages
    <3> QED BY <2>3, <3>2, <3>4 DEF Forking
  <2>7. CASE /\ Page \in 0 .. op.size - 1 /\ CopiedTo(op.np, Page)
             /\ Tail(op.todo) = Between(Page + 1, op.size - (Page + 1))
    <3>1. op.size \in Nat /\ op.size <= TRAPFRAME /\ Page \in Nat /\ Page < op.size
      BY <1>3, <2>7, VmAssumption DEF TRAPFRAME
    <3>2. Page \in UserVpns
      BY <3>1, VmAssumption DEF UserVpns, TRAPFRAME
    <3>3. op.hand \in Frames
      BY <1>8, <3>2
    <3>4. \A v \in Below(Page + 1) : pt'[op.np][Leaf(v)] \in Frames
      <4> SUFFICES ASSUME NEW v \in Below(Page + 1) PROVE pt'[op.np][Leaf(v)] \in Frames
        OBVIOUS
      <4>1. v \in Vpns /\ (v = Page \/ v \in Below(Page))
        BY <3>1 DEF Below, Vpns
      <4>2. CASE v = Page
        BY <1>1, <1>4, <3>3, <4>1, <4>2
      <4>3. CASE v \in Below(Page)
        BY <1>1, <1>5, <2>7, <4>1, <4>3 DEF CopiedTo
      <4> QED BY <4>1, <4>2, <4>3
    <3>5. \A v \in UserVpns : v >= Page + 1 => pt'[op.np][Leaf(v)] = None
      <4> SUFFICES ASSUME NEW v \in UserVpns, v >= Page + 1 PROVE pt'[op.np][Leaf(v)] = None
        OBVIOUS
      <4>1. v # Page /\ v >= Page /\ v \in Vpns
        BY <3>1, LeafFacts DEF UserVpns
      <4> QED BY <1>1, <1>4, <2>7, <4>1 DEF CopiedTo
    <3> DEFINE k == Page + 1
    <3>6. k \in 0 .. op.size
      BY <3>1
    <3>7. PICK m : m = k
      OBVIOUS
    <3>8. CopiedTo(op.np, m)'
      BY <1>2, <3>4, <3>5, <3>7 DEF CopiedTo, Below
    <3>9. m \in 0 .. op'.size /\ op'.todo = Between(m, op'.size - m)
      BY <1>2, <2>7, <3>6, <3>7
    <3> QED BY <2>3, <3>8, <3>9 DEF Forking
  <2> QED BY <1>1, <2>1, <2>2, <2>5, <2>6, <2>7, ForkPage
<1> QED BY <1>6, <1>7, <1>9, <1>10, <1>11 DEF ImageInv

\* mappages refuses a page and sys_mmap goes on: while there is memory, because
\* the page is mapped.
LEMMA RefusedImage ==
  ASSUME IInv, ImageInv, MmapRefused
  PROVE  ImageInv'
<1>1. /\ op \in Ops /\ op # Idle /\ op.todo # <<>> /\ op.call = "mmap"
      /\ UNCHANGED <<free, pt, sz, stat, panicked, holed>>
      /\ free # {} => pt[op.np][Leaf(Page)] # None
  BY DEF IInv, OpInv, TypeOK, MmapRefused, Refused, Busy
<1>2. /\ op'.call = op.call /\ op'.np = op.np /\ op'.todo = Tail(op.todo)
      /\ op'.range = op.range /\ op'.hand = None
  BY <1>1, NextTodoFields DEF MmapRefused
<1>3. op.todo \in Seq(Nat)
  BY <1>1 DEF Ops
<1>4. Complete' /\ Blamed' /\ Clean'
  BY <1>1, <1>2 DEF ImageInv, Complete, CanFree, Blamed, Clean, NoImage
<1>5. Loading' /\ Forking'
  BY <1>1, <1>2 DEF ImageInv, Loading, Forking
<1>6. Mapping'
  <2>1. ASSUME free # {}, NEW v \in PagesOf(op.range)
        PROVE  pt[op.np][Leaf(v)] # None \/ InTodo(v)'
    <3>1. pt[op.np][Leaf(v)] # None \/ InTodo(v)
      BY <1>1, <2>1 DEF ImageInv, Mapping
    <3>2. InTodo(v) => v = Page \/ InTodo(v)'
      BY <1>1, <1>2, <1>3, TailKeeps
    <3> QED BY <1>1, <2>1, <3>1, <3>2
  <2> QED BY <1>1, <1>2, <2>1 DEF Mapping
<1> QED BY <1>4, <1>5, <1>6 DEF ImageInv

\* A fork that fails undoes what it has copied, and all of it.
LEMMA GiveUpImage ==
  ASSUME IInv, ImageInv, ForkNoPage \/ CopyRefused
  PROVE  ImageInv'
<1>1. /\ op \in Ops /\ op # Idle /\ op.todo # <<>> /\ op.np \in Procs /\ op.by \in Procs
      /\ op.call = "fork" /\ ~ IsKernelPage
  BY DEF IInv, OpInv, TypeOK, ForkNoPage, CopyRefused, Copying, MayTake, Refused, Busy
<1>2. PICK H : GiveUpFork(H)
  BY DEF ForkNoPage, CopyRefused
<1>3. op' = Idle /\ UNCHANGED <<sz, stat, holed>>
  BY <1>2 DEF GiveUpFork
<1>4. PICK k : k = Page
  OBVIOUS
<1>5. \A p \in Procs : \A v \in Vpns :
        pt'[p][Leaf(v)] = IF p = op.np /\ v \in Below(k) THEN None ELSE pt[p][Leaf(v)]
  <2>1. pt' = [pt EXCEPT ![op.np] =
                [n \in Nodes |-> IF n \in LeavesOf(Below(k)) THEN None ELSE pt[op.np][n]]]
    BY <1>1, <1>2, <1>4 DEF GiveUpFork, UndoPages, IInv, TypeOK
  <2>2. \A v \in Vpns : Leaf(v) \in LeavesOf(Below(k)) <=> v \in Below(k)
    BY LeafFacts DEF LeavesOf, Below
  <2> QED BY <1>1, <2>1, <2>2, LeafFacts DEF IInv, TypeOK
<1>6. /\ stat[op.by] = "alive"
      /\ op.np # op.by => stat[op.np] = "used"
      /\ \/ op.np = op.by /\ k = 0
         \/ op.np # op.by /\ k \in 0 .. op.size - 1 /\ CopiedTo(op.np, k)
  BY <1>1, <1>4, ForkPage, ForkFirstPage DEF ImageInv, Forking, IsKernelPage
<1>7. op.np = op.by => Below(k) = {}
  BY <1>6, LeafFacts
<1>8. Mapped(op.np, Below(k))
  BY <1>6, <1>7, VmAssumption DEF Mapped, CopiedTo
<1>9. panicked' = panicked
  BY <1>2, <1>4, <1>8 DEF GiveUpFork, UndoPages
<1>10. \A p \in Procs : stat[p] = "alive" => \A v \in Vpns : pt'[p][Leaf(v)] = pt[p][Leaf(v)]
  BY <1>5, <1>6, <1>7
<1>11. Complete' /\ Blamed'
  <2>1. \A p \in Procs : stat[p] = "alive" /\ CanFree(p, Below(sz[p])) => CanFree(p, Below(sz[p]))'
    BY <1>3, <1>10 DEF CanFree, Below
  <2> QED BY <1>3, <1>9, <2>1 DEF ImageInv, Complete, Blamed
<1>12. Clean'
  <2> SUFFICES ASSUME NEW p \in Procs, stat[p] # "alive" PROVE NoImage(p)'
    BY <1>3 DEF Clean
  <2>1. CASE p # op.np
    <3>1. NoImage(p)
      BY <2>1 DEF ImageInv, Clean
    <3> QED BY <1>5, <2>1, <3>1, LeafFacts DEF NoImage
  <2>2. CASE p = op.np
    <3>1. CopiedTo(p, k) /\ k \in 0 .. op.size - 1
      BY <1>6, <2>2
    <3>2. op.size \in Nat
      BY <1>1, VmAssumption DEF Ops, TRAPFRAME
    <3>3. ASSUME NEW v \in UserVpns PROVE pt'[p][Leaf(v)] = None
      <4>1. v \in Vpns /\ (v \in Below(k) \/ v >= k)
        BY <3>1, <3>2, VmAssumption, LeafFacts DEF UserVpns, Below
      <4> QED BY <1>5, <2>2, <3>1, <4>1 DEF CopiedTo
    <3> QED BY <3>3 DEF NoImage
  <2> QED BY <2>1, <2>2
<1>13. Loading' /\ Mapping' /\ Forking'
  BY <1>3, IdleFields DEF Loading, Mapping, Forking
<1> QED BY <1>11, <1>12, <1>13 DEF ImageInv

\* A call returns: what it was to load is there.
LEMMA ReturnImage ==
  ASSUME IInv, ImageInv, Return
  PROVE  ImageInv'
<1>1. /\ op \in Ops /\ op # Idle /\ op.todo = <<>> /\ op.np \in Procs
      /\ op' = Idle /\ UNCHANGED <<pt, panicked, holed>>
  BY DEF IInv, OpInv, TypeOK, Return, Busy, mem
<1>2. /\ op.call \in {"fork", "spawn", "exec", "mmap"} /\ op.size \in 0 .. TRAPFRAME
      /\ \A v : ~ InTodo(v)
  BY <1>1 DEF ImageInv, Loading, Ops, InTodo
<1>3. op.call # "mmap" => CanFree(op.np, Below(op.size))
  <2>1. CASE op.call = "fork"
    <3>1. op.np # op.by
      BY <1>1, <2>1, ForkFirstPage DEF ImageInv
    <3>2. CopyPages(op.size) \in Seq(Nat)
      <4>1. op.size \in Nat
        BY <1>2, VmAssumption DEF TRAPFRAME
      <4> QED BY <4>1, BetweenFacts DEF CopyPages
    <3>3. PICK k \in 0 .. op.size : op.todo = Between(k, op.size - k) /\ CopiedTo(op.np, k)
      BY <1>1, <2>1, <3>1, <3>2, PageTableFacts DEF ImageInv, Forking
    <3>4. k = op.size
      <4>1. PICK n : n = op.size - k
        OBVIOUS
      <4>2. k \in Nat /\ n \in Nat
        BY <1>2, <4>1, VmAssumption DEF TRAPFRAME
      <4>3. Between(k, n) = <<>>
        BY <1>1, <3>3, <4>1
      <4>4. n = 0
        BY <4>2, <4>3, BetweenFacts
      <4> QED BY <1>2, <4>1, <4>2, <4>4, VmAssumption DEF TRAPFRAME
    <3> QED BY <3>3, <3>4 DEF CopiedTo, CanFree
  <2>2. CASE op.call \in {"spawn", "exec"}
    BY <1>2, <2>2 DEF ImageInv, Loading, CanFree
  <2> QED BY <1>2, <2>1, <2>2
<1>4. \A p \in Procs : stat'[p] = IF p = op.np THEN "alive" ELSE stat[p]
  BY <1>1 DEF Return, IInv, TypeOK
<1>5. op.call = "mmap" => sz' = sz /\ stat[op.np] = "alive"
  BY <1>1 DEF Return, ImageInv, Loading
<1>6. op.call # "mmap" => \A p \in Procs : sz'[p] = IF p = op.np THEN op.size ELSE sz[p]
  BY <1>1 DEF Return, IInv, TypeOK
<1>7. Complete'
  <2> SUFFICES ASSUME NEW p \in Procs \ holed, stat'[p] = "alive"
               PROVE  \A v \in Below(sz'[p]) : pt[p][Leaf(v)] \in Frames
    BY <1>1 DEF Complete, CanFree
  <2>1. CASE p = op.np /\ op.call # "mmap"
    BY <1>3, <1>6, <2>1 DEF CanFree
  <2>2. CASE ~ (p = op.np /\ op.call # "mmap")
    <3>1. sz'[p] = sz[p] /\ stat[p] = "alive"
      BY <1>4, <1>5, <1>6, <2>2
    <3> QED BY <3>1 DEF ImageInv, Complete, CanFree
  <2> QED BY <2>1, <2>2
<1>8. Blamed'
  BY <1>1 DEF ImageInv, Blamed
<1>9. Clean'
  BY <1>1, <1>4 DEF ImageInv, Clean, NoImage
<1>10. Loading' /\ Mapping' /\ Forking'
  BY <1>1, IdleFields DEF Loading, Mapping, Forking
<1> QED BY <1>7, <1>8, <1>9, <1>10 DEF ImageInv

\* exit, exec, and a munmap that ends the process.
LEMMA FreeImage ==
  ASSUME IInv, ImageInv, NEW p \in Procs, NEW r, Exit(p) \/ Exec(p) \/ MunmapFault(p, r)
  PROVE  ImageInv'
<1>1. /\ op = Idle /\ FreePageTable(p) /\ UNCHANGED panicked /\ panicked = "no"
  BY DEF Exit, Exec, MunmapFault, EndOf, Calls
<1>2. holed' = holed \ {p} /\ pt' = [pt EXCEPT ![p] = Empty]
  BY <1>1 DEF FreePageTable, AfterFree
<1>3. /\ \A q \in Procs : q # p => pt'[q] = pt[q]
      /\ \A v \in Vpns : pt'[p][Leaf(v)] = None
  BY <1>2, LeafFacts DEF IInv, TypeOK, Empty
<1>4. Blamed'
  BY <1>1 DEF Blamed
<1>5. NoImage(p)'
  BY <1>3, LeafFacts DEF NoImage
<1>6. CASE Exit(p) \/ MunmapFault(p, r)
  <2>1. stat' = [stat EXCEPT ![p] = "unused"] /\ UNCHANGED <<sz, op>>
    BY <1>6 DEF Exit, MunmapFault, EndOf
  <2>2. \A q \in Procs : stat'[q] = IF q = p THEN "unused" ELSE stat[q]
    BY <2>1 DEF IInv, TypeOK
  <2>3. Complete'
    BY <1>2, <1>3, <2>1, <2>2 DEF ImageInv, Complete, CanFree
  <2>4. Clean'
    <3> SUFFICES ASSUME NEW q \in Procs, stat'[q] # "alive" PROVE NoImage(q)'
      BY DEF Clean
    <3>1. CASE q # p
      <4>1. NoImage(q)
        BY <1>1, <2>2, <3>1, IdleFields DEF ImageInv, Clean
      <4> QED BY <1>3, <3>1, <4>1 DEF NoImage
    <3> QED BY <1>5, <3>1
  <2>5. Loading' /\ Mapping' /\ Forking'
    BY <1>1, <2>1, IdleFields DEF Loading, Mapping, Forking
  <2> QED BY <1>4, <2>3, <2>4, <2>5 DEF ImageInv
<1>7. CASE Exec(p)
  <2>1. PICK n \in Images : op' = Running("exec", p, p, PageTable \o ImagePages(n), n + 1)
    BY <1>7 DEF Exec
  <2> DEFINE todo == PageTable \o ImagePages(n)
  <2>2. op' = Op("exec", p, p, todo, n + 1, NoRange)
    BY <2>1 DEF Running
  <2>3. \A v \in Below(n + 1) : \E i \in 1 .. Len(todo) : todo[i] = v
    BY ImageListed
  <2> HIDE DEF todo
  <2>4. /\ op'.call = "exec" /\ op'.np = p /\ op'.hand = None
        /\ op'.todo = todo /\ op'.size = n + 1
    BY <2>2, OpFields
  <2>5. stat' = stat /\ stat[p] = "alive" /\ sz' = [sz EXCEPT ![p] = 0]
    BY <1>7 DEF Exec, Calls
  <2>6. \A q \in Procs : sz'[q] = IF q = p THEN 0 ELSE sz[q]
    BY <2>5 DEF IInv, TypeOK
  <2>7. Complete'
    BY <1>2, <1>3, <2>5, <2>6, LeafFacts DEF ImageInv, Complete, CanFree
  <2>8. Clean'
    <3> SUFFICES ASSUME NEW q \in Procs, stat[q] # "alive" PROVE NoImage(q)'
      BY <2>5 DEF Clean
    <3>1. NoImage(q) /\ q # p
      BY <1>1, <2>5, IdleFields DEF ImageInv, Clean
    <3> QED BY <1>3, <3>1 DEF NoImage
  <2>9. Loading' /\ Mapping' /\ Forking'
    BY <2>3, <2>4, <2>5 DEF Loading, Mapping, Forking, InTodo
  <2> QED BY <1>4, <2>7, <2>8, <2>9 DEF ImageInv
<1> QED BY <1>6, <1>7

\* munmap
LEMMA MunmapImage ==
  ASSUME IInv, ImageInv, NEW p \in Procs, NEW r \in Unmaps, Munmap(p, r)
  PROVE  ImageInv'
<1>1. /\ op = Idle /\ stat[p] = "alive" /\ UNCHANGED <<sz, stat, op>>
      /\ panicked' \in {"no", "trapframe"} /\ pt' = [pt EXCEPT ![p] = Unmapped(p, PagesOf(r))]
      /\ holed' = IF PagesOf(r) \cap Below(sz[p]) = {} THEN holed ELSE holed \cup {p}
  BY DEF Munmap, Calls
<1>2. /\ \A q \in Procs : q # p => pt'[q] = pt[q]
      /\ \A v \in Vpns : v \notin PagesOf(r) => pt'[p][Leaf(v)] = pt[p][Leaf(v)]
  <2>1. \A v \in Vpns : Leaf(v) \in LeavesOf(PagesOf(r)) => v \in PagesOf(r)
    BY LeafFacts DEF LeavesOf, PagesOf
  <2> QED BY <1>1, <2>1, LeafFacts DEF IInv, TypeOK, Unmapped
<1>3. Complete'
  <2> SUFFICES ASSUME NEW q \in Procs \ holed', stat[q] = "alive"
               PROVE  \A v \in Below(sz[q]) : pt'[q][Leaf(v)] \in Frames
    BY <1>1 DEF Complete, CanFree
  <2>1. CanFree(q, Below(sz[q]))
    BY <1>1 DEF ImageInv, Complete
  <2>2. CASE q # p
    BY <1>2, <2>1, <2>2 DEF CanFree
  <2>3. CASE q = p
    <3>1. PagesOf(r) \cap Below(sz[p]) = {}
      BY <1>1, <2>3
    <3> QED BY <1>2, <2>1, <2>3, <3>1 DEF CanFree, Below
  <2> QED BY <2>2, <2>3
<1>4. Blamed'
  BY <1>1 DEF Blamed
<1>5. Clean'
  BY <1>1, <1>2 DEF ImageInv, Clean, NoImage
<1>6. Loading' /\ Mapping' /\ Forking'
  BY <1>1, IdleFields DEF Loading, Mapping, Forking
<1> QED BY <1>3, <1>4, <1>5, <1>6 DEF ImageInv

\* A panic of uvmunmap or uvmcopy finds a page missing below the size of a
\* program.
LEMMA PanicsImage ==
  ASSUME IInv, ImageInv,
         \/ CopyPanic \/ LoadNoPage \/ WalkPanic \/ PageTableRefused
         \/ \E p \in Procs : FreePanic(p) \/ \E r \in Unmaps : MunmapPanic(p, r)
  PROVE  ImageInv'
<1>1. PICK why : Panic(why) /\ (why \in {"uvmunmap", "uvmcopy"} => holed # {})
  <2>1. CASE CopyPanic
    <3>1. /\ op \in Ops /\ op.call = "fork" /\ op.todo # <<>> /\ op.by \in Procs
          /\ ~ IsKernelPage /\ pt[op.by][Leaf(Page)] \notin Frames
      BY <2>1, VmAssumption DEF IInv, OpInv, TypeOK, CopyPanic, Busy, Copying
    <3>2. stat[op.by] = "alive" /\ op.size = sz[op.by]
      BY <3>1 DEF ImageInv, Forking
    <3>3. op.size \in 0 .. TRAPFRAME /\ op.size \in Nat
      BY <3>1, VmAssumption DEF Ops, TRAPFRAME
    <3>4. Page \in 0 .. op.size - 1
      <4>1. CASE op.np = op.by
        <5>1. op.size > 0
          BY <3>1, <4>1 DEF ImageInv, Forking
        <5> QED BY <3>1, <3>3, <4>1, <5>1, ForkFirstPage DEF ImageInv
      <4>2. CASE op.np # op.by
        BY <3>1, <4>2, ForkPage DEF ImageInv, IsKernelPage
      <4> QED BY <4>1, <4>2
    <3>5. op.by \in holed
      BY <3>1, <3>2, <3>3, <3>4, LeafFacts DEF ImageInv, Complete, CanFree
    <3> QED BY <2>1, <3>5 DEF CopyPanic
  <2>2. CASE LoadNoPage \/ WalkPanic \/ PageTableRefused
    BY <2>2 DEF LoadNoPage, WalkPanic, PageTableRefused
  <2>3. ASSUME NEW p \in Procs, FreePanic(p)
        PROVE  Panic(WhyNot(p, Below(sz[p]))) /\ p \in holed
    BY <2>3 DEF FreePanic, ImageInv, Complete
  <2>4. ASSUME NEW p \in Procs, NEW r \in Unmaps, MunmapPanic(p, r)
        PROVE  Panic("kfree") \/ Panic("walk")
    BY <2>4 DEF MunmapPanic
  <2> QED BY <2>1, <2>2, <2>3, <2>4
<1>2. UNCHANGED <<free, pt, sz, stat, op, holed>> /\ panicked' = why
  BY <1>1 DEF Panic, mem
<1>3. Complete' /\ Blamed' /\ Clean'
  BY <1>1, <1>2 DEF ImageInv, Complete, CanFree, Blamed, Clean, NoImage
<1>4. Loading' /\ Mapping'
  BY <1>2 DEF ImageInv, Loading, Mapping, InTodo, IsKernelPage, Page
<1>5. Forking'
  BY <1>2 DEF ImageInv, Forking, NoImage, CopiedTo
<1> QED BY <1>3, <1>4, <1>5 DEF ImageInv

\* The first program is about to be loaded.
LEMMA InitImage == Init => ImageInv
<1> SUFFICES ASSUME Init PROVE ImageInv
  OBVIOUS
<1>1. PICK p \in Procs, n \in Images :
        /\ stat = [q \in Procs |-> IF q = p THEN "alive" ELSE "unused"]
        /\ op = Running("spawn", p, p, PageTable \o ImagePages(n), n + 1)
  BY DEF Init
<1> DEFINE todo == PageTable \o ImagePages(n)
<1>2. op = Op("spawn", p, p, todo, n + 1, NoRange)
  BY <1>1 DEF Running
<1>3. \A v \in Below(n + 1) : \E i \in 1 .. Len(todo) : todo[i] = v
  BY ImageListed
<1> HIDE DEF todo
<1>4. /\ op.call = "spawn" /\ op.np = p /\ op.hand = None
      /\ op.todo = todo /\ op.size = n + 1
  BY <1>2, OpFields
<1>5. Complete
  BY LeafFacts DEF Init, Complete, CanFree
<1>6. Blamed
  BY DEF Init, Blamed
<1>7. Clean
  BY LeafFacts DEF Init, Clean, NoImage, Empty
<1>8. Loading /\ Mapping /\ Forking
  BY <1>1, <1>3, <1>4 DEF Loading, Mapping, Forking, InTodo
<1> QED BY <1>5, <1>6, <1>7, <1>8 DEF ImageInv

\* Every step keeps the invariant.
LEMMA NextImage == IInv /\ ImageInv /\ [Next]_vars => ImageInv'
<1> SUFFICES ASSUME IInv, ImageInv, [Next]_vars PROVE ImageInv'
  OBVIOUS
<1>1. ASSUME NEW p \in Procs, NEW np \in Procs, Fork(p, np) \/ Spawn(p, np) \/ SpawnUnknown(p, np)
      PROVE  ImageInv'
  BY <1>1, ForkImage, SpawnImage
<1>2. ASSUME NEW p \in Procs, ForkPoolFull(p) \/ Exit(p) \/ Exec(p) \/ FreePanic(p)
      PROVE  ImageInv'
  BY <1>2, ForkPoolFullImage, FreeImage, PanicsImage
<1>3. ASSUME NEW p \in Procs, NEW r \in Maps, Mmap(p, r)
      PROVE  ImageInv'
  BY <1>3, MmapImage
<1>4. ASSUME NEW p \in Procs, NEW r \in Unmaps,
             Munmap(p, r) \/ MunmapPanic(p, r) \/ MunmapFault(p, r)
      PROVE  ImageInv'
  BY <1>4, MunmapImage, PanicsImage, FreeImage
<1>5. CASE TakeKernelPage \/ TakePage \/ TakeNothing
  BY <1>5, TakeImage
<1>6. CASE CopyPanic \/ LoadNoPage \/ WalkPanic \/ PageTableRefused
  BY <1>6, PanicsImage
<1>7. CASE ForkNoPage \/ CopyRefused
  BY <1>7, GiveUpImage
<1>8. ASSUME NEW t \in Tables, WalkAllocates(t)
      PROVE  ImageInv'
  BY <1>8, WalkImage
<1>9. CASE MapPage
  BY <1>9, MapImage
<1>10. CASE MmapRefused
  BY <1>10, RefusedImage
<1>11. CASE Return
  BY <1>11, ReturnImage
<1>12. CASE UNCHANGED vars
  <2>1. UNCHANGED <<free, pt, sz, stat, op, panicked, holed>>
    BY <1>12 DEF vars, mem
  <2>2. Complete' /\ Blamed' /\ Clean'
    BY <2>1 DEF ImageInv, Complete, CanFree, Blamed, Clean, NoImage
  <2>3. Loading' /\ Mapping'
    BY <2>1 DEF ImageInv, Loading, Mapping, InTodo, IsKernelPage, Page
  <2>4. Forking'
    BY <2>1 DEF ImageInv, Forking, NoImage, CopiedTo
  <2> QED BY <2>2, <2>3, <2>4 DEF ImageInv
<1> QED
  BY <1>1, <1>2, <1>3, <1>4, <1>5, <1>6, <1>7, <1>8, <1>9, <1>10, <1>11, <1>12 DEF Next

\* The memory of a program is complete, for every size of memory and every series
\* of forks, loads and mappings that fail half way: exit, exec and fork panic in
\* uvmunmap or uvmcopy only when a program has unmapped part of itself, and a
\* fork that failed leaves nothing of the program in its slot.
THEOREM ImageIsCompleteHolds == Spec => []ImageIsComplete
<1>1. ImageInv => ImageIsComplete
  BY IdleFields DEF ImageInv, ImageIsComplete, Complete, Blamed, Clean, NoImage
<1>2. IInv /\ ImageInv /\ [Next]_vars => IInv' /\ ImageInv'
  BY NextKeeps, NextImage
<1> QED BY <1>1, <1>2, InitHolds, InitImage, PTL DEF Spec

\* When sys_mmap returns the length, every byte of the range is mapped, whatever
\* the page size, the range and what was mapped before, unless memory ran out.
THEOREM MmapMapsAllHolds == Spec => []MmapMapsAll
<1>1. ImageInv => MmapMapsAll
  BY DEF ImageInv, MmapMapsAll, Mapping, Mapped, InTodo
<1>2. IInv /\ ImageInv /\ [Next]_vars => IInv' /\ ImageInv'
  BY NextKeeps, NextImage
<1> QED BY <1>1, <1>2, InitHolds, InitImage, PTL DEF Spec
=============================================================================
