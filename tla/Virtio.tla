------------------------------- MODULE Virtio -------------------------------
(***************************************************************************)
(* The disk driver, virtio_disk.c, and the device on the other side of the *)
(* descriptor table and the two rings.                                     *)
(*                                                                         *)
(* virtio_disk_rw waits with interrupts on and never yields, and the timer *)
(* interrupt of the kernel only sets the next one (devintr), so one        *)
(* request is under way at a time.  What does run concurrently are the     *)
(* device, which looks at memory whenever it likes, and virtio_disk_intr,  *)
(* which interrupts the wait.  A driver step ends wherever the device      *)
(* could see the difference.                                               *)
(***************************************************************************)
EXTENDS Integers, FiniteSets, Sequences

CONSTANTS NUM,      \* descriptors, and entries of each ring (8)
          WRAP,     \* avail->idx, used->idx and used_idx are modulo this (2^16)
          Bufs,     \* buffers of the buffer cache
          NBLOCKS,  \* blocks of the disk
          SPB,      \* sectors of a block, BSIZE / 512 (2)
          Bytes,    \* what a sector may hold
          Errors,   \* TRUE iff the device may fail a request
          NoBuf     \* a null pointer

ASSUME VirtioAssumption ==
    /\ NUM \in Nat /\ NUM >= 3
    /\ WRAP \in Nat /\ WRAP > NUM /\ WRAP % NUM = 0
    /\ NBLOCKS \in Nat \ {0} /\ SPB \in Nat \ {0}
    /\ NoBuf \notin Bufs
    /\ Errors \in BOOLEAN

Descs   == 0 .. NUM - 1
Blocks  == 0 .. NBLOCKS - 1
Sectors == 0 .. NBLOCKS * SPB - 1
Data    == [1 .. SPB -> Bytes]

VARIABLES
    desc, avail, used,              \* the memory shared with the device
    free, used_idx, info, ops,      \* struct disk
    owned, data,                    \* b->disk and b->data of each buffer
    pc, b, blockno, write, idx,     \* virtio_disk_rw
    intr,                           \* virtio_disk_intr is running
    halted,                         \* it has panicked
    sectors,                        \* device: the disk
    seen, busy, pending, isr        \* device: avail entries taken, the chain being
                                    \* served, finished but not signalled, interrupt

queue  == <<desc, avail>>
driver == <<free, info, ops, owned, pc, b, blockno, write, idx>>
device == <<sectors, seen, busy, pending>>
vars   == <<queue, used, used_idx, driver, data, intr, halted, device, isr>>

NoDesc == [addr |-> NoBuf, flags |-> {}, next |-> 0]
NoOp   == [type |-> "IN", sector |-> 0]
Idle   == -1

Init == \* virtio_disk_init
    /\ desc = [i \in Descs |-> NoDesc]
    /\ avail = [idx |-> 0, ring |-> [i \in Descs |-> 0]]
    /\ used = [idx |-> 0, ring |-> [i \in Descs |-> 0]]
    /\ free = Descs /\ used_idx = 0
    /\ info = [i \in Descs |-> [b |-> NoBuf, status |-> 0]]
    /\ ops = [i \in Descs |-> NoOp]
    /\ owned = [x \in Bufs |-> FALSE] /\ data \in [Bufs -> Data]
    /\ pc = "idle" /\ b = NoBuf /\ blockno = 0 /\ write = FALSE /\ idx = <<0, 0, 0>>
    /\ intr = FALSE /\ halted = FALSE
    /\ sectors \in [Sectors -> Bytes]
    /\ seen = 0 /\ busy = Idle /\ pending = FALSE /\ isr = FALSE

(***************************************************************************)
(* virtio_disk_rw.                                                         *)
(***************************************************************************)
Lowest(S) == CHOOSE x \in S : \A y \in S : x <= y

\* bread or bwrite calls; a buffer that is written holds whatever its user put
\* there.
Call(x, n, w) ==
    /\ pc = "idle" /\ ~halted /\ ~intr
    /\ pc' = "alloc" /\ b' = x /\ blockno' = n /\ write' = w
    /\ IF w THEN \E d \in Data : data' = [data EXCEPT ![x] = d] ELSE UNCHANGED data
    /\ UNCHANGED <<queue, used, used_idx, free, info, ops, owned, idx, intr, halted, device, isr>>

\* alloc3_desc takes the three lowest free descriptors; that there are three
\* is part of DeviceHasTheChain.
Alloc ==
    LET first == Lowest(free)
        second == Lowest(free \ {first})
        third == Lowest(free \ {first, second})
    IN  /\ pc = "alloc" /\ Cardinality(free) >= 3
        /\ idx' = <<first, second, third>>
        /\ free' = free \ {first, second, third}
        /\ pc' = "format"
        /\ UNCHANGED <<queue, used, used_idx, info, ops, owned, b, blockno, write, data,
                       intr, halted, device, isr>>

\* The first sector of a block.
SectorOf(n) == n * SPB

\* The header, the buffer and the status byte of a request; the address of a
\* header or of a status byte is its index in ops or info.
Chain == [desc EXCEPT
    ![idx[1]] = [addr |-> idx[1], flags |-> {"NEXT"}, next |-> idx[2]],
    ![idx[2]] = [addr |-> b, flags |-> IF write THEN {"NEXT"} ELSE {"NEXT", "WRITE"}, next |-> idx[3]],
    ![idx[3]] = [addr |-> idx[1], flags |-> {"WRITE"}, next |-> 0]]

\* Mutant: b->disk is not set.
MarkedNot(x) == owned
Marked(x) == [owned EXCEPT ![x] = TRUE]

Format ==
    /\ pc = "format"
    /\ ops' = [ops EXCEPT ![idx[1]] = [type |-> IF write THEN "OUT" ELSE "IN",
                                       sector |-> SectorOf(blockno)]]
    /\ desc' = Chain
    /\ info' = [info EXCEPT ![idx[1]] = [b |-> b, status |-> 251]]
    /\ owned' = Marked(b)
    /\ pc' = "offer"
    /\ UNCHANGED <<avail, used, used_idx, free, b, blockno, write, idx, data, intr, halted, device, isr>>

\* The entry first, then, after a fence, the index that lets the device see it.
Offer ==
    /\ pc = "offer"
    /\ avail' = [avail EXCEPT !.ring[avail.idx % NUM] = idx[1]]
    /\ pc' = "publish"
    /\ UNCHANGED <<desc, used, used_idx, free, info, ops, owned, b, blockno, write, idx, data,
                   intr, halted, device, isr>>

Publish ==
    /\ pc = "publish"
    /\ avail' = [avail EXCEPT !.idx = (@ + 1) % WRAP]
    /\ pc' = "notify"
    /\ UNCHANGED <<desc, used, used_idx, free, info, ops, owned, b, blockno, write, idx, data,
                   intr, halted, device, isr>>

\* QUEUE_NOTIFY tells the device to look, which it may have done already;
\* intr_on lets the handler in.
Notify ==
    /\ pc = "notify" /\ pc' = "wait"
    /\ UNCHANGED <<queue, used, used_idx, free, info, ops, owned, b, blockno, write, idx, data,
                   intr, halted, device, isr>>

\* The descriptors free_chain visits from i, in order.
ChainFrom(i) ==
    LET Follow[k \in 0 .. NUM] ==
            [j \in Descs |-> IF k > 0 /\ "NEXT" \in desc[j].flags
                             THEN <<j>> \o Follow[k - 1][desc[j].next] ELSE <<j>>]
    IN  Follow[NUM][i]

Freed(i) == {ChainFrom(i)[k] : k \in 1 .. Len(ChainFrom(i))}

\* b->disk is clear: intr_off, and the chain is freed.
Finish ==
    /\ pc = "wait" /\ ~intr /\ ~halted /\ ~owned[b]
    /\ info' = [info EXCEPT ![idx[1]].b = NoBuf]
    /\ desc' = [i \in Descs |-> IF i \in Freed(idx[1]) THEN NoDesc ELSE desc[i]]
    /\ free' = free \cup Freed(idx[1])
    /\ pc' = "idle"
    /\ UNCHANGED <<avail, used, used_idx, ops, owned, b, blockno, write, idx, data,
                   intr, halted, device, isr>>

(***************************************************************************)
(* virtio_disk_intr.  Interrupts are on in the wait and in user mode.      *)
(***************************************************************************)
Interrupt == \* Taken and acknowledged.
    /\ isr /\ ~intr /\ ~halted /\ pc \in {"wait", "idle"}
    /\ isr' = FALSE /\ intr' = TRUE
    /\ UNCHANGED <<queue, used, used_idx, driver, data, halted, device>>

\* Mutant: the handler leaves the last entry for the next interrupt.
MoreThanOne == (used_idx + 1) % WRAP # used.idx
More == used_idx # used.idx

\* One turn of its loop.  Mutant: the status is not looked at.
GoodStatusBlind(s) == TRUE
GoodStatus(s) == s = 0
Complete ==
    LET id == used.ring[used_idx % NUM] IN
    /\ intr /\ ~halted /\ More
    /\ IF GoodStatus(info[id].status)
       THEN /\ owned' = [owned EXCEPT ![info[id].b] = FALSE]
            /\ used_idx' = (used_idx + 1) % WRAP
            /\ UNCHANGED halted
       ELSE halted' = TRUE /\ UNCHANGED <<owned, used_idx>>
    /\ UNCHANGED <<queue, used, free, info, ops, pc, b, blockno, write, idx, data, intr, device, isr>>

InterruptDone ==
    /\ intr /\ ~halted /\ ~More
    /\ intr' = FALSE
    /\ UNCHANGED <<queue, used, used_idx, driver, data, halted, device, isr>>

(***************************************************************************)
(* The device: takes a chain the driver has published, serves it, puts it  *)
(* in the used ring and raises its interrupt.                              *)
(***************************************************************************)
Take ==
    /\ busy = Idle /\ ~pending /\ seen # avail.idx /\ ~halted
    /\ busy' = avail.ring[seen % NUM]
    /\ seen' = (seen + 1) % WRAP
    /\ UNCHANGED <<queue, used, used_idx, driver, data, intr, halted, sectors, pending, isr>>

\* What the device finds when it follows the chain.
Second == desc[busy].next
Op == ops[desc[busy].addr]
Target == desc[Second].addr
Status == desc[desc[Second].next].addr

Serve ==
    /\ busy # Idle /\ info[Status].status = 251 /\ ~halted
    /\ IF Op.type = "OUT"
       THEN /\ sectors' = [s \in Sectors |->
                              IF s - Op.sector \in 0 .. SPB - 1
                              THEN data[Target][s - Op.sector + 1] ELSE sectors[s]]
            /\ UNCHANGED data
       ELSE /\ "WRITE" \in desc[Second].flags
            /\ data' = [data EXCEPT ![Target] = [k \in 1 .. SPB |-> sectors[Op.sector + k - 1]]]
            /\ UNCHANGED sectors
    /\ info' = [info EXCEPT ![Status].status = 0]
    /\ UNCHANGED <<queue, used, used_idx, free, ops, owned, pc, b, blockno, write, idx,
                   intr, halted, seen, busy, pending, isr>>

ServeFails ==
    /\ Errors /\ busy # Idle /\ info[Status].status = 251 /\ ~halted
    /\ info' = [info EXCEPT ![Status].status = 1]
    /\ UNCHANGED <<queue, used, used_idx, free, ops, owned, pc, b, blockno, write, idx, data,
                   intr, halted, device, isr>>

Return ==
    /\ busy # Idle /\ info[Status].status # 251 /\ ~halted
    /\ used' = [idx |-> (used.idx + 1) % WRAP, ring |-> [used.ring EXCEPT ![used.idx % NUM] = busy]]
    /\ busy' = Idle
    /\ pending' = TRUE
    /\ UNCHANGED <<queue, used_idx, driver, data, intr, halted, sectors, seen, isr>>

Raise ==
    /\ pending /\ ~halted
    /\ pending' = FALSE /\ isr' = TRUE
    /\ UNCHANGED <<queue, used, used_idx, driver, data, intr, halted, sectors, seen, busy>>

Driver == Alloc \/ Format \/ Offer \/ Publish \/ Notify \/ Finish
Handler == Interrupt \/ Complete \/ InterruptDone
Device == Take \/ Serve \/ ServeFails \/ Return \/ Raise

Next == \/ \E x \in Bufs, n \in Blocks, w \in BOOLEAN : Call(x, n, w)
        \/ Driver \/ Handler \/ Device

Spec == Init /\ [][Next]_vars

\* The CPU goes on, interrupts are delivered, and the device answers.
FairSpec == Spec /\ WF_vars(Driver) /\ WF_vars(Handler) /\ WF_vars(Device)

(***************************************************************************)
(* Properties.                                                             *)
(***************************************************************************)

\* The type invariant of the driver.
TypeOK ==
    /\ desc \in [Descs -> [addr : Descs \cup Bufs \cup {NoBuf},
                           flags : SUBSET {"NEXT", "WRITE"}, next : Descs]]
    /\ avail \in [idx : 0 .. WRAP - 1, ring : [Descs -> Descs]]
    /\ used \in [idx : 0 .. WRAP - 1, ring : [Descs -> Descs]]
    /\ free \subseteq Descs
    /\ used_idx \in 0 .. WRAP - 1 /\ seen \in 0 .. WRAP - 1
    /\ info \in [Descs -> [b : Bufs \cup {NoBuf}, status : {0, 1, 251}]]
    /\ ops \in [Descs -> [type : {"IN", "OUT"}, sector : Sectors]]
    /\ owned \in [Bufs -> BOOLEAN] /\ data \in [Bufs -> Data]
    /\ pc \in {"idle", "alloc", "format", "offer", "publish", "notify", "wait"}
    /\ b \in Bufs \cup {NoBuf} /\ blockno \in Blocks /\ write \in BOOLEAN
    /\ idx \in [1 .. 3 -> Descs]
    /\ intr \in BOOLEAN /\ halted \in BOOLEAN
    /\ sectors \in [Sectors -> Bytes]
    /\ busy \in Descs \cup {Idle} /\ pending \in BOOLEAN /\ isr \in BOOLEAN

\* What the device works on is what the driver gave it: while a chain is
\* published and not handed back, its descriptors are not free, none is visited
\* twice (free_desc never panics), and its buffer is marked as the device's.
\* And when no request is under way every descriptor is back: alloc3_desc never
\* fails, so virtio_disk_rw never yields in the middle of the kernel.
DeviceHasTheChain ==
    /\ pc \in {"idle", "alloc"} => free = Descs
    /\ \A h \in Descs :
        (busy = h \/ (seen # avail.idx /\ avail.ring[seen % NUM] = h)) =>
            /\ Len(ChainFrom(h)) = 3 /\ Freed(h) \cap free = {} /\ Cardinality(Freed(h)) = 3
            /\ info[h].b \in Bufs /\ owned[info[h].b] /\ desc[desc[h].next].addr = info[h].b

\* The driver and the device together behave like BlockDevice: a request is
\* served exactly once between call and return, on the right block and buffer.
DiskBlocks == [n \in Blocks |-> [k \in 1 .. SPB |-> sectors[SectorOf(n) + k - 1]]]
Request == [buf |-> b, block |-> blockno, write |-> write]
Progress == CASE halted -> "failed"
              [] pc = "idle" -> "idle"
              [] pc \in {"notify", "wait"} /\ info[idx[1]].status = 0 -> "served"
              [] OTHER -> "called"

BD == INSTANCE BlockDevice WITH disk <- DiskBlocks, data <- data, req <- Request, state <- Progress
IsBlockDevice == BD!Spec

\* Every request returns, or the machine stops on a device error.
RequestsReturn == (pc # "idle") ~> (pc = "idle" \/ halted)
=============================================================================
