------------------------------- MODULE Bcache -------------------------------
(***************************************************************************)
(* The buffer cache, bio.c: NBUF buffers on a doubly linked list, the most *)
(* recently used first.                                                    *)
(*                                                                         *)
(* virtio_disk_rw is one step here: it reads or writes the block before it *)
(* returns and nothing else runs meanwhile, which is what Virtio shows.    *)
(* The file system code that uses the cache holds at most MaxHeld buffers  *)
(* at a time (bmap and itrunc hold an indirect block while the bitmap, or  *)
(* the block being zeroed, is in use), changes the data of those it holds, *)
(* and writes a changed buffer before releasing it, with one exception     *)
(* (CopyFails).                                                            *)
(***************************************************************************)
EXTENDS Integers, FiniteSets, Sequences

CONSTANTS NBUF,      \* buffers (30)
          Blocks,    \* blocks of the disk
          Values,    \* what a block may hold
          MaxHeld,   \* buffers held at a time
          CopyFails  \* TRUE iff a program may write to a file from a bad address

ASSUME BcacheAssumption ==
    /\ NBUF \in Nat /\ MaxHeld \in Nat /\ MaxHeld <= NBUF
    /\ Blocks # {} /\ Values # {}
    /\ CopyFails \in BOOLEAN

Anchor == 0        \* bcache.head
Bufs == 1 .. NBUF
Nodes == 0 .. NBUF

VARIABLES
    next, prev,                           \* the list
    cached, blockno, valid, refcnt, data, \* the buffers; cached: dev is ROOTDEV
    disk,                                 \* the disk, under virtio_disk_rw
    held,                                 \* buffers in use, and the blocks they were asked for
    unsaved,                              \* held buffers changed and not yet written
    abandoned,                            \* history: buffers released with such a change
    recent                                \* history: buffers, the last released first

list  == <<next, prev>>
usage == <<refcnt, held>>
vars  == <<list, cached, blockno, valid, usage, data, disk, unsaved, abandoned, recent>>

Init == \* binit puts each buffer in turn at the front.
    /\ next = [b \in Nodes |-> IF b = Anchor THEN NBUF ELSE b - 1]
    /\ prev = [b \in Nodes |-> IF b = NBUF THEN Anchor ELSE b + 1]
    /\ cached = [b \in Bufs |-> FALSE] /\ valid = [b \in Bufs |-> FALSE]
    /\ refcnt = [b \in Bufs |-> 0]
    /\ blockno \in {[b \in Bufs |-> n] : n \in Blocks} \* zeroed; not looked at
    /\ data \in {[b \in Bufs |-> v] : v \in Values}
    /\ disk \in [Blocks -> Values]
    /\ held = <<>> /\ unsaved = {} /\ abandoned = {}
    /\ recent = [i \in Bufs |-> NBUF + 1 - i]

(***************************************************************************)
(* bget.                                                                   *)
(***************************************************************************)

\* The buffers met when following a pointer from the head until the head comes
\* again (or, in a broken list, for NBUF steps).
Walk(ptr) ==
    LET From[k \in 0 .. NBUF] ==
            [b \in Nodes |-> IF k = 0 \/ b = Anchor THEN <<>> ELSE <<b>> \o From[k - 1][ptr[b]]]
    IN  From[NBUF][ptr[Anchor]]

First(s, P(_)) ==
    s[CHOOSE i \in DOMAIN s : P(s[i]) /\ \A j \in 1 .. i - 1 : ~P(s[j])]

Holds(b, n) == cached[b] /\ blockno[b] = n
Hit(n) == \E b \in Bufs : Holds(b, n)
Found(n) == First(Walk(next), LAMBDA b : Holds(b, n))

\* Mutant: the least recently used buffer is taken even when it is in use.
IsFreeAny(b) == TRUE
IsFree(b) == refcnt[b] = 0
Victim == First(Walk(prev), IsFree)

bget(n) == IF Hit(n) THEN Found(n) ELSE Victim

RefAfterGet(n) == [refcnt EXCEPT ![bget(n)] = IF Hit(n) THEN @ + 1 ELSE 1]

\* A recycled buffer is not valid.  Mutant: valid is not cleared.
ValidAfterGetStale(n) == valid[bget(n)]
ValidAfterGet(n) == Hit(n) /\ valid[bget(n)]

(***************************************************************************)
(* The interface.                                                          *)
(***************************************************************************)
bread(n) ==
    LET b == bget(n) IN
    /\ cached' = [cached EXCEPT ![b] = TRUE]
    /\ blockno' = [blockno EXCEPT ![b] = n]
    /\ refcnt' = RefAfterGet(n)
    /\ held' = Append(held, [buf |-> b, block |-> n])
    /\ data' = IF ValidAfterGet(n) THEN data ELSE [data EXCEPT ![b] = disk[n]]
    /\ valid' = [valid EXCEPT ![b] = TRUE]
    /\ abandoned' = IF Hit(n) THEN abandoned ELSE abandoned \ {b}
    /\ UNCHANGED <<list, disk, unsaved, recent>>

Bread(n) == Len(held) < MaxHeld /\ bread(n)

\* The user of a buffer changes its data.
Change(b, v) ==
    /\ v # data[b]
    /\ data' = [data EXCEPT ![b] = v]
    /\ unsaved' = unsaved \cup {b}
    /\ UNCHANGED <<list, cached, blockno, valid, usage, disk, abandoned, recent>>

Bwrite(b) ==
    /\ disk' = [disk EXCEPT ![blockno[b]] = data[b]]
    /\ unsaved' = unsaved \ {b} /\ abandoned' = abandoned \ {b}
    /\ UNCHANGED <<list, cached, blockno, valid, usage, data, recent>>

\* b is unlinked and put at the front, in the order of the assignments.
Unlink(b) == [nx |-> [next EXCEPT ![prev[b]] = next[b]],
              pv |-> [prev EXCEPT ![next[b]] = prev[b]]]
\* Mutant: the new neighbour's prev is not set.
PrevAfterInsertStale(l, b) == [l.pv EXCEPT ![b] = Anchor]
PrevAfterInsert(l, b) == [l.pv EXCEPT ![b] = Anchor, ![l.nx[Anchor]] = b]
NextAfterInsert(l, b) == [l.nx EXCEPT ![b] = l.nx[Anchor], ![Anchor] = b]

Without(s, i) == SubSeq(s, 1, i - 1) \o SubSeq(s, i + 1, Len(s))

brelse(b) ==
    /\ refcnt' = [refcnt EXCEPT ![b] = @ - 1]
    /\ held' = Without(held, CHOOSE i \in DOMAIN held : held[i].buf = b)
    /\ IF refcnt[b] = 1
       THEN /\ next' = NextAfterInsert(Unlink(b), b)
            /\ prev' = PrevAfterInsert(Unlink(b), b)
            /\ recent' = <<b>> \o Without(recent, CHOOSE i \in DOMAIN recent : recent[i] = b)
       ELSE UNCHANGED <<list, recent>>

Brelse(b) ==
    /\ b \notin unsaved
    /\ brelse(b)
    /\ UNCHANGED <<cached, blockno, valid, data, disk, unsaved, abandoned>>

\* writei: either_copyin has copied the part of the source that is mapped, and
\* the buffer is released without bwrite.
CopyinFails(b, v) ==
    /\ CopyFails /\ b \notin unsaved
    /\ data' = [data EXCEPT ![b] = v]
    /\ abandoned' = abandoned \cup {b}
    /\ brelse(b)
    /\ UNCHANGED <<cached, blockno, valid, disk, unsaved>>

InUse == {held[i].buf : i \in DOMAIN held}

Next == \/ \E n \in Blocks : Bread(n)
        \/ \E b \in InUse : Bwrite(b) \/ Brelse(b)
                            \/ \E v \in Values : Change(b, v) \/ CopyinFails(b, v)

Spec == Init /\ [][Next]_vars

(***************************************************************************)
(* Properties.                                                             *)
(***************************************************************************)

\* The type invariant of the cache.
TypeOK ==
    /\ next \in [Nodes -> Nodes] /\ prev \in [Nodes -> Nodes]
    /\ cached \in [Bufs -> BOOLEAN] /\ valid \in [Bufs -> BOOLEAN]
    /\ blockno \in [Bufs -> Blocks] /\ data \in [Bufs -> Values]
    /\ refcnt \in [Bufs -> Nat]
    /\ disk \in [Blocks -> Values]
    /\ held \in Seq([buf : Bufs, block : Blocks]) /\ unsaved \subseteq Bufs /\ abandoned \subseteq Bufs
    /\ recent \in Seq(Bufs)

\* No block is in two buffers, which would drift apart, whatever was recycled in
\* between; and the cache agrees with the disk, except for changes its user has yet to
\* write and those that a failed copy left behind: nobody reads the data of
\* another block, and recycling a buffer loses nothing that should be kept.
CacheIsCoherent ==
    /\ \A b, c \in Bufs : cached[b] /\ cached[c] /\ blockno[b] = blockno[c] => b = c
    /\ \A b \in Bufs : valid[b] /\ b \notin unsaved \cup abandoned => data[b] = disk[blockno[b]]

\* A buffer in use is not recycled under its user, and bget never finds the
\* cache full while the file system holds fewer than MaxHeld buffers.
RefsProtect ==
    /\ \A b \in Bufs : refcnt[b] = Cardinality({i \in DOMAIN held : held[i].buf = b})
    /\ \A i \in DOMAIN held : Holds(held[i].buf, held[i].block)
    /\ Len(held) < MaxHeld => \E b \in Bufs : refcnt[b] = 0

\* The list stays whole in both directions and in the order of the releases,
\* so that the buffer recycled is the one that was unused for longest.
ListIsLRU ==
    /\ Walk(next) = recent
    /\ Walk(prev) = [i \in 1 .. Len(recent) |-> recent[Len(recent) + 1 - i]]
=============================================================================
