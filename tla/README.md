# A verification development for the teaching kernel in `os/`

The repository is a small RISC-V kernel (`os/kernel`), the programs that run on
it (`os/user`), a builder for its disk image (`os/nfs`) and laboratory reports.
It runs on one hart. This directory holds TLA+ models of the kernel's stateful
parts, configurations that check them with TLC, and proofs checked by TLAPS.

## 1. The system

### How it runs

One hart; the kernel runs with interrupts disabled, except while
`virtio_disk_rw` waits for the disk. Control passes from one process to another
only through `sched()`: in `yield` (timer interrupt in user mode, `sched_yield`,
a full or empty pipe), in `wait`, and in `exit`. So a system call is atomic up to
its next `sched()`, and what is hard in this kernel is what happens *across* such
points: process slots, parent pointers, pipes and files change while a process is
suspended in the middle of `wait`, `pipewrite` or `piperead`. The second source of
concurrency is the disk, which reads and writes memory while the driver runs.

### Inventory

| Component | State | Operations | Hard part | What makes it correct |
|---|---|---|---|---|
| processes, scheduler (`proc.c`, `trap.c`, `loader.c`) | `pool[]`, `current_proc`, `PID`, the scan of `scheduler()` | fork, spawn, exec, exit, wait, yield, faults | slots are reused; orphans; a scan that runs while slots change; failures half way | one RUNNING slot; no early shutdown; wait delivers each status once; no starvation |
| mailboxes (`proc.c`) | a ring of 17 entries in every slot | mailread, mailwrite | wrap-around, failed copies, reuse of the slot | bounded FIFO |
| pipes (`pipe.c`) | ring of 512 bytes, two counters, two open flags | read, write, close | calls suspended half way; counters wrap; last close frees the page | bytes in order; no use after free; final end of file; waiters released |
| open files (`file.c`, `syscall.c`) | `filepool[]`, `files[]` of every process | pipe, open, close, and fork, exit | sharing by fork; tables that fill up half way through `sys_pipe` | exact counts; pipes outlive their files |
| disk driver (`virtio_disk.c`, `plic.c`) | descriptors, two rings, `b->disk` | `virtio_disk_rw`, `virtio_disk_intr` | the device runs concurrently; ring indices wrap; interrupt ends the wait | implements an atomic disk; always returns |
| buffer cache (`bio.c`) | 30 buffers, LRU list | bread, bwrite, brelse | recycling; pointers | one buffer per block; coherent with the disk |
| inodes, blocks, directories (`fs.c`) | bitmap, inodes, `itable` | create, link, unlink, read, write, truncate | several disk writes per operation, no log; prefix comparison in `dirunlink`; references never put | no block in two files, none free that is used; programs see the files they wrote; what a crash may cost |
| pages and page tables (`kalloc.c`, `vm.c`) | free list, page tables | kalloc, kfree, mappages, uvmunmap, uvmcopy, mmap, munmap | loops that fail half way; holes; leaks | no page in two places; unmap never panics |
| image builder (`nfs/fs.c`) | a file on the host | main | none (sequential) | the image is a valid initial file system |
| user library (`user/lib`) | output buffer | printf, puts, fflush, exit, strlen | limits of the buffer, of the console and of pages; least int; strings read by words | output complete, once, in order |
| user shell (`ch5_usershell.c`) | `line`, `top` | keys, Enter, the report | an array that keeps old text; fork copies the buffer; fork may fail | the program run is the one shown; the report is true |
| traps, context switch (`trampoline.S`, `kernelvec.S`, `switch.S`, `trap.c`) | trap frames, contexts, kernel stacks, the CPU's registers | trap, return, switch, first start of a process | registers handed over by three pieces of assembly; `sstatus` and `stvec` outlive the process that set them; the kernel interrupted while it waits for the disk | programs and kernel threads go on with what they had; every trap meets its handler |
| console, SBI, logging | none of interest | | | |

Interactions: system calls enter through `syscall.c`; `proc.c` calls `file.c` when
descriptors are copied (fork) or given up (exit); `file.c` calls `pipe.c` and
`fs.c`; `fs.c` calls `bio.c`, `bio.c` calls `virtio_disk.c`; the disk calls back
through `trap.c`, which clears `b->disk` under the waiting driver. The scheduler is
what interleaves everything above the file system.

## 2. The modules

| Module | Models | Composition |
|---|---|---|
| `Mailbox` | one mail ring and what `mail_read`, `mail_write` do to it | extended by `Proc` |
| `MailQueue` | abstract: bounded FIFO queues | implemented by `Proc` (`MailIsFIFO`) |
| `Proc` | process table, scheduler, process and mail system calls | |
| `ProcProofs` | theorems about `Proc` | |
| `Pipe` | one pipe and the processes around it | relies on `NoStarvation` of `Proc` |
| `PipeProofs` | theorems about `Pipe` | |
| `FileTable` | all files, descriptors and pipe ends | complements `Pipe`: who holds which end |
| `FileTableProofs` | theorems about `FileTable` | |
| `BlockDevice` | abstract: a disk with one request at a time | implemented by `Virtio` (`IsBlockDevice`) |
| `Virtio` | disk driver, interrupt handler, device | |
| `VirtioProofs` | theorems about `Virtio`, among them the refinement | |
| `Bcache` | buffer cache over an atomic disk | relies on `IsBlockDevice` |
| `BcacheProofs` | theorems about `Bcache` | |
| `Vm` | free pages and user page tables | complements `Proc`: what fork, exec, spawn and exit do to memory |
| `VmProofs` | theorems about `Vm` | |
| `Inodes` | blocks, inodes, `itable`, contents of files (`fs.c`) | relies on `CacheIsCoherent`; extended by `Directory` |
| `CString` | `strncmp`, `strncpy`, `strlen` of the kernel | used by `Directory`, `Stdio` |
| `Directory` | the root directory, `create` | extended by `Mkfs` |
| `Mkfs` | the image builder (`nfs/fs.c`) | initial states of `FileSys` |
| `FileSys` | the file system calls; the end of the machine in any of them | extends all of these |
| `FileSysInv` | the inductive invariant of `FileSys`, in parts that can be said of a state in the middle of a call | extends `FileSys` |
| `FileSysProofs` | lemmas about every function of `Inodes`, `Directory` and `Mkfs`; theorems about `FileSys` | |
| `FileStore` | abstract: names, files and handles that survive a crash | implemented by `FileSys` (`KeepsFiles`) |
| `UserString` | `strlen`, `memchr`, `strnlen` of `user/lib`, word by word | used by `Stdio` |
| `Stdio` | buffered output, both `printf`s, `copyinstr`, `console_write`, `atoi` | extended by `Shell` |
| `Shell` | the user shell, its child, the terminal | relies on `Proc` for fork, wait and exit |
| `Trap` | trap entry and return, kernel threads, trap frames and contexts | complements `Proc`: what its atomic switches are made of |
| `TrapProofs` | theorems about `Trap` | |
| `MC*` | instances, and claims quoted from the repository | |

### Proc

Variables are the fields of `pool[s]` (`state`, `pid`, `parent`, `exit_code`,
`mailbox`; memory is `loaded`), `nextpid` (the static `PID`), `current`, and the
locals of `scheduler()`: `scan` (its `p`) and `all_done`. `kctx[s]` says where a
suspended process goes on: in user mode, or in the loop of `wait` with its
arguments. `creator` and `exited` are history.

The scheduler's loop is four actions: `SwitchTo` a RUNNABLE slot, `PassOver` another,
`NewPass` at the end of the pool, and `AllAppsOver`, the panic that stops the machine.
A system call is one action per outcome: `Fork`, `ForkNoMemory` (uvmcopy fails and
the slot stays USED), `ForkPoolFull` (the caller's own pid is returned), `Spawn`
(followed by the `mailread` the missing `break` runs into), `SpawnPoolFull`, `Exec`,
`OutOfMemory`, the four outcomes of a turn of `wait`, `MailRead`, `MailWrite`, `MailOverrun`. `Exit`
and `Fault` end in `exit`. Processes that unmap part of their own image, and then
panic in `exit` or `fork`, are in `Vm`.

The length of a mail is an `int`, and nothing checks its sign. `mail_write` stores a negative one, and
`copyin` takes it for a huge number: it copies over the entry and the ones behind it in the array, queued mails
among them, until a page of the program is not mapped, and -1 is returned (`BoxAfterWrite` with `over`). The copy may
also run out of the array, over the rest of `struct proc` and the next slots of the pool. Nothing is known
after that, and the model stops (`MailOverrun`). A read of negative length fails in the same way after copying into the caller's memory,
which is not in the model.

### Pipe

`data`, `nread`, `nwrite`, `readopen` and `writeopen` are `struct pipe`; counters wrap
at `WRAP` (2^32 in the code). `call[p]` is the read or write in progress with the
number of bytes done, and `cpu` the process between two yields: a turn of a loop that
does not yield is not interleaved with anything. Bytes are numbered in the order they
are written, so that losing, repeating or reordering one is visible.

### FileTable

`file` is `filepool`, `fds[p]` the descriptors of a process, `pipes` the pipes with
their open flags. `sys_pipe` is one action per outcome: success with two, one or no
descriptors (`fdalloc` is not checked), no page, no file, no valid address. A null
pointer dereferenced in the kernel ends in `exit(-1)` (`KernelFault`). `sys_close` does not check the
descriptor; of those outside `files[]` the ones in `Reached` are modelled, where what it takes for a pointer cannot be one.

### Virtio, BlockDevice

`desc`, `avail`, `used` are the shared memory; a descriptor's `addr` is a buffer, or an
index into `ops` or `info`. The steps of the driver end where the device could see the
difference: the ring entry (`Offer`) and the index (`Publish`) are separate. The device
(`Take`, `Serve`, `ServeFails`, `Return`, `Raise`) is external; it may look at the
avail ring before it is notified. `BlockDevice` has three steps per request: call,
serve, return. The mapping takes `disk` from the sectors and calls a request served
once its status byte is 0.

### Bcache

`next` and `prev` are the pointers of the list, with `Anchor` for `bcache.head`. The
users of the cache are abstracted to what they may do: hold up to `MaxHeld` buffers (2
in `fs.c`), change, write, release; `CopyinFails` is the path of `writei` that releases
a changed buffer without writing it. `recent` is history.

### Vm

A page table is a tree whose nodes are `<<height, index>>`: height 0 are the entries of
pages, 1 to 3 the table pages above them (`walk` of `vm.c`, with `Radix` for 512). An
entry is `None`, a page of the allocator, `Fixed` (the trampoline) or `Zero`: `sys_mmap`
maps physical address 0 when `kalloc` returns 0. `free` is the free list as a set: which
page is first in it is left open (`kalloc` is a `CHOOSE`), since pages are alike. The page of slot `p`'s trapframe, which `procinit` allocates for good, is
called `p`: it is not among `Frames`, but `kfree` accepts it.

The ranges of mmap and munmap are not bounded. `mmap` beyond `MAXVA` panics in `walk`, and so does the loop of `sys_munmap`
(`WalkPanic`, `MunmapPanic`); unmapping the trampoline panics in `kfree`; unmapping the trapframe succeeds, frees a page the slot goes on using,
and leaves the hart in a loop of faults on the way back to the program: the model stops (`panicked` is "trapframe").
Not modelled are ranges that wrap around at 2^64 and, for mmap, of 2 GiB and more, where its `int` counter overflows.

`op` is the call that is allocating, with the pages it still has to map in the order of
the code (`proc_pagetable`, then `bin_loader` and `alloc_ustack`, or `uvmcopy`, or the
loop of `sys_mmap`). Its steps are: get a page (`TakePage` and its failures), allocate
missing tables from the root down (`WalkAllocates`), fill the entry (`MapPage`) or have it
refused. What a refusal does depends on the caller: mmap goes on and drops the page, fork
undoes its copy and leaves the slot USED, the loader panics. Nothing is interleaved with a call. Calls
that free (`Exit`, `Exec`, `Munmap`) are one step. `lost` collects the pages that
no one can free any more, `holed` the slots whose program unmapped part of itself; both are history.
Not in the model: zombies (they hold no memory), a spawn with a full pool (in `Proc`),
calls that return an error before they change anything, contents of pages.

### Inodes, Directory, Mkfs, FileSys, FileStore

A file system call does not give up the CPU: `virtio_disk_rw` waits with interrupts on, and
the timer yields only in user mode. So a function of `fs.c` is an operator from the state `s` of
the file system to the next one, with its result in `s.ret`, and a call is one action. What can come in
between is the end of the machine. The field `log` collects the image of the disk after every
`bwrite`; `Crashes` leaves one of them, `Panics` the last one before the panic, and the
machine starts again with `Mount`. What the kernel sees through the cache (`bmap`, `din`, `blk`)
and what the disk has are separate, since a failed copy leaves a changed buffer unwritten
until `Recycle` or a later write.

Blocks consist of `BSIZE` units: a byte, an address or a directory entry. An entry of `itable`
has, besides `ref`, the flag `kept`: references that nobody puts (`namei`, `dirunlink`,
`sys_linkat`, `sys_fstat`) are not counted, only the fact that the entry can never be recycled.
`copyin` and `copyout` are what they do to a caller: copy up to the first page that is missing.
A handle is a `struct file`; sharing it by fork is in `FileTable`. `readable` and `writable` are left
out, since `sys_read` and `sys_write` do not look at them. Names are shorter than `DIRSIZ`: with a longer
one `sys_linkat` and `sys_unlinkat` work on strings without an end.

`Mkfs` builds the initial disks the way the host program does, the size of the root directory
rounded up past its last block included: the first lookup then allocates a block.

`FileStore` is what programs are promised: calls do to names and contents what they say; after a
crash the directory is the one before or after the call and no file but the one being written has changed.
History: `doubt` has the files a write was cut short in, whose contents are open until they are
truncated; `torn` is set when the machine stopped inside `itrunc`, which frees blocks before it writes the inode:
from then on nothing is promised, and the kernel may panic with "freeing free block". `seen` is an
auxiliary copy of what programs see.

### Stdio, UserString, Shell

An output is what is `shown` and what is in the buffer `buf`. `write_buffer` goes through
`console_write` and `copyinstr`, page by page, so that each limit is where the code has it. `printf`
takes the format apart as the library does, `kprintf` as the kernel does, and each is the measure of the other:
`meant` is what `kprintf` makes of a format (of strings no longer than the library takes). Since the buffer is longer than what the console
takes at a time, a full buffer loses its end: `OutputIsComplete` asks for everything up to there, and that nothing comes twice or out of order after it. `UserString` looks for the NUL of a string
word by word with the `HASZERO` trick, in memory where other data follows.

The shell and its child take turns, since the shell waits. One action per key, per outcome of
Enter, per thing the child may do, and `Reap` when wait returns. When fork fails, wait returns -1 and the
shell ends in its assertion (`EnterForkFails`). `Terminal` is external: rows, a cursor, backspace.
`cmd` (what the screen had after the prompt) and `last` (who exited, and how) are history. Texts of the shell are shortened.

### Trap

`cpu` has the registers of the hart, `tf`, `ctx` and `stack` the trap frame, the context and the frames on
the kernel stack of every process. One register of `Regs` stands for each class (saved by the callee,
temporary, argument) and the ones with a role of their own. A value is a tuple that says whose
it is, so that a register restored from the wrong place, or not at all, is visible. `cpu.pc` is
the piece of code to run next; a piece is a routine of assembly or a stretch of C between two points
where the CPU changes hands. C code is what the calling convention allows: everything but `sp`, `gp` and `tp` may change
(`Compiled`), and what a function keeps is put back where it returns. Interrupts come wherever
`sie` is set: only in programs and in the wait for the disk, and there with `stvec` at `kernelvec`, which `TrapsArrive` shows.

A system call is one of the ways in which it can use the CPU: go on, yield and go on, wait for the disk,
fork, spawn, exec, wait, exit. Kernel faults happen where `wait` stores through a bad address. Which process is chosen, pids, memory, and
calls that fail for want of a slot are in `Proc` and `Vm`. `due` is history: what each program is to find.

## 3. The runs

| Run | Question | Bounds, and why they are enough |
|---|---|---|
| `proc_lifecycle` | process table consistent; wait right; no starvation; waits end; machine stops | 3 slots, 4 pids: a parent, its child and a third process; the fourth pid reuses a slot while the other two are live, orphaned or zombie |
| `proc_mail` | the ring is a FIFO | 3 entries (full at 2, wraps at 3), lengths -1, 0, 1 and one above the maximum |
| `pipe_ring` | order, ring contents, lifetime, end of file; waiters are released | 2-byte ring, counters wrapping at 4, writes of 3 (more than the ring), 6 bytes in all, 3 processes: one is watched, the others close, read and write around it |
| `file_table` | reference counts | 3 files, 2 descriptors each, 2 pipes: every table fills up; closes of descriptors on both sides of the table |
| `virtio_disk` | driver implements `BlockDevice`; requests return | 4 descriptors (3 used, 1 spare), indices wrap at 8 after going round the rings twice |
| `vm` | every page has one owner; none vanishes; failures are undone; panics have a cause | 2 slots, tables of 3 entries, 8 virtual pages, programs of 1 and 2 pages, 13 pages of memory: enough for two small processes and not for their mappings, so every loop fails at each of its pages; ranges in the program, above it, at the trapframe, the trampoline and beyond `MAXVA`; 6 calls |
| `bcache` | list, counts, uniqueness; coherence | 3 buffers, 4 blocks, 2 held: hit, recycle and share all happen |
| `fs` | blocks have one owner; handles hold their inodes; panics only for want of room; implements `FileStore` | 8 data blocks of 2 units, 1 direct and 2 indirect blocks per file, 4 inodes, 3 `itable` entries, 2 handles, 2 names, 5 calls, 1 restart: files with indirect blocks, tables and disk that fill up, crashes at each write of each call |
| `shell` | output complete and in order; screen, command and report agree | buffer of 12, console of 9, pages of 4 characters, words of 2 bytes, ints of 8 bits, lines of up to 4 keys, programs that do 3 things, 2 children |
| `trap` | programs and kernel threads find their registers again; traps are handled where they should be | 3 slots: a process that waits or was interrupted, one that runs and one that starts, in every order; a program leaves a value in each register that is not its first one nor a result |

The data is abstracted, not the control: the bounds limit table sizes and the number
of pids or bytes, never the interleavings. In `vm` and `fs` the number of calls is bounded too (`MaxCalls`): the pages are
numbered, and long histories differ only in which number is where. With five calls a file can be made,
written, linked, unlinked and read again, or the machine stopped in the last of four. `shell` types fewer keys than `line`
has room for: `push` does not check.

Type invariants that no run of their own needs (`Pipe`, `FileTable`, `Virtio`, `Bcache`,
`FileSys`) are stated in their modules, and are theorems.

Two runs show that the code does something other than what a comment or a test says:

| Run | What the code does |
|---|---|
| `proc_spawn_pid` | spawn returns the result of mailread, for want of a `break` (`syscall.c:383`); `ch5_spawn0.c:16` asserts a pid |
| `fs_unlink` | unlink clears the first entry that begins with the name (`fs.c:419`), not "the dirent that match the ip" (`fs.c:415`) |

Two more are stated in the `MC` modules, with configurations in which TLC finds them violated,
`proc_stale_mail.cfg` and `file_fd_exhausted.cfg`: `MailIsForReader`
(a new process reads mail of the slot's former occupant, `proc.c:123`, which `ch6_mail2.c:18`
excludes) and `WriteopenMeansOpen` (pipe with one descriptor left succeeds and leaves a write
end nobody can close, `syscall.c:91`, although `file.h:36` says "write fd is still open").

The models show more. A failed file write leaves changes in a buffer that are not written, although
`bio.c:10` asks for it (`CopyinFails`). mmap over a range of which some page but the last is
mapped returns the length, although `ch4_mmap3.c` expects -1 for a wrong request; the new
page is lost (`MmapRefused`). Pages from mmap are lost when the process exits or execs, although the comment of
`proc_freepagetable` says that the memory the table refers to is freed (`FreePageTable`).
A program that unmaps part of itself makes the kernel panic when it forks or exits. Fork with a full pool returns the caller's own pid
(`ForkPoolFull`), and after a parent's slot is reused its orphans can be reaped by the
new occupant, which is why `KidsAreOwnOrOrphans` is no stronger than it is.

### Fairness

- `Proc`: weak fairness of the scheduler (its loop runs whenever no process does), of
  `Yield` (the timer interrupts every user program, and `devintr` yields), and of the
  turn of `wait` a process was switched to (kernel code runs on).
- `Pipe`: weak fairness of a turn in progress. A suspended caller is resumed again and
  again, by `NoStarvation`, but between two of its turns others may run; hence strong
  fairness, and only for the steps that return because the other end is closed for
  good, of the process `Watched`. One is enough: the processes are alike.
- `Virtio`: the CPU executes, interrupts are delivered, the device answers.
- `FileSys`, `Shell`, `Trap`: none; calls end by themselves, and nobody has to type or trap.

Nothing is assumed about programs: they need not exit, read or close.

## 4. What is proved

Every invariant, action property and refinement that a run checks is also a theorem, for every value
of the constants that the assumptions admit, except the refinement `KeepsFiles`, the properties of `Shell` and what
needs fairness.
Each proof has the same form: an inductive invariant, which TLC found to hold on
the run's instance before it was proved, holds initially and is preserved by every action;
it implies the property.

**`Proc`** (`ProcAssumption`, `MailAssumption`): `TypeCorrect`, `RunningIsCurrentHolds`,
`OverMeansOverHolds`, `MailIsFIFOHolds`, `PidsUniqueHolds`, `WaiterHasKidHolds`,
`KidsAreOwnOrOrphansHolds`, `WaitDeliversHolds`.
The argument has two layers. `SchedInv` strengthens `OverMeansOver` with
`ScanIsCurrent`: while the scheduler's pass is still idle, no slot behind the scan is
RUNNABLE, and while a process runs, the pass is not idle. Without it the shutdown could
follow a pass during which a process became runnable behind the scan.
`StepShape` then classifies every step by what it does to processes: nothing, allocate
a slot, end the current process, reap, or block in wait. On these shapes rest `PidInv` (unique
pids; a live slot has one), `WaiterHasKid`, which is inductive with `SchedInv` because a
child's slot is released only by the process waiting for it, and `ZombieStatus`
(a zombie's `exit_code` is the recorded status, and it was not reaped), from which
`WaitDelivers` follows. `MailIsFIFO` needs only that mailboxes are typed: the queue is
what lies between head and tail, also after a write whose `copyin` failed half way (`WriteIsSend`). A write of negative
length moves neither; the entries it runs over that are queued are the oldest ones, which `MailQueue` calls `Garble`.

**`Pipe`** (`PipeAssumption`, of which `WRAP % PIPESIZE = 0` matters): `PipeTypeCorrect`,
`NoUseAfterFreeHolds`, `RingKeepsOrderHolds`, `EOFIsFinalHolds`. `LifeInv` says that an end somebody holds is
open, the page is freed when neither is, and only holders are inside a call. `RingInv` relates the wrapped
counters to the numbers of bytes read and written (`CountersInv`), and each place of the ring to the byte in it
(`ContentsInv`). Lemmas about `%` show that the wrap of the counters disturbs neither the places nor the
differences.

**`FileTable`** (`FileAssumption`; finitely many processes): `FileTypeCorrect`, `CountsAreExactHolds`,
`PipeOutlivesFilesHolds`. `FileInv` adds to the counts that a file and its pipe agree about which end is
open and that dead processes hold no descriptors: a count is the number of pairs of a process and
a descriptor, and each system call adds or removes pairs of one file.

**`Virtio`** (`VirtioAssumption`): `VirtioTypeCorrect`, `DeviceHasTheChainHolds`, `IsBlockDeviceHolds`.
`VirtioInv` is the list of stages a request goes through (`Quiet`, `Published`, `Taken`, `Returned`,
`Completed`): each fixes the indices on both sides of both rings, the status byte, `b->disk` and the interrupt. `DescsInv` says
what the three descriptors contain from `format` to `free_chain`. In each stage it is
the turn of one side, so every step is a step of `BlockDevice` or leaves it alone. `BlockDevice` numbers
blocks and the device sectors: `Apart` and `OneBlock` show that a request changes no other block.

**`Bcache`** (`BcacheAssumption`; `MaxHeld` at most `NBUF`): `BcacheTypeCorrect`, `CacheIsCoherentHolds`,
`RefsProtectHolds`, `ListIsLRUHolds`. `BcacheInv` says that the pointers are those of the list
`recent` in both directions (`ListInv`), that a count is the number of references (`RefsInv`), and that valid
data belongs to a block and unsaved changes to a buffer in use (`DataInv`). `MovedToFront` is the one
lemma about the six pointer assignments of `brelse`.

**`Vm`** (`VmAssumption`): `VmTypeCorrect`, `OneOwnerHolds`, `NothingVanishesHolds`, `ImageIsCompleteHolds`,
`MmapMapsAllHolds`. `OpInv` ties the page in hand to the call under way: without it a failed copy might free
what never came from `kalloc`. `VmAssumption` says nothing of the ranges programs map and unmap but that they are aligned, which both calls check. Pages change hands in six ways (`OwnersTakePage`, `OwnersWalk`,
`OwnersMap`, `OwnersLose`, `OwnersFree`, `OwnersFreeAll`); each action is reduced to one of them.
`Kept` is `NothingVanishes` in the form the steps preserve. `ImageInv` says how far the call under way has come:
each page of the image is mapped or still on the list (`Loading`, `Mapping`, `Forking`), a slot
without a process has none (`Clean`), and the panics are the fault of a process in `holed`
(`Blamed`).

**`Trap`** (`TrapAssumption`: `"kernel"` and `Idle` are not processes, as the values that tell whose a register
is require): `ProgramGoesOnHolds`, `KernelGoesOnHolds`, `TrapsArriveHolds`. `TrapInv` has one
clause for each piece of code that may run next, with what the registers, the trap frame and the stack of the running
process are at that point, and one for the processes that do not run (`Others`): what they find when they go on is
already in their context, stack and trap frame.

**`FileSys`** (`InodesAssumption`, `DirectoryAssumption`, `FileSysAssumption`): `FileSysTypeCorrect`,
`BlocksHaveOneOwnerHolds`, `OnlyRoomRunsOutHolds`, `HandlesHoldInodesHolds`. The invariant `Inv` is in `FileSysInv`.
`BlocksHaveOneOwner` alone is not inductive, for several reasons, each of which is a part of `Inv`:

- A call may end at any `bwrite`. So `Owned` speaks of every image in the log, and `Behind` says how the disk differs from
  what the kernel knows: addresses may be missing there, types and the bitmap may not.
- `bmap` allocates where it finds 0, and what it finds depends on the size of the inode: `Ordered` says that files have no
  holes below their sizes, so only `writei` at the end of a file and the directory get new blocks. (The directory
  may have a hole: `mkfs` rounds its size up.)
- `iget` recycles an entry with no references, so no inode may be in two entries (`Table`), and a copy that nobody writes
  back must be what the disk has (`Stored`); `Held` says that the references between two calls are those of the handles.
- A directory entry may lead to any inode: `Entered` says that it names a file that was made, so `namei` brings no
  free inode and no directory into memory, and `ivalid` and `dirlookup` do not panic.
- `itrunc` frees blocks before it writes the inode. In between the owners are given up (`Freeing`, `Emptying`), and a
  machine that stops there leaves an image of which only `Legal` is known: that is where `torn` begins.

The functions of `fs.c` are operators, so the proof is one about operators: for each a lemma of what it does to the fields,
and one that it keeps `Good(s, K, cut)`, the parts of `Inv` that hold in the middle of a call, where `K` are the
slots whose copies are not written back yet. Loops (`readi`, `writei`, `itrunc`, the scans of the directory, `iappend`, the
files of `mkfs`) are functions of the turn; that they have the values their equation gives them, and what holds after each turn, is shown by the
least counterexample, as below. `CallOK` is what each of the calls owes to `Inv`, `Performed` what the step
makes of it, whether the call returns, panics, or the machine stops in it.

The initial states are images that `mkfs` builds, and `BuiltImage` shows that they satisfy the invariant. That needs
`Fits`: the program checks no more than that a file does not outgrow an inode (the assertion in `iappend`), and with more files or data than
the disk has inodes or blocks it would write past its tables. The other assumption is that there are finitely many
handles, since `ref` counts them. `torn` weakens `BlocksHaveOneOwner` and `OnlyRoomRunsOut`, as their definitions say; types and
`HandlesHoldInodes` hold all the same. TLC finds `Inv` to hold in every state of the run `fs` (`MCFileSys` extends `FileSysInv`, so that
`INVARIANT Inv` can be added to `fs.cfg`).

`Walk` (the list of `Bcache`) and `ChainFrom` (the descriptors of `Virtio`) are recursive functions.
The induction theorems of the library need an operator as parameter, so what these two compute, and the loops of `FileSys`, is shown by the
least counterexample instead: a set of indices at which the claim fails, if not empty, has a least element
(`WFMin`), and there the definition contradicts it.

Only model-checked:

- `NoStarvation`, `WaitReturns`, `StopsWhenOver`, `WaitersReleased`, `RequestsReturn`: liveness under fairness is
  outside the prover.
- `KeepsFiles`, the refinement of `FileStore` by `FileSys`: it is about the contents of files and the names in the directory, call by
  call. The lemmas say which blocks and entries a function leaves as they are (`SameData`, `SameRoot`), not yet what the
  written ones contain.
- The properties of `Shell`: `UserString` uses bitwise operators, and `Stdio` recursion on texts.

## 5. Not modelled

- The kernel's own page table (`kvmmake`), which never changes after boot; `uvmalloc`, `uvmdealloc`, `uvmclear`,
  `idup`, `bpin`, `bunpin`, `safestrcpy`: no caller.
- `set_priority`: the scheduler never reads it. The clock (`get_time`, `sleep`), SBI, logging,
  `rand`: no state the rest depends on. `%p`. `entry.S`, which sets up the boot stack.
- Feature negotiation in `virtio_disk_init`. Byte order and errors of the host in `nfs/fs.c`.
- `stpcpy`, `stpncpy`, `strcmp`, `strncmp`, `memset` of the user library: neither the library nor the shell calls them.
- Reading the console beyond a key (`console_read` with a length above 1): the library reads one key at a time.
- The firmware binary, user programs (except as a source of expectations).

## 6. Plan

1. Done: every stateful part of the kernel, the image builder, output of programs, the shell, traps and switches.
2. Done: theorems for all of these but `Shell`, the liveness properties and `KeepsFiles`.
3. `KeepsFiles`: lemmas on what `writei` writes and the scans of the directory find, then the refinement call by call.
