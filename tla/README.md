# uCore-SMP in TLA+

TLA+ models, TLC runs and TLAPS proofs about uCore-SMP, an operating-system
kernel for symmetric RISC-V multiprocessors (`src/os/`, about 12,000 lines of C
without FatFs and the vendor's headers). What is hard in such a kernel is not
what a function computes but what several harts do to each other between two of
its lines, so the models are about control: who holds which lock, in which order
the steps come, who sleeps and who will wake him. Bytes, registers, page tables
and texts appear only where a property tells their values apart.

Line numbers below are those of files under `src/os/`; "adoc" is
`src/doc/ori_doc/ucore-smp.adoc`.

## 1. Inventory

| Component | State | Operations | Talks to | What makes it correct |
|---|---|---|---|---|
| Scheduler, context switch (`proc/scheduler.c`, `proc/yield.c`, `trap/switch.S`) | `pool[]` states, `p->context`, `mycpu()->proc` | scan, dispatch, `swtch`, yield | every component that blocks | a kernel stack is on one hart; a context is saved before it is resumed; no process is missed at shutdown |
| Process table and family (`proc/proc.c`, `fork.c`, `exit.c`, `wait.c`, `kill.c`) | slots, parents, pids, `killed`, `creating_proc`, three global locks | clone, exit, wait, kill | scheduler, sleep/wakeup, files, page cache | the family tree is sound, an exit wakes its parent, locks have an order |
| Sleep and wakeup (`proc/proc.c` 464-516) | `p->waiting_target`, `p->state` | `sleep`, `wakeup` | all that wait | no wakeup is lost |
| Spin locks (`lock/spinlock.c`) | `locked`, `cpu`, `noff`, saved interrupt state | acquire, release, push/pop_off | everything | never taken twice; interrupts stay off while one is held |
| Sleeping mutex (`lock/mutex.c`) | `locked`, `pid`, guard lock | acquire/release | inode table, inodes, page cache, FatFs | mutual exclusion, no sleeper on a free mutex |
| Pipes (`file/pipe.c`) | ring, two counters, two ends | write, read, close | sleep/wakeup, files | a bounded byte queue; nobody sleeps without a reason; freed once, unused |
| Open files and descriptors (`file/file.c`) | file pool, `p->files`, `p->cwd` | open, close, dup, create, unlink, rename, link, read, write | inode table, pipes, devices | reference counts are exact on all paths |
| Inode table (`fs/inode.c`) | `itable`, one FatFs object for each inode | `iget_root`, `dirlookup`, `icreate`, `idup`, `iput`, walk | FatFs, mutexes, page cache | one entry per file; what is open exists; no lock cycle on a path |
| Page cache (`fs/inode.c` 19-257, 620-740) | `ctable`, LRU list | acquire, evict, write back, flush | inodes, FatFs, physical pages | a page is used by one process at a time; what is written is read and reaches the disk |
| Buffer cache, virtio, FatFs port (`fs/buf.c`, `driver/virtio_disk.c`, `fatfs/diskio.c`, `ffsystem.c`) | buffers, descriptors, the volume mutex | read, write, interrupt | mutex, sleep/wakeup | one buffer per block; each request finishes and wakes its caller |
| Physical and virtual memory, shared memory, mappings (`mem/`, `proc.c` 106-152, 567-834) | free list, 8-bit page counts, page tables, mapping tables, shared memories | allocate, duplicate, map, share, copy, free | processes, page cache | a page is free exactly when nobody refers to it; tables say what is mapped; nobody sees another's pages |
| Timers (`arch/timer.c`, `sys_nanosleep`) | timer pool | add, delete, wake | trap handler | a sleeper is woken, not before its time |
| Boot and halt (`main.c`, `arch/cpu.c`) | `booted`, `halted` | start of the harts, shutdown | scheduler | one hart initialises; the machine stops once all have |
| System calls, traps, ELF loader, devices, other disks, user programs, host tools | little of their own | | | |

`PROJECT.json` has the full list with the source files of each component, and
under "hazards" the places where the code is hard to test.

## 2. Modules

Each model is a component at the granularity of its locks: a critical section
that takes no further lock is one action, and there is a step boundary wherever
a lock is taken while another is held, or where something is read without one.
A lock is a variable that names its holder. Names follow the source, and "map" in
`PROJECT.json` gives the lines of each definition. `Mut...` definitions, marked
"Faulty variant", are wrong on purpose: replacing the definition after which each
is named must break one property, which shows that the property depends on the code.

**Sched** - harts, slots, and the lock that is taken on one side of `swtch()` and
released on the other. `stack[c]` is the kernel stack hart c executes on, `ctx[p]`
what `p->context` would resume. `AcquirePool`, `LoadState`, `LoadLock`, `LockNext`,
`Dispatch`, `SwtchIn`, `SwtchedBack` are `scheduler()`; `Leave` followed by
`SwitchToScheduler` (or `SwitchPanics`, when the assertions there fail) is `yield()`,
`sleep()` and the end of `exit()`; `AllocPool` ... `CloneRunnable` is `clone()`, with the
`sleep()` inside `idup()` (`CloneSleeps`); `ExitCount` is the pass of `exit()` through
`pool_lock`, `ExitClosePanics` the `sleep()` inside `iput()` under `p->lock`, which
acquires a lock its hart holds. The stride rule is replaced by any choice among eligible
processes. Line 29 of `scheduler.c` loads `p->state` and then the lock word, in two steps
here. The history variable `raced` records that a scan has taken a candidate which had
left RUNNABLE between the two. `swtch()` then goes to a context that is in use or dead,
after which nothing can be said of a C program: the properties say what holds until
then, and the constraint `Unraced` of the run stops there.

**ProcTree** - clone, exit, wait and kill with `wait_lock`, `pool_lock`,
`creating_lock` and each `p->lock`, one slot of each scan over `pool[]` a step. The
`sleep()` and `wakeup()` they use are written out. A process has a hart of its own
(sharing harts is Sched's subject). `IoWakeups` adds the calls of `wakeup()` that
pipes, mutexes and timers make, and the one that closing a pipe makes inside
`exit()` under `p->lock`; `MayFail` lets `alloc_proc()` fail after it has set
`creating_proc`; with `Times` programs also call `times()`, which takes `pool_lock` and
the other `p->lock`s under its own (`TimesOwn` ... `TimesDone`).

**Mutex** - what a mutex promises: request, grant, release. **SleepLock** -
`mutex.c` over `sleep()` and `wakeup()`, which implements it: owner is
`mu->pid` while `mu->locked`, waiting are the processes inside
`acquire_mutex_sleep()`. **Disk** - extends SleepLock, as the mutex of the FatFs volume, by
what runs under it: buffers, the virtio driver, the device (external) and its interrupt. A
process that holds the volume reads and writes sectors (`AcquireBuf` ... `ReleaseBuf`),
sleeps in the driver (`Submit`), is woken by the `Interrupt` or too early by `kill()`, and
tests again (`Return`). `vdisk_lock` is held on both sides of that `sleep()` and
`wakeup()`, which are therefore atomic.

**ByteStream** - what a pipe promises: a bounded queue of bytes with two ends; a
lossy one may lose the oldest bytes in a read that fails. **Pipe** - the ring
with two wrapping counters, one turn of a loop a step, since `p->killed` may change
in between; it implements ByteStream, the queue being what lies between
the counters. `sleep()` and `wakeup()` are atomic here, which SleepLock
justifies: both sides hold the same lock.

**Files** - the file pool, descriptors, working directories and the inode table,
with FatFs as an external map from paths to what is there (`disk`). A critical
section of `itable.lock` is one action, however long the disk takes in it. A
process walks a path (`WalkFrom` ... `WalkPut`), creates (`CreateLookup` ...
`NewPut`), opens (`Found`, `OpenFile`, `OpenFails`), closes, duplicates, forks and
exits; unlink and rename are noted in the inode and done by the last `iput()`
(`PutInode`). The conditions that end in `panic()` are `Panics`; the machine stops
there, as it does in the code. The shell is the only process at first and gets its
working directory with its first path, as in `inode_or_parent_by_name()`. Reads
and writes appear by what the page cache does to the inode table (`GetPage`, `Evict`,
`AddPage`, `Flush`): `cached` has the inode of each entry's page. A page that is in holds a reference, and its eviction, in
whatever process needs room, is the `iput()` that may carry out an unlink or a rename.

**FileContent** - what `readi()`, `writei()` and `mmap()` promise about a file of
constant size: whoever holds the inode's lock finds in a page what the last writer left
there. **PageCache** - `ctable` and the calls that use it, over FatFs as an
operation on the length, the position and the pages of a file; it implements
FileContent, the content of a page being what is in its entry or else on the disk.
`owner` is the mutex of an entry, `table` is `ctable.lock`. Two things in the code set
the grain: `ctable_lru_add()` shifts the LRU list with only the mutex of its own page
held, next to a `ctable_lru_adjust()` under `ctable.lock`, so each assignment of
the two loops is a step; and FatFs has one position for an open file, which
readers seek under the inode's lock and a write-back without it, so that seek and
transfer are two steps. `link` in `Ops` is the `linkat()` that rewrites a file after
`ctable_release()`. `left` has the slots whose mutex an `mmap()` without memory has left
held. Two processes that exit together may each count the other, and then
nobody flushes (`Exit`, `Leave`). `hasty` records that `ctable_lru_add()` has evicted a page
without `ctable.lock` (section 6); as in Sched, properties speak of what is before
that and the constraint `Unhurried` stops there. A file is counted in pages. `Fixed` files keep their size and
their contents are followed; the others are extended and truncated, and their
contents, which depend on what clusters held before, are not.

**Memory** - the allocator with its reference counts, page tables, the mapping table,
shared memory, and the handlers of clone, exit, exec, brk, mmap, munmap and
sharedmem. A process touches no page table but its own (or its unborn child's), and
the allocator and the pool of shared memories have spin locks; so a handler is one
step, except where it lets go of something before it is done: `SharedGet` and
`SharedMap` are the two halves of `sys_sharedmem()`, `ExecFree` and `ExecLoad` those of
`elf_loader()`. Virtual page 0 stands for the root of the page table and the
trapframe, 1 is the program with the heap above, `Stack` the stack, shared memory comes
after it. Which free page the allocator takes matters to nobody; in the model (`Fresh`) each
place gets a page of its own if that is free, and else one that is nobody's own, so that
equal memories tend to be equal states.
A "remap", "not mapped", failed assertion or `panic()` in a handler stops the machine.

The `MC...` modules give TLC its values and symmetries; the `...Proof` modules hold the
proofs about the module they are named after (section 5).

Modules are also joined by contract: SleepLock shows what a lock that both sides
hold around `sleep()` and `wakeup()` is worth, Pipe and Files use it; Sched shows
that a process is on one hart unless a scan is raced, ProcTree and the others take one process as one
thread of control; PageCache shows that each page in the cache holds one reference on
its inode (`CacheExact`), and Files composes that with the inode table.

## 3. Runs

| Run | Instance | Distinct states | Shows |
|---|---|---|---|
| `sched_safe` | 3 harts, 3 slots, symmetric | 514,920 | the dispatch protocol and the halt, until a scan is raced |
| `sched_split` | 2 harts, 2 slots | violation | the race: a process that is not RUNNABLE is dispatched |
| `proctree_safe` | 3 slots, 3 pids, wakeups of others, failures, `times()` | 1,094,377 | family tree, wakeups of wait, lock order, lone flush, who reaps |
| `proctree_live` | 2 slots, 3 pids, kill and waitpid of pids 1 and 2 | 13,313 | wait and exit come to their ends |
| `proctree_deadlock` | 3 slots, 3 pids, wakeups of others | violation | wait never returns |
| `volume` | 3 processes, kills, 2 sectors, 1 buffer | 232,556 | the volume mutex is a Mutex and is taken when free; sectors are exact, transfers end |
| `pipe` | 3 processes (reader, both, writer), 2 bytes, counters mod 4 | 1,443,584 | the pipe is a byte queue; sleepers have reasons |
| `pipe_kill` | 1 reader, 2 writers, writes up to 3 bytes | violation | a reader sleeps before a full pipe |
| `files_safe` | 2 processes, 4 inodes, 2 files, 2 descriptors, 1 cached page, 4 path calls and reads | 1,895,990 | counts, one entry per file, open files exist, no lock cycle |
| `files_exit` | the same | violation | exit sleeps with a spin lock |
| `pagecache` | 2 processes, 2 files of 2 pages, 2 entries, 3 calls with links | 1,086,573 | pages in use stay, the cache is exact and cannot be seen |
| `memory` | 2 processes, 10 pages, 1 shared memory, 2 mappings each, 5 calls | 389,964 | page counts, tables and isolation |

The bounds, and why they are enough to meet the hazards:

- *Sched.* Nothing is bounded but harts and slots. Three harts let one scan while
  a second switches out and a third wakes or clones; the theorems of section 5
  remove the bound. A behaviour is followed to the first raced scan and no further;
`sched_split`, with two harts and two slots, has no such constraint.
- *ProcTree.* `MaxPid` bounds the clones: none is begun once three pids were given
  out, so that with two or three slots some slots and the pointers to them are used again.
  Three slots hold a parent, a child and a bystander (or grandchild); the deadlock
  needs exactly that. Both deadlocks of `times()` (with `alloc_proc()`, with another
`times()`) are reached in `proctree_safe`.
- *SleepLock and Disk.* One process in the driver and two that sleep on the volume or come
  to it; the safety of the mutex is proved for any number. Two sectors compete for
  one buffer, so that each change of sector recycles it; which of several buffers is
  recycled needs two buffers and three sectors, an instance that TLC finishes with two
  processes and that shows the same. The descriptors of a request are always there, since
  only the holder of the volume has one.
- *Pipe.* The size of the ring divides the range of the counters, as 2048 divides
  2^32, and the counters wrap twice round the ring; reads and writes are longer
  than what is free or filled at times. The process with both ends may sleep for
  itself for ever, which `Idle` allows.
- *Files.* Four entries are enough for these calls: "iget: no inodes" is not reached,
  nor is `ilock(NULL)` in `create()`, which takes one more call; both stay in the model
  as conditions of `Panics`, and the panics for a rename and for a spin lock do occur;
  two files for descriptors of two processes make `fileopen()` fail. One entry in the page
  cache is enough for a page to outlive its descriptor and to be evicted by the reader of
  another file. `MaxCalls` bounds the calls with a path and the reads, not close, dup,
  clone and exit: two consecutive calls of each process, or four of one. Four are what it takes for a second entry
  for "/" (section 6), the one way in which `icreate()` finds what it is to create.
  Directories are removed only when empty and are never renamed; paths have
  at most two elements.
- *PageCache.* Four pages compete for two entries, so that a second page of a file
  already evicts; with two entries the LRU list can name one twice and lose the other.
  One file is `Fixed`, the other changes size under the write-backs of the
  first. Three calls put two processes in a call at once and leave pages of a third
  behind; each process may exit at any time it is not in a call, two of them together. Memory for a page
may run out at any time, in the cache and in `mmap()`. Three calls, one of them a link,
also reach the eviction without `ctable.lock` after 43 steps, where the constraint ends the
behaviour; with `read`, `write`, `map` and `trunc` alone it is proved to be out of reach
(section 5).
- *Memory.* The shell and one more process, whose slot is used again after an exit. Ten pages
  are fewer than two full processes need, so that every allocation also fails; calls
  of mmap and munmap of up to three pages cut mappings at either end and in the
  middle, and with `MAX_MAPPING` = 2 the table is full when a cut needs an entry. `Stack` = 5
  leaves a heap of four pages to collide with mappings. `MaxCalls` = 5 counts a call of
  `sys_sharedmem()` or exec once: enough to share, clone, unmap, exit and share again.

What the safety runs say, in the terms of the code:

- `StackExclusive`, `ContextSaved`, `FreeSlotQuiescent`: as long as
  a process is on its way off a hart it cannot be picked by another, because its
  lock is released only by the scheduler it switched to. `TestedStaysRunnable`: a candidate
  that was RUNNABLE and unlocked at one time during the test stays so until it is
  dispatched. All of this, and the halt, holds until a scan is raced: the two loads of line 29
  are the one weak point of the protocol, and `sched_split` shows that it is weak.
- `SwitchAsserts`: the assertions of `switch_to_scheduler()` fail for one caller only,
  the `sleep()` of a clone in `idup()`, which holds the child's lock (`fork.c:48`).
- `HaltsWhenEmpty`: the scan that ends `scheduler()` looks at slots one by one and
  without their locks. A child cloned behind the scan is not missed, and the
  reason is subtle: its parent would have to exit ahead of the scan, and `exit()`
  passes through `pool_lock`, which the scan holds, in `the_only_proc_in_pool()` -
  a function written for something else.
- `FamilyTree`, `NoLostExitWakeup`, `ReapedByParent`: no orphan is lost and no exit
  missed, although parents and children exit at once.
- `LocksOrdered`: `wait_lock`, `pool_lock` and the locks of the processes close a cycle
  only through a process in `times()`. Two more kinds of waiting close one, that for
  `creating_lock` (`proctree_deadlock`) and that for `creating_proc`.
- `RefsExact`, `OneEntryPerFile`, `OpenExists`, `SomeCallGoesOn`: the
  counts of files and inodes are exact after every path through the calls,
  including all those that fail half-way, with pages of closed files in the cache.
- `BlocksExact`, `VolumeServed`: a buffer is used only when its transfer is over, though
  `kill()` wakes the sleeper before that and the interrupt may come before it sleeps; what
  is written is on the disk on return; the holder of the volume never waits for ever.
- `InUseStays`: from the return of `ctable_acquire()` to the release of the page's mutex
  nobody evicts the page, although eviction takes pages without their mutex and two
  shifts of the LRU list may run at once. It holds because a list that has lost an entry
  is never full too early, which is so until a `linkat()` has emptied slots under it:
  this and the next three properties hold as long as `ctable_lru_add()` has not evicted.
- `CacheExact`, `Transparent`, `SomeCallReturns`: no page is cached twice, references are those
  of the pages that are in; the cache is empty once a process that found itself alone
  in `exit()` has flushed it; contents are what was written last; page mutexes,
  `ctable.lock` and inode locks, which have no global order, never block everybody, unless
  somebody waits for a page that `mmap()` has left locked.
- `PageRefsExact`, `TablesAgree`, `Isolation`: a page's count is the number of its
  owners; the page table of a process has just what program, heap, stack, mappings and
  shared memory say; two processes see one page only through a `MAP_SHARED`
  mapping or a shared memory both have.

**Deadlock** is checked in `sched_safe`, `volume`, `pipe` and `pipe_kill`. It is not
checked in `sched_split`, where two harts that dispatched one process stop on its
stack; in ProcTree, where the spin-lock cycles of `proctree_deadlock` and of `times()` and the
stuck `creating_proc` of a failed clone are reachable; nor in Files, PageCache and
Memory, where processes that have left, a panic, a page left locked by `mmap()`, and the
bound on calls end a behaviour (`SomeCallGoesOn` and `SomeCallReturns` state the deadlocks that matter there;
in Memory nobody waits).

**Fairness.** `FairSpec` is strong fairness of each process's `Step`: inside the
kernel a process that can move again and again does. For a step that waits
for a spin lock this says that a hart that spins for a lock that is free again and
again gets it. The code's test-and-set loop does not enforce an order, so this is
an assumption on the hardware's arbitration, the usual one; without it no lock of
this kernel gives progress. Nothing is assumed of programs: entering a system
call is never fair. `pipe_kill` adds that a killed process exits, which
`usertrap()` does at its next trap. `FairDiskSpec` adds that the device completes a
request and that its interrupt is taken: the hart that the sleeper has left goes on in
`scheduler()` with interrupts as they were when `vdisk_lock` was taken, that is, enabled.

## 4. Disagreements between code and text

Four runs are expected to end in a violation; each is a place where the
code does not do what a comment, an assertion or the documentation says.

1. `sched_split` - `scheduler.c:29` tests state and lock without a lock, and line 41
   ("found a process to run, lock down the proc") locks later without testing again. Then two
   harts may be on one stack, a context be resumed that is in use, or a hart halt while
   another dispatches a slot that was freed.
2. `proctree_deadlock` - `exit.c:103` calls `wakeup()`, which takes `creating_lock`,
   under `p->lock`; every `wakeup()` takes `p->lock`s under `creating_lock`.
3. `pipe_kill` - `pipe.c:70` returns without waking the readers for what it has
   already written.
4. `files_exit` - `exit.c:61` (and `fork.c:48`) take a sleeping mutex while they hold a
   spin lock; `proc.c:334` asserts that this never happens at a switch. (Sched has the
   two places as `ExitClosePanics` and `CloneSleeps`, without the condition that the inode
   table is taken.)

## 5. Proofs

TLAPS proves, for every value of the constants that the assumptions allow, what TLC
checks on the small instances of section 3. Each proof module has one lemma for each action
(the effects of the action first, then one step for each conjunct of the invariant) and the
theorems at its end.

**SchedProof**, from `SchedAssumption` (the shell is a slot, None is neither hart nor
slot). The inductive invariant `IInv` is type correctness, what each hart knows of itself
whatever the others do (`InvOwn`), and, unless a scan was raced, `Sound`, which adds to the
checked properties what they rest
on: where each hart is determines whose stack it is on (`InvPlace`), which lock it holds, and
each lock that is held is held by a hart at one of four kinds of places (`InvLocks`);
the states that go with those places (`InvState`), one hart for each running process
(`InvUnique`), and a saved context for whatever can be dispatched (`InvContext`).
None of the properties is inductive alone: that a stack is not
shared follows only from the lock being handed through `swtch()`. For the halt,
`InvScan` says what a scan knows while it has seen no used slot: either the slots
behind it are UNUSED, or a process ahead of it is anchored - alive and not yet
counted, so that it cannot exit before the scan lets `pool_lock` go. There is one
lemma for each action. The theorems are type correctness, the five invariants of
`sched_safe` and its action property. Their hypothesis `raced` is as weak as it can be: it
is set by a scan whose candidate had left RUNNABLE between the loads, and by nothing else,
so that the theorems say that this race is all that can go wrong (`CandidatesStayRunnable`:
what was tested properly needs no second test at line 42).

**SleepLockProof**, from `SleepLockAssumption`. `IInv` ties the guard and the process locks
to control points, and extends `NoLostWakeup` to a process that has given up
the guard in `sleep()` and is not marked SLEEPING yet: it holds its own lock, so
the scan of the releaser cannot have passed it. The theorems are type correctness,
`HolderExact`, `NoLostWakeup` and the refinement of Mutex.

**DiskProof**, from `DiskAssumption` on top of that of SleepLock. Below the mutex the
invariant `DInv` follows one request: its buffer holds the sector that was asked
for and is referenced once (`Progress`), the request is with the device (`Requested`),
done with the interrupt to come (`Served`) or over (`Quiet`), the descriptors in use
go with that (`InvIo`), a buffer nobody has is clean (`InvIdle`), no sector is in two
buffers (`InvUnique`, for which the list at `bcache.head` must keep going through all of them,
`InvLru`), and none of this happens outside the mutex (`InvHeld`). That gives
`BlocksExact`. `DiskImplementsSleepLock` is a refinement: what happens below the mutex
is a stutter of SleepLock or the work of its holder, so that the theorems of
SleepLockProof hold of the volume (`VolumeMutex`, `VolumeImplementsMutex`).

**ProcTreeProof**, from `ProcTreeAssumption` (pids below the bound fit their type, and there is a first slot).
The invariant says what state goes with which control point (`InvState`), whose slot
`clone()` fills in (`InvClone`: pool_lock has been let go, and the slot's own lock
keeps others out), which of the three global locks and of the locks of the processes
is held where (`InvLocks`), that a scan of `wait()` has left no child behind that
it should have reaped (`InvWait`, `exit()` makes zombies under wait_lock only), and what
`the_only_proc_in_pool()` knows of the slots it has passed (`InvCount`). With those
`FamilyTree`, `NoLostExitWakeup`, `CreatingExact` and `FlushedAlone` are inductive.
`LocksOrdered` (no cycle through wait_lock, pool_lock and the locks of the processes among processes that
are not in `times()`; what waits for `creating_lock` or `creating_proc` is not in it, and
`proctree_deadlock` shows a cycle through the former) follows from the invariant by a rank of the
control points: whoever spins, spins on a lock whose owner has a higher rank, so that in any
set of processes one of highest rank waits for nobody in the set.
`ReapedByParent`, an action property, follows from one step.

**PipeProof**, from `PipeAssumption` (the counters wrap at a multiple of the size of
the ring that exceeds it, as 2^32 does for 512). The arithmetic of the wrapping counters comes
first: `Full` and the test for empty are exact, and reading and writing move
the distance of the counters by what they copy. An end is open exactly while
somebody holds it or is about to close it (`InvRead`, `InvWrite`), which gives
`NoUseAfterFree`; and a reader asleep beside a pipe with data is possible only while a
writer is in its loop or was killed there (`InvSleep`, stronger than
`SleepersJustified`). `Refinement` proves that the pipe implements ByteStream: bytes arrive
once and in their order, whatever the number of readers and writers, and only
the last writer's closing ends the stream.

**PageCacheProof**, from `ConstantsAssumption`, for any number of processes, files, pages and
entries, and with `linkat()`. `IInv` says that `hasty` is a Boolean and, unless it is set, `Sound`.
The difficulty is the LRU list, whose contents say nothing: two processes
may shift it at a time, so that it names an entry twice, or an empty one, or misses one. Who evicts
under the lock has passed every entry finding nobody in it (`InvScan`), so that no page is in
use (`EvictAlone`); who empties the cache at the end is alone (`InvAlone`). `InvOwner` ties the mutex of a page
to the call that asked for it, to the write-back of a truncation or a link, or to an `mmap()` that has
left it (`left`); `InvRefs` counts the references of an inode, `InvSeek` says that FatFs
still stands at the page when it is written or read, and `InvClean` that a clean page is
on the disk. What is left is how far `hasty` is away. `NeverHasty` proves that without `linkat()`
(`NoLinks`) it never comes true, by a count: `InvList` says that the list has no holes, and
`InvCount` that it has no more entries than there are pages whose insertion has got as
far as to make the list longer (`Full`), both until the last process empties the
cache (`Going`). Hence `ctable_lru_add()`, whose own page is not counted yet, finds room
(`RoomInList`) and never evicts, as it must not, since it runs without `ctable.lock`. So for the other
calls the theorems hold without a condition, and with `linkat()` until the first such eviction.
The theorems are type correctness, `InUseStays`, `CacheExact`,
`SomeCallReturns` (whoever waits, waits for the owner of a page or for the holder of
`ctable.lock`, who waits at most for the owner of a page, who waits for nobody unless `mmap()` has left the page) and the
refinement `Transparent`: taking the page (`GetView`) and the copy (`CopyView`) are the steps of FileContent,
and every other step, eviction, write-back and reload among them, leaves what is seen as it was
(`Apart`, `LoadApart`, `ClearApart`).

**FilesProof**, from `FilesAssumption` (finitely many processes, a cache of at least one page, paths
of at most two names, renames of files only, as in the model). Whether a count is exact depends on
which references each process has at each point of each call, so the larger part of `IInv` is
`InvLocal`: for every process, which of `loc.ip` and `loc.dp` hold a reference (`LRefs`),
which descriptors it works with (`LFds`), which call can be at this point (`LOps`), whether it has a
working directory (`LCwd`), and how the paths of the inodes in its hands relate to the path it
looks for (`LGoal`, `LPath`). `InvLock` says which inode's lock goes with each point; `InvChild`
that the process whose files `clone()` is copying is dead to everybody else; `InvFile` and
`InvTable` that files in use have an inode and that every live entry of the table is on
the disk with its kind, none but "/" twice. `RefsExact` is preserved by counting: the number of
descriptors, entries of the page cache, files and points of calls that refer to an inode
changes at one place of one function at a time (`RefsMove` and its lemmas), except in
`clone()`, which copies a whole table of descriptors. The theorems are type correctness,
`RefsExact`, `OneEntryPerFile`, `OpenExists` and `SomeCallGoesOn`. The last needs the
paths: who waits for an inode while he holds the lock of another is in `create()`, between a
directory and the inode below it (`WaitsBelow`), so that a chain of waiting processes
goes down the tree and ends; paths of two names keep the chain at two.

**MemoryProof**, from `MemoryAssumption` (finitely many processes, a stack with room below it, more
physical pages than one process has virtual ones). `IInv` is `TypeOK` and, unless the machine has
stopped in a panic, `Sound`, which has four parts. `InvProcs`: the page table of a live process
has a page exactly where its image or one of its mappings is, and any other entry is of a page of a
shared memory in one of its slots; whoever is not alive has no table, mapping or slot left.
`PoolOK`: no page is in two shared memories, and the count of one is at least the slots that
name it and the calls that hold it (the leak of section 6 makes it more). `ShareOK`: a page that
is in no shared memory is in two page tables only through MAP_SHARED, at the same place of both.
`RefsOK`: counts are exact and the free list is the pages with count 0.
None of the checked properties is inductive alone: that `munmap()` takes a page away from nobody
else rests on the count, the count on whose entries there are, and those on the
table of mappings being what was mapped.
A handler works on a view of the memory as its process has it (`View`), and is proved on
it: the state of the counts between two calls is `Books`, the count of a page being the
entries of this process and a number for all others, which the handler does not change. What each
function of the code does to the view is one lemma, whose conclusion is an operator
named for it (`Mapped`, `Unmapped`, `Recycled`, `Joined`, `Removed`, `Placed`), and
the lemma of a handler strings those together, for every path that fails as well.
`CutTable` and `CutRoom` are about the tables: what `mapping_try_remove_page()` leaves of
overlapping mappings covers what it should, does not overlap, and does not outgrow `p->maps`
unless the assertion stops the machine. `CommitStep` leads from the view back to the state:
`Sound` is kept if each entry of the new table is empty, of a shared memory, an old one, of
a page that nobody else has, or of a MAP_SHARED relative (`EntryOK`).
`exit()` and exec, which drop every shared memory before the mappings, rest on `PoolLeftIs` (which pool
is left, and that what leaves it is in no other table) and `FreeKeeps`.
The theorems are type correctness, `PageRefsExact`, `TablesAgree` and `Isolation`.
Two things in the model changed on the way. The allocator was a fold, about which
nothing can be proved for every set; `Fresh` gives all pages of a call at once.
And the type of a slot's `start` was too narrow: a shared memory without pages may be mapped just
past the last page there is, which the run does not reach within its bound on calls.

The library's induction theorems take an operator as a parameter and cannot be used. What little
induction over numbers is needed (a set of indices has a least element, `Least`) comes
from `WFMin`, which says that a well-founded relation has minimal elements.

Every invariant and every action property that a passing run checks is proved.
Only liveness under fairness (`WaitReturns`, `ExitCompletes`, `VolumeServed`, `DataWakesReader`)
is out of the prover's reach and left to TLC. The assumptions on the constants are facts of
the C program: the tables have at least one entry, the counters of a pipe are 32 bits wide and
its ring is 512 bytes, a request takes 3 descriptors of 8, NULL is no process.

## 6. Other places where code and documentation part

Met while modelling; no run is devoted to them, either because the model that
would show them is planned or because what shows them is a single line of the code.

- `exit.c:93`: two last processes that exit at once may each count the
  other, and then nobody flushes the page cache. Both ProcTree and PageCache have
  it; `FlushedAlone` and `CacheExact` state the other direction, about a process that did
  find itself alone.
- `syscall_impl.c:311`: `sys_times()` holds its `p->lock` while `get_cpu_time()` (`proc.c:532`)
  takes `pool_lock` and the other `p->lock`s: a cycle with `alloc_proc()`, with the scans of
  `kill()` and `exit()`, with `wakeup()` or with another `times()`. `LocksOrdered` is
  stated around it.
- `proc.c:254`: `creating_proc` stays set when `alloc_proc()` fails; every later clone
  spins for ever, holding the lock of its slot.
- `proc.c:232`: a clone spins for `creating_proc` with interrupts off. With fewer harts
  than spinning clones nobody runs the process that would clear it.
- `wait.c:50` and `kill.c`: a kill between the test of `p->killed` and `sleep()` is
  forgotten until another wakeup.
- `pipe.c:132`: bytes are lost when the reader's buffer is a bad address (the
  `Lose` action of ByteStream). `pipe.c:146`: `pipe_readable()` compares wrapped counters.
- Unlink does not delete the name (adoc:338) until the last `iput()`: in between
  open and creat still find it, and join the file that is to vanish. A page in the
  page cache is one of the references, so this may be long.
- `inode.c:538`: a rename whose target exists by then panics in `iput()`
  (reached in `files_safe`); renaming a file to itself deletes it first.
- `iget_root()` stops at the first free entry or "/", so "/" may have two entries with
  one mutex each (reached in `files_safe`; `OneEntryPerFile` excepts it).
- `icreate()` opens with FA_CREATE_ALWAYS what an earlier hold of the lock found
  missing ("file does not exist, create it", `file.c:205`); a rename done by
  an `iput()` in between is truncated.
- `file.c:153`: `create()` locks the result of `icreate()` without a test for NULL.
- `filelink()` overwrites an existing new path (against adoc:325), and locks two
  files in the order of the arguments.
- `inode.c:1022`: a bad symbolic link leaves `dirlookup()` with `itable.lock` held.
- Full inode table: "iget: no inodes" panics instead of failing the call. The cache keeps
  up to 200 pages (`fs.h:12`) and each holds an inode, of which there are 50 (`fs.h:11`,
  "maximum number of active i-nodes"): reading some fifty small files one after the
  other, each closed before the next, fills the table with files nobody has open.
- `exit()` may write a dirty FAT sector to the disk, and so sleep, under `p->lock`, even
  when nobody else is in the inode table.
- `syscall_impl.c:902`: `sys_nanosleep()` returns at once because its test for an
  elapsed time is inverted (against adoc:303).
- `main.c:123`: `boot_hart` is not initialised on the other harts.

In the page cache:

- `inode.c:155`: `ctable_lru_add()` runs without `ctable.lock`, beside a
  `ctable_lru_adjust()`: the list then has an entry twice and another not at all,
  whose page is never evicted until the end. This does no harm to reads, writes, maps
  and truncations. `ilink()` however calls `ctable_release()` for one file (`inode.c:1306`), which
  leaves the list full too early; then a reader evicts, without `ctable.lock`, a page
  that another is using, against `inode.c:23-24`. From there on (`hasty`) the properties of
  PageCache claim nothing; with `Ops = {"read", "link"}`, `MaxCalls = 5`, no
  constraint and without its `hasty`, TLC finds `InUseStays` violated.
- `inode.c:175`: a write-back seeks and writes in a file whose inode it has not locked.
  When the owner extends the file (`f_lseek` in `writei()` and `mmap()`) or
  truncates it between the two, the page lands elsewhere. `Transparent` therefore
  follows files of constant size, and shows that these do not suffer.
- `inode.c:1321`: truncation leaves the dirty pages of the file in the cache; a later write-back
  seeks past the new end and makes the file long again.
- `inode.c:125`: the page of a new entry is not tested for NULL before it is cleared (the model stops there).
- `proc.c:782`: `mmap()` leaves through `free_pages` without releasing the mutex of the cached page;
  whoever comes to that page later, or searches the cache past it, waits for ever.
- `MAP_SHARED` mappings of a file are copies of its pages and are never written back.

In memory:

- `fork.c:51`: the child of a clone gets the parent's shared memories in its slots, but
  not in its page table: the first exit or exec of that child panics in `uvmunmap()`.
- A clone without memory panics: in the assertion of `freeproc()` (`fork.c:25`), or
  unmapping what was not mapped yet. The exception is the page table of the trampoline
  (`proc_pagetable()` returns 0), where `clone()` fails and `creating_proc` stays set. Exec without memory
  panics after it has freed the old image.
- `syscall_impl.c:764`: a process without a free slot leaks the reference it has taken.
- `brk()` into a mapping or the stack panics ("remap"); so does cutting a page out of the
  middle of a mapping while the table is full (`proc.c:600`).
- `mmap()` with `MAP_FIXED` that fails leaves the mappings in its way removed.
- `physical.c:19`, `88`: the count of a page is eight bits and not checked; 256 processes
  that share a page would wrap it. The model counts without a bound.

## 7. Not modelled

- Symbolic links, hard links (which FatFs does not have and the code imitates with
  a special file; `linkat()` as a user of the page cache is in PageCache and its run)
  and device nodes.
- What happens after a raced scan or after an eviction without `ctable.lock`.
- Contents of files that change their size; a full disk; several pages in one read of Files.
- Lower page tables, protection bits and copies between user and kernel space; the
  contents of an ELF file.
- The choice by stride, CPU-time accounting, register contents.
- Timers. Requests of several processes to the disk at once, which the volume mutex excludes.
- FatFs (third party, more than half of the lines of C under `src/os/`), SBI, SD and SPI drivers, console, devices, user programs, host tools.

## 8. Plan

Ordered by what is most likely to hide a defect that a test would not reach.

1. Symbolic links and the directory side of `linkat()` in Files.
2. Timers: `sys_nanosleep` with the pool of timers and the interrupt; every sleeper is woken.
3. Stride as a pure algorithm (no runnable process is passed over for ever while passes
   do not wrap).
