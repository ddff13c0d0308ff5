# A TLA+ verification of xv6-riscv

The repository is xv6 for RISC-V: a small Unix kernel (`src/kernel`), its disk
image builder (`src/mkfs`) and user programs (`src/user`). This directory models
the concurrent and crash-prone parts of the kernel in TLA+, checks the models
with TLC on small instances, and proves the most important properties with TLAPS
for every value of the constants.

`PROJECT.json` is the index: components, runs, mutants, the map from definitions
to source lines, findings, hazards and theorems.

## 1. The system: parts, state, operations, interactions

| part | state | operations | talks to |
|---|---|---|---|
| redo log, `log.c` | `log.lh`, `outstanding`, `committing`; header and log blocks on disk | `begin_op`, `log_write`, `end_op`, `commit`, recovery | buffer cache below, file system above |
| buffer cache, `bio.c`, `sleeplock.c` | buffers (`blockno`, `valid`, `refcnt`, sleep-lock, data), LRU list | `bget`, `bread`, `bwrite`, `brelse`, `bpin`, `bunpin` | disk driver, log |
| processes, `proc.c` | process table with a lock per slot, `nextpid` | `fork`, `exit`, `wait`, `kill`, `sleep`, `wakeup`, `yield`, `scheduler` | everything that sleeps |
| pipes, `pipe.c` | ring of bytes, `nread`, `nwrite`, two open flags | `piperead`, `pipewrite`, `pipeclose` | file table, `sleep`/`wakeup`, `kill` |
| file table, `file.c` | `ref` per open file | `filealloc`, `filedup`, `fileclose`, `fileread`, `filewrite` | pipes, inodes, log |
| inodes, `fs.c` | inode cache (`ref`, `valid`, lock), inodes and bitmap on disk | `iget`, `ilock`, `iput`, `itrunc`, `balloc`, `bfree`, `readi`, `writei` | log, cache |
| directories, `fs.c`, `sysfile.c` | directory entries, link counts | `namex`, `dirlink`, `link`, `unlink`, `create`, `open` | inodes |
| disk driver, `virtio_disk.c` | descriptors, rings, `b->disk` | `virtio_disk_rw`, `virtio_disk_intr` | cache, device |
| console, UART | input line, output ring | read, write, two interrupts | `sleep`/`wakeup` |
| memory, `kalloc.c`, `vm.c`, `exec.c` | free list, page tables | `kalloc`, `kfree`, `uvmalloc`, `uvmcopy`, `exec` | `fork`, `exit` |
| traps, `trap.c` | `ticks` | `usertrap`, `kerneltrap`, `clockintr` | scheduler |
| spinlocks | `locked`, `noff`, `intena` | `acquire`, `release`, `push_off`, `pop_off` | all |

What is hard in it: power failures between any two disk writes; sleeping and
waking without losing a wakeup; locks taken in an order that only a convention
keeps free of cycles; values read under a lock and used after it
(`original_parent`); counts that must match references (`refcnt`, `ref`, link
counts) over long sequences of calls; unsigned counters that wrap around; and
pools (log space, buffers, process slots) at their limit.

## 2. The modules

| module | what it is |
|---|---|
| `AtomicDisk` | abstract: operations of a group become durable together or not at all |
| `Log` | `log.c`; implements `AtomicDisk` |
| `LogInv` | the inductive invariant of `Log` |
| `LogProofs` | theorems about `Log` |
| `BlockStore` | abstract: one contents per block, one owner at a time |
| `Bcache` | `bio.c` and `sleeplock.c`, as `log.c` uses them; implements `BlockStore` |
| `BcacheProofs` | theorems about `Bcache` |
| `BlockDevice` | abstract: between call and return a block is transferred once |
| `Virtio` | `virtio_disk.c` with a model of the device; implements `BlockDevice` |
| `VirtioProofs` | theorems about `Virtio` |
| `FileSys` | inode cache, directories, path names, file table and the file system calls (`fs.c`, `file.c`, `sysfile.c`) |
| `FileSysSteps`, `FileSysProofs` | inductive invariant of `FileSys`, and the theorems about it |
| `FileStore` | abstract: a file is a sequence that is read and written at the offset of an open file, extended and emptied |
| `FileData` | block allocation, `bmap`, `itrunc`, `readi`, `writei`, `fileread`, `filewrite`; implements `FileStore` |
| `ByteStream` | abstract: a bounded queue of bytes |
| `Pipe` | `pipe.c` with `fileclose`; implements `ByteStream` |
| `PipeProofs` | theorems about `Pipe` |
| `Proc` | `proc.c` and the killed tests and preemption of `trap.c` |
| `ProcProofs` | theorems about `Proc` |
| `AddressSpace` | abstract: every process has pages of its own |
| `Vm` | `kalloc.c`, `vm.c`, `exec.c` and the memory side of `fork`, `sbrk`, `exit` and `wait`; implements `AddressSpace` |
| `Terminal` | abstract: keys edit a line, lines reach readers, bytes go out in order |
| `Console` | `console.c`, `uart.c`, `spinlock.c`, `trap.c`, the clock and `sys_sleep`; implements `Terminal` |
| `ConsoleProofs` | theorems about `Console` |
| `MCLog`, `MCBcache`, `MCVirtio`, `MCFileSys`, `MCConsole` | small instances for TLC: symmetry sets, trees, paths, typed lines |
| `MCProcess` | `Proc`, `Vm` and `FileData` in one run: what a process is made of |

Definitions have the names of the C functions. A function that gives up a lock,
sleeps or writes to the disk in the middle is several actions, named for their
part (`log_write_check`, `log_write`); a loop that others can interrupt is one
action per turn. `X_M1` is a mutant of `X`: the same action with a plausible
error, never used by a specification, kept to show that the property it is listed
with in `PROJECT.json` notices the error.

**Log.** A section of `log.lock` is a step, and so is one block transfer.
`log_write()` tests for space *before* it takes the lock, so the test and the rest
are two steps. A crash may come at any state, in recovery too. It loses memory,
and may leave the block being written with any contents; the header is written
whole, since it fits into the first sector of its block. `cache` is what `bread()`
would return.

**Bcache.** A section of `bcache.lock` or of a sleep-lock's spinlock is a step.
`refcnt` is an unsigned integer modulo `RefMod`. `Replay` is the set of blocks
that recovery finds in the log at boot. The log appears as the set `logged` of
blocks that are pinned. A process that holds two buffers at once counts as two
members of `Procs`. `brelse()` and `bwrite()` check that the sleep-lock is held.

**Proc.** `lock[s]` is the holder of a slot's lock. A lock that is taken and given
back around one access is part of a step. `cpus` holds the processes whose context
is on a CPU: a zombie, a sleeper or a process that yields stays there, with its own
lock held, until `sched()` has switched to the scheduler. `fork()` and `kill()`
loop over the table and may be preempted between two slots. `Faults` lets
`kalloc()` and `copyout()` fail. init only forks and waits, with the address 0, so that
its `wait()` copies nothing and cannot fail half way; it is not killed (its exit
panics).

**Pipe.** Processes have inherited both ends and read, write, close and are
killed at any time. `nread` and `nwrite` count modulo `UintMod`. `copyin()` and
`copyout()` may fail at any byte.

**Virtio.** The device (external) takes requests from the avail ring in order,
completes them in any order and raises its interrupt, all without regard to
`vdisk_lock`; so formatting a request and telling the device of it are two steps,
and the interrupt handler is one step per turn of its loop and one for the
acknowledgement. `kill()` makes a sleeping process look again. A process holds the
sleep-lock of its buffer, which therefore goes by the name of the process. The model
starts after `Start` requests made one at a time, so that the indices wrap around. A
device error stops the kernel (`panic`) and is left out.

**FileSys.** A step is what a process does between two points where it may have to
wait: it locks an inode, works under the lock, and releases it or keeps it for the
next step. `icache.lock` and `ftable.lock` are held within a step. A directory is a
function from names to inode numbers and a path a sequence of names. `l[p]` holds the
references a call owns, so the reference counts can be compared with the pointers
that exist; `iput()` of the last reference to an inode without links is three steps,
as in the code. Error paths (no file, no descriptor, no inode) are actions of their
own, those of `pipealloc()` and `sys_pipe()` included. Transactions make a call's
writes atomic on the disk (`Log`), not in memory, and the steps of different calls
interleave.

**FileData.** A unit is a byte of a file or an entry of an indirect block. Who holds
`ip->lock` runs one `readi()` or `writei()` in a step; `filewrite()` is one step per
transaction, so other processes come between. User buffers may end early: a read
then returns the blocks that were copied, and a write leaves the rest of a block that
was allocated. Lengths may be negative, as `argint()` allows: `filewrite()` compares them as
integers, `readi()` and `writei()` take them modulo `UintMod` and refuse what makes
`off + n` wrap around.

**Vm.** Processes meet only in the free list, so a step is one `kalloc()` or a run of
`kfree()` calls, and every `kalloc()` may find no page. Page tables have three levels
of `Fanout` entries, and their pages come from the same free list. `job[p]` is where a
process is in `fork`, `sbrk` or `exec`; the table being built is kept apart from the
current one until the commit point. Sizes count bytes: `growproc()`
adds modulo `UintMod` and `exec()` finds the end of a segment modulo `Uint64Mod`, so its
test for overflow can fire; `fetchaddr()` wants a whole word (`WORD`) below `p->sz`.

**Console.** What runs on a CPU is an interrupt handler if one is active there, else a
process, else the scheduler. A process takes a spinlock in two steps, since it may be
interrupted and moved to another CPU after `push_off()` has read the interrupt flag and
before it clears it, and in three when it spins; the code under the lock, up to the
release, the next lock, a turn of a loop or `sleep()`, is one more. `pop_off()` runs with
interrupts off to its last instruction and is part of a step. `cpu[c]` has `noff`, `intena`
and the interrupt flag, so an interrupt comes at any step at which the code leaves it
possible. The panics of `acquire()`, `release()`, `pop_off()` and `sched()` are tested where
the code tests them (`sched()`'s tests of `p->lock` and `p->state` hold by what its two
callers do just before). `consoleread()` and `sys_sleep()` look at `killed` one step before they
sleep. `uartstart()` is one step per byte. `sleep()` and `yield()` move a process
between CPUs, and `intena` moves as `sched()` moves it. The UART (external) has one
character in each direction; `uartputc_sync()` tests and writes its register in one
step, since two bytes that meet there fit into its FIFO. The interrupt controller lets one
CPU serve it at a time.

The modules stack: `Log` takes the cache to be a `BlockStore`, `Bcache` takes a
transfer to be one step, which is what `BlockDevice` says, and `Virtio` implements
that. `FileSys` and `FileData` take a transaction to be atomic on disk, which is what
`AtomicDisk` says, and split the file system between them: `FileSys` has names,
references and locks, `FileData` what is inside a file.

## 3. Runs

| run | what it checks | instance |
|---|---|---|
| `log` | `Log` implements `AtomicDisk` (`RefinesAtomicDisk`); home blocks are overwritten only under a header that lists them (`WriteAhead`); the invariant of the proofs (`IInv`); nobody sleeps in `begin_op()` without a waker (`SleeperHasWaker`), sleepers wake (`SleeperWakes`), commit and recovery end if crashes stop (`CommitFinishes`) | 2 processes, 2 blocks, 2 values; crashes and torn writes at every step |
| `bcache` | no buffer is recycled under its user (`Identity`), `bget()` panics only when every buffer is pinned or in use (`PanicOnlyWhenAllInUse`), the cache implements `BlockStore`, and `IInv` | 2 users, 3 buffers, 4 blocks, 2 pinned |
| `bcache_replay` | *violation*: finding 1 | the same, one block replayed |
| `process` | slots: exited processes have no children (`NoOrphans`); a freed slot is on no CPU and holds no lock (`FreedIsGone`); no process but init sleeps in `wait()` over a zombie child or a `kill()` (`NoMissedExit`); processes spin for each other in a circle only behind a parent that is gone (`CyclesNeedStaleParent`) | 3 slots, 2 CPUs, 4 pids |
| | memory: every page is free or has one use, at every step of every failing call (`FramesOwnedOnce`); no panic of `vm.c` (`NoVmPanic`); address spaces are private and failed calls leave them alone (`RefinesAddressSpace`) | 2 processes, 19 pages, 3 calls |
| | files: a block has one owner and the free map says so (`BlocksOwnedOnce`); a transaction of `filewrite()` fits the log (`ChunkFitsLog`); files implement `FileStore` (`RefinesFileStore`) | 2 processes, 2 files, 5 blocks, 3 calls |
| `proc_orphan` | *violation*: finding 2 | 3 slots, 2 CPUs, 3 pids, nothing fails |
| `virtio` | the driver implements `BlockDevice`; descriptors of a request stay its own while the device works (`ChainsIntact`); nothing is freed twice (`NoPanic`); sleepers have a reason | 3 processes, 8 descriptors, 4 requests |
| `virtio_lost` | *violation*: finding 3 | 2 processes, 2 requests |
| `pipe` | the pipe implements `ByteStream`; it is freed once, last (`NoUseAfterFree`); sleepers have a reason (`SleepersHaveReason`); closing one end releases calls on the other (`ReadersSeeEOF`, `WritersSeeClose`); the invariant of the proofs (`IInv`) | 2 processes, 2 bytes of room, counters modulo 4 |
| `filesys` | `ip->ref` and `f->ref` are the numbers of pointers that exist (`RefsExact`); an inode with a name is not freed and its link count covers its names (`NamesAreLinked`); the lock of `iput()` is free, as its comment says (`IputWontBlock`); no circle of inode locks (`NoLockCycle`) | 2 processes, 4 inodes, `/a/b` with `b` a file or a directory, 3 calls |
| `filesys_removed` | *violation*: finding 4 | 1 process, 3 inodes, 3 calls |
| `console` | interrupts are enabled exactly where no spinlock is held (`InterruptsMatchLocks`); sleepers have a reason (`SleepersHaveReason`); buffers and line editing implement `Terminal` (`RefinesTerminal`) | 2 CPUs, 2 processes, one key, one clock interrupt, 2 calls |
| `console_full` | *violation*: finding 5 | the same, no keys and no clock |

The three parts of `process` share no state of the kernel at this level, so a behaviour of
`MCProcess` runs one of them: `part` says which, and the properties speak of that part.

**Bounds.** `log`: two operations in one group, with a block both write (absorption)
and one only one writes, are the cases in which a group commit can be torn; each
block may hold the old or the new value. `LOGSIZE` is two reservations, so the second
operation is admitted when the log is empty and has to wait when blocks are
already in it. `NLog` is one more than `LOGSIZE` and an operation writes one
block fewer than is reserved for it; see observation 1 for the sizes as shipped.
`bcache`: four blocks in three buffers force recycling; two pinned blocks and two users
are one more than there are buffers, as 29 and 64 are more than 30 in the kernel, so the
panic of `bget()` is reached and has to be due. `RefMod = 4` is above every legal count and small enough to
wrap. `process`: three slots are init, a parent and a child, with pids enough to use
slots again.
Its files: blocks of two units, one direct block and one indirect, so that writes of
3 and 5 units start and end inside blocks, cross into the indirect block, need more
than one transaction (`MAXOPBLOCKS = 6` is the least for which one block fits) and hit
the end of the largest file and of the disk; buffers end at once or inside a block, and
a length is negative. Its memory: 19 pages hold one process comfortably and two not quite, so that every
allocation fails in some behaviour; programs load, end early, or have a segment that
is not aligned or whose end wraps around.
`pipe`: a call moves more bytes than fit, so that it blocks half way, and
the counters wrap after four bytes. `virtio`: eight descriptors, as in the code, serve
two requests and leave two, so that a third process fails half way through
`alloc3_desc()`; four requests starting at index 14 of 16 take both rings around.
`filesys`: three calls of two processes are enough for one to remove what another is
walking through and a third call to use the inode again; the paths go down, up, and
down and up again. Two files and two descriptors run out. `mknod()` differs from
`mkdir()` and `open()` only in the type it gives and is left out of the calls made.
`console`: indices start one below `UintMod` and
wrap around. The input buffer starts one key short of full, so that a key fills it, or full,
so that a key is refused; the output buffer holds two bytes and two writes of two bytes fill
it. Each of two calls can meet the key, the transmit and the clock interrupt, and a `kill()`.

**Deadlock.** TLC's deadlock check is off for the process table (in `process` that part may
rest, in `proc_orphan` the check is off), in the `virtio` runs and in `pipe`, where the system really may stop: when the bound on requests is used up or an
interrupt is lost (finding 3), when the bound on pids is used up and init has missed a
wakeup (finding 2), or when a reader that keeps its own write end open waits for
itself. In the other modules `Rest` is a step only where nobody is in the middle of a
call, so TLC finds processes that wait for each other.

**Fairness.** `Log`: the commit, recovery and a process inside `log_write()` go on,
for interrupts are on and the scheduler passes over the whole table; an operation
that is in progress ends (`SF` on `end_op`, since it makes finitely many
`log_write()` calls); nobody has to start one and nothing makes the power fail.
`Proc`, for finding 2: CPUs loop over the table; a spinlock that is free again and
again is acquired in the end (`amoswap` gives no such guarantee by itself; with the
few CPUs xv6 has and no adversary it is what the code relies on); and no timer
interrupt falls between two lock operations of the kernel (`SlowClock`), without
which an adversary can preempt in lockstep for ever. Safety runs use the full
`Next`. `Pipe`: the holder of the lock goes on and a spinning process gets it.
`Virtio`, for finding 3: the device works off its queue, an interrupt is taken, and a
process that finds the lock or descriptors free again and again gets them.

`Proc` has no passing liveness run: that an exiting process ends, and that a child
of init is reaped, are false by finding 2 and observation 2. `FileSys`, `FileData`,
`Vm` and `Console` bound the number of calls; there the deadlock check and
`SleepersHaveReason` say what liveness would.

## 4. Findings

1. **`bcache_replay`**. `install_trans()` unpins blocks in recovery as well, where
   nothing pinned them. `refcnt` wraps to its maximum, and the next `bread()` makes
   it 0 with the buffer in use. `Log` takes the cache to be a `BlockStore`;
   after a boot that replays a log this is not so, and the theorems about `Bcache`
   assume `Replay = {}`.
2. **`proc_orphan`**. `exit()` wakes init first and its `original_parent` last. If
   the parent itself exits in between and hands the process to init, init is not
   woken again, and the zombie stays until another process exits. The comment in
   `init.c:40-41` says that init's `wait()` returns if a parentless process exits. No
   call fails in this run.
3. **`virtio_lost`**. `virtio_disk_intr()` acknowledges the interrupt after its last
   look at the used ring. A completion in between is acknowledged unseen; its process
   sleeps until some other request completes.
4. **`filesys_removed`**. A process whose current directory was removed, with its parent, can
   still name the parent as `..`. The parent's inode is free by then, and `ilock()`
   panics with "ilock: no type" (`fs.c:310`), the assertion that a reference to an
   inode keeps it allocated. One process is enough: it unlinks `../b`, in which it is, and
   `/a`, and walks `../b`.
5. **`console_full`**. `consolewrite()` holds `cons.lock` while `uartputc()` sleeps for room in
   the output buffer, so `sched()` finds two locks held and panics ("sched locks"). The
   comment of `uartputc()` (`uart.c:82-85`) says that it blocks and suits `write()`.

Observations the passing runs rest on, or allow for:

1. `param.h` allows an operation `MAXOPBLOCKS` blocks, and `begin_op()` admits
   operations until `LOGSIZE` blocks are spoken for. But the log has `LOGSIZE` blocks
   *with* its header, so `log_write()` panics one block earlier if operations use all
   they may. Theorem `NeverPanics` gives the margin under which it does not.
2. In `exit()`, `original_parent` may by the time it is locked have been freed, and
   its slot given to a grandchild of the exiting process. Locks are then no longer
   taken from parent to child, and exiting processes can spin for ever. This takes
   four slots and three CPUs. `CyclesNeedStaleParent` says that nothing else can
   lead to such a circle; it was also checked completely with four slots, three
   CPUs and five pids, without kills and faults (17 million states, once, not a run).
3. 30 buffers do not serve 64 processes and a full log: `bget()` panics when all buffers are
   pinned or in use. `PanicOnlyWhenAllInUse` says that it panics in no other case, since no
   reference leaks.
4. `writei()` returns `n` also when a copy from the user failed in the middle, so a
   `write()` of a bad buffer may report success for bytes it did not write.
5. A `kill()` between the test of `killed` and `sleep()` in `piperead()` or
   `pipewrite()` does not wake the process; it sleeps until the other end acts.

## 5. Proofs

| theorem | module | statement |
|---|---|---|
| `LogInvariant`, `TypeCorrect` | `LogProofs` | `Spec => []IInv`, `Spec => []TypeOK` |
| `NeverPanics` | `LogProofs` | `RoomToSpare` implies `Spec => []NoPanic` |
| `SleepersHaveWakers` | `LogProofs` | `Spec => []SleeperHasWaker` |
| `WriteAheadHolds` | `LogProofs` | `Spec => WriteAhead` |
| `LogRefines` | `LogProofs` | `Spec => RefinesAtomicDisk` |
| `CacheInvariant`, `BuffersKeepIdentity` | `BcacheProofs` | `Replay = {}` implies `Spec => []IInv`, `Spec => []Identity` |
| `NoReferenceLeaks` | `BcacheProofs` | `Replay = {}` implies `Spec => PanicOnlyWhenAllInUse` |
| `BcacheRefines` | `BcacheProofs` | `Replay = {}` implies `Spec => RefinesBlockStore` |
| `VirtioInvariant`, `TypeCorrect` | `VirtioProofs` | `Spec => []IInv`, `Spec => []TypeOK` |
| `NeverPanics`, `DeviceKeepsChains` | `VirtioProofs` | `Spec => []NoPanic`, `Spec => []ChainsIntact` |
| `NoWakeupMissed`, `NoRequestLost` | `VirtioProofs` | `Spec => []SleepersHaveReason`, `Spec => []NoneLost` |
| `DriverIsBlockDevice` | `VirtioProofs` | `Spec => IsBlockDevice` |
| `FileSysInvariant` | `FileSysProofs` | `Spec => []IInv` |
| `ReferencesAreCounted` | `FileSysProofs` | `Spec => []RefsExact` |
| `IputNeverBlocks`, `InodeLocksNoCycle` | `FileSysProofs` | `Spec => []IputWontBlock`, `Spec => []NoLockCycle` |
| `PipeInvariant` | `PipeProofs` | `Spec => []IInv` |
| `FreedLast`, `NoLostWakeup` | `PipeProofs` | `Spec => []NoUseAfterFree`, `Spec => []SleepersHaveReason` |
| `PipeIsByteStream` | `PipeProofs` | `Spec => IsByteStream` |
| `ProcInvariant`, `NoneForgotten` | `ProcProofs` | `Spec => []IInv`, `Spec => []NoOrphans` |
| `FreedLast`, `ExitIsSeen` | `ProcProofs` | `Spec => []FreedIsGone`, `Spec => []NoMissedExit` |
| `OrderFromParentToChild` | `ProcProofs` | `Spec => []CyclesNeedStaleParent` |
| `ConsoleInvariant`, `InterruptsFollowLocks` | `ConsoleProofs` | `Spec => []IInv`, `Spec => []InterruptsMatchLocks` |
| `OnlyFullPanics`, `NoLostWakeup` | `ConsoleProofs` | `Spec => []PanicOnlyWhenFull`, `Spec => []SleepersHaveReason` |

*Assumptions.* The named assumptions of each module: finite sets of processes, blocks
and buffers, sizes that are natural numbers, an operation that writes at most what
is reserved, a `refcnt` wide enough to count all processes and the log. For `FileSys`
also that a path is not empty and has "/" only at its start, that only directories
have names in them at the start, and that following names from a directory never leads
back to it. TLC evaluates them in every run.

*The log.* `IInv` (in `LogInv`) has five parts. `ControlInv` says who may be where: no
operation runs during a commit or recovery, one process commits. `SpaceInv` is the
arithmetic of the reservation: `outstanding` counts the operations in progress, and
the blocks in the log are bounded by what finished operations left and what running
ones wrote; its proof is about the cardinalities of those sets. `DataInv` says how far a
commit or recovery has got: log blocks below `tail` hold what
the cache holds, home blocks below `tail` are installed, and outside a commit the
header is empty. None of the safety properties is inductive without the others: that
a torn home block is harmless needs the log blocks intact, which needs the
header empty while they are written, which needs that only one process commits. The
refinement maps memory to `cache` (to what recovery will read while it runs) and
the durable state to what recovery would leave; the header write is the one step
that changes it.

*The cache.* The core is `refcnt[b] = Cardinality(Refs(b))`: processes between `bget()`
and `brelse()`, and the log entry of the block. With it a buffer with `refcnt` 0 has no user, so
recycling keeps `Identity`; a logged block keeps its buffer, so contents that are
newer than the disk are never dropped. `NoReferenceLeaks` reads it the other way: `bget()` panics
when every `refcnt` is above 0, and then every buffer has a user or is pinned.

*The disk driver.* `IInv` has the chain of each request (`ChainInv`: three different
descriptors, not free, that lead to one another and belong to one process), the lock and
the entry about to become visible (`LockInv`), the rings (`RingInv`: fewer than `NUM`
requests are queued, and entries not yet read differ), and where a request is
(`PlaceInv`, `NoneLost`): queued, with the device or completed, in exactly one of the
three. That the rings never overflow follows from the descriptors: each
request queued has three, and all differ. The indices are compared modulo their width,
so the theorems cover their wrapping around. For the refinement a call is pending until its block was
transferred.

*The file system.* `RefsExact` says that `ip->ref` is the number of pointers to the inode:
working directories, struct files, and the local variables of calls in progress, counted at
every point of every call. It needs to know which local variables are in use at which point
(`Shape`), so every error path has to give back exactly what was taken. `IputWontBlock` needs
in addition who holds which inode lock (`LockInv`) and that holding a lock means
holding a reference. `NoLockCycle` needs that a call that waits with a lock held
waits for an entry of the directory it has locked (`Checked`, `UnlinkInv`) and that
names form no circle (`Acyclic`): every set of inodes has one without an
entry in the set. A circle of calls would be a set of inodes without one. `create()`
keeps `Acyclic` since its new inode has no entries (`NamesInv`, `CacheInv`), and `link()`
since it refuses directories, which stays true between its two lookups
(`Checked`). `FileSysSteps` has the invariant, what a step changes in the counts
(`PointersStep`, `StepInv`), the steps on the file table and `iput()`; `FileSysProofs` has the
lookup of a path and the steps on two inodes at once. What they use of finite sets is the hypothesis `SetFacts` of their lemmas, which
`SetFactsHold` proves from the library's theorems before the first theorem uses it.

*The pipe.* `NoUseAfterFree` and `SleepersHaveReason` are not inductive: a close is two
steps (the last reference goes in `fileclose()`, the flag in `pipeclose()`), and a writer
changes the pipe before it wakes anybody. `IInv` says in addition who holds the lock
(`LockInv`), that each call has its end open and that one process at most is between the two
steps of a close (`EndsInv`), and that whoever sleeps has a reason or a process inside
the pipe that will still wake it (`SleepInv`). None of this needs arithmetic.
`IsByteStream` does: `RingInv` says that `nread` and `nwrite` differ by at most `PIPESIZE`
modulo their width, and the lemmas on `%` show that the place a byte goes to is
the one after those in use, also where the counters wrap around. This holds since
`PIPESIZE` divides the width (512 and 2^32), which is an assumption of `Pipe`.

*The process table.* `NoOrphans` depends on everything else. `reparent()` looks at
`pp->parent` without `pp->lock`, so `TreeInv` says which children it may have passed: none
below its position has the exiting process as its parent any more, since only the
process itself could get new ones. A parent is older than its children (`pid`), and
a parent pointer changes to init only; with `LockInv` (who holds which lock) a circle of processes
that spin for each other's locks would be a circle of ages, unless one of them has an
outdated `original_parent`: the minimal element of a set of pids gives
`CyclesNeedStaleParent`. `WaitInv` says that children already passed in the loop of `wait()` do
not become zombies behind its back, which is why no exit is missed.

*The console and the clock.* `noff`, `intena` and the interrupt flag of a CPU follow from the code that
runs on it (`Off`), and so do the spinlocks it has (`Owns`); a process that comes back
on another CPU finds there what it left (`RunInv`). `SleepersHaveReason` follows, for any
number of CPUs, processes and interrupts, and so does `PanicOnlyWhenFull` (defined in
`ConsoleProofs`): of the panics of `acquire()`, `release()`, `pop_off()` and `sched()` only
that of finding 5 is reached, and only with the output buffer full.

*Inductive invariants checked first.* Each `IInv` was checked with TLC on the instance of
its run before it was proved; those of `Log`, `Bcache` and `Pipe` are properties of their
runs.

*Model-checked only*:

- the liveness properties, since TLAPS has no `ENABLED`;
- `NamesAreLinked` of `FileSys`: it speaks of what can be reached from the root, which takes
  induction along a path;
- `RefinesTerminal`: the mapping reads the input line out of a ring with three indices, one of
  which moves back when a line is erased;
- everything about `FileData` and `Vm`: no proof has been written. That blocks and page
  frames have one owner is a statement about a sum over all files and page tables, and
  would come first.

No module uses a `RECURSIVE` operator.

## 6. Not modelled

Parts without a module are listed in `PROJECT.json` with the reason:

- register saving and page table switching (`trampoline.S`, `swtch.S`, `kernelvec.S`)
  and the programming of timer, UART and interrupt controller at boot: below the
  level of the models, and without a protocol between processes;
- boot (`main.c`, `start.c`), `printf.c`, `string.c`: sequential, run once or pure
  formatting;
- argument registers and the table of system calls: no state;
- the kernel's own page table (`kvminit`, `kvmmap`): does not change after boot;
- in the modelled parts: the limit `NINODE` of the inode cache (`iget: no inodes`), the dispatch of
  reads and writes to devices and the `readable` and `writable` flags, the copying of
  open files by `fork()`, `procdump()`, `stati()`, the super block;
- mkfs, which is not the version that matches `fs.h` (512-byte sectors, no magic
  number): the models start from an image such as the kernel expects;
- the user library (`umalloc` included) and programs other than init: sequential
  clients of the calls modelled here; and the tests.
