------------------------------- MODULE Bcache -------------------------------
(***************************************************************************)
(* The buffer cache of kernel/bio.c with the sleep-locks of its buffers    *)
(* (kernel/sleeplock.c), used as kernel/log.c uses it: a process breads a  *)
(* block, may change it and log_write() it, which pins the buffer, and     *)
(* breleses it; install_trans() writes a logged block home and unpins it,  *)
(* in a commit and when a log is replayed at boot.                         *)
(*                                                                         *)
(* A section of bcache.lock or of a sleep-lock's spinlock is one step, and *)
(* so is a disk transfer.  A process holding two buffers at once is two    *)
(* members of Procs.                                                       *)
(***************************************************************************)
EXTENDS Integers, FiniteSets

CONSTANTS Procs,      \* uses of the cache that may be in progress at once
          Blocks,     \* disk blocks
          Values,     \* block contents
          Bufs,       \* bcache.buf
          NBUF,       \* how many there are
          RefMod,     \* refcnt is an unsigned int: 2^32 in the code
          MaxPinned,  \* blocks the log may hold before it commits
          Replay,     \* blocks in the log header found at boot
          None

ASSUME ConstantAssumption ==
  /\ IsFiniteSet(Procs) /\ IsFiniteSet(Blocks) /\ IsFiniteSet(Bufs)
  /\ NBUF = Cardinality(Bufs)
  /\ RefMod \in Nat /\ Cardinality(Procs) + 1 < RefMod
  /\ MaxPinned \in Nat
  /\ Replay \subseteq Blocks
  /\ None \notin Blocks \cup Procs \cup Bufs
  /\ Procs \cap Blocks = {}

VARIABLES
  blockno,  \* per buffer: the block it caches, None before its first use
  valid,    \* per buffer: has data been read from disk?
  refcnt,   \* per buffer
  locked,   \* per buffer: the process that has its sleep-lock, or None
  data,     \* per buffer
  lru,      \* the list, lru[1] = head.next the most recently used
  disk,     \* contents of the disk blocks
  logged,   \* log.lh: blocks to be installed
  boot,     \* 1 while initlog() recovers
  pc,       \* where each process is
  buf,      \* the buffer a process was given by bget()
  want      \* the block it asked for

bufvars  == <<blockno, valid, refcnt, locked, data, lru>>
vars     == <<bufvars, disk, logged, boot, pc, buf, want>>

\* A process in one of these has a reference to its buffer ...
Waiting == {"lock", "asleep"}
Filled  == {"use", "dirty", "unpin"}
\* ... and in one of these also the buffer's sleep-lock.
Locking == {"read"} \cup Filled
Using   == Waiting \cup Locking \cup {"unref"}

TypeOK ==
  /\ blockno \in [Bufs -> Blocks \cup {None}]
  /\ valid \in [Bufs -> {0, 1}]
  /\ refcnt \in [Bufs -> 0..(RefMod - 1)]
  /\ locked \in [Bufs -> Procs \cup {None}]
  /\ data \in [Bufs -> Values]
  /\ lru \in [1..NBUF -> Bufs]
  /\ disk \in [Blocks -> Values]
  /\ logged \in SUBSET Blocks
  /\ boot \in {0, 1}
  /\ pc \in [Procs -> {"idle", "panic"} \cup Using]
  /\ buf \in [Procs -> Bufs \cup {None}]
  /\ want \in [Procs -> Blocks \cup {None}]

\* binit(), and a disk whose log may list blocks to replay.
Init ==
  /\ blockno = [b \in Bufs |-> None]
  /\ valid = [b \in Bufs |-> 0]
  /\ refcnt = [b \in Bufs |-> 0]
  /\ locked = [b \in Bufs |-> None]
  /\ data \in {[b \in Bufs |-> v] : v \in Values}
  /\ lru \in {f \in [1..NBUF -> Bufs] : \A b \in Bufs : \E i \in 1..NBUF : f[i] = b}
  /\ disk \in [Blocks -> Values]
  /\ logged = Replay
  /\ boot = 1
  /\ pc = [p \in Procs |-> "idle"]
  /\ buf = [p \in Procs |-> None]
  /\ want = [p \in Procs |-> None]

-----------------------------------------------------------------------------
\* Mutants: a reference that is not counted, one that is not given up.
RefInc_M1(n) == n
RefDec_M1(n) == n

\* b->refcnt++ and b->refcnt-- on an unsigned int.
RefInc(n) == IF n = RefMod - 1 THEN 0 ELSE n + 1
RefDec(n) == IF n = 0 THEN RefMod - 1 ELSE n - 1

\* Mutant: takes the least recently used buffer without a look at its refcnt.
Unused_M1(i) == i = NBUF

\* The list positions bget() stops at: the first that caches block k, and
\* the last that is unused.
Hit(k, i) == blockno[lru[i]] = k /\ \A j \in 1..(i - 1) : blockno[lru[j]] # k
Unused(i) == refcnt[lru[i]] = 0 /\ \A j \in (i + 1)..NBUF : refcnt[lru[j]] # 0

\* The section of bcache.lock in bget().  Until recovery is done only
\* install_trans() runs, one block at a time.
bget(p, k) ==
  /\ pc[p] = "idle"
  /\ boot = 1 => k \in logged /\ \A q \in Procs : pc[q] = "idle"
  /\ want' = [want EXCEPT ![p] = k]
  /\ \/ \E i \in 1..NBUF :
          /\ Hit(k, i)
          /\ refcnt' = [refcnt EXCEPT ![lru[i]] = RefInc(@)]
          /\ buf' = [buf EXCEPT ![p] = lru[i]]
          /\ pc' = [pc EXCEPT ![p] = "lock"]
          /\ UNCHANGED <<blockno, valid>>
     \/ \E i \in 1..NBUF :
          /\ \A b \in Bufs : blockno[b] # k
          /\ Unused(i)
          /\ blockno' = [blockno EXCEPT ![lru[i]] = k]
          /\ valid' = [valid EXCEPT ![lru[i]] = 0]
          /\ refcnt' = [refcnt EXCEPT ![lru[i]] = 1]
          /\ buf' = [buf EXCEPT ![p] = lru[i]]
          /\ pc' = [pc EXCEPT ![p] = "lock"]
     \/ /\ \A b \in Bufs : blockno[b] # k /\ refcnt[b] # 0
        /\ pc' = [pc EXCEPT ![p] = "panic"]
        /\ UNCHANGED <<blockno, valid, refcnt, buf>>
  /\ UNCHANGED <<locked, data, lru, disk, logged, boot>>

\* One turn of the loop in acquiresleep().
acquiresleep(p) ==
  /\ pc[p] = "lock"
  /\ IF locked[buf[p]] # None
       THEN pc' = [pc EXCEPT ![p] = "asleep"] /\ UNCHANGED locked
       ELSE /\ locked' = [locked EXCEPT ![buf[p]] = p]
            /\ pc' = [pc EXCEPT ![p] = "read"]
  /\ UNCHANGED <<blockno, valid, refcnt, data, lru, disk, logged, boot, buf, want>>

\* bread() after bget().
bread(p) ==
  /\ pc[p] = "read"
  /\ valid' = [valid EXCEPT ![buf[p]] = 1]
  /\ data' = [data EXCEPT ![buf[p]] =
                IF valid[buf[p]] = 1 THEN @ ELSE disk[blockno[buf[p]]]]
  /\ pc' = [pc EXCEPT ![p] = "use"]
  /\ UNCHANGED <<blockno, refcnt, locked, lru, disk, logged, boot, buf, want>>

\* Blocks in the log, and those about to enter it.
Reserved == logged \cup {want[q] : q \in {r \in Procs : pc[r] = "dirty"}}

\* A file system operation changes b->data; begin_op() has reserved log space
\* for the block ...
modify(p, v) ==
  /\ pc[p] = "use" /\ boot = 0
  /\ Cardinality(Reserved \cup {want[p]}) <= MaxPinned
  /\ data' = [data EXCEPT ![buf[p]] = v]
  /\ pc' = [pc EXCEPT ![p] = "dirty"]
  /\ UNCHANGED <<blockno, valid, refcnt, locked, lru, disk, logged, boot, buf, want>>

\* ... and calls log_write(), with bpin() for a block new to the log.
log_write(p) ==
  /\ pc[p] = "dirty"
  /\ logged' = logged \cup {want[p]}
  /\ refcnt' = [refcnt EXCEPT ![buf[p]] =
                  IF want[p] \in logged THEN @ ELSE RefInc(@)]
  /\ pc' = [pc EXCEPT ![p] = "use"]
  /\ UNCHANGED <<blockno, valid, locked, data, lru, disk, boot, buf, want>>

\* install_trans() copies a block from the log, which holds what the cache
\* holds except at boot, and bwrite()s it, which checks holdingsleep().
install(p) ==
  /\ pc[p] = "use" /\ want[p] \in logged
  /\ \E v \in Values :
       /\ boot = 0 => v = data[buf[p]]
       /\ data' = [data EXCEPT ![buf[p]] = v]
       /\ disk' = IF locked[buf[p]] = p THEN [disk EXCEPT ![want[p]] = v] ELSE disk
  /\ pc' = [pc EXCEPT ![p] = IF locked[buf[p]] = p THEN "unpin" ELSE "panic"]
  /\ UNCHANGED <<blockno, valid, refcnt, locked, lru, logged, boot, buf, want>>

\* bunpin(), the next thing install_trans() does.
bunpin(p) ==
  /\ pc[p] = "unpin"
  /\ refcnt' = [refcnt EXCEPT ![buf[p]] = RefDec(@)]
  /\ logged' = logged \ {want[p]}
  /\ pc' = [pc EXCEPT ![p] = "use"]
  /\ UNCHANGED <<blockno, valid, locked, data, lru, disk, boot, buf, want>>

\* Mutant: no wakeup().
releasesleep_M1(p) ==
  /\ pc[p] = "use" /\ (boot = 1 => want[p] \notin logged)
  /\ locked' = [locked EXCEPT ![buf[p]] = None]
  /\ pc' = [pc EXCEPT ![p] = "unref"]
  /\ UNCHANGED <<blockno, valid, refcnt, data, lru, disk, logged, boot, buf, want>>

\* The first half of brelse(): holdingsleep() and releasesleep().
releasesleep(p) ==
  /\ pc[p] = "use" /\ (boot = 1 => want[p] \notin logged)
  /\ IF locked[buf[p]] # p
       THEN pc' = [pc EXCEPT ![p] = "panic"] /\ UNCHANGED locked
       ELSE /\ locked' = [locked EXCEPT ![buf[p]] = None]
            /\ pc' = [q \in Procs |->
                        IF q = p THEN "unref"
                        ELSE IF pc[q] = "asleep" /\ buf[q] = buf[p] THEN "lock"
                        ELSE pc[q]]
  /\ UNCHANGED <<blockno, valid, refcnt, data, lru, disk, logged, boot, buf, want>>

\* Buffer b becomes the head of the list.
MoveToFront(b) ==
  LET at == CHOOSE i \in 1..NBUF : lru[i] = b
  IN  [i \in 1..NBUF |-> IF i = 1 THEN b
                         ELSE IF i <= at THEN lru[i - 1] ELSE lru[i]]

\* The second half of brelse(), under bcache.lock.
brelse(p) ==
  /\ pc[p] = "unref"
  /\ refcnt' = [refcnt EXCEPT ![buf[p]] = RefDec(@)]
  /\ lru' = IF refcnt'[buf[p]] = 0 THEN MoveToFront(buf[p]) ELSE lru
  /\ pc' = [pc EXCEPT ![p] = "idle"]
  /\ buf' = [buf EXCEPT ![p] = None]
  /\ want' = [want EXCEPT ![p] = None]
  /\ UNCHANGED <<blockno, valid, locked, data, disk, logged, boot>>

\* recover_from_log() is done.
end_recovery ==
  /\ boot = 1 /\ logged = {} /\ \A p \in Procs : pc[p] = "idle"
  /\ boot' = 0
  /\ UNCHANGED <<bufvars, disk, logged, pc, buf, want>>

Next ==
  \/ \E p \in Procs : \/ \E k \in Blocks : bget(p, k)
                      \/ \E v \in Values : modify(p, v)
                      \/ acquiresleep(p) \/ bread(p) \/ log_write(p)
                      \/ install(p) \/ bunpin(p)
                      \/ releasesleep(p) \/ brelse(p)
  \/ end_recovery

Spec == Init /\ [][Next]_vars

-----------------------------------------------------------------------------
\* A buffer is never recycled under a process that was given it: from bget()
\* to brelse() it caches the block the process asked for.
Identity ==
  \A p \in Procs : pc[p] \in Using => blockno[buf[p]] = want[p]

\* Nobody sleeps in acquiresleep() for a lock that is free: the wakeup() of
\* releasesleep() cannot be missed.
SleeperHasHolder ==
  \A p \in Procs : pc[p] = "asleep" => locked[buf[p]] # None

\* The contents of block k: its buffer's data once read, else the disk's.
Contents ==
  [k \in Blocks |->
     IF \E b \in Bufs : blockno[b] = k /\ valid[b] = 1
       THEN data[CHOOSE b \in Bufs : blockno[b] = k /\ valid[b] = 1]
       ELSE disk[k]]

BS == INSTANCE BlockStore WITH
  mem   <- Contents,
  owner <- [p \in Procs |-> IF pc[p] \in Filled THEN want[p] ELSE None]

\* The cache is invisible: recycling, reading and installing buffers never
\* change the contents of a block, and only the one process between bread()
\* and brelse() of a block does.
RefinesBlockStore == BS!Spec

-----------------------------------------------------------------------------
(* References, and the inductive invariant, for a boot that finds an empty log. *)

\* The processes and the log entry that refer to buffer b.
Refs(b) == {p \in Procs : pc[p] \in Using /\ buf[p] = b}
             \cup {k \in logged : blockno[b] = k}

\* No reference leaks: bget() panics "no buffers" only while every buffer is
\* in use by a process or pinned by the log, and the panics of bwrite() and
\* brelse() are never reached.
PanicOnlyWhenAllInUse ==
  [][\A p \in Procs : pc'[p] = "panic" /\ pc[p] # "panic" =>
       pc[p] = "idle" /\ \A b \in Bufs : Refs(b) # {}]_vars

\* A block has one buffer at most, every buffer is on the list, and refcnt
\* counts the references to it.
CacheInv ==
  /\ \A b, c \in Bufs : blockno[b] = blockno[c] /\ blockno[b] # None => b = c
  /\ \A b \in Bufs : \E i \in 1..NBUF : lru[i] = b
  /\ \A b \in Bufs : refcnt[b] = Cardinality(Refs(b))
  /\ \A p \in Procs : pc[p] \in Using => buf[p] \in Bufs /\ want[p] \in Blocks

\* The sleep-lock of a buffer is held by the process that thinks it holds it.
LockInv ==
  /\ \A p \in Procs : pc[p] \in Locking => locked[buf[p]] = p
  /\ \A b \in Bufs : locked[b] # None =>
       pc[locked[b]] \in Locking /\ buf[locked[b]] = b

\* Logged blocks are in the cache; any other buffer may be recycled.
DataInv ==
  /\ \A p \in Procs : pc[p] \in Filled => valid[buf[p]] = 1
  /\ \A p \in Procs : pc[p] = "unpin" =>
       want[p] \in logged /\ data[buf[p]] = disk[want[p]]
  /\ \A k \in logged : \E b \in Bufs : blockno[b] = k /\ valid[b] = 1
  /\ \A b \in Bufs : valid[b] = 1 =>
       /\ blockno[b] # None
       /\ \/ blockno[b] \in Reserved
          \/ data[b] = disk[blockno[b]]
  /\ Cardinality(Reserved) <= MaxPinned
  /\ boot = 1 => logged = {} /\ \A p \in Procs : pc[p] = "idle"

IInv == TypeOK /\ CacheInv /\ Identity /\ LockInv /\ DataInv /\ SleeperHasHolder
=============================================================================
