-------------------------------- MODULE Log --------------------------------
(***************************************************************************)
(* The redo log of kernel/log.c: group commit, crash and recovery.         *)
(*                                                                         *)
(* A spinlock section of log.lock is one step, and so is one block         *)
(* transfer (bwrite).  The buffer cache appears as the contents a bread()  *)
(* would return; bpin() keeps that true for logged blocks.  A crash may    *)
(* happen anywhere, in recovery too, and may leave the block being         *)
(* written with any contents: a block is two disk sectors.  The header     *)
(* fits in the first sector of its block, so it is written whole or not.   *)
(***************************************************************************)
EXTENDS Integers, Sequences, FiniteSets

CONSTANTS Procs,        \* processes that make FS system calls
          Blocks,       \* home blocks of the file system
          Values,       \* block contents
          Zero,         \* contents of a block mkfs wrote as zeroes
          MAXOPBLOCKS,  \* log space begin_op() reserves per operation
          LOGSIZE,      \* capacity of struct logheader
          NLog,         \* log.size, from sb->nlog: header block included
          OpBlocks,     \* distinct blocks an operation really writes
          NoBlock       \* no buffer held

ASSUME ConstantAssumption ==
  /\ IsFiniteSet(Procs) /\ IsFiniteSet(Blocks)
  /\ Zero \in Values /\ NoBlock \notin Blocks
  /\ MAXOPBLOCKS \in Nat \ {0} /\ LOGSIZE \in Nat /\ NLog \in Nat
  /\ OpBlocks \in Nat /\ OpBlocks <= MAXOPBLOCKS
  /\ MAXOPBLOCKS <= LOGSIZE

VARIABLES
  lh,           \* log.lh: the logged block numbers, in slot order
  outstanding,  \* log.outstanding
  committing,   \* log.committing
  tail,         \* loop variable of write_log() and install_trans()
  cache,        \* contents bread() returns for each home block
  home,         \* disk: the home blocks
  logd,         \* disk: the log blocks log.start+1 ...
  head,         \* disk: the header block, as the sequence it lists
  sys,          \* "boot", "install" and "clear" in recovery, then "up"
  pc,           \* where each process is
  held,         \* the buffer a process holds between bread() and brelse()
  wrote         \* blocks the current operation of a process has logged

memvars  == <<lh, outstanding, committing, tail>>
diskvars == <<home, logd, head>>
opvars   == <<held, wrote>>
vars     == <<memvars, cache, diskvars, sys, pc, opvars>>

\* A process that panics in log_write() never leaves its operation.
OpStates     == {"op", "write", "checked", "panic"}
CommitStates == {"commit", "write_log", "write_head", "install", "erase",
                 "finish"}
PcStates     == {"idle", "begin", "asleep"} \cup OpStates \cup CommitStates

Logged(seq) == {seq[i] : i \in 1..Len(seq)}
Active      == {p \in Procs : pc[p] \in OpStates}

\* Bounds on every variable's value.
TypeOK ==
  /\ lh \in Seq(Blocks) /\ head \in Seq(Blocks)
  /\ outstanding \in Int /\ tail \in Nat
  /\ committing \in {0, 1}
  /\ cache \in [Blocks -> Values] /\ home \in [Blocks -> Values]
  /\ logd \in [1..LOGSIZE -> Values]
  /\ sys \in {"boot", "install", "clear", "up"}
  /\ pc \in [Procs -> PcStates]
  /\ held \in [Procs -> Blocks \cup {NoBlock}]
  /\ wrote \in [Procs -> SUBSET Blocks]

\* A file system image as mkfs leaves it, about to be mounted.
Init ==
  /\ home \in [Blocks -> Values]
  /\ logd = [i \in 1..LOGSIZE |-> Zero]
  /\ head = <<>>
  /\ cache = home
  /\ lh = <<>> /\ outstanding = 0 /\ committing = 0 /\ tail = 0
  /\ sys = "boot"
  /\ pc = [p \in Procs |-> "idle"]
  /\ held = [p \in Procs |-> NoBlock]
  /\ wrote = [p \in Procs |-> {}]

-----------------------------------------------------------------------------
\* Mutant: nobody is woken.
wakeup_M1(pcs) == pcs

\* wakeup(&log): every process asleep in begin_op() will look again.
wakeup(pcs) == [q \in Procs |-> IF pcs[q] = "asleep" THEN "begin" ELSE pcs[q]]

\* Mutant: the blocks that finished operations left in the log are forgotten.
NoSpace_M1 == (outstanding + 1) * MAXOPBLOCKS > LOGSIZE

NoSpace == Len(lh) + (outstanding + 1) * MAXOPBLOCKS > LOGSIZE

\* One turn of the loop in begin_op(); sleep() releases log.lock atomically.
begin_op(p) ==
  /\ sys = "up"
  /\ pc[p] \in {"idle", "begin"}
  /\ IF committing = 1 \/ NoSpace
       THEN /\ pc' = [pc EXCEPT ![p] = "asleep"]
            /\ UNCHANGED <<outstanding, wrote>>
       ELSE /\ pc' = [pc EXCEPT ![p] = "op"]
            /\ outstanding' = outstanding + 1
            /\ wrote' = [wrote EXCEPT ![p] = {}]
  /\ UNCHANGED <<lh, committing, tail, cache, diskvars, sys, held>>

\* The caller's side of log_write(): bread() a block, whose sleep-lock keeps
\* other processes off the buffer until brelse(), and change its data.
modify(p, b, v) ==
  /\ pc[p] = "op"
  /\ b \in wrote[p] \/ Cardinality(wrote[p]) < OpBlocks
  /\ \A q \in Procs : held[q] # b
  /\ cache' = [cache EXCEPT ![b] = v]
  /\ held' = [held EXCEPT ![p] = b]
  /\ pc' = [pc EXCEPT ![p] = "write"]
  /\ UNCHANGED <<memvars, diskvars, sys, wrote>>

TooBig == Len(lh) >= LOGSIZE \/ Len(lh) >= NLog - 1

\* The two panic tests of log_write(), made before it takes log.lock.
log_write_check(p) ==
  /\ pc[p] = "write"
  /\ pc' = [pc EXCEPT ![p] =
              IF TooBig \/ outstanding < 1 THEN "panic" ELSE "checked"]
  /\ UNCHANGED <<memvars, cache, diskvars, sys, opvars>>

\* The locked part of log_write(): absorb the block or append it; brelse().
log_write(p) ==
  /\ pc[p] = "checked"
  /\ lh' = IF held[p] \in Logged(lh) THEN lh ELSE Append(lh, held[p])
  /\ wrote' = [wrote EXCEPT ![p] = @ \cup {held[p]}]
  /\ held' = [held EXCEPT ![p] = NoBlock]
  /\ pc' = [pc EXCEPT ![p] = "op"]
  /\ UNCHANGED <<outstanding, committing, tail, cache, diskvars, sys>>

\* end_op() up to its first release(): the last operation will commit.
end_op(p) ==
  /\ pc[p] = "op"
  /\ outstanding' = outstanding - 1
  /\ IF committing = 1
       THEN pc' = [pc EXCEPT ![p] = "panic"] /\ UNCHANGED committing
       ELSE IF outstanding = 1
         THEN pc' = [pc EXCEPT ![p] = "commit"] /\ committing' = 1
         ELSE /\ pc' = wakeup([pc EXCEPT ![p] = "idle"])
              /\ UNCHANGED committing
  /\ UNCHANGED <<lh, tail, cache, diskvars, sys, opvars>>

-----------------------------------------------------------------------------
\* Mutant: an empty commit returns without clearing log.committing.
commit_M2(p) ==
  /\ pc[p] = "commit"
  /\ tail' = 0
  /\ pc' = [pc EXCEPT ![p] = IF Len(lh) > 0 THEN "write_log" ELSE "idle"]
  /\ UNCHANGED <<lh, outstanding, committing, cache, diskvars, sys, opvars>>

\* commit() decides whether there is anything to write.
commit(p) ==
  /\ pc[p] = "commit"
  /\ tail' = 0
  /\ pc' = [pc EXCEPT ![p] = IF Len(lh) > 0 THEN "write_log" ELSE "finish"]
  /\ UNCHANGED <<lh, outstanding, committing, cache, diskvars, sys, opvars>>

\* One turn of write_log(): copy a cached block to its slot of the log.
write_log(p) ==
  /\ pc[p] = "write_log"
  /\ IF tail < Len(lh)
       THEN /\ logd' = [logd EXCEPT ![tail + 1] = cache[lh[tail + 1]]]
            /\ tail' = tail + 1
            /\ UNCHANGED pc
       ELSE pc' = [pc EXCEPT ![p] = "write_head"] /\ UNCHANGED <<tail, logd>>
  /\ UNCHANGED <<lh, outstanding, committing, cache, home, head, sys, opvars>>

\* Mutant: the header stays in the cache.
write_head_M1(p) ==
  /\ pc[p] = "write_head"
  /\ tail' = 0
  /\ pc' = [pc EXCEPT ![p] = "install"]
  /\ UNCHANGED <<lh, outstanding, committing, cache, diskvars, sys, opvars>>

\* The first write_head() of commit(): the commit point.
write_head(p) ==
  /\ pc[p] = "write_head"
  /\ head' = lh
  /\ tail' = 0
  /\ pc' = [pc EXCEPT ![p] = "install"]
  /\ UNCHANGED <<lh, outstanding, committing, cache, home, logd, sys, opvars>>

\* One turn of install_trans(): log block to cached copy to home block.
install_trans ==
  /\ tail < Len(lh)
  /\ cache' = [cache EXCEPT ![lh[tail + 1]] = logd[tail + 1]]
  /\ home' = [home EXCEPT ![lh[tail + 1]] = logd[tail + 1]]
  /\ tail' = tail + 1
  /\ UNCHANGED <<lh, outstanding, committing, logd, head, opvars>>

install(p) ==
  /\ pc[p] = "install"
  /\ \/ install_trans /\ UNCHANGED <<sys, pc>>
     \/ /\ tail >= Len(lh)
        /\ pc' = [pc EXCEPT ![p] = "erase"]
        /\ UNCHANGED <<memvars, cache, diskvars, sys, opvars>>

\* log.lh.n = 0 and the second write_head() of commit().
erase(p) ==
  /\ pc[p] = "erase"
  /\ lh' = <<>>
  /\ head' = <<>>
  /\ pc' = [pc EXCEPT ![p] = "finish"]
  /\ UNCHANGED <<outstanding, committing, tail, cache, home, logd, sys, opvars>>

\* end_op() after commit(): let waiting operations in, and return.
end_commit(p) ==
  /\ pc[p] = "finish"
  /\ committing' = 0
  /\ pc' = wakeup([pc EXCEPT ![p] = "idle"])
  /\ UNCHANGED <<lh, outstanding, tail, cache, diskvars, sys, opvars>>

-----------------------------------------------------------------------------
\* Mutant: recovery erases the log without installing it.
read_head_M1 ==
  /\ sys = "boot"
  /\ lh' = head
  /\ tail' = 0
  /\ sys' = "clear"
  /\ UNCHANGED <<outstanding, committing, cache, diskvars, pc, opvars>>

\* recover_from_log(), run by initlog() before any operation may start.
read_head ==
  /\ sys = "boot"
  /\ lh' = head
  /\ tail' = 0
  /\ sys' = "install"
  /\ UNCHANGED <<outstanding, committing, cache, diskvars, pc, opvars>>

recover_install ==
  /\ sys = "install"
  /\ \/ install_trans /\ UNCHANGED <<sys, pc>>
     \/ /\ tail >= Len(lh)
        /\ sys' = "clear"
        /\ UNCHANGED <<memvars, cache, diskvars, pc, opvars>>

recover_clear ==
  /\ sys = "clear"
  /\ lh' = <<>>
  /\ head' = <<>>
  /\ sys' = "up"
  /\ UNCHANGED <<outstanding, committing, tail, cache, home, logd, pc, opvars>>

\* The block a bwrite() may be in the middle of writing, if any.
Installing == (sys = "install" \/ \E p \in Procs : pc[p] = "install")
                /\ tail < Len(lh)
WritingLog == (\E p \in Procs : pc[p] = "write_log") /\ tail < Len(lh)

\* Power fails: memory is lost, a block in transfer may be torn.
Crash ==
  /\ \/ UNCHANGED <<home, logd>>
     \/ /\ Installing
        /\ \E v \in Values : home' = [home EXCEPT ![lh[tail + 1]] = v]
        /\ UNCHANGED logd
     \/ /\ WritingLog
        /\ \E v \in Values : logd' = [logd EXCEPT ![tail + 1] = v]
        /\ UNCHANGED home
  /\ cache' = home'
  /\ lh' = <<>> /\ outstanding' = 0 /\ committing' = 0 /\ tail' = 0
  /\ sys' = "boot"
  /\ pc' = [p \in Procs |-> "idle"]
  /\ held' = [p \in Procs |-> NoBlock]
  /\ wrote' = [p \in Procs |-> {}]
  /\ UNCHANGED head

-----------------------------------------------------------------------------
CommitStep(p) == commit(p) \/ write_log(p) \/ write_head(p) \/ install(p)
                   \/ erase(p) \/ end_commit(p)
LogWriteStep(p) == log_write_check(p) \/ log_write(p)
Recover == read_head \/ recover_install \/ recover_clear

Next ==
  \/ \E p \in Procs : \/ begin_op(p) \/ LogWriteStep(p) \/ end_op(p)
                      \/ CommitStep(p)
  \/ \E p \in Procs, b \in Blocks, v \in Values : modify(p, b, v)
  \/ Recover
  \/ Crash

Spec == Init /\ [][Next]_vars

\* Every process and the boot code keep running: interrupts are enabled while
\* they run and the scheduler passes over the whole process table.  An FS
\* operation makes finitely many log_write() calls, so it reaches end_op().
\* Nobody has to start an operation, and nothing makes the power fail.
Fairness ==
  /\ WF_vars(Recover)
  /\ \A p \in Procs : /\ WF_vars(CommitStep(p) \/ LogWriteStep(p))
                      /\ WF_vars(pc[p] = "begin" /\ begin_op(p))
                      /\ SF_vars(end_op(p))

FairSpec == Spec /\ Fairness

-----------------------------------------------------------------------------
\* log_write() and end_op() never reach their panics: the space begin_op()
\* reserves covers every log_write() of every operation it admits, although
\* log_write() tests for space before it takes log.lock.
NoPanic == \A p \in Procs : pc[p] # "panic"

\* A process asleep in begin_op() has someone left to wake it: a commit in
\* progress or an operation that has yet to reach end_op().
SleeperHasWaker ==
  \A p \in Procs : pc[p] = "asleep" => committing = 1 \/ outstanding > 0

\* The write-ahead rule: install_trans() overwrites a home block only while
\* the header on the disk lists it, in recovery and under torn writes too.
WriteAhead ==
  [][\A b \in Blocks : home'[b] # home[b] => b \in Logged(head)]_vars

\* The disk as recovery would leave it: what the header lists comes from the
\* log blocks, everything else from the home blocks.
Recovered ==
  [b \in Blocks |->
     IF b \in Logged(head)
       THEN logd[CHOOSE i \in 1..Len(head) : head[i] = b]
       ELSE home[b]]

AD == INSTANCE AtomicDisk WITH
  mem     <- IF sys = "up" THEN cache ELSE Recovered,
  durable <- Recovered,
  st      <- [p \in Procs |-> IF pc[p] \in OpStates THEN "op"
                             ELSE IF pc[p] \in CommitStates THEN "sync"
                             ELSE "idle"]

\* The log implements atomic group commit: commit(), install_trans() and
\* recover_from_log() make a group of operations durable as a whole or not at
\* all, wherever the power fails.
RefinesAtomicDisk == AD!Spec

\* Whoever sleeps in begin_op() is woken: end_op() and the end of commit()
\* call wakeup(&log) wherever a sleeper may be waiting for them.
SleeperWakes == \A p \in Procs : pc[p] = "asleep" ~> pc[p] # "asleep"

\* If power failures stop, recovery and then every commit runs to its end.
CommitFinishes ==
  \/ []<><<Crash>>_vars
  \/ ((sys # "up" \/ committing = 1) ~> (sys = "up" /\ committing = 0))
=============================================================================
