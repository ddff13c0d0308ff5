-------------------------------- MODULE Proc --------------------------------
(***************************************************************************)
(* The process table of kernel/proc.c: fork, exit, wait, kill, sleep and   *)
(* wakeup of processes on several CPUs, with the lock of every slot.       *)
(*                                                                         *)
(* A step is what a process does between two lock operations that another  *)
(* process can tell apart: a lock that is taken and given back around one  *)
(* access is one step, a lock held across steps is in the variable lock.   *)
(* A process is at "user" in user mode and in system calls that are not    *)
(* about processes.  Not modelled: kill of init, which panics.             *)
(***************************************************************************)
EXTENDS Integers, FiniteSets

CONSTANTS NPROC,     \* slots of the process table
          NCPU,
          KillPids,  \* arguments kill() is called with
          MaxPid,    \* bound: pids that are handed out
          Faults     \* whether kalloc() and copyout() may fail

ASSUME ConstantAssumption ==
  /\ NPROC \in Nat \ {0} /\ NCPU \in Nat \ {0} /\ MaxPid \in Nat
  /\ KillPids \subseteq Nat \ {1} /\ Faults \in BOOLEAN

VARIABLES
  state, parent, pid, killed, chan,  \* struct proc
  lock,     \* per slot: the process that holds p->lock, or 0
  nextpid,
  cpus,     \* the processes whose context is on a CPU
  pc,       \* where each process is
  at,       \* its loop over the table
  arg       \* original_parent, havekids, or the pid to kill

vars == <<state, parent, pid, killed, chan, lock, nextpid, cpus, pc, at, arg>>

Slots    == 1..NPROC
initproc == 1
Other    == NPROC + 1   \* a channel that is no process

\* A process that holds no lock has interrupts on and may be preempted.
LockFree == {"user", "fork", "exit1", "exit2", "exit3", "wait", "kill"}
Exiting  == {"exit1", "exit2", "exit3", "exit4", "reparent", "exit5"}

\* procinit() and userinit().
Init ==
  /\ state = [s \in Slots |-> IF s = initproc THEN "RUNNABLE" ELSE "UNUSED"]
  /\ parent = [s \in Slots |-> 0]
  /\ pid = [s \in Slots |-> IF s = initproc THEN 1 ELSE 0]
  /\ killed = [s \in Slots |-> 0]
  /\ chan = [s \in Slots |-> 0]
  /\ lock = [s \in Slots |-> 0]
  /\ nextpid = 2
  /\ cpus = {}
  /\ pc = [s \in Slots |-> "user"]
  /\ at = [s \in Slots |-> 0]
  /\ arg = [s \in Slots |-> 0]

-----------------------------------------------------------------------------
At(p, l) == p \in cpus /\ state[p] = "RUNNING" /\ pc[p] = l

\* p goes to l, with its loop at i and its local variable at n.
Goto(p, l, i, n) ==
  /\ pc' = [pc EXCEPT ![p] = l]
  /\ at' = [at EXCEPT ![p] = i]
  /\ arg' = [arg EXCEPT ![p] = n]

Return(p) == Goto(p, "user", 0, 0)

\* The loop of p looked at a slot and goes on; it ends at label l.
Advance(p, l) ==
  IF at[p] < NPROC THEN Goto(p, pc[p], at[p] + 1, arg[p]) ELSE Goto(p, l, 0, arg[p])

\* usertrap(): a process enters a system call, or exits if it was killed.
\* init only forks and waits.
usertrap(p) ==
  /\ At(p, "user")
  /\ \/ killed[p] = 1 /\ Goto(p, "exit1", 0, 0)
     \/ killed[p] = 0 /\ p # initproc /\ Goto(p, "exit1", 0, 0)
     \/ killed[p] = 0 /\ Goto(p, "wait", 0, 0)
     \/ /\ killed[p] = 0
        /\ nextpid + Cardinality({q \in Slots : pc[q] = "fork"}) <= MaxPid
        /\ Goto(p, "fork", 1, 0)
     \/ killed[p] = 0 /\ p # initproc /\ \E n \in KillPids : Goto(p, "kill", 1, n)
  /\ UNCHANGED <<state, parent, pid, killed, chan, lock, nextpid, cpus>>

\* The slot is given back, by wait() or after a failure.
freeproc(i) ==
  /\ state' = [state EXCEPT ![i] = "UNUSED"]
  /\ parent' = [parent EXCEPT ![i] = 0]
  /\ pid' = [pid EXCEPT ![i] = 0]
  /\ killed' = [killed EXCEPT ![i] = 0]
  /\ chan' = [chan EXCEPT ![i] = 0]

\* No memory: the pid stays when it is the trapframe that cannot be had.
allocproc_fails(i) ==
  /\ Faults
  /\ \/ freeproc(i)
     \/ /\ pid' = [pid EXCEPT ![i] = nextpid]
        /\ UNCHANGED <<state, parent, killed, chan>>

\* allocproc() looks at one slot; if it is free, the rest of fork().  killed is
\* left as it is found.
fork(p) ==
  LET i == at[p] IN
  /\ At(p, "fork") /\ lock[i] = 0
  /\ \/ /\ state[i] # "UNUSED"
        /\ IF i < NPROC THEN Advance(p, "fork") ELSE Return(p)
        /\ UNCHANGED <<state, parent, pid, killed, chan, nextpid>>
     \/ /\ state[i] = "UNUSED"
        /\ nextpid' = nextpid + 1
        /\ Return(p)
        /\ \/ allocproc_fails(i)
           \/ /\ pid' = [pid EXCEPT ![i] = nextpid]
              /\ parent' = [parent EXCEPT ![i] = p]
              /\ state' = [state EXCEPT ![i] = "RUNNABLE"]
              /\ UNCHANGED <<killed, chan>>
  /\ UNCHANGED <<lock, cpus>>

\* Mutant: s is not woken.
wakeup1_M1(s) == state[s]

\* The state of s after wakeup1(s).
wakeup1(s) == IF state[s] = "SLEEPING" /\ chan[s] = s THEN "RUNNABLE" ELSE state[s]

\* exit() closes files, which is not modelled, and wakes up init.
exit_wake_init(p) ==
  /\ At(p, "exit1") /\ lock[initproc] = 0
  /\ state' = [state EXCEPT ![initproc] = wakeup1(initproc)]
  /\ Goto(p, "exit2", 0, 0)
  /\ UNCHANGED <<parent, pid, killed, chan, lock, nextpid, cpus>>

exit_read_parent(p) ==
  /\ At(p, "exit2") /\ lock[p] = 0
  /\ Goto(p, "exit3", 0, parent[p])
  /\ UNCHANGED <<state, parent, pid, killed, chan, lock, nextpid, cpus>>

\* Mutant: p's lock before that of its parent.
FirstLock_M1(p) == p

\* exit() acquires original_parent->lock and then p->lock.
FirstLock(p) == arg[p]
SecondLock(p) == CHOOSE s \in {p, arg[p]} : s # FirstLock(p)

exit_lock_parent(p) ==
  /\ At(p, "exit3") /\ lock[FirstLock(p)] = 0
  /\ lock' = [lock EXCEPT ![FirstLock(p)] = p]
  /\ Goto(p, "exit4", 0, arg[p])
  /\ UNCHANGED <<state, parent, pid, killed, chan, nextpid, cpus>>

exit_lock_self(p) ==
  /\ At(p, "exit4") /\ lock[SecondLock(p)] = 0
  /\ lock' = [lock EXCEPT ![SecondLock(p)] = p]
  /\ Goto(p, "reparent", 1, arg[p])
  /\ UNCHANGED <<state, parent, pid, killed, chan, nextpid, cpus>>

\* Mutants: np->lock is not acquired, or passed over when it is taken.
Child_M1(p, i) == parent[i] = p
NotChild_M1(p, i) == parent[i] # p \/ lock[i] # 0

\* What reparent() and wait() find in slot i; p acquires the lock of a child.
Child(p, i) == parent[i] = p /\ lock[i] = 0
NotChild(p, i) == parent[i] # p

\* reparent() looks at one slot.
reparent(p) ==
  LET i == at[p] IN
  /\ At(p, "reparent")
  /\ \/ NotChild(p, i) /\ UNCHANGED parent
     \/ Child(p, i) /\ parent' = [parent EXCEPT ![i] = initproc]
  /\ Advance(p, "exit5")
  /\ UNCHANGED <<state, pid, killed, chan, lock, nextpid, cpus>>

\* The end of exit(); sched() keeps p->lock until the scheduler has the CPU.
exit_zombie(p) ==
  /\ At(p, "exit5")
  /\ state' = [state EXCEPT ![arg[p]] = wakeup1(arg[p]), ![p] = "ZOMBIE"]
  /\ lock' = [lock EXCEPT ![arg[p]] = 0]
  /\ Return(p)
  /\ UNCHANGED <<parent, pid, killed, chan, nextpid, cpus>>

wait(p) ==
  /\ At(p, "wait") /\ lock[p] = 0
  /\ lock' = [lock EXCEPT ![p] = p]
  /\ Goto(p, "scan", 1, 0)
  /\ UNCHANGED <<state, parent, pid, killed, chan, nextpid, cpus>>

\* The loop of wait() looks at one slot: not a child, a child that is not a
\* zombie, one whose status cannot be copied out (init asks for none), or one
\* that it frees.
wait_scan(p) ==
  LET i == at[p] IN
  /\ At(p, "scan") /\ i # 0
  /\ \/ /\ NotChild(p, i)
        /\ Advance(p, "scan")
        /\ UNCHANGED <<state, parent, pid, killed, chan, lock>>
     \/ /\ Child(p, i) /\ state[i] # "ZOMBIE"
        /\ Goto(p, "scan", IF i < NPROC THEN i + 1 ELSE 0, 1)
        /\ UNCHANGED <<state, parent, pid, killed, chan, lock>>
     \/ /\ Child(p, i) /\ state[i] = "ZOMBIE"
        /\ Return(p)
        /\ lock' = [lock EXCEPT ![p] = 0]
        /\ \/ Faults /\ p # initproc /\ UNCHANGED <<state, parent, pid, killed, chan>>
           \/ freeproc(i)
  /\ UNCHANGED <<nextpid, cpus>>

\* The loop of wait() has ended: return -1 or sleep(p, &p->lock).
wait_end(p) ==
  /\ At(p, "scan") /\ at[p] = 0
  /\ IF arg[p] = 0 \/ killed[p] = 1
       THEN /\ lock' = [lock EXCEPT ![p] = 0]
            /\ Return(p)
            /\ UNCHANGED <<state, chan>>
       ELSE /\ chan' = [chan EXCEPT ![p] = p]
            /\ state' = [state EXCEPT ![p] = "SLEEPING"]
            /\ Goto(p, "scan", 1, 0)
            /\ UNCHANGED lock
  /\ UNCHANGED <<parent, pid, killed, nextpid, cpus>>

\* kill() looks at one slot.
kill(p) ==
  LET i == at[p] IN
  /\ At(p, "kill") /\ lock[i] = 0
  /\ IF pid[i] = arg[p]
       THEN /\ killed' = [killed EXCEPT ![i] = 1]
            /\ state' = [state EXCEPT ![i] = IF @ = "SLEEPING" THEN "RUNNABLE" ELSE @]
            /\ Return(p)
       ELSE /\ IF i < NPROC THEN Advance(p, "kill") ELSE Return(p)
            /\ UNCHANGED <<state, killed>>
  /\ UNCHANGED <<parent, pid, chan, lock, nextpid, cpus>>

\* sleep() in a system call that is not wait().
sleep(p) ==
  /\ At(p, "user") /\ lock[p] = 0
  /\ lock' = [lock EXCEPT ![p] = p]
  /\ chan' = [chan EXCEPT ![p] = Other]
  /\ state' = [state EXCEPT ![p] = "SLEEPING"]
  /\ UNCHANGED <<parent, pid, killed, nextpid, cpus, pc, at, arg>>

\* wakeup() of that channel looks at slot s.
wakeup(s) ==
  /\ lock[s] = 0 /\ state[s] = "SLEEPING" /\ chan[s] = Other
  /\ state' = [state EXCEPT ![s] = "RUNNABLE"]
  /\ UNCHANGED <<parent, pid, killed, chan, lock, nextpid, cpus, pc, at, arg>>

\* yield() on a timer interrupt.
yield(p) ==
  /\ p \in cpus /\ state[p] = "RUNNING" /\ pc[p] \in LockFree /\ lock[p] = 0
  /\ lock' = [lock EXCEPT ![p] = p]
  /\ state' = [state EXCEPT ![p] = "RUNNABLE"]
  /\ UNCHANGED <<parent, pid, killed, chan, nextpid, cpus, pc, at, arg>>

\* The scheduler runs p.  p returns from sched() with p->lock; all but wait()
\* then release it.
scheduler(p) ==
  /\ lock[p] = 0 /\ state[p] = "RUNNABLE" /\ Cardinality(cpus) < NCPU
  /\ state' = [state EXCEPT ![p] = "RUNNING"]
  /\ cpus' = cpus \cup {p}
  /\ chan' = [chan EXCEPT ![p] = 0]
  /\ lock' = [lock EXCEPT ![p] = IF pc[p] = "scan" THEN p ELSE 0]
  /\ UNCHANGED <<parent, pid, killed, nextpid, pc, at, arg>>

\* swtch() to the scheduler, which releases p->lock.
sched(p) ==
  /\ p \in cpus /\ state[p] # "RUNNING"
  /\ cpus' = cpus \ {p}
  /\ lock' = [lock EXCEPT ![p] = 0]
  /\ UNCHANGED <<state, parent, pid, killed, chan, nextpid, pc, at, arg>>

\* What a process does until it is back in user mode.
Step(p) ==
  \/ fork(p) \/ kill(p) \/ wait(p) \/ wait_scan(p) \/ wait_end(p)
  \/ exit_wake_init(p) \/ exit_read_parent(p) \/ exit_lock_parent(p)
  \/ exit_lock_self(p) \/ reparent(p) \/ exit_zombie(p)

Next ==
  \E p \in Slots : \/ Step(p) \/ usertrap(p) \/ sleep(p) \/ yield(p)
                   \/ wakeup(p) \/ scheduler(p) \/ sched(p)

Spec == Init /\ [][Next]_vars

\* No timer interrupt finds the kernel between two lock operations: they are
\* much closer together than two ticks, and acquire() has interrupts off while
\* it spins.
SlowClock ==
  \E p \in Slots : \/ Step(p) \/ usertrap(p) \/ sleep(p)
                   \/ pc[p] = "user" /\ yield(p)
                   \/ wakeup(p) \/ scheduler(p) \/ sched(p)

\* Every CPU loops over the table, a spinlock that is free again and again is
\* acquired, and init always waits.
FairSpec ==
  /\ Init /\ [][SlowClock]_vars
  /\ \A p \in Slots : /\ SF_vars(Step(p))
                      /\ SF_vars(scheduler(p))
                      /\ WF_vars(sched(p))
                      /\ WF_vars(wakeup(p))
  /\ SF_vars(usertrap(initproc) /\ pc'[initproc] = "wait")

-----------------------------------------------------------------------------
\* A process that has exited has no children: none is forgotten by reparent(),
\* which looks at the parents of others without their locks.
NoOrphans ==
  \A p, q \in Slots : state[q] \in {"UNUSED", "ZOMBIE"} => parent[p] # q

\* wait() frees no process that is still on a CPU, on its kernel stack, or that
\* holds or is about to release a lock.
FreedIsGone ==
  \A p \in Slots : state[p] = "UNUSED" =>
    p \notin cpus /\ \A s \in Slots : lock[s] # p

\* A process asleep in wait() has no zombie child, and has not been killed:
\* the wakeup of exit() and that of kill() cannot be missed.
NoMissedExit ==
  \A q \in Slots \ {initproc} : state[q] = "SLEEPING" /\ chan[q] = q =>
    /\ killed[q] = 0
    /\ \A p \in Slots : parent[p] = q => state[p] # "ZOMBIE"

\* Which processes p cannot go on without: the holder of the lock it spins for.
Spins(p, s) ==
  /\ p \in cpus /\ state[p] = "RUNNING" /\ lock[s] # 0
  /\ \/ pc[p] = "exit3" /\ s = FirstLock(p)
     \/ pc[p] = "exit4" /\ s = SecondLock(p)
     \/ pc[p] = "reparent" /\ at[p] = s /\ parent[s] = p
     \/ pc[p] = "scan" /\ at[p] = s /\ parent[s] = p

\* Processes wait for each other's locks in a circle only if one of them, in
\* exit(), holds or wants the lock of an original_parent that is no longer its
\* parent: but for that, the order from parent to child rules a deadlock out.
CyclesNeedStaleParent ==
  \A S \in (SUBSET Slots) \ {{}} :
    (\A p \in S : \E s \in Slots : Spins(p, s) /\ lock[s] \in S)
      => \E p \in S : pc[p] \in Exiting /\ arg[p] # parent[p]

\* A process that exits with init as its parent is reaped.
InitReaps ==
  \A p \in Slots : state[p] = "ZOMBIE" /\ parent[p] = initproc ~> state[p] = "UNUSED"
=============================================================================
