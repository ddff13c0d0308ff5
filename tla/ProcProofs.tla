----------------------------- MODULE ProcProofs -----------------------------
(***************************************************************************)
(* The safety of fork(), exit(), wait() and kill(), for any number of      *)
(* slots and CPUs and any number of pids.                                  *)
(***************************************************************************)
EXTENDS Proc, WellFoundedInduction, TLAPS

States == {"UNUSED", "SLEEPING", "RUNNABLE", "RUNNING", "ZOMBIE"}
Labels == LockFree \cup {"exit4", "reparent", "exit5", "scan"}
Locked == {"exit4", "reparent", "exit5"}   \* original_parent->lock is held

TypeOK ==
  /\ state \in [Slots -> States]
  /\ parent \in [Slots -> {0} \cup Slots]
  /\ pid \in [Slots -> Nat]
  /\ killed \in [Slots -> {0, 1}]
  /\ chan \in [Slots -> {0, Other} \cup Slots]
  /\ lock \in [Slots -> {0} \cup Slots]
  /\ nextpid \in Nat
  /\ cpus \subseteq Slots
  /\ pc \in [Slots -> Labels]
  /\ at \in [Slots -> {0} \cup Slots]
  /\ arg \in [Slots -> Nat]

\* Where a process can be in each state.  init never exits and is not killed.
PcInv ==
  /\ \A p \in Slots :
       /\ state[p] \in {"UNUSED", "ZOMBIE"} => pc[p] = "user"
       /\ state[p] = "SLEEPING" => pc[p] \in {"user", "scan"}
       /\ state[p] = "RUNNABLE" => pc[p] \in LockFree \cup {"scan"}
       /\ state[p] # "RUNNING" /\ pc[p] = "scan" => at[p] = 1
       /\ pc[p] \in {"fork", "kill", "reparent"} => at[p] # 0
       /\ pc[p] = "kill" => arg[p] # 1
  /\ state[initproc] \notin {"UNUSED", "ZOMBIE"}
  /\ pid[initproc] = 1 /\ killed[initproc] = 0
  /\ pc[initproc] \notin Exiting

\* Who holds a lock, and who is on a CPU.  A process that has left RUNNING
\* holds its own lock until the scheduler has its CPU back.
LockInv ==
  /\ \A s, p \in Slots : lock[s] = p =>
       /\ p \in cpus
       /\ \/ s = p
          \/ s = arg[p] /\ pc[p] \in Locked
  /\ \A p \in Slots :
       /\ state[p] = "RUNNING" => p \in cpus
       /\ p \in cpus /\ state[p] # "RUNNING" => lock[p] = p
       /\ state[p] = "RUNNING" /\ lock[p] = p => pc[p] \in {"scan", "reparent", "exit5"}
       /\ state[p] = "RUNNING" /\ pc[p] = "scan" => lock[p] = p
       /\ pc[p] \in Locked => lock[arg[p]] = p
       /\ pc[p] \in {"reparent", "exit5"} => lock[p] = p
       /\ state[p] = "UNUSED" => p \notin cpus

\* The family tree: every process but init has a parent, that has not exited
\* and is older.  original_parent was the parent; a parent changes to init only.
\* The children that reparent() has passed are given away.
TreeInv ==
  /\ parent[initproc] = 0
  /\ nextpid > 1
  /\ \A p \in Slots :
       /\ pid[p] < nextpid
       /\ state[p] = "UNUSED" => parent[p] = 0
       /\ state[p] # "UNUSED" /\ p # initproc => parent[p] # 0 /\ pid[p] > 1
       /\ pc[p] \in {"exit3"} \cup Locked =>
            arg[p] \in Slots /\ arg[p] # p /\ parent[p] \in {arg[p], initproc}
  /\ \A p, q \in Slots : parent[p] = q =>
       /\ pid[q] < pid[p]
       /\ state[q] \notin {"UNUSED", "ZOMBIE"}
       /\ pc[q] = "reparent" => p >= at[q]
       /\ pc[q] # "exit5"

\* wait() holds p->lock over its loop, so a child it has passed cannot become a
\* zombie behind its back, nor before it sleeps.
WaitInv ==
  \A q \in Slots \ {initproc} :
    /\ state[q] = "RUNNING" /\ pc[q] = "scan" =>
         \A p \in Slots : parent[p] = q /\ (at[q] = 0 \/ p < at[q]) => state[p] # "ZOMBIE"
    /\ state[q] = "SLEEPING" /\ chan[q] = q =>
         /\ killed[q] = 0
         /\ \A p \in Slots : parent[p] = q => state[p] # "ZOMBIE"

IInv == TypeOK /\ PcInv /\ LockInv /\ TreeInv /\ WaitInv

-----------------------------------------------------------------------------
\* Which prover is tried first, and how long, where a step does not say.
USE SMTT(60), ZenonT(60)
USE ConstantAssumption DEF initproc, States, Labels, Locked, LockFree, Exiting, At

\* Slots are numbered from 1, and there is a channel that is no slot.
LEMMA SlotFacts ==
  Slots \subseteq Nat /\ 0 \notin Slots /\ 1 \in Slots /\ Other \notin Slots
  BY DEF Slots, Other

\* A loop over the table goes on to the next slot or ends after the last one.
LEMMA AdvanceFacts ==
  ASSUME NEW p \in Slots, at[p] \in Slots, NEW l, Advance(p, l),
         pc \in [Slots -> Labels], arg \in [Slots -> Nat]
  PROVE  \/ /\ at[p] < NPROC /\ at[p] + 1 \in Slots
            /\ pc' = pc /\ at' = [at EXCEPT ![p] = at[p] + 1] /\ arg' = arg
         \/ /\ at[p] = NPROC /\ arg' = arg
            /\ pc' = [pc EXCEPT ![p] = l] /\ at' = [at EXCEPT ![p] = 0]
  <1> DEFINE i == at[p]
  <1>1. i \in Nat /\ NPROC \in Nat /\ i <= NPROC /\ (i < NPROC => i + 1 \in Slots)
    BY DEF Slots
  <1>2. CASE i < NPROC
    <2>1. Goto(p, pc[p], i + 1, arg[p]) BY <1>2 DEF Advance
    <2> QED BY <1>1, <1>2, <2>1 DEF Goto
  <1>3. CASE i = NPROC
    <2>1. Goto(p, l, 0, arg[p]) BY <1>1, <1>3 DEF Advance
    <2> QED BY <1>1, <1>3, <2>1 DEF Goto
  <1> QED BY <1>1, <1>2, <1>3

\* exit() acquires its own lock after that of another process.
LEMMA SecondIsOwn ==
  ASSUME TypeOK, TreeInv, NEW p \in Slots, pc[p] \in {"exit3"} \cup Locked
  PROVE  SecondLock(p) = p
  BY DEF TypeOK, TreeInv, SecondLock, FirstLock

\* procinit() and userinit() leave a state in which the invariant holds.
LEMMA InitInv == Init => IInv
  BY SlotFacts DEF Init, IInv, TypeOK, PcInv, LockInv, TreeInv, WaitInv

\* usertrap() entering a system call or exit() keeps the invariant.
LEMMA UsertrapInv ==
  ASSUME IInv, NEW p \in Slots, usertrap(p)
  PROVE  IInv'
  <1> USE SlotFacts DEF IInv
  <1>1. TypeOK' BY DEF TypeOK, PcInv, TreeInv, usertrap, Goto
  <1>2. PcInv' BY DEF TypeOK, PcInv, LockInv, TreeInv, usertrap, Goto
  <1>3. LockInv' BY DEF TypeOK, PcInv, LockInv, TreeInv, usertrap, Goto
  <1>4. TreeInv' BY DEF TypeOK, PcInv, LockInv, TreeInv, usertrap, Goto
  <1>5. WaitInv' BY DEF TypeOK, PcInv, LockInv, TreeInv, WaitInv, usertrap, Goto
  <1> QED BY <1>1, <1>2, <1>3, <1>4, <1>5

\* fork() keeps the invariant: it takes only an UNUSED slot.
LEMMA ForkInv ==
  ASSUME IInv, NEW p \in Slots, fork(p)
  PROVE  IInv'
  <1> USE SlotFacts DEF IInv
  <1> DEFINE i == at[p]
  <1>0. i \in Slots BY DEF TypeOK, PcInv, fork
  <1>1. CASE /\ state[i] # "UNUSED"
             /\ IF i < NPROC THEN Advance(p, "fork") ELSE Return(p)
             /\ UNCHANGED <<state, parent, pid, killed, chan, nextpid>>
    <2>0. (i + 1 \in Slots /\ Goto(p, "fork", i + 1, arg[p])) \/ Return(p)
      BY <1>0, <1>1 DEF fork, Advance, Slots
    <2>1. TypeOK' BY <1>0, <1>1, <2>0 DEF TypeOK, fork, Return, Goto
    <2>2. PcInv' BY <1>0, <1>1, <2>0 DEF TypeOK, PcInv, fork, Return, Goto
    <2>3. LockInv' BY <1>0, <1>1, <2>0 DEF TypeOK, LockInv, fork, Return, Goto
    <2>4. TreeInv' BY <1>0, <1>1, <2>0 DEF TypeOK, TreeInv, fork, Return, Goto
    <2>5. WaitInv' BY <1>0, <1>1, <2>0 DEF TypeOK, WaitInv, fork, Return, Goto
    <2> QED BY <2>1, <2>2, <2>3, <2>4, <2>5
  <1>2. CASE state[i] = "UNUSED" /\ nextpid' = nextpid + 1 /\ Return(p) /\ allocproc_fails(i)
    <2> USE DEF fork, allocproc_fails, freeproc, Return, Goto
    <2>1. TypeOK' BY <1>0, <1>2 DEF TypeOK
    <2>2. PcInv' BY <1>0, <1>2 DEF TypeOK, PcInv
    <2>3. LockInv' BY <1>0, <1>2 DEF TypeOK, PcInv, LockInv
    <2>4. TreeInv' BY <1>0, <1>2 DEF TypeOK, PcInv, TreeInv
    <2>5. WaitInv' BY <1>0, <1>2 DEF TypeOK, PcInv, TreeInv, WaitInv
    <2> QED BY <2>1, <2>2, <2>3, <2>4, <2>5
  <1>3. CASE /\ state[i] = "UNUSED" /\ nextpid' = nextpid + 1 /\ Return(p)
             /\ pid' = [pid EXCEPT ![i] = nextpid]
             /\ parent' = [parent EXCEPT ![i] = p]
             /\ state' = [state EXCEPT ![i] = "RUNNABLE"]
             /\ UNCHANGED <<killed, chan>>
    <2> USE DEF fork, Return, Goto
    <2>1. TypeOK' BY <1>0, <1>3 DEF TypeOK
    <2>2. PcInv' BY <1>0, <1>3 DEF TypeOK, PcInv
    <2>3. LockInv' BY <1>0, <1>3 DEF TypeOK, PcInv, LockInv
    <2>4. TreeInv' BY <1>0, <1>3 DEF TypeOK, PcInv, TreeInv
    <2>5. WaitInv' BY <1>0, <1>3 DEF TypeOK, PcInv, TreeInv, WaitInv
    <2> QED BY <2>1, <2>2, <2>3, <2>4, <2>5
  <1> QED BY <1>1, <1>2, <1>3 DEF fork

\* kill() keeps the invariant.
LEMMA KillInv ==
  ASSUME IInv, NEW p \in Slots, kill(p)
  PROVE  IInv'
  <1> USE SlotFacts DEF IInv
  <1> DEFINE i == at[p]
  <1>0. i \in Slots /\ arg[p] # 1 BY DEF TypeOK, PcInv, kill
  <1>1. (i + 1 \in Slots /\ Goto(p, "kill", i + 1, arg[p])) \/ Return(p)
    BY <1>0 DEF kill, Advance, Slots
  <1>2. TypeOK' BY <1>0, <1>1 DEF TypeOK, kill, Return, Goto
  <1>3. PcInv'
    <2>1. CASE pid[i] = arg[p] BY <1>0, <2>1 DEF TypeOK, PcInv, kill, Return, Goto
    <2>2. CASE pid[i] # arg[p] BY <1>0, <1>1, <2>2 DEF TypeOK, PcInv, kill, Return, Goto
    <2> QED BY <2>1, <2>2
  <1>4. LockInv' BY <1>0, <1>1 DEF TypeOK, PcInv, LockInv, kill, Return, Goto
  <1>5. TreeInv' BY <1>0, <1>1 DEF TypeOK, TreeInv, kill, Return, Goto
  <1>6. WaitInv' BY <1>0, <1>1 DEF TypeOK, WaitInv, kill, Return, Goto
  <1> QED BY <1>2, <1>3, <1>4, <1>5, <1>6

\* wait() acquiring p->lock keeps the invariant.
LEMMA WaitEnterInv ==
  ASSUME IInv, NEW p \in Slots, wait(p)
  PROVE  IInv'
  <1> USE SlotFacts DEF IInv
  <1>1. TypeOK' BY DEF TypeOK, PcInv, TreeInv, wait, Goto
  <1>2. PcInv' BY DEF TypeOK, PcInv, LockInv, TreeInv, wait, Goto
  <1>3. LockInv' BY DEF TypeOK, PcInv, LockInv, TreeInv, wait, Goto
  <1>4. TreeInv' BY DEF TypeOK, PcInv, LockInv, TreeInv, wait, Goto
  <1>5. WaitInv' BY DEF TypeOK, PcInv, LockInv, TreeInv, WaitInv, wait, Goto
  <1> QED BY <1>1, <1>2, <1>3, <1>4, <1>5

\* wait() passing over a slot that is no zombie child keeps the invariant.
LEMMA PassInv ==
  ASSUME IInv, NEW p \in Slots, At(p, "scan"), at[p] \in Slots,
         parent[at[p]] # p \/ state[at[p]] # "ZOMBIE",
         NEW j \in {0} \cup Slots, NEW n \in Nat, Goto(p, "scan", j, n),
         \A k \in Slots : j = 0 \/ k < j => k < at[p] \/ k = at[p],
         UNCHANGED <<state, parent, pid, killed, chan, lock, nextpid, cpus>>
  PROVE  IInv'
  <1> USE SlotFacts DEF IInv
  <1>1. TypeOK' BY DEF TypeOK, Goto
  <1>2. PcInv' BY DEF TypeOK, PcInv, Goto
  <1>3. LockInv' BY DEF TypeOK, LockInv, Goto
  <1>4. TreeInv' BY DEF TypeOK, TreeInv, Goto
  <1>5. WaitInv' BY DEF TypeOK, WaitInv, Goto
  <1> QED BY <1>1, <1>2, <1>3, <1>4, <1>5

\* A turn of the loop of wait() keeps the invariant: the zombie it frees has left its
\* CPU, since its lock is free.
LEMMA ScanInv ==
  ASSUME IInv, NEW p \in Slots, wait_scan(p)
  PROVE  IInv'
  <1> USE SlotFacts DEF IInv
  <1> DEFINE i == at[p]
  <1>0. i \in Slots BY DEF TypeOK, wait_scan
  <1>1. CASE /\ parent[i] # p \/ state[i] # "ZOMBIE"
             /\ \E n \in Nat : Goto(p, "scan", IF i < NPROC THEN i + 1 ELSE 0, n)
             /\ UNCHANGED <<state, parent, pid, killed, chan, lock>>
    <2> DEFINE j == IF i < NPROC THEN i + 1 ELSE 0
    <2>1. PICK n \in Nat : Goto(p, "scan", j, n) BY <1>1
    <2>2. /\ j \in {0} \cup Slots
          /\ \A k \in Slots : j = 0 \/ k < j => k < i \/ k = i
      BY <1>0 DEF Slots
    <2>3. At(p, "scan") /\ UNCHANGED <<nextpid, cpus>> BY DEF wait_scan
    <2> HIDE DEF j
    <2> QED BY <1>0, <1>1, <2>1, <2>2, <2>3, PassInv
  <1>2. CASE /\ Child(p, i) /\ state[i] = "ZOMBIE" /\ Return(p)
             /\ lock' = [lock EXCEPT ![p] = 0]
             /\ UNCHANGED <<state, parent, pid, killed, chan>>
    <2> USE DEF wait_scan, Child, Return, Goto
    <2>1. TypeOK' BY <1>0, <1>2 DEF TypeOK
    <2>2. PcInv' BY <1>0, <1>2 DEF TypeOK, PcInv
    <2>3. LockInv' BY <1>0, <1>2 DEF TypeOK, LockInv
    <2>4. TreeInv' BY <1>0, <1>2 DEF TypeOK, TreeInv
    <2>5. WaitInv' BY <1>0, <1>2 DEF TypeOK, WaitInv
    <2> QED BY <2>1, <2>2, <2>3, <2>4, <2>5
  <1>3. CASE /\ Child(p, i) /\ state[i] = "ZOMBIE" /\ Return(p)
             /\ lock' = [lock EXCEPT ![p] = 0]
             /\ freeproc(i)
    <2> USE DEF wait_scan, Child, freeproc, Return, Goto
    <2>1. TypeOK' BY <1>0, <1>3 DEF TypeOK
    <2>2. PcInv' BY <1>0, <1>3 DEF TypeOK, PcInv
    <2>3. LockInv' BY <1>0, <1>3 DEF TypeOK, PcInv, LockInv
    <2>4. TreeInv' BY <1>0, <1>3 DEF TypeOK, PcInv, TreeInv
    <2>5. WaitInv' BY <1>0, <1>3 DEF TypeOK, PcInv, WaitInv
    <2> QED BY <2>1, <2>2, <2>3, <2>4, <2>5
  <1>4. arg[p] \in Nat /\ pc[p] = "scan" BY DEF TypeOK, wait_scan
  <1>5. Advance(p, "scan") => Goto(p, "scan", IF i < NPROC THEN i + 1 ELSE 0, arg[p])
    BY <1>4 DEF Advance
  <1> QED BY <1>1, <1>2, <1>3, <1>4, <1>5 DEF wait_scan, Child, NotChild

\* The end of the loop of wait() keeps the invariant.
LEMMA WaitEndInv ==
  ASSUME IInv, NEW p \in Slots, wait_end(p)
  PROVE  IInv'
  <1> USE SlotFacts DEF IInv
  <1>1. TypeOK' BY DEF TypeOK, PcInv, TreeInv, wait_end, Return, Goto
  <1>2. PcInv' BY DEF TypeOK, PcInv, LockInv, TreeInv, wait_end, Return, Goto
  <1>3. LockInv' BY DEF TypeOK, PcInv, LockInv, TreeInv, wait_end, Return, Goto
  <1>4. TreeInv' BY DEF TypeOK, PcInv, LockInv, TreeInv, wait_end, Return, Goto
  <1>5. WaitInv' BY DEF TypeOK, PcInv, LockInv, TreeInv, WaitInv, wait_end, Return, Goto
  <1> QED BY <1>1, <1>2, <1>3, <1>4, <1>5

\* exit() waking up init keeps the invariant.
LEMMA WakeInitInv ==
  ASSUME IInv, NEW p \in Slots, exit_wake_init(p)
  PROVE  IInv'
  <1> USE SlotFacts DEF IInv
  <1>1. TypeOK' BY DEF TypeOK, PcInv, TreeInv, exit_wake_init, wakeup1, Goto
  <1>2. PcInv' BY DEF TypeOK, PcInv, LockInv, TreeInv, exit_wake_init, wakeup1, Goto
  <1>3. LockInv' BY DEF TypeOK, PcInv, LockInv, TreeInv, exit_wake_init, wakeup1, Goto
  <1>4. TreeInv' BY DEF TypeOK, PcInv, LockInv, TreeInv, exit_wake_init, wakeup1, Goto
  <1>5. WaitInv' BY DEF TypeOK, PcInv, LockInv, TreeInv, WaitInv, exit_wake_init, wakeup1, Goto
  <1> QED BY <1>1, <1>2, <1>3, <1>4, <1>5

\* exit() reading its parent keeps the invariant.
LEMMA ReadParentInv ==
  ASSUME IInv, NEW p \in Slots, exit_read_parent(p)
  PROVE  IInv'
  <1> USE SlotFacts DEF IInv
  <1>0. parent[p] \in Nat BY DEF TypeOK, Slots
  <1>1. TypeOK' BY <1>0 DEF TypeOK, exit_read_parent, Goto
  <1>2. PcInv' BY DEF TypeOK, PcInv, LockInv, TreeInv, exit_read_parent, Goto
  <1>3. LockInv' BY DEF TypeOK, PcInv, LockInv, TreeInv, exit_read_parent, Goto
  <1>4. TreeInv' BY DEF TypeOK, PcInv, LockInv, TreeInv, exit_read_parent, Goto
  <1>5. WaitInv' BY DEF TypeOK, PcInv, LockInv, TreeInv, WaitInv, exit_read_parent, Goto
  <1> QED BY <1>1, <1>2, <1>3, <1>4, <1>5

\* exit() acquiring the lock of original_parent keeps the invariant.
LEMMA LockParentInv ==
  ASSUME IInv, NEW p \in Slots, exit_lock_parent(p)
  PROVE  IInv'
  <1> USE SlotFacts DEF IInv
  <1>1. TypeOK' BY DEF TypeOK, PcInv, TreeInv, exit_lock_parent, FirstLock, Goto
  <1>2. PcInv' BY DEF TypeOK, PcInv, LockInv, TreeInv, exit_lock_parent, FirstLock, Goto
  <1>3. LockInv' BY DEF TypeOK, PcInv, LockInv, TreeInv, exit_lock_parent, FirstLock, Goto
  <1>4. TreeInv' BY DEF TypeOK, PcInv, LockInv, TreeInv, exit_lock_parent, FirstLock, Goto
  <1>5. WaitInv' BY DEF TypeOK, PcInv, LockInv, TreeInv, WaitInv, exit_lock_parent, FirstLock, Goto
  <1> QED BY <1>1, <1>2, <1>3, <1>4, <1>5

\* exit() acquiring its own lock keeps the invariant.
LEMMA LockSelfInv ==
  ASSUME IInv, NEW p \in Slots, exit_lock_self(p)
  PROVE  IInv'
  <1> USE SlotFacts, SecondIsOwn DEF IInv
  <1>1. TypeOK' BY DEF TypeOK, PcInv, TreeInv, exit_lock_self, Goto
  <1>2. PcInv' BY DEF TypeOK, PcInv, LockInv, TreeInv, exit_lock_self, Goto
  <1>3. LockInv' BY DEF TypeOK, PcInv, LockInv, TreeInv, exit_lock_self, Goto
  <1>4. TreeInv' BY DEF TypeOK, PcInv, LockInv, TreeInv, exit_lock_self, Goto
  <1>5. WaitInv' BY DEF TypeOK, PcInv, LockInv, TreeInv, WaitInv, exit_lock_self, Goto
  <1> QED BY <1>1, <1>2, <1>3, <1>4, <1>5

\* A turn of the loop of reparent() keeps the invariant.
LEMMA ReparentInv ==
  ASSUME IInv, NEW p \in Slots, reparent(p)
  PROVE  IInv'
  <1> USE SlotFacts DEF IInv
  <1> DEFINE i == at[p]
  <1>0. i \in Slots BY DEF TypeOK, PcInv, reparent
  <1>1. parent' = IF parent[i] = p THEN [parent EXCEPT ![i] = 1] ELSE parent
    BY DEF reparent, Child, NotChild
  <1>2. /\ At(p, "reparent") /\ UNCHANGED <<state, pid, killed, chan, lock, nextpid, cpus>>
        /\ p # 1
    BY DEF reparent, PcInv
  <1>3. \/ /\ i < NPROC /\ i + 1 \in Slots
           /\ pc' = pc /\ at' = [at EXCEPT ![p] = i + 1] /\ arg' = arg
        \/ /\ i = NPROC /\ arg' = arg
           /\ pc' = [pc EXCEPT ![p] = "exit5"] /\ at' = [at EXCEPT ![p] = 0]
    BY <1>0, AdvanceFacts DEF reparent, TypeOK
  <1>4. TypeOK' BY <1>0, <1>1, <1>2, <1>3 DEF TypeOK
  <1>5. PcInv' BY <1>0, <1>2, <1>3 DEF TypeOK, PcInv
  <1>6. LockInv' BY <1>0, <1>2, <1>3 DEF TypeOK, LockInv
  <1>7. TreeInv'
    <2>1. \A x \in Slots : /\ pid'[x] < nextpid'
                           /\ state'[x] = "UNUSED" => parent'[x] = 0
                           /\ state'[x] # "UNUSED" /\ x # 1 => parent'[x] # 0 /\ pid'[x] > 1
      BY <1>0, <1>1, <1>2 DEF TypeOK, PcInv, TreeInv
    <2>2. \A x \in Slots : pc'[x] \in {"exit3"} \cup Locked =>
            arg'[x] \in Slots /\ arg'[x] # x /\ parent'[x] \in {arg'[x], 1}
      BY <1>0, <1>1, <1>2, <1>3 DEF TypeOK, PcInv, TreeInv
    <2>3. ASSUME NEW x \in Slots, NEW q \in Slots, parent'[x] = q
          PROVE  /\ pid'[q] < pid'[x]
                 /\ state'[q] \notin {"UNUSED", "ZOMBIE"}
                 /\ pc'[q] = "reparent" => x >= at'[q]
                 /\ pc'[q] # "exit5"
      <3>1. CASE x = i /\ parent[i] = p
        BY <1>0, <1>1, <1>2, <1>3, <2>3, <3>1 DEF TypeOK, PcInv, TreeInv
      <3>2. CASE parent[x] = q /\ q # p
        BY <1>0, <1>2, <1>3, <3>2 DEF TypeOK, TreeInv
      <3>3. CASE parent[x] = q /\ q = p /\ x # i
        <4>1. x >= i BY <1>2, <3>3 DEF TreeInv
        <4>2. x >= i + 1 /\ i < NPROC BY <1>0, <3>3, <4>1 DEF Slots
        <4> QED BY <1>0, <1>2, <1>3, <3>3, <4>2 DEF TypeOK, TreeInv
      <3> QED BY <1>0, <1>1, <2>3, <3>1, <3>2, <3>3 DEF TypeOK
    <2> QED BY <1>0, <1>1, <1>2, <2>1, <2>2, <2>3 DEF TypeOK, PcInv, TreeInv
  <1>8. WaitInv' BY <1>0, <1>1, <1>2, <1>3 DEF TypeOK, WaitInv
  <1> QED BY <1>4, <1>5, <1>6, <1>7, <1>8

\* The end of exit() keeps the invariant: a parent in wait() is woken up.
LEMMA ZombieInv ==
  ASSUME IInv, NEW p \in Slots, exit_zombie(p)
  PROVE  IInv'
  <1> USE SlotFacts DEF IInv
  <1>1. TypeOK' BY DEF TypeOK, PcInv, TreeInv, exit_zombie, wakeup1, Return, Goto
  <1>2. PcInv' BY DEF TypeOK, PcInv, LockInv, TreeInv, exit_zombie, wakeup1, Return, Goto
  <1>3. LockInv' BY DEF TypeOK, PcInv, LockInv, TreeInv, exit_zombie, wakeup1, Return, Goto
  <1>4. TreeInv' BY DEF TypeOK, PcInv, LockInv, TreeInv, exit_zombie, wakeup1, Return, Goto
  <1>5. WaitInv' BY DEF TypeOK, PcInv, LockInv, TreeInv, WaitInv, exit_zombie, wakeup1, Return, Goto
  <1> QED BY <1>1, <1>2, <1>3, <1>4, <1>5

\* sleep() keeps the invariant.
LEMMA SleepInv ==
  ASSUME IInv, NEW p \in Slots, sleep(p)
  PROVE  IInv'
  <1> USE SlotFacts DEF IInv
  <1>1. TypeOK' BY DEF TypeOK, PcInv, TreeInv, sleep
  <1>2. PcInv' BY DEF TypeOK, PcInv, LockInv, TreeInv, sleep
  <1>3. LockInv' BY DEF TypeOK, PcInv, LockInv, TreeInv, sleep
  <1>4. TreeInv' BY DEF TypeOK, PcInv, LockInv, TreeInv, sleep
  <1>5. WaitInv' BY DEF TypeOK, PcInv, LockInv, TreeInv, WaitInv, sleep
  <1> QED BY <1>1, <1>2, <1>3, <1>4, <1>5

\* wakeup() keeps the invariant.
LEMMA WakeupInv ==
  ASSUME IInv, NEW p \in Slots, wakeup(p)
  PROVE  IInv'
  <1> USE SlotFacts DEF IInv
  <1>1. TypeOK' BY DEF TypeOK, PcInv, TreeInv, wakeup
  <1>2. PcInv' BY DEF TypeOK, PcInv, LockInv, TreeInv, wakeup
  <1>3. LockInv' BY DEF TypeOK, PcInv, LockInv, TreeInv, wakeup
  <1>4. TreeInv' BY DEF TypeOK, PcInv, LockInv, TreeInv, wakeup
  <1>5. WaitInv' BY DEF TypeOK, PcInv, LockInv, TreeInv, WaitInv, wakeup
  <1> QED BY <1>1, <1>2, <1>3, <1>4, <1>5

\* yield() keeps the invariant.
LEMMA YieldInv ==
  ASSUME IInv, NEW p \in Slots, yield(p)
  PROVE  IInv'
  <1> USE SlotFacts DEF IInv
  <1>1. TypeOK' BY DEF TypeOK, PcInv, TreeInv, yield
  <1>2. PcInv' BY DEF TypeOK, PcInv, LockInv, TreeInv, yield
  <1>3. LockInv' BY DEF TypeOK, PcInv, LockInv, TreeInv, yield
  <1>4. TreeInv' BY DEF TypeOK, PcInv, LockInv, TreeInv, yield
  <1>5. WaitInv' BY DEF TypeOK, PcInv, LockInv, TreeInv, WaitInv, yield
  <1> QED BY <1>1, <1>2, <1>3, <1>4, <1>5

\* scheduler() keeps the invariant.
LEMMA SchedulerInv ==
  ASSUME IInv, NEW p \in Slots, scheduler(p)
  PROVE  IInv'
  <1> USE SlotFacts DEF IInv
  <1>1. TypeOK' BY DEF TypeOK, PcInv, TreeInv, scheduler
  <1>2. PcInv' BY DEF TypeOK, PcInv, LockInv, TreeInv, scheduler
  <1>3. LockInv' BY DEF TypeOK, PcInv, LockInv, TreeInv, scheduler
  <1>4. TreeInv' BY DEF TypeOK, PcInv, LockInv, TreeInv, scheduler
  <1>5. WaitInv' BY DEF TypeOK, PcInv, LockInv, TreeInv, WaitInv, scheduler
  <1> QED BY <1>1, <1>2, <1>3, <1>4, <1>5

\* swtch() to the scheduler keeps the invariant.
LEMMA SchedInv ==
  ASSUME IInv, NEW p \in Slots, sched(p)
  PROVE  IInv'
  <1> USE SlotFacts DEF IInv
  <1>1. TypeOK' BY DEF TypeOK, PcInv, TreeInv, sched
  <1>2. PcInv' BY DEF TypeOK, PcInv, LockInv, TreeInv, sched
  <1>3. LockInv' BY DEF TypeOK, PcInv, LockInv, TreeInv, sched
  <1>4. TreeInv' BY DEF TypeOK, PcInv, LockInv, TreeInv, sched
  <1>5. WaitInv' BY DEF TypeOK, PcInv, LockInv, TreeInv, WaitInv, sched
  <1> QED BY <1>1, <1>2, <1>3, <1>4, <1>5

\* Every step of every process and of the scheduler keeps the invariant.
LEMMA NextInv == IInv /\ [Next]_vars => IInv'
  <1> SUFFICES ASSUME IInv, [Next]_vars PROVE IInv'
    OBVIOUS
  <1>1. CASE UNCHANGED vars
    BY <1>1 DEF vars, IInv, TypeOK, PcInv, LockInv, TreeInv, WaitInv
  <1>2. CASE Next
    BY <1>2, UsertrapInv, ForkInv, KillInv, WaitEnterInv, ScanInv, WaitEndInv,
       WakeInitInv, ReadParentInv, LockParentInv, LockSelfInv, ReparentInv, ZombieInv,
       SleepInv, WakeupInv, YieldInv, SchedulerInv, SchedInv
       DEF Next, Step
  <1> QED BY <1>1, <1>2

\* proc.c: states, locks, CPUs, the family tree and the loops of wait() agree in
\* every reachable state.
THEOREM ProcInvariant == Spec => []IInv
  BY InitInv, NextInv, PTL DEF Spec

\* reparent(): a process that has exited, or a free slot, is no one's parent.
THEOREM NoneForgotten == Spec => []NoOrphans
  <1>1. IInv => NoOrphans
    BY DEF IInv, TreeInv, NoOrphans
  <1> QED BY <1>1, ProcInvariant, PTL

\* freeproc(): a slot that is free is on no CPU and holds no lock.
THEOREM FreedLast == Spec => []FreedIsGone
  <1>1. IInv => FreedIsGone
    BY DEF IInv, LockInv, FreedIsGone
  <1> QED BY <1>1, ProcInvariant, PTL

\* wait(), exit() and kill(): no process sleeps in wait() past the exit of a
\* child or past being killed.
THEOREM ExitIsSeen == Spec => []NoMissedExit
  <1>1. IInv => NoMissedExit
    BY DEF IInv, WaitInv, NoMissedExit
  <1> QED BY <1>1, ProcInvariant, PTL

\* A bounded non-empty set of numbers has a greatest element.
LEMMA Greatest ==
  ASSUME NEW N \in Nat, NEW T \in SUBSET Nat, T # {}, \A x \in T : x <= N
  PROVE  \E x \in T : \A y \in T : y <= x
  <1> DEFINE D == {N - x : x \in T}
  <1>1. \A x \in T : N - x \in Nat OBVIOUS
  <1>2. D \subseteq Nat /\ D # {} BY <1>1, Zenon
  <1>3. PICK d \in D : \A e \in D : ~(<<e, d>> \in OpToRel(<, Nat))
    <2> HIDE DEF D
    <2> QED BY <1>2, NatLessThanWellFounded, WFMin
  <1>4. ASSUME NEW e \in Nat, NEW c \in Nat, e < c PROVE <<e, c>> \in OpToRel(<, Nat)
    BY <1>4 DEF OpToRel
  <1>5. PICK x \in T : d = N - x OBVIOUS
  <1>6. ASSUME NEW y \in T PROVE y <= x
    <2>1. N - y \in D /\ ~(N - y < d) BY <1>1, <1>2, <1>3, <1>4
    <2> QED BY <1>5, <2>1
  <1> QED BY <1>6, Zenon

\* exit() and wait() acquire locks from parent to child: where everyone's
\* original_parent is still the parent, the holder of the lock that p spins for
\* is younger than p, unless p still wants its first lock.
LEMMA HolderIsYounger ==
  ASSUME IInv, NEW p \in Slots, NEW s \in Slots, Spins(p, s), pc[p] # "exit3",
         NEW r \in Slots, lock[s] = r, pc[r] \in Exiting => arg[r] = parent[r]
  PROVE  pid[r] > pid[p]
  <1>1. r = s \/ parent[r] = s
    BY DEF IInv, TypeOK, LockInv
  <1>2. CASE pc[p] = "exit4"
    <2>1. s = p BY <1>2, SecondIsOwn DEF IInv, Spins
    <2>2. r # p BY <1>2, <2>1 DEF IInv, LockInv, Spins
    <2> QED BY <1>1, <2>1, <2>2 DEF IInv, TypeOK, TreeInv
  <1>3. CASE parent[s] = p
    <2>1. pid[s] > pid[p] BY <1>3 DEF IInv, TypeOK, TreeInv
    <2> QED BY <1>1, <2>1 DEF IInv, TypeOK, TreeInv
  <1> QED BY <1>2, <1>3 DEF Spins

\* exit() and wait(): the holder of a lock is no longer at its first one.
LEMMA HolderIsPastFirst ==
  ASSUME IInv, NEW s \in Slots, NEW r \in Slots, lock[s] = r, state[r] = "RUNNING"
  PROVE  pc[r] # "exit3"
  BY DEF IInv, LockInv

\* exit() and wait(): processes that spin for each other's locks in a circle need
\* an original_parent that is no longer the parent.
THEOREM OrderFromParentToChild == Spec => []CyclesNeedStaleParent
  <1>1. IInv => CyclesNeedStaleParent
    <2> SUFFICES ASSUME IInv, NEW S \in SUBSET Slots, S # {},
                        \A p \in S : \E s \in Slots : Spins(p, s) /\ lock[s] \in S,
                        \A p \in S : pc[p] \in Exiting => arg[p] = parent[p]
                 PROVE  FALSE
      <3> HIDE DEF Exiting
      <3> QED BY Zenon DEF CyclesNeedStaleParent
    <2> DEFINE T == {p \in S : pc[p] # "exit3"}
               P == {pid[p] : p \in T}
    <2>1. ASSUME NEW p \in S
          PROVE  \E s \in Slots, r \in T : Spins(p, s) /\ lock[s] = r
      <3>1. PICK s \in Slots : Spins(p, s) /\ lock[s] \in S OBVIOUS
      <3>2. state[lock[s]] = "RUNNING" BY <3>1 DEF Spins
      <3>3. pc[lock[s]] # "exit3" BY <3>1, <3>2, HolderIsPastFirst
      <3>4. lock[s] \in T BY <3>1, <3>3, Zenon
      <3> QED BY <3>1, <3>4, Zenon
    <2>2. P # {}
      <3>1. PICK p \in S : TRUE OBVIOUS
      <3>2. PICK r \in T : TRUE BY <2>1, <3>1, Zenon
      <3> QED BY <3>2, Zenon
    <2>3. \A p \in Slots : pid[p] \in Nat /\ nextpid \in Nat /\ pid[p] <= nextpid
      BY DEF IInv, TypeOK, TreeInv
    <2>4. PICK x \in P : \A y \in P : y <= x
      <3>1. P \subseteq Nat /\ nextpid \in Nat /\ \A x \in P : x <= nextpid
        BY <2>2, <2>3
      <3> HIDE DEF P
      <3> QED BY <2>2, <3>1, Greatest, ZenonT(60)
    <2>5. PICK p \in T : x = pid[p] BY <2>4, Zenon
    <2>6. PICK s \in Slots, r \in T : Spins(p, s) /\ lock[s] = r BY <2>1, <2>5
    <2>7. pid[r] > pid[p] BY <2>5, <2>6, HolderIsYounger
    <2>8. pid[r] <= pid[p] BY <2>4, <2>5, <2>6
    <2> QED BY <2>3, <2>7, <2>8
  <1> QED BY <1>1, ProcInvariant, PTL
=============================================================================
