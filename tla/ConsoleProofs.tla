--------------------------- MODULE ConsoleProofs ---------------------------
(***************************************************************************)
(* Spinlocks, interrupt enabling, sleep() and yield() under the console    *)
(* and the clock, for any number of CPUs, processes and interrupts.        *)
(***************************************************************************)
EXTENDS Console, TLAPS

Locks    == {"cons", "uart", "ticks"}
\* Where a process is with interrupts on, with interrupts off, and past acquire().
Outside  == {"user", "call", "enter"}
Inside   == {"spin", "in", "sleep", "tx"}
Under    == {"in", "sleep", "tx"}
CpuRec   == [intr : BOOLEAN, noff : Nat, intena : BOOLEAN]
Handlers == [dev : {"none", "uart", "clock"}, pc : {"none", "enter", "spin", "in", "ret"},
             lock : {"none"} \cup Locks, key : {"none"} \cup Keys]
Kernels  == [op : {"none", "read", "write", "sleep", "uptime"},
             pc : Outside \cup Inside, lock : {"none"} \cup Locks, n : Nat, i : Nat,
             t0 : {None} \cup Nat, old : BOOLEAN, intena : BOOLEAN, trap : BOOLEAN]

TypeOK ==
  /\ cpu \in [CPUs -> CpuRec]
  /\ run \in [CPUs -> Procs \cup {None}]
  /\ h \in [CPUs -> Handlers]
  /\ k \in [Procs -> Kernels]
  /\ st \in [Procs -> {"running", "runnable", "cons.r", "ticks", "uart_tx"}]
  /\ owner \in [Locks -> CPUs \cup {None}]

DataTypeOK ==
  /\ DOMAIN cons = {"r", "w", "e", "buf"}
  /\ rx \in {"none"} \cup Keys
  /\ ticks \in Nat

\* What runs where.  A process off its CPU is in user space, or on its way to
\* taking again the lock that it gave up in sleep(); it was interrupted if its
\* saved intena is FALSE.  In push_off() it found interrupts enabled.
RunInv ==
  /\ \A c, d \in CPUs : run[c] = run[d] /\ run[c] # None => c = d
  /\ \A c \in CPUs : run[c] # None => st[run[c]] = "running" /\ ~k[run[c]].trap
  /\ \A p \in Procs :
       /\ k[p].intena <=> ~k[p].trap
       /\ st[p] # "running" => k[p].pc \in Outside
       /\ k[p].pc \in {"call", "enter"} => k[p].lock \in {"cons", "ticks"}
       /\ k[p].pc = "enter" => k[p].old
       /\ k[p].pc \in Inside => k[p].lock \in Locks
       /\ k[p].pc = "tx" => k[p].lock = "uart"

\* The nesting depth and the saved interrupt flag of a CPU follow from the code
\* that runs on it.
Off(c) ==
  /\ InHandler(c) =>
       /\ ~cpu[c].intr /\ ~cpu[c].intena
       /\ cpu[c].noff = IF h[c].pc \in {"spin", "in"} THEN 1 ELSE 0
       /\ h[c].pc # "none" /\ (h[c].pc # "ret" => h[c].lock \in Locks)
       /\ run[c] # None => k[run[c]].pc \in Outside
  /\ ~InHandler(c) =>
       IF run[c] # None /\ k[run[c]].pc \in Inside
         THEN /\ ~cpu[c].intr /\ cpu[c].intena
              /\ cpu[c].noff = IF k[run[c]].lock = "uart" THEN 2 ELSE 1
         ELSE cpu[c].intr /\ ~cpu[c].intena /\ cpu[c].noff = 0

\* Which spinlocks the code that runs on c is past the acquire() of.
Held(c, lk) ==
  IF InHandler(c) THEN h[c].pc = "in" /\ h[c].lock = lk
  ELSE /\ run[c] # None
       /\ \/ k[run[c]].pc \in Under /\ k[run[c]].lock = lk
          \/ k[run[c]].pc \in Inside /\ k[run[c]].lock = "uart" /\ lk = "cons"

Owns(c) == \A lk \in Locks : owner[lk] = c <=> Held(c, lk)

CpuInv == \A c \in CPUs : Off(c) /\ Owns(c)

Core == TypeOK /\ RunInv /\ CpuInv

\* Of all the panics of acquire(), release(), pop_off() and sched() there is one,
\* sched()'s in a write() that finds the output buffer full.
PanicOnlyWhenFull == panic = "none" \/ (panic = "sched locks" /\ Full)

\* A process about to sleep() has a reason, which its lock keeps from going away.
Checked(c) ==
  run[c] # None /\ k[run[c]].pc = "sleep" =>
    /\ k[run[c]].lock = "cons" => cons.r = cons.w
    /\ k[run[c]].lock = "uart" => Full
    /\ k[run[c]].lock = "ticks" => Minus(ticks, k[run[c]].t0) < k[run[c]].n

AllChecked == \A c \in CPUs : Checked(c)

IInv == Core /\ DataTypeOK /\ PanicOnlyWhenFull /\ AllChecked /\ SleepersHaveReason

-----------------------------------------------------------------------------
USE ConsoleAssumption, ZenonT(60), SMTT(60) DEF InHandler, Locks, Outside, Inside, Under

\* The state of a CPU stays a record of its three fields.
LEMMA CpuFields ==
  ASSUME NEW x \in CpuRec, NEW a \in BOOLEAN, NEW n \in Nat, NEW b \in BOOLEAN
  PROVE  /\ [x EXCEPT !.intr = a] \in CpuRec
         /\ [x EXCEPT !.intena = b, !.intr = a, !.noff = n] \in CpuRec
         /\ [x EXCEPT !.noff = n, !.intr = a, !.intena = b] \in CpuRec
         /\ [x EXCEPT !.intr = a].intr <=> a
         /\ [x EXCEPT !.intr = a].intena <=> x.intena
         /\ [x EXCEPT !.intr = a].noff = x.noff
  BY DEF CpuRec

\* What push_off() does to the state of a CPU.
LEMMA PushOff ==
  ASSUME NEW x \in CpuRec, NEW old \in BOOLEAN
  PROVE  /\ push_off(x, old) \in CpuRec
         /\ ~push_off(x, old).intr /\ push_off(x, old).noff = x.noff + 1
         /\ push_off(x, old).intena <=> IF x.noff = 0 THEN old ELSE x.intena
  <1>1. x.noff + 1 \in Nat
    BY SMTT(60) DEF CpuRec
  <1>2. push_off(x, old) \in CpuRec
    <2>1. CASE x.noff = 0 BY <1>1, <2>1, CpuFields DEF push_off, CpuRec
    <2>2. CASE x.noff # 0 BY <1>1, <2>2, CpuFields DEF push_off, CpuRec
    <2> QED BY <2>1, <2>2
  <1>3. ~push_off(x, old).intr /\ push_off(x, old).noff = x.noff + 1
    BY DEF push_off, CpuRec
  <1>4. push_off(x, old).intena <=> IF x.noff = 0 THEN old ELSE x.intena
    BY DEF push_off, CpuRec
  <1> QED BY <1>2, <1>3, <1>4

\* The outermost push_off() saves what it read.
LEMMA FirstPush ==
  ASSUME NEW x \in CpuRec, NEW old \in BOOLEAN, x.noff = 0
  PROVE  /\ push_off(x, old) \in CpuRec /\ ~push_off(x, old).intr
         /\ push_off(x, old).noff = 1 /\ (push_off(x, old).intena <=> old)
  <1>1. x.noff + 1 = 1 BY SMTT(60)
  <1> QED BY <1>1, PushOff

\* What pop_off() does to the state of a CPU.
LEMMA PopOff ==
  ASSUME NEW x \in CpuRec, x.noff > 0
  PROVE  /\ pop_off(x) \in CpuRec /\ pop_off(x).noff = x.noff - 1
         /\ pop_off(x).intr <=> (x.noff = 1 /\ x.intena)
         /\ pop_off(x).intena <=> (x.intena /\ x.noff > 1)
  <1>1. x.noff - 1 \in Nat
    BY SMTT(60) DEF CpuRec
  <1>2. pop_off(x) \in CpuRec
    BY <1>1, CpuFields DEF pop_off
  <1>3. pop_off(x).noff = x.noff - 1
    BY DEF pop_off, CpuRec
  <1>4. pop_off(x).intr <=> (x.noff = 1 /\ x.intena)
    BY DEF pop_off, CpuRec
  <1>5. pop_off(x).intena <=> (x.intena /\ x.noff > 1)
    BY DEF pop_off, CpuRec
  <1> QED BY <1>2, <1>3, <1>4, <1>5

\* release() of a lock that is held, with interrupts off, does not panic.
LEMMA ReleaseQuiet ==
  ASSUME NEW c \in CPUs, NEW lk \in Locks, owner[lk] = c, cpu[c] \in CpuRec,
         ~cpu[c].intr, cpu[c].noff > 0
  PROVE  ReleasePanic(c, lk) = "none"
  <1>1. ~(cpu[c].noff < 1)
    BY SMTT(60) DEF CpuRec
  <1> QED BY <1>1 DEF ReleasePanic, holding

\* yield() in a handler that has no push_off() outstanding does not panic.
LEMMA YieldQuiet ==
  ASSUME NEW c \in CPUs, NEW x \in CpuRec, ~x.intr, x.noff = 0
  PROVE  YieldPanic(c, x) = "none"
  <1> DEFINE y == push_off(x, x.intr)
  <1>1. x.intr \in BOOLEAN BY DEF CpuRec
  <1>2. ~y.intr /\ y.noff = x.noff + 1
    BY <1>1, PushOff
  <1>3. y.noff = 1
    BY <1>2, SMTT(60)
  <1> HIDE DEF y
  <1>4. SchedPanic(y) = "none"
    BY <1>2, <1>3 DEF SchedPanic
  <1> QED BY <1>4 DEF YieldPanic, y

\* A step of the code on c: other CPUs, and the processes on them, are left alone,
\* and only c takes or gives up locks.
Alone(c) ==
  /\ \A d \in CPUs \ {c} :
       /\ cpu'[d] = cpu[d] /\ h'[d] = h[d] /\ run'[d] = run[d]
       /\ run[d] # None => k'[run[d]] = k[run[d]]
  /\ \A lk \in Locks : \/ owner'[lk] = owner[lk]
                       \/ owner[lk] \in {c, None} /\ owner'[lk] \in {c, None}

\* Such a step keeps the part of the invariant that is about other CPUs.
LEMMA OthersKept ==
  ASSUME CpuInv, NEW c \in CPUs, Alone(c), Off(c)', Owns(c)'
  PROVE  CpuInv'
  <1>1. ASSUME NEW d \in CPUs, d # c PROVE Off(d)'
    BY <1>1, SMTT(60) DEF CpuInv, Alone, Off
  <1>2. ASSUME NEW d \in CPUs, d # c PROVE Owns(d)'
    <2>1. \A lk \in Locks : Held(d, lk)' <=> Held(d, lk)
      BY <1>2, SMTT(60) DEF Alone, Held
    <2>2. \A lk \in Locks : owner'[lk] = d <=> owner[lk] = d
      BY <1>2, SMTT(60) DEF Alone
    <2> QED BY <2>1, <2>2 DEF CpuInv, Owns
  <1> QED BY <1>1, <1>2 DEF CpuInv

\* The process that runs on c, outside of handlers, and its CPU.
LEMMA OnCpu ==
  ASSUME Core, NEW c \in CPUs, Pc(c) \in Outside \cup Inside, ~InHandler(c)
  PROVE  /\ run[c] \in Procs /\ k[run[c]].pc = Pc(c) /\ run[c] # None
         /\ \A d \in CPUs : d # c => run[d] # run[c]
         /\ k[run[c]] \in Kernels /\ cpu[c] \in CpuRec
         /\ ~k[run[c]].trap /\ k[run[c]].intena /\ st[run[c]] = "running"
         /\ IF Pc(c) \in Inside
              THEN /\ ~cpu[c].intr /\ cpu[c].intena
                   /\ cpu[c].noff = IF k[run[c]].lock = "uart" THEN 2 ELSE 1
              ELSE cpu[c].intr /\ ~cpu[c].intena /\ cpu[c].noff = 0
  <1>1. run[c] # None /\ run[c] \in Procs /\ k[run[c]].pc = Pc(c)
    BY DEF Core, TypeOK, Pc
  <1>2. /\ k[run[c]] \in Kernels /\ cpu[c] \in CpuRec
        /\ \A d \in CPUs : d # c => run[d] # run[c]
        /\ ~k[run[c]].trap /\ k[run[c]].intena /\ st[run[c]] = "running"
    BY <1>1 DEF Core, TypeOK, RunInv
  <1> QED BY <1>1, <1>2 DEF Core, CpuInv, Off

\* Sleepers may be woken up, running processes stay running.
Wakes ==
  /\ st' \in [Procs -> {"running", "runnable", "cons.r", "ticks", "uart_tx"}]
  /\ \A p \in Procs : st'[p] = st[p] \/ (st[p] # "running" /\ st'[p] = "runnable")

\* The locks that c holds become those of H, by steps on free locks and its own.
Locking(c, H) ==
  /\ owner' \in [Locks -> CPUs \cup {None}]
  /\ \A lk \in Locks : \/ owner'[lk] = owner[lk]
                       \/ owner[lk] \in {c, None} /\ owner'[lk] \in {c, None}
  /\ \A lk \in Locks : owner'[lk] = c <=> lk \in H

\* A step of the process on c, which stays there: its kernel side becomes j, the
\* state of the CPU x, and the locks it holds are those that j says.
ProcessStep(c, j, x) ==
  /\ k' = [k EXCEPT ![run[c]] = j] /\ cpu' = [cpu EXCEPT ![c] = x]
  /\ UNCHANGED <<run, h>> /\ Wakes
  /\ j.intena /\ ~j.trap
  /\ j.pc \in {"call", "enter"} => j.lock \in {"cons", "ticks"}
  /\ j.pc = "enter" => j.old
  /\ j.pc \in Inside => j.lock \in Locks
  /\ j.pc = "tx" => j.lock = "uart"
  /\ IF j.pc \in Inside
       THEN ~x.intr /\ x.intena /\ x.noff = IF j.lock = "uart" THEN 2 ELSE 1
       ELSE x.intr /\ ~x.intena /\ x.noff = 0
  /\ Locking(c, {lk \in Locks : \/ j.pc \in Under /\ j.lock = lk
                                \/ j.pc \in Inside /\ j.lock = "uart" /\ lk = "cons"})

\* Such a step keeps the core of the invariant.
LEMMA ProcessCore ==
  ASSUME Core, NEW c \in CPUs, ~InHandler(c), Pc(c) \in Outside \cup Inside,
         NEW j \in Kernels, NEW x \in CpuRec, ProcessStep(c, j, x)
  PROVE  Core'
  <1> USE DEF ProcessStep, Wakes, Locking
  <1>0. /\ run[c] \in Procs /\ run[c] # None /\ st[run[c]] = "running"
        /\ \A d \in CPUs : d # c => run[d] # run[c]
    BY OnCpu
  <1>1. TypeOK' BY <1>0 DEF Core, TypeOK
  <1>2. RunInv'
    <2>1. \A p \in Procs : p # run[c] => k'[p] = k[p]
      BY <1>0 DEF Core, TypeOK
    <2>2. k'[run[c]] = j /\ st'[run[c]] = "running"
      BY <1>0 DEF Core, TypeOK
    <2> QED BY <1>0, <2>1, <2>2, SMTT(60) DEF Core, TypeOK, RunInv
  <1>3. Alone(c) BY <1>0, SMTT(60) DEF Core, TypeOK, Alone
  <1>4. Off(c)' BY <1>0, SMTT(60) DEF Core, TypeOK, Off
  <1>5. Owns(c)' BY <1>0, SMTT(60) DEF Core, TypeOK, Owns, Held
  <1> QED BY <1>1, <1>2, <1>3, <1>4, <1>5, OthersKept DEF Core

\* A step of a handler on c, or the interrupt or return of one: the handler
\* becomes g, the state of the CPU x.
HandlerStep(c, g, x) ==
  /\ h' = [h EXCEPT ![c] = g] /\ cpu' = [cpu EXCEPT ![c] = x]
  /\ UNCHANGED <<run, k>> /\ Wakes
  /\ IF g.dev # "none"
       THEN /\ ~x.intr /\ ~x.intena /\ x.noff = IF g.pc \in {"spin", "in"} THEN 1 ELSE 0
            /\ g.pc # "none" /\ (g.pc # "ret" => g.lock \in Locks)
       ELSE x.intr /\ ~x.intena /\ x.noff = 0
  /\ Locking(c, {lk \in Locks : g.dev # "none" /\ g.pc = "in" /\ g.lock = lk})

\* Such a step keeps the core of the invariant.
LEMMA HandlerCore ==
  ASSUME Core, NEW c \in CPUs, InHandler(c) \/ cpu[c].intr,
         NEW g \in Handlers, NEW x \in CpuRec, HandlerStep(c, g, x)
  PROVE  Core'
  <1> USE DEF HandlerStep, Wakes, Locking
  <1>0. run[c] # None => k[run[c]].pc \in Outside
    <2>1. Off(c) /\ (run[c] # None => k[run[c]] \in Kernels) BY DEF Core, CpuInv, TypeOK
    <2> QED BY <2>1 DEF Off, Kernels
  <1>1. TypeOK' BY DEF Core, TypeOK
  <1>2. RunInv' BY SMTT(60) DEF Core, TypeOK, RunInv
  <1>3. Alone(c) BY DEF Core, TypeOK, Alone
  <1>4. Off(c)' BY <1>0, SMTT(60) DEF Core, TypeOK, Off
  <1>5. Owns(c)' BY <1>0 DEF Core, TypeOK, Owns, Held
  <1> QED BY <1>1, <1>2, <1>3, <1>4, <1>5, OthersKept DEF Core

\* The process on c, if there is one, leaves the CPU to the scheduler.  c holds
\* no lock then.
SwitchOff(c, x) ==
  /\ run' = [run EXCEPT ![c] = None] /\ cpu' = [cpu EXCEPT ![c] = x]
  /\ x.intr /\ ~x.intena /\ x.noff = 0
  /\ h' \in [CPUs -> Handlers] /\ h'[c].dev = "none" /\ \A d \in CPUs \ {c} : h'[d] = h[d]
  /\ k' \in [Procs -> Kernels] /\ \A q \in Procs \ {run[c]} : k'[q] = k[q]
  /\ run[c] # None =>
       /\ k'[run[c]].intena <=> ~k'[run[c]].trap
       /\ k'[run[c]].pc \in Outside
       /\ k'[run[c]].pc \in {"call", "enter"} => k'[run[c]].lock \in {"cons", "ticks"}
       /\ k'[run[c]].pc = "enter" => k'[run[c]].old
       /\ st'[run[c]] # "running"
  /\ Locking(c, {})
  /\ st' \in [Procs -> {"running", "runnable", "cons.r", "ticks", "uart_tx"}]
  /\ \A p \in Procs \ {run[c]} : st'[p] = st[p] \/ (st[p] # "running" /\ st'[p] # "running")

\* Such a step keeps the core of the invariant.
LEMMA SwitchCore ==
  ASSUME Core, NEW c \in CPUs, NEW x \in CpuRec, SwitchOff(c, x)
  PROVE  Core'
  <1> USE DEF SwitchOff, Locking
  <1>0. \A d \in CPUs \ {c} : run[d] # None => run[d] # run[c] /\ run[d] \in Procs
    BY SMTT(60) DEF Core, RunInv, TypeOK
  <1>1. TypeOK' BY DEF Core, TypeOK
  <1>2. RunInv'
    <2>1. \A d \in CPUs : d # c => run'[d] = run[d] BY DEF Core, TypeOK
    <2>2. run'[c] = None BY DEF Core, TypeOK
    <2>3. \A d \in CPUs : run'[d] # None =>
            st'[run'[d]] = "running" /\ ~k'[run'[d]].trap
      BY <1>0, <2>1, <2>2, SMTT(60) DEF Core, TypeOK, RunInv
    <2>4. ASSUME NEW p \in Procs
          PROVE  /\ k'[p].intena <=> ~k'[p].trap
                 /\ st'[p] # "running" => k'[p].pc \in Outside
                 /\ k'[p].pc \in {"call", "enter"} => k'[p].lock \in {"cons", "ticks"}
                 /\ k'[p].pc = "enter" => k'[p].old
                 /\ k'[p].pc \in Inside => k'[p].lock \in Locks
                 /\ k'[p].pc = "tx" => k'[p].lock = "uart"
      <3>1. CASE p = run[c] BY <3>1 DEF Core, TypeOK, RunInv
      <3>2. CASE p # run[c] BY <3>2, SMTT(60) DEF Core, TypeOK, RunInv
      <3> QED BY <3>1, <3>2
    <2> QED BY <2>1, <2>2, <2>3, <2>4, SMTT(60) DEF Core, RunInv
  <1>3. Alone(c) BY <1>0 DEF Core, TypeOK, Alone
  <1>4. Off(c)' BY DEF Core, TypeOK, Off
  <1>5. Owns(c)' BY DEF Core, TypeOK, Owns, Held
  <1> QED BY <1>1, <1>2, <1>3, <1>4, <1>5, OthersKept DEF Core

\* A step that at most wakes up sleepers keeps the core of the invariant.
LEMMA WakeCore ==
  ASSUME Core, UNCHANGED <<cpu, run, h, k, owner>>, Wakes
  PROVE  Core'
  <1>1. TypeOK' BY DEF Core, TypeOK, Wakes
  <1>2. RunInv' BY SMTT(60) DEF Core, TypeOK, RunInv, Wakes
  <1>3. CpuInv' BY SMTT(60) DEF Core, CpuInv, Off, Owns, Held
  <1> QED BY <1>1, <1>2, <1>3 DEF Core

\* A step that leaves the processes' states alone wakes no one.
LEMMA NoWakes ==
  ASSUME Core, UNCHANGED st
  PROVE  Wakes
  BY DEF Core, TypeOK, Wakes

\* Taking a lock, or finding it taken, in acquire().
LEMMA TryFacts ==
  ASSUME TypeOK, NEW c \in CPUs, NEW lk \in Locks, owner[lk] # c, Try(c, lk)
  PROVE  /\ Tried(lk) \in {"spin", "in"}
         /\ Locking(c, {l \in Locks : owner[l] = c \/ (l = lk /\ Tried(lk) = "in")})
  BY DEF TypeOK, Try, Tried, Locking

\* acquire() of a process or a handler does not panic.
LEMMA AcquireCore ==
  ASSUME Core, NEW c \in CPUs, acquire(c)
  PROVE  Core' /\ UNCHANGED panic
  <1> DEFINE lk == Lock(c)
             x == push_off(cpu[c], IF InHandler(c) THEN cpu[c].intr ELSE k[run[c]].old)
  <1>1. CASE InHandler(c)
    <2> DEFINE g == [h[c] EXCEPT !.pc = Tried(lk)]
    <2>1. h[c].pc = "enter" /\ lk = h[c].lock /\ h[c] \in Handlers /\ cpu[c] \in CpuRec
      BY <1>1 DEF acquire, At, Pc, Lock, Core, TypeOK
    <2>2. /\ lk \in Locks /\ ~cpu[c].intr /\ ~cpu[c].intena /\ cpu[c].noff = 0
          /\ \A l \in Locks : owner[l] # c
      BY <1>1, <2>1, SMTT(60) DEF Core, CpuInv, Off, Owns, Held
    <2>3. /\ cpu' = [cpu EXCEPT ![c] = x] /\ Try(c, lk) /\ UNCHANGED <<k, run, st, panic>>
          /\ h' = [h EXCEPT ![c] = g]
      BY <1>1, <2>2 DEF acquire, holding, Goto, sched
    <2>4. x \in CpuRec /\ ~x.intr /\ ~x.intena /\ x.noff = 1
      <3>1. x = push_off(cpu[c], cpu[c].intr) /\ cpu[c].intr \in BOOLEAN
        BY <1>1, <2>1 DEF CpuRec
      <3> HIDE DEF x
      <3> QED BY <2>1, <2>2, <3>1, FirstPush
    <2>5. Tried(lk) \in {"spin", "in"} /\ Locking(c, {l \in Locks : l = lk /\ Tried(lk) = "in"})
      BY <2>2, <2>3, TryFacts, SMTT(60) DEF Core, Locking
    <2>6. g \in Handlers /\ g.dev = h[c].dev /\ g.pc = Tried(lk) /\ g.lock = lk
      BY <2>1, <2>5 DEF Handlers
    <2> HIDE DEF g, x, lk
    <2>7. HandlerStep(c, g, x)
      BY <1>1, <2>2, <2>3, <2>4, <2>5, <2>6, NoWakes DEF HandlerStep, Locking
    <2> QED BY <1>1, <2>3, <2>4, <2>6, <2>7, HandlerCore
  <1>2. CASE ~InHandler(c)
    <2> DEFINE j == [k[run[c]] EXCEPT !.pc = Tried(lk)]
    <2>1. Pc(c) = "enter" BY DEF acquire, At
    <2>2. /\ run[c] \in Procs /\ k[run[c]].pc = "enter" /\ lk = k[run[c]].lock
          /\ k[run[c]] \in Kernels
          /\ cpu[c] \in CpuRec /\ cpu[c].intr /\ ~cpu[c].intena /\ cpu[c].noff = 0
          /\ k[run[c]].intena /\ ~k[run[c]].trap
      BY <1>2, <2>1, OnCpu DEF Lock
    <2>3. lk \in {"cons", "ticks"} /\ k[run[c]].old /\ \A l \in Locks : owner[l] # c
      BY <1>2, <2>2, SMTT(60) DEF Core, RunInv, CpuInv, Owns, Held
    <2>4. /\ cpu' = [cpu EXCEPT ![c] = x] /\ Try(c, lk) /\ UNCHANGED <<h, run, st, panic>>
          /\ k' = [k EXCEPT ![run[c]] = j]
      BY <1>2, <2>3 DEF acquire, holding, Goto, sched
    <2>5. x \in CpuRec /\ ~x.intr /\ x.intena /\ x.noff = 1
      <3>1. x = push_off(cpu[c], k[run[c]].old) /\ k[run[c]].old \in BOOLEAN
        BY <1>2, <2>2 DEF Kernels
      <3> HIDE DEF x
      <3> QED BY <2>2, <2>3, <3>1, FirstPush
    <2>6. Tried(lk) \in {"spin", "in"} /\ Locking(c, {l \in Locks : l = lk /\ Tried(lk) = "in"})
      BY <2>3, <2>4, TryFacts, SMTT(60) DEF Core, Locking
    <2>7. j \in Kernels /\ j.pc = Tried(lk) /\ j.lock = lk /\ j.intena /\ ~j.trap
      BY <2>2, <2>6 DEF Kernels
    <2> HIDE DEF j, x, lk
    <2>8. ProcessStep(c, j, x)
      BY <2>3, <2>4, <2>5, <2>6, <2>7, NoWakes DEF ProcessStep, Locking
    <2> QED BY <1>2, <2>1, <2>4, <2>5, <2>7, <2>8, ProcessCore
  <1> QED BY <1>1, <1>2

\* push_off() of a process finds interrupts enabled.
LEMMA IntrGetCore ==
  ASSUME Core, NEW c \in CPUs, intr_get(c)
  PROVE  Core'
  <1> DEFINE j == [k[run[c]] EXCEPT !.pc = "enter", !.old = cpu[c].intr]
  <1>1. Pc(c) = "call" /\ ~InHandler(c)
    <2>1. Pc(c) = "call" BY DEF intr_get, At
    <2> QED BY <2>1 DEF Pc, Core, TypeOK, Handlers
  <1>2. /\ run[c] \in Procs /\ k[run[c]].pc = "call" /\ k[run[c]] \in Kernels /\ run[c] # None
        /\ cpu[c] \in CpuRec /\ cpu[c].intr /\ ~cpu[c].intena /\ cpu[c].noff = 0
        /\ k[run[c]].intena /\ ~k[run[c]].trap
    BY <1>1, OnCpu
  <1>3. k[run[c]].lock \in {"cons", "ticks"} /\ \A l \in Locks : owner[l] # c
    BY <1>1, <1>2, SMTT(60) DEF Core, RunInv, CpuInv, Owns, Held
  <1>4. /\ k' = [k EXCEPT ![run[c]] = j] /\ cpu' = [cpu EXCEPT ![c] = cpu[c]]
        /\ UNCHANGED <<h, run, st, owner>>
    BY <1>2 DEF intr_get, sched, Core, TypeOK
  <1>5. j \in Kernels
    BY <1>2 DEF Kernels, CpuRec
  <1>6. j.pc = "enter" /\ j.lock = k[run[c]].lock /\ j.old /\ j.intena /\ ~j.trap
    BY <1>2 DEF Kernels
  <1>7. Locking(c, {})
    BY <1>3, <1>4 DEF Core, TypeOK, Locking
  <1> HIDE DEF j
  <1>8. ProcessStep(c, j, cpu[c])
    BY <1>2, <1>3, <1>4, <1>6, <1>7, NoWakes DEF ProcessStep, Locking
  <1> QED BY <1>1, <1>2, <1>5, <1>8, ProcessCore

\* Giving up the only lock that c holds.
LEMMA ReleaseFacts ==
  ASSUME TypeOK, NEW c \in CPUs, NEW lk \in Locks, \A l \in Locks : owner[l] = c <=> l = lk,
         owner' = [owner EXCEPT ![lk] = None]
  PROVE  Locking(c, {})
  BY DEF TypeOK, Locking

\* The end of the spinning in acquire().
LEMMA AcquiredCore ==
  ASSUME Core, NEW c \in CPUs, acquired(c)
  PROVE  Core'
  <1> DEFINE lk == Lock(c)
             x == cpu[c]
  <1>0. owner[lk] = None /\ owner' = [owner EXCEPT ![lk] = c] /\ Pc(c) = "spin"
        /\ cpu' = [cpu EXCEPT ![c] = x] /\ UNCHANGED <<run, st>> /\ Wakes /\ x \in CpuRec
    BY NoWakes DEF acquired, At, sched, Core, TypeOK
  <1>1. CASE InHandler(c)
    <2> DEFINE g == [h[c] EXCEPT !.pc = "in"]
    <2>1. h[c].pc = "spin" /\ lk = h[c].lock /\ h[c] \in Handlers
      BY <1>0, <1>1 DEF Pc, Lock, Core, TypeOK
    <2>2. /\ lk \in Locks /\ ~x.intr /\ ~x.intena /\ x.noff = 1
          /\ \A l \in Locks : owner[l] # c
      BY <1>1, <2>1, SMTT(60) DEF Core, CpuInv, Off, Owns, Held
    <2>3. h' = [h EXCEPT ![c] = g] /\ UNCHANGED k
      BY <1>1 DEF acquired, Goto
    <2>4. Locking(c, {l \in Locks : l = lk})
      BY <1>0, <2>2 DEF Core, TypeOK, Locking
    <2>5. g \in Handlers /\ g.dev = h[c].dev /\ g.pc = "in" /\ g.lock = lk
      BY <2>1 DEF Handlers
    <2> HIDE DEF g, x, lk
    <2>6. HandlerStep(c, g, x)
      BY <1>0, <1>1, <2>2, <2>3, <2>4, <2>5 DEF HandlerStep, Locking
    <2> QED BY <1>0, <1>1, <2>5, <2>6, HandlerCore
  <1>2. CASE ~InHandler(c)
    <2> DEFINE j == [k[run[c]] EXCEPT !.pc = "in"]
    <2>1. /\ run[c] \in Procs /\ k[run[c]].pc = "spin" /\ lk = k[run[c]].lock
          /\ k[run[c]] \in Kernels
          /\ ~x.intr /\ x.intena /\ x.noff = IF lk = "uart" THEN 2 ELSE 1
          /\ k[run[c]].intena /\ ~k[run[c]].trap /\ run[c] # None
      BY <1>0, <1>2, OnCpu DEF Lock
    <2>2. lk \in Locks /\ \A l \in Locks : owner[l] = c <=> (lk = "uart" /\ l = "cons")
      BY <1>2, <2>1, SMTT(60) DEF Core, RunInv, CpuInv, Owns, Held
    <2>3. k' = [k EXCEPT ![run[c]] = j] /\ UNCHANGED h
      BY <1>2 DEF acquired, Goto
    <2>4. Locking(c, {l \in Locks : l = lk \/ (lk = "uart" /\ l = "cons")})
      BY <1>0, <2>2 DEF Core, TypeOK, Locking
    <2>5. j \in Kernels /\ j.pc = "in" /\ j.lock = lk /\ j.intena /\ ~j.trap
      BY <2>1 DEF Kernels
    <2> HIDE DEF j, x, lk
    <2>6. ProcessStep(c, j, x)
      BY <1>0, <2>1, <2>2, <2>3, <2>4, <2>5 DEF ProcessStep, Locking
    <2> QED BY <1>0, <1>2, <2>5, <2>6, ProcessCore
  <1> QED BY <1>1, <1>2

\* A process that holds a lock in a system call, and its CPU.
Calling(c, lk) == ~InHandler(c) /\ Pc(c) \in Under /\ Lock(c) = lk

\* What Core says of such a process: no trap is pending, and it has no other lock.
LEMMA CallFacts ==
  ASSUME Core, NEW c \in CPUs, NEW lk \in Locks, Calling(c, lk)
  PROVE  /\ run[c] \in Procs /\ run[c] # None /\ k[run[c]].pc \in Under /\ k[run[c]].lock = lk
         /\ k[run[c]] \in Kernels /\ k[run[c]].intena /\ ~k[run[c]].trap /\ st[run[c]] = "running"
         /\ cpu[c] \in CpuRec /\ ~cpu[c].intr /\ cpu[c].intena
         /\ cpu[c].noff = IF lk = "uart" THEN 2 ELSE 1
         /\ \A l \in Locks : owner[l] = c <=> l = lk \/ (lk = "uart" /\ l = "cons")
  <1>1. /\ run[c] \in Procs /\ run[c] # None /\ k[run[c]].pc \in Under /\ k[run[c]].lock = lk
        /\ k[run[c]] \in Kernels /\ k[run[c]].intena /\ ~k[run[c]].trap /\ st[run[c]] = "running"
        /\ cpu[c] \in CpuRec /\ ~cpu[c].intr /\ cpu[c].intena
        /\ cpu[c].noff = IF lk = "uart" THEN 2 ELSE 1
    BY OnCpu DEF Calling, Lock
  <1>2. \A l \in Locks : owner[l] = c <=> l = lk \/ (lk = "uart" /\ l = "cons")
    BY <1>1, SMTT(60) DEF Calling, Core, CpuInv, Owns, Held
  <1> QED BY <1>1, <1>2

\* A call that returns after its last release() leaves interrupts on.
LEMMA ReturnCore ==
  ASSUME Core, NEW c \in CPUs, NEW lk \in {"cons", "ticks"}, Calling(c, lk),
         Return(c, lk), UNCHANGED <<run, st>>
  PROVE  Core' /\ panic' = "none"
  <1> DEFINE x == pop_off(cpu[c])
  <1>1. /\ run[c] \in Procs /\ cpu[c] \in CpuRec /\ cpu[c].intena /\ cpu[c].noff = 1
        /\ ~cpu[c].intr /\ \A l \in Locks : owner[l] = c <=> l = lk
    BY CallFacts, SMTT(60)
  <1>2. x \in CpuRec /\ x.intr /\ ~x.intena /\ x.noff = 0
    BY <1>1, PopOff, SMTT(60)
  <1>3. k' = [k EXCEPT ![run[c]] = InUser] /\ cpu' = [cpu EXCEPT ![c] = x] /\ UNCHANGED h
    BY DEF Return, release
  <1>4. Locking(c, {})
    BY <1>1, ReleaseFacts DEF Return, release, Core
  <1>5. InUser \in Kernels /\ InUser.pc = "user" /\ InUser.intena /\ ~InUser.trap
    BY DEF InUser, Kernels
  <1>7. panic' = "none"
    <2>1. cpu[c].noff > 0 /\ owner[lk] = c BY <1>1, SMTT(60)
    <2> QED BY <1>1, <2>1, ReleaseQuiet DEF Return, release
  <1> HIDE DEF x
  <1>6. ProcessStep(c, InUser, x)
    BY <1>2, <1>3, <1>4, <1>5, NoWakes DEF ProcessStep, Locking
  <1> QED BY <1>2, <1>5, <1>6, <1>7, ProcessCore DEF Calling

\* sleep() under one lock does not panic and gives that lock up; under two, which
\* is uartputc()'s, sched() panics.
LEMMA SleepCore ==
  ASSUME Core, NEW c \in CPUs, sleep(c)
  PROVE  /\ Core' /\ run[c] \in Procs /\ run[c] # None
         /\ k[run[c]].pc = "sleep" /\ k[run[c]] \in Kernels
         /\ IF k[run[c]].lock = "uart"
              THEN panic' = "sched locks" /\ UNCHANGED <<k, run, st, bufs, rx>>
              ELSE /\ st' = [st EXCEPT ![run[c]] = Chan(k[run[c]].lock)]
                   /\ k[run[c]].lock \in {"cons", "ticks"}
                   /\ run' = [run EXCEPT ![c] = None] /\ UNCHANGED <<bufs, rx, panic>>
                   /\ k' = [k EXCEPT ![run[c]].pc = "call", ![run[c]].intena = TRUE]
  <1> DEFINE x == [intr |-> TRUE, noff |-> 0, intena |-> FALSE]
             i == [k[run[c]] EXCEPT !.pc = "call", !.intena = TRUE]
             lk == Lock(c)
             y == push_off(cpu[c], cpu[c].intr)
             z == pop_off(y)
  <1>1. ~InHandler(c) /\ Pc(c) = "sleep"
    <2>1. Pc(c) = "sleep" BY DEF sleep, At
    <2> QED BY <2>1 DEF Pc, Core, TypeOK, Handlers
  <1>2. lk \in Locks /\ Calling(c, lk) /\ lk = k[run[c]].lock /\ k[run[c]].pc = "sleep"
    BY <1>1, OnCpu, SMTT(60) DEF Calling, Lock, Core, RunInv
  <1>3. /\ run[c] \in Procs /\ run[c] # None /\ cpu[c] \in CpuRec /\ ~cpu[c].intr
        /\ cpu[c].intena /\ cpu[c].noff = IF lk = "uart" THEN 2 ELSE 1
        /\ k[run[c]] \in Kernels /\ ~k[run[c]].trap
        /\ \A l \in Locks : owner[l] = c <=> l = lk \/ (lk = "uart" /\ l = "cons")
    <2> HIDE DEF lk
    <2> QED BY <1>2, CallFacts, SMTT(60)
  <1>4. y \in CpuRec /\ ~y.intr /\ y.intena /\ y.noff = cpu[c].noff + 1
    <2>1. cpu[c].intr \in BOOLEAN /\ cpu[c].noff # 0 BY <1>3, SMTT(60) DEF CpuRec
    <2> QED BY <1>3, <2>1, PushOff
  <1>5. y.noff > 1 /\ y.noff - 1 = cpu[c].noff
    <2> HIDE DEF y
    <2> QED BY <1>3, <1>4, SMTT(60) DEF CpuRec
  <1>6. ~z.intr /\ z.intena /\ z.noff = cpu[c].noff
    <2> HIDE DEF y
    <2>1. y.noff > 0 /\ y.noff # 1 BY <1>4, <1>5, SMTT(60) DEF CpuRec
    <2> QED BY <1>4, <1>5, <2>1, PopOff
  <1>7. holding(c, lk)
    BY <1>2, <1>3 DEF holding
  <1>8. CASE lk = "uart"
    <2>1. SchedPanic(z) = "sched locks"
      <3>1. z.noff # 1 BY <1>3, <1>6, <1>8, SMTT(60)
      <3> HIDE DEF z
      <3> QED BY <3>1 DEF SchedPanic
    <2>2. Stop("sched locks")
      BY <1>7, <2>1 DEF sleep
    <2>3. UNCHANGED <<cpu, h, k, owner, run, st, bufs, rx>> /\ panic' = "sched locks"
      BY <2>2 DEF Stop, sched, devs
    <2>4. Wakes BY <2>3, NoWakes
    <2> QED BY <1>2, <1>3, <1>8, <2>3, <2>4, WakeCore
  <1>9. CASE lk # "uart"
    <2>1. SchedPanic(z) = "none"
      <3>1. z.noff = 1 BY <1>3, <1>6, <1>9, SMTT(60)
      <3> HIDE DEF z
      <3> QED BY <1>6, <3>1 DEF SchedPanic
    <2>2. /\ owner' = [owner EXCEPT ![lk] = None] /\ st' = [st EXCEPT ![run[c]] = Chan(lk)]
          /\ k' = [k EXCEPT ![run[c]].pc = "call", ![run[c]].intena = z.intena]
          /\ UNCHANGED <<h, bufs, rx, panic>>
          /\ run' = [run EXCEPT ![c] = None] /\ cpu' = [cpu EXCEPT ![c] = x]
      BY <1>7, <2>1 DEF sleep, ToScheduler, devs
    <2>3. z.intena = TRUE
      <3>1. z.intena \in BOOLEAN
        <4> HIDE DEF y
        <4>1. y.noff > 0 BY <1>4, <1>5, SMTT(60) DEF CpuRec
        <4> QED BY <1>4, <4>1, PopOff DEF CpuRec
      <3> QED BY <1>6, <3>1
    <2> HIDE DEF z
    <2>4. k' = [k EXCEPT ![run[c]] = i]
      BY <1>3, <2>2, <2>3 DEF Core, TypeOK
    <2>5. x \in CpuRec /\ x.intr /\ ~x.intena /\ x.noff = 0
      BY DEF CpuRec
    <2>6. i \in Kernels
      BY <1>3 DEF Kernels
    <2>7. i.pc = "call" /\ i.lock = lk /\ i.intena /\ ~i.trap
      BY <1>2, <1>3 DEF Kernels
    <2>8. lk \in {"cons", "ticks"} /\ Chan(lk) \in {"cons.r", "ticks"}
      BY <1>2, <1>9 DEF Chan
    <2>9. Locking(c, {})
      BY <1>2, <1>3, <1>9, <2>2, ReleaseFacts DEF Core
    <2> HIDE DEF x, i, lk
    <2>10. k' \in [Procs -> Kernels] /\ (\A q \in Procs \ {run[c]} : k'[q] = k[q]) /\ k'[run[c]] = i
      BY <1>3, <2>4, <2>6 DEF Core, TypeOK
    <2>11. h[c].dev = "none"
      BY <1>1
    <2>12. /\ st' \in [Procs -> {"running", "runnable", "cons.r", "ticks", "uart_tx"}]
           /\ st'[run[c]] # "running" /\ \A p \in Procs \ {run[c]} : st'[p] = st[p]
      BY <1>3, <2>2, <2>8 DEF Core, TypeOK
    <2>13. SwitchOff(c, x)
      BY <1>3, <2>2, <2>5, <2>7, <2>8, <2>9, <2>10, <2>11, <2>12 DEF SwitchOff, Core, TypeOK
    <2>14. Core'
      BY <2>5, <2>13, SwitchCore
    <2> QED BY <1>2, <1>3, <1>9, <2>2, <2>3, <2>8, <2>14
  <1> QED BY <1>8, <1>9

\* An interrupt finds no lock of its CPU taken, so that its handler's acquire()
\* does not panic.
LEMMA TrapCore ==
  ASSUME Core, NEW c \in CPUs, NEW g0 \in Handlers, g0.dev # "none", g0.lock \in Locks,
         Trap(c, g0)
  PROVE  Core' /\ UNCHANGED panic /\ UNCHANGED k /\ UNCHANGED st /\ UNCHANGED bufs
  <1> DEFINE lk == g0.lock
             y == [cpu[c] EXCEPT !.intr = FALSE]
             x == push_off(y, FALSE)
             g == [g0 EXCEPT !.pc = Tried(lk)]
  <1>1. cpu[c].intr /\ cpu[c] \in CpuRec
    BY DEF Trap, Core, TypeOK
  <1>2. ~InHandler(c) /\ ~cpu[c].intena /\ cpu[c].noff = 0 /\ \A l \in Locks : owner[l] # c
    <2>1. Off(c) /\ Owns(c) BY DEF Core, CpuInv
    <2>2. ~InHandler(c) BY <1>1, <2>1 DEF Off
    <2>3. /\ ~cpu[c].intena /\ cpu[c].noff = 0
          /\ run[c] # None => k[run[c]].pc \notin Inside
      BY <1>1, <2>1, <2>2 DEF Off
    <2> QED BY <2>1, <2>2, <2>3 DEF Owns, Held
  <1>3. /\ h' = [h EXCEPT ![c] = g] /\ cpu' = [cpu EXCEPT ![c] = x]
        /\ Try(c, lk) /\ UNCHANGED <<panic, k, st, run, bufs>>
    <2>1. ~holding(c, lk) BY <1>2 DEF holding
    <2> QED BY <2>1 DEF Trap, sched
  <1>4. y \in CpuRec /\ ~y.intr /\ ~y.intena /\ y.noff = 0
    BY <1>1, <1>2, CpuFields
  <1>5. x \in CpuRec /\ ~x.intr /\ ~x.intena /\ x.noff = 1
    <2> HIDE DEF y
    <2> QED BY <1>4, FirstPush
  <1>6. Tried(lk) \in {"spin", "in"} /\ Locking(c, {l \in Locks : l = lk /\ Tried(lk) = "in"})
    BY <1>2, <1>3, TryFacts, SMTT(60) DEF Core, Locking
  <1>7. g \in Handlers /\ g.dev = g0.dev /\ g.pc = Tried(lk) /\ g.lock = lk
    BY <1>6 DEF Handlers
  <1> HIDE DEF x, g, lk
  <1>8. lk \in Locks BY DEF lk
  <1>9. HandlerStep(c, g, x)
    BY <1>3, <1>5, <1>6, <1>7, <1>8, NoWakes DEF HandlerStep, Locking
  <1> QED BY <1>1, <1>3, <1>5, <1>7, <1>9, HandlerCore

\* yield() of the process on c, if there is one, at the end of a clock interrupt
\* with x the state of the CPU and w the processes' states without it.
LEMMA YieldCore ==
  ASSUME Core, NEW c \in CPUs, InHandler(c) \/ cpu[c].intr,
         NEW x \in CpuRec, ~x.intena, x.noff = 0, yield(c, x),
         NEW w \in [Procs -> {"running", "runnable", "cons.r", "ticks", "uart_tx"}],
         \A p \in Procs : w[p] = st[p] \/ (st[p] # "running" /\ w[p] # "running"),
         st' = Yielded(c, w), Locking(c, {})
  PROVE  Core'
  <1> DEFINE y == [x EXCEPT !.intr = TRUE]
             j == [k[run[c]] EXCEPT !.trap = TRUE, !.intena = FALSE]
  <1>1. /\ run' = [run EXCEPT ![c] = None] /\ cpu' = [cpu EXCEPT ![c] = y]
        /\ h' = [h EXCEPT ![c] = Idle]
    BY DEF yield
  <1>2. y \in CpuRec /\ y.intr /\ ~y.intena /\ y.noff = 0
    BY CpuFields
  <1>3. Idle \in Handlers /\ Idle.dev = "none"
    BY DEF Idle, Handlers
  <1>4. run[c] # None => run[c] \in Procs /\ k[run[c]].pc \in Outside
          /\ k[run[c]] \in Kernels
    <2>1. Off(c) /\ (run[c] # None => k[run[c]] \in Kernels /\ run[c] \in Procs)
      BY DEF Core, CpuInv, TypeOK
    <2> QED BY <2>1 DEF Off, Kernels
  <1>5. /\ k' \in [Procs -> Kernels] /\ (\A q \in Procs \ {run[c]} : k'[q] = k[q])
        /\ run[c] # None => /\ k'[run[c]].trap /\ ~k'[run[c]].intena
                            /\ k'[run[c]].pc = k[run[c]].pc /\ k'[run[c]].lock = k[run[c]].lock
                            /\ k'[run[c]].old = k[run[c]].old
    <2>1. CASE run[c] = None
      BY <2>1 DEF yield, Core, TypeOK
    <2>2. CASE run[c] # None
      <3>1. k' = [k EXCEPT ![run[c]] = j]
        BY <2>2, <1>4 DEF yield, Core, TypeOK
      <3>2. j \in Kernels
        BY <2>2, <1>4 DEF Kernels
      <3>3. j.trap /\ ~j.intena /\ j.pc = k[run[c]].pc /\ j.lock = k[run[c]].lock
              /\ j.old = k[run[c]].old
        BY <2>2, <1>4 DEF Kernels
      <3> HIDE DEF j
      <3> QED BY <1>4, <2>2, <3>1, <3>2, <3>3 DEF Core, TypeOK
    <2> QED BY <2>1, <2>2
  <1>6. /\ st' \in [Procs -> {"running", "runnable", "cons.r", "ticks", "uart_tx"}]
        /\ \A p \in Procs \ {run[c]} : st'[p] = st[p] \/ (st[p] # "running" /\ st'[p] # "running")
        /\ run[c] # None => st'[run[c]] = "runnable"
    BY <1>4 DEF Yielded
  <1>7. /\ run[c] # None /\ k'[run[c]].pc \in {"call", "enter"} =>
             k'[run[c]].lock \in {"cons", "ticks"}
        /\ run[c] # None /\ k'[run[c]].pc = "enter" => k'[run[c]].old
    BY <1>4, <1>5 DEF Core, RunInv
  <1> HIDE DEF y
  <1>8. SwitchOff(c, y)
    BY <1>1, <1>2, <1>3, <1>4, <1>5, <1>6, <1>7 DEF SwitchOff, Core, TypeOK
  <1> QED BY <1>2, <1>8, SwitchCore

\* A system call of a process comes to its first acquire().
LEMMA SyscallCore ==
  ASSUME Core, NEW c \in CPUs, NEW y \in Calls, syscall(c, y[1], y[2])
  PROVE  Core' /\ UNCHANGED panic
  <1> DEFINE op == y[1]
             n == y[2]
             lk == IF op \in {"sleep", "uptime"} THEN "ticks" ELSE "cons"
             j == [k[run[c]] EXCEPT !.op = op, !.pc = "enter", !.n = n, !.lock = lk,
                                    !.old = cpu[c].intr]
  <1>0. op \in {"read", "write", "sleep", "uptime"} /\ n \in Nat
    OBVIOUS
  <1>1. Pc(c) = "user" /\ ~InHandler(c) /\ lk \in {"cons", "ticks"}
    <2>1. Pc(c) = "user" BY DEF syscall, At
    <2> QED BY <2>1 DEF Pc, Core, TypeOK, Handlers
  <1>2. /\ run[c] \in Procs /\ k[run[c]].pc = "user" /\ k[run[c]] \in Kernels /\ run[c] # None
        /\ cpu[c] \in CpuRec /\ cpu[c].intr /\ ~cpu[c].intena /\ cpu[c].noff = 0
        /\ k[run[c]].intena /\ ~k[run[c]].trap
    BY <1>1, OnCpu
  <1>3. \A l \in Locks : owner[l] # c
    BY <1>1, <1>2, SMTT(60) DEF Core, CpuInv, Owns, Held
  <1>4. /\ cpu' = [cpu EXCEPT ![c] = cpu[c]] /\ UNCHANGED <<h, run, st, owner, panic>>
        /\ k' = [k EXCEPT ![run[c]] = j]
    BY DEF syscall, Core, TypeOK
  <1>5. Locking(c, {})
    BY <1>3, <1>4 DEF Core, TypeOK, Locking
  <1> HIDE DEF op, n, lk
  <1>6. j \in Kernels
    BY <1>0, <1>1, <1>2 DEF Kernels, CpuRec
  <1>7. j.pc = "enter" /\ j.lock = lk /\ j.old /\ j.intena /\ ~j.trap
    BY <1>2 DEF Kernels
  <1> HIDE DEF j
  <1>8. ProcessStep(c, j, cpu[c])
    BY <1>1, <1>2, <1>4, <1>5, <1>7, NoWakes DEF ProcessStep, Locking
  <1> QED BY <1>1, <1>2, <1>4, <1>6, <1>8, ProcessCore

\* consolewrite() returns, or goes on to uart_tx_lock with cons.lock held.
LEMMA ConsolewriteCore ==
  ASSUME Core, NEW c \in CPUs, NEW fault \in BOOLEAN, consolewrite(c, fault)
  PROVE  Core' /\ UNCHANGED panic
  <1> DEFINE x == push_off(cpu[c], cpu[c].intr)
             j == [k[run[c]] EXCEPT !.pc = Tried("uart"), !.lock = "uart"]
  <1>1. Calling(c, "cons") /\ panic = "none" /\ UNCHANGED <<run, st>>
    BY DEF consolewrite, Running, Holds, At, Calling, sched
  <1>2. CASE Return(c, "cons")
    BY <1>1, <1>2, ReturnCore
  <1>3. CASE ~Return(c, "cons")
    <2>1. /\ k' = [k EXCEPT ![run[c]].pc = Tried("uart"), ![run[c]].lock = "uart"]
          /\ cpu' = [cpu EXCEPT ![c] = x] /\ Try(c, "uart") /\ UNCHANGED <<h, panic>>
      BY <1>3 DEF consolewrite
    <2>2. /\ run[c] \in Procs /\ k[run[c]] \in Kernels
          /\ cpu[c] \in CpuRec /\ ~cpu[c].intr /\ cpu[c].intena /\ cpu[c].noff = 1
          /\ k[run[c]].intena /\ ~k[run[c]].trap /\ \A l \in Locks : owner[l] = c <=> l = "cons"
      BY <1>1, CallFacts, SMTT(60)
    <2>3. x \in CpuRec /\ ~x.intr /\ x.intena /\ x.noff = 2
      <3>1. cpu[c].intr \in BOOLEAN BY <2>2 DEF CpuRec
      <3> QED BY <2>2, <3>1, PushOff, SMTT(60)
    <2>4. /\ Tried("uart") \in {"spin", "in"}
          /\ Locking(c, {l \in Locks : l = "cons" \/ (l = "uart" /\ Tried("uart") = "in")})
      BY <2>1, <2>2, TryFacts, SMTT(60) DEF Core, Locking
    <2>5. j \in Kernels
      BY <2>2, <2>4 DEF Kernels
    <2>6. j.pc = Tried("uart") /\ j.lock = "uart" /\ j.intena /\ ~j.trap
      BY <2>2 DEF Kernels
    <2>7. k' = [k EXCEPT ![run[c]] = j]
      BY <2>1, <2>2 DEF Core, TypeOK
    <2> HIDE DEF j, x
    <2>8. ProcessStep(c, j, x)
      BY <1>1, <2>1, <2>3, <2>4, <2>6, <2>7, NoWakes DEF ProcessStep, Locking
    <2> QED BY <1>1, <2>1, <2>3, <2>5, <2>8, ProcessCore DEF Calling
  <1> QED BY <1>2, <1>3

\* A step of a process in a call that keeps its locks.
LEMMA StepCore ==
  ASSUME Core, NEW c \in CPUs, NEW lk \in Locks, Calling(c, lk),
         NEW j \in Kernels, j.pc \in Under, j.lock = lk, j.intena, ~j.trap, j.pc = "tx" => lk = "uart",
         k' = [k EXCEPT ![run[c]] = j], UNCHANGED <<cpu, h, owner, run, st>>
  PROVE  Core'
  <1>1. /\ run[c] \in Procs /\ cpu[c] \in CpuRec /\ ~cpu[c].intr /\ cpu[c].intena
        /\ cpu[c].noff = IF lk = "uart" THEN 2 ELSE 1
        /\ \A l \in Locks : owner[l] = c <=> l = lk \/ (lk = "uart" /\ l = "cons")
    BY CallFacts, SMTT(60)
  <1>2. cpu' = [cpu EXCEPT ![c] = cpu[c]]
    BY DEF Core, TypeOK
  <1>3. Locking(c, {l \in Locks : l = lk \/ (lk = "uart" /\ l = "cons")})
    BY <1>1 DEF Core, TypeOK, Locking
  <1>4. ProcessStep(c, j, cpu[c])
    BY <1>1, <1>2, <1>3, NoWakes DEF ProcessStep, Locking
  <1> QED BY <1>1, <1>4, ProcessCore DEF Calling

\* uartputc() puts its byte, or comes to sleep() because the buffer is full.
LEMMA UartputcCore ==
  ASSUME Core, NEW c \in CPUs, uartputc(c)
  PROVE  /\ Core' /\ run[c] \in Procs /\ owner["uart"] = c
         /\ k' = [k EXCEPT ![run[c]].pc = IF Full THEN "sleep" ELSE "tx"]
         /\ k'[run[c]].lock = "uart" /\ (~Full => k'[run[c]].pc = "tx")
  <1> DEFINE pc == IF Full THEN "sleep" ELSE "tx"
             j == [k[run[c]] EXCEPT !.pc = pc]
  <1>1. Calling(c, "uart") /\ ~InHandler(c)
    BY DEF uartputc, Running, Holds, At, Calling
  <1>2. /\ run[c] \in Procs /\ k[run[c]] \in Kernels /\ k[run[c]].lock = "uart"
        /\ k[run[c]].intena /\ ~k[run[c]].trap /\ owner["uart"] = c
    BY <1>1, CallFacts
  <1>3. k' = [k EXCEPT ![run[c]].pc = pc] /\ UNCHANGED <<cpu, h, owner, run, st>>
    BY <1>1 DEF uartputc, Goto, sched
  <1>4. pc \in {"sleep", "tx"}
    OBVIOUS
  <1> HIDE DEF pc
  <1>5. j \in Kernels
    BY <1>2, <1>4 DEF Kernels
  <1>6. j.pc = pc /\ j.lock = "uart" /\ j.intena /\ ~j.trap
    BY <1>2 DEF Kernels
  <1>7. k' = [k EXCEPT ![run[c]] = j]
    BY <1>2, <1>3 DEF Core, TypeOK
  <1> HIDE DEF j
  <1>8. Core'
    BY <1>1, <1>3, <1>4, <1>5, <1>6, <1>7, StepCore
  <1>9. k'[run[c]] = j
    BY <1>2, <1>7 DEF Core, TypeOK
  <1> QED BY <1>2, <1>3, <1>6, <1>8, <1>9 DEF pc

\* A turn of uartstart()'s loop, in a call or in a handler, holds uart_tx_lock.
LEMMA UartstartCore ==
  ASSUME Core, NEW c \in CPUs, uartstart(c)
  PROVE  Core' /\ Wakes /\ owner["uart"] = c
  <1>1. Wakes
    BY DEF uartstart, Wakes, Woken, Core, TypeOK
  <1>2. Core'
    BY <1>1, WakeCore DEF uartstart
  <1>3. CASE InHandler(c)
    <2>1. h[c].pc # "tx" BY DEF Core, TypeOK, Handlers
    <2>2. h[c].pc = "in" /\ h[c].lock = "uart"
      BY <1>3, <2>1 DEF uartstart, Starting, Holds, At, Pc, Lock
    <2> QED BY <1>1, <1>2, <1>3, <2>2 DEF Core, CpuInv, Owns, Held
  <1>4. CASE ~InHandler(c)
    <2>1. Pc(c) = "tx"
      BY <1>4 DEF uartstart, Starting, At
    <2>2. run[c] \in Procs /\ run[c] # None /\ k[run[c]].pc = "tx"
      BY <1>4, <2>1, OnCpu
    <2>3. k[run[c]].lock = "uart"
      BY <2>2 DEF Core, RunInv
    <2> QED BY <1>1, <1>2, <1>4, <2>2, <2>3 DEF Core, CpuInv, Owns, Held
  <1> QED BY <1>3, <1>4

\* uartputc() ends by giving up uart_tx_lock, with cons.lock still held.
LEMMA UartputcDoneCore ==
  ASSUME Core, NEW c \in CPUs, uartputc_done(c)
  PROVE  Core' /\ panic' = "none" /\ run[c] \in Procs /\ k'[run[c]].pc = "in"
         /\ \A p \in Procs : p # run[c] => k'[p] = k[p]
  <1> DEFINE x == pop_off(cpu[c])
             j == [k[run[c]] EXCEPT !.pc = "in", !.lock = "cons", !.i = k[run[c]].i + 1]
  <1>1. Calling(c, "uart")
    <2>1. Pc(c) = "tx" BY DEF uartputc_done, At
    <2>2. ~InHandler(c) BY <2>1 DEF Pc, Core, TypeOK, Handlers
    <2>3. k[run[c]].pc = "tx" /\ run[c] \in Procs BY <2>1, <2>2, OnCpu
    <2> QED BY <2>1, <2>2, <2>3 DEF Calling, Lock, Core, RunInv
  <1>2. /\ run[c] \in Procs /\ k[run[c]] \in Kernels /\ k[run[c]].i + 1 \in Nat
        /\ cpu[c] \in CpuRec /\ ~cpu[c].intr /\ cpu[c].intena /\ cpu[c].noff = 2
        /\ k[run[c]].intena /\ ~k[run[c]].trap
        /\ \A l \in Locks : owner[l] = c <=> l \in {"uart", "cons"}
    BY <1>1, CallFacts, SMTT(60) DEF Kernels
  <1>3. /\ k' = [k EXCEPT ![run[c]].pc = "in", ![run[c]].lock = "cons", ![run[c]].i = @ + 1]
        /\ cpu' = [cpu EXCEPT ![c] = x] /\ owner' = [owner EXCEPT !["uart"] = None]
        /\ UNCHANGED <<h, run, st>> /\ panic' = ReleasePanic(c, "uart")
    BY DEF uartputc_done, release, sched
  <1>4. panic' = "none"
    <2>1. cpu[c].noff > 0 BY <1>2, SMTT(60)
    <2> QED BY <1>2, <1>3, <2>1, ReleaseQuiet
  <1>5. x \in CpuRec /\ ~x.intr /\ x.intena /\ x.noff = 1
    BY <1>2, PopOff, SMTT(60)
  <1>6. Locking(c, {"cons"})
    BY <1>2, <1>3 DEF Core, TypeOK, Locking
  <1>7. j \in Kernels
    BY <1>2 DEF Kernels
  <1>8. j.pc = "in" /\ j.lock = "cons" /\ j.intena /\ ~j.trap
    BY <1>2 DEF Kernels
  <1>9. k' = [k EXCEPT ![run[c]] = j]
    BY <1>2, <1>3 DEF Core, TypeOK
  <1> HIDE DEF j, x
  <1>10. ProcessStep(c, j, x)
    BY <1>3, <1>5, <1>6, <1>8, <1>9, NoWakes DEF ProcessStep, Locking
  <1>11. k'[run[c]] = j /\ \A p \in Procs : p # run[c] => k'[p] = k[p]
    BY <1>2, <1>9 DEF Core, TypeOK
  <1>12. Core'
    BY <1>1, <1>5, <1>7, <1>10, ProcessCore DEF Calling
  <1> QED BY <1>2, <1>4, <1>8, <1>11, <1>12

\* consoleread() returns, comes to sleep(), or takes a character.
LEMMA ConsolereadCore ==
  ASSUME Core, NEW c \in CPUs, NEW fault \in BOOLEAN, consoleread(c, fault)
  PROVE  Core' /\ UNCHANGED panic
  <1> DEFINE i == k[run[c]].i + 1
             j == [k[run[c]] EXCEPT !.i = i]
             z == [k[run[c]] EXCEPT !.pc = "sleep"]
  <1>1. Calling(c, "cons") /\ panic = "none" /\ Pc(c) = "in" /\ UNCHANGED <<run, st>>
    BY DEF consoleread, Running, Holds, At, Calling, sched
  <1>2. /\ run[c] \in Procs /\ k[run[c]] \in Kernels /\ i \in Nat
        /\ k[run[c]].intena /\ ~k[run[c]].trap /\ k[run[c]].lock = "cons"
    BY <1>1, CallFacts, SMTT(60) DEF Kernels
  <1>3. k[run[c]].pc = "in"
    BY <1>1, OnCpu DEF Calling
  <1>4. \/ Return(c, "cons")
        \/ Goto(c, "sleep") /\ UNCHANGED <<cpu, owner, panic>>
        \/ k' = [k EXCEPT ![run[c]].i = @ + 1] /\ UNCHANGED <<cpu, h, owner, panic>>
    BY DEF consoleread
  <1>5. CASE Return(c, "cons")
    BY <1>1, <1>5, ReturnCore
  <1>6. CASE Goto(c, "sleep") /\ UNCHANGED <<cpu, owner, panic>>
    <2>1. z \in Kernels
      BY <1>2 DEF Kernels
    <2>2. z.pc = "sleep" /\ z.lock = "cons" /\ z.intena /\ ~z.trap
      BY <1>2 DEF Kernels
    <2>3. k' = [k EXCEPT ![run[c]] = z] /\ UNCHANGED h
      BY <1>1, <1>2, <1>6 DEF Goto, Calling, Core, TypeOK
    <2> HIDE DEF z
    <2> QED BY <1>1, <1>6, <2>1, <2>2, <2>3, StepCore
  <1>7. CASE k' = [k EXCEPT ![run[c]].i = @ + 1] /\ UNCHANGED <<cpu, h, owner, panic>>
    <2>1. j \in Kernels
      BY <1>2 DEF Kernels
    <2>2. j.pc = "in" /\ j.lock = "cons" /\ j.intena /\ ~j.trap
      BY <1>2, <1>3 DEF Kernels
    <2>3. k' = [k EXCEPT ![run[c]] = j]
      BY <1>2, <1>7 DEF Core, TypeOK
    <2> HIDE DEF j, i
    <2> QED BY <1>1, <1>7, <2>1, <2>2, <2>3, StepCore
  <1> QED BY <1>4, <1>5, <1>6, <1>7

\* The tick count, and a difference of tick counts, are natural numbers.
LEMMA Wrapped ==
  ASSUME NEW a \in Nat, NEW b \in Nat
  PROVE  Plus(a, b) \in Nat /\ Minus(a, b) \in Nat
  BY SMTT(60) DEF Plus, Minus

\* sys_sleep() returns, or comes to sleep() having noted the first tick.
LEMMA SysSleepCore ==
  ASSUME Core, ticks \in Nat, NEW c \in CPUs, sys_sleep(c)
  PROVE  Core' /\ UNCHANGED panic
  <1> DEFINE t0 == IF k[run[c]].t0 = None THEN ticks ELSE k[run[c]].t0
             j == [k[run[c]] EXCEPT !.t0 = t0, !.pc = "sleep"]
  <1>1. Calling(c, "ticks") /\ panic = "none" /\ UNCHANGED <<run, st>>
    BY DEF sys_sleep, Running, Holds, At, Calling, sched
  <1>2. /\ run[c] \in Procs /\ k[run[c]] \in Kernels /\ ~k[run[c]].trap /\ k[run[c]].intena
        /\ k[run[c]].lock = "ticks"
    BY <1>1, CallFacts
  <1>3. t0 \in Nat
    BY <1>2 DEF Kernels
  <1>4. \/ Return(c, "ticks")
        \/ /\ k' = [k EXCEPT ![run[c]].t0 = t0, ![run[c]].pc = "sleep"]
           /\ UNCHANGED <<cpu, h, owner, panic>>
    BY DEF sys_sleep
  <1>5. CASE Return(c, "ticks")
    BY <1>1, <1>5, ReturnCore
  <1>6. CASE /\ k' = [k EXCEPT ![run[c]].t0 = t0, ![run[c]].pc = "sleep"]
             /\ UNCHANGED <<cpu, h, owner, panic>>
    <2> HIDE DEF t0
    <2>1. j \in Kernels
      BY <1>2, <1>3 DEF Kernels
    <2>2. j.pc = "sleep" /\ j.lock = "ticks" /\ j.intena /\ ~j.trap
      BY <1>2 DEF Kernels
    <2>3. k' = [k EXCEPT ![run[c]] = j]
      BY <1>2, <1>6 DEF Core, TypeOK
    <2> HIDE DEF j
    <2> QED BY <1>1, <1>6, <2>1, <2>2, <2>3, StepCore
  <1> QED BY <1>4, <1>5, <1>6

\* sys_uptime() reads ticks and releases tickslock.
LEMMA SysUptimeCore ==
  ASSUME Core, NEW c \in CPUs, sys_uptime(c)
  PROVE  Core' /\ UNCHANGED panic
  <1>1. Calling(c, "ticks") /\ Return(c, "ticks") /\ panic = "none" /\ UNCHANGED <<run, st>>
    BY DEF sys_uptime, Running, Holds, At, Calling, sched
  <1> QED BY <1>1, ReturnCore

\* A handler that holds a lock, and its CPU.
LEMMA ServeFacts ==
  ASSUME Core, NEW c \in CPUs, NEW lk \in Locks, Holds(c, lk), InHandler(c)
  PROVE  /\ h[c] \in Handlers /\ cpu[c] \in CpuRec
         /\ ~cpu[c].intr /\ ~cpu[c].intena /\ cpu[c].noff = 1
         /\ \A l \in Locks : owner[l] = c <=> l = lk
  <1>1. h[c].pc = "in" /\ h[c].lock = lk
    BY DEF Holds, At, Pc, Lock
  <1> QED BY <1>1, SMTT(60) DEF Core, TypeOK, CpuInv, Off, Owns, Held

\* The handler that a CPU is in after a character.
LEMMA RoundFacts ==
  ASSUME DataTypeOK
  PROVE  /\ UartRound \in Handlers /\ UartRound.dev = "uart" /\ UartRound.pc = "enter"
         /\ UartRound.lock \in Locks /\ Idle \in Handlers /\ Idle.dev = "none"
  BY DEF UartRound, Handlers, Idle, DataTypeOK

\* The end of uartintr() turns interrupts on again.
LEMMA UartintrCore ==
  ASSUME Core, DataTypeOK, NEW c \in CPUs, uartintr(c)
  PROVE  Core' /\ UNCHANGED st /\ UNCHANGED panic
  <1> DEFINE y == pop_off(cpu[c])
             x == [y EXCEPT !.intr = TRUE]
  <1>1. /\ cpu[c] \in CpuRec /\ ~cpu[c].intr /\ ~cpu[c].intena /\ cpu[c].noff = 1
        /\ \A l \in Locks : owner[l] = c <=> l = "uart"
    BY ServeFacts DEF uartintr
  <1>2. /\ h' = [h EXCEPT ![c] = Idle] /\ cpu' = [cpu EXCEPT ![c] = x]
        /\ owner' = [owner EXCEPT !["uart"] = None]
        /\ UNCHANGED <<k, run, st>> /\ panic = "none" /\ panic' = ReleasePanic(c, "uart")
    BY DEF uartintr, sched, Holds, At
  <1>3. Wakes /\ UNCHANGED panic
    <2>1. cpu[c].noff > 0 BY <1>1, SMTT(60)
    <2> QED BY <1>1, <1>2, <2>1, NoWakes, ReleaseQuiet
  <1>4. y \in CpuRec /\ ~y.intena /\ y.noff = 0
    BY <1>1, PopOff, SMTT(60)
  <1>5. x \in CpuRec /\ x.intr /\ ~x.intena /\ x.noff = 0
    <2> HIDE DEF y
    <2> QED BY <1>4, CpuFields
  <1>6. Locking(c, {})
    BY <1>1, <1>2, ReleaseFacts DEF Core
  <1> HIDE DEF x
  <1>7. HandlerStep(c, Idle, x)
    BY <1>2, <1>3, <1>5, <1>6, RoundFacts DEF HandlerStep, Locking
  <1> QED BY <1>2, <1>3, <1>5, <1>7, RoundFacts, HandlerCore DEF uartintr

\* consoleintr() leads to the next round of uartintr().
LEMMA ConsoleintrCore ==
  ASSUME Core, DataTypeOK, NEW c \in CPUs, consoleintr(c)
  PROVE  Core' /\ Wakes /\ UNCHANGED panic /\ owner["cons"] = c
  <1> DEFINE x == pop_off(cpu[c])
  <1>1. /\ cpu[c] \in CpuRec /\ ~cpu[c].intr /\ ~cpu[c].intena /\ cpu[c].noff = 1
        /\ \A l \in Locks : owner[l] = c <=> l = "cons"
    BY ServeFacts DEF consoleintr
  <1>2. /\ h' = [h EXCEPT ![c] = UartRound] /\ cpu' = [cpu EXCEPT ![c] = x]
        /\ owner' = [owner EXCEPT !["cons"] = None]
        /\ UNCHANGED <<k, run>> /\ st' \in {st, Woken("cons.r")}
        /\ panic = "none" /\ panic' = ReleasePanic(c, "cons")
    BY DEF consoleintr, release, Holds, At
  <1>3. Wakes
    BY <1>2 DEF Wakes, Woken, Core, TypeOK
  <1>7. UNCHANGED panic
    <2>1. cpu[c].noff > 0 BY <1>1, SMTT(60)
    <2> QED BY <1>1, <1>2, <2>1, ReleaseQuiet
  <1>4. x \in CpuRec /\ ~x.intr /\ ~x.intena /\ x.noff = 0
    BY <1>1, PopOff, SMTT(60)
  <1>5. Locking(c, {})
    BY <1>1, <1>2, ReleaseFacts DEF Core
  <1> HIDE DEF x
  <1>6. HandlerStep(c, UartRound, x)
    BY <1>2, <1>3, <1>4, <1>5, RoundFacts DEF HandlerStep, Locking
  <1> QED BY <1>1, <1>3, <1>4, <1>6, <1>7, RoundFacts, HandlerCore DEF consoleintr

\* clockintr() wakes up sleepers and the process on the CPU yields.
LEMMA ClockintrCore ==
  ASSUME Core, NEW c \in CPUs, clockintr(c)
  PROVE  Core' /\ UNCHANGED panic /\ owner["ticks"] = c
  <1> DEFINE x == pop_off(cpu[c])
             w == Woken("ticks")
  <1>1. /\ cpu[c] \in CpuRec /\ ~cpu[c].intr /\ ~cpu[c].intena /\ cpu[c].noff = 1
        /\ \A l \in Locks : owner[l] = c <=> l = "ticks"
    BY ServeFacts DEF clockintr
  <1>2. /\ yield(c, x) /\ st' = Yielded(c, w) /\ InHandler(c)
        /\ owner' = [owner EXCEPT !["ticks"] = None] /\ panic = "none"
        /\ panic' = IF ReleasePanic(c, "ticks") # "none" THEN ReleasePanic(c, "ticks")
                    ELSE YieldPanic(c, x)
    BY DEF clockintr, Holds, At
  <1>3. /\ w \in [Procs -> {"running", "runnable", "cons.r", "ticks", "uart_tx"}]
        /\ \A p \in Procs : w[p] = st[p] \/ (st[p] # "running" /\ w[p] # "running")
    BY DEF Woken, Core, TypeOK
  <1>4. x \in CpuRec /\ ~x.intr /\ ~x.intena /\ x.noff = 0
    BY <1>1, PopOff, SMTT(60)
  <1>5. Locking(c, {})
    BY <1>1, <1>2, ReleaseFacts DEF Core
  <1> HIDE DEF x, w
  <1>6. UNCHANGED panic
    <2>1. cpu[c].noff > 0 BY <1>1, SMTT(60)
    <2> QED BY <1>1, <1>2, <1>4, <2>1, ReleaseQuiet, YieldQuiet
  <1> QED BY <1>1, <1>2, <1>3, <1>4, <1>5, <1>6, YieldCore

\* The first step of an interrupt from the UART.
LEMMA UartInterruptCore ==
  ASSUME Core, DataTypeOK, NEW c \in CPUs, uart_interrupt(c)
  PROVE  Core' /\ UNCHANGED panic /\ UNCHANGED k /\ UNCHANGED st /\ UNCHANGED bufs
  <1>1. Trap(c, UartRound) BY DEF uart_interrupt
  <1> QED BY <1>1, RoundFacts, TrapCore

\* The first step of a clock interrupt, or all of it on a CPU that keeps no time.
LEMMA ClockInterruptCore ==
  ASSUME Core, NEW c \in CPUs, clock_interrupt(c)
  PROVE  /\ Core' /\ UNCHANGED panic /\ UNCHANGED bufs
         /\ \/ UNCHANGED k /\ UNCHANGED st
            \/ yield(c, [cpu[c] EXCEPT !.intr = FALSE]) /\ st' = Yielded(c, st)
  <1>1. CASE c = CPU0
    <2> DEFINE g == [Idle EXCEPT !.dev = "clock", !.lock = "ticks"]
    <2>1. g \in Handlers /\ g.dev = "clock" /\ g.lock = "ticks" /\ Trap(c, g)
      BY <1>1 DEF clock_interrupt, Handlers, Idle
    <2>2. g.dev # "none" /\ g.lock \in Locks
      BY <2>1
    <2> HIDE DEF g
    <2>3. Core' /\ UNCHANGED panic /\ UNCHANGED k /\ UNCHANGED st /\ UNCHANGED bufs
      BY <2>1, <2>2, TrapCore
    <2> QED BY <2>3
  <1>2. CASE c # CPU0
    <2> DEFINE x == [cpu[c] EXCEPT !.intr = FALSE]
    <2>1. /\ cpu[c].intr /\ yield(c, x) /\ st' = Yielded(c, st) /\ UNCHANGED <<owner, bufs>>
          /\ panic = "none" /\ panic' = YieldPanic(c, x)
      BY <1>2 DEF clock_interrupt
    <2>2. /\ cpu[c] \in CpuRec /\ ~cpu[c].intena /\ cpu[c].noff = 0
          /\ \A l \in Locks : owner[l] # c
      <3>1. Off(c) /\ Owns(c) /\ cpu[c] \in CpuRec BY DEF Core, CpuInv, TypeOK
      <3>2. ~InHandler(c) BY <2>1, <3>1 DEF Off
      <3>3. /\ ~cpu[c].intena /\ cpu[c].noff = 0
            /\ run[c] # None => k[run[c]].pc \notin Inside
        BY <2>1, <3>1, <3>2 DEF Off
      <3> QED BY <3>1, <3>2, <3>3 DEF Owns, Held
    <2>3. Locking(c, {})
      BY <2>1, <2>2 DEF Locking, Core, TypeOK
    <2>4. st \in [Procs -> {"running", "runnable", "cons.r", "ticks", "uart_tx"}]
      BY DEF Core, TypeOK
    <2>5. x \in CpuRec /\ ~x.intr /\ ~x.intena /\ x.noff = 0
      BY <2>2, CpuFields
    <2>6. UNCHANGED panic
      <3> HIDE DEF x
      <3> QED BY <2>1, <2>5, YieldQuiet
    <2>7. Core'
      <3> HIDE DEF x
      <3> QED BY <2>1, <2>3, <2>4, <2>5, YieldCore
    <2> QED BY <2>1, <2>6, <2>7
  <1> QED BY <1>1, <1>2

\* The return from the trap of a process that yielded turns interrupts on.
LEMMA SretCore ==
  ASSUME Core, DataTypeOK, NEW c \in CPUs, sret(c)
  PROVE  Core'
  <1> DEFINE x == [cpu[c] EXCEPT !.intr = TRUE]
  <1>1. InHandler(c) /\ h[c].pc = "ret"
    <2>1. Pc(c) = "ret" BY DEF sret, At
    <2>2. run[c] # None => k[run[c]].pc # "ret" BY DEF Core, TypeOK, Kernels
    <2> QED BY <2>1, <2>2 DEF Pc
  <1>2. cpu[c] \in CpuRec /\ ~cpu[c].intena /\ cpu[c].noff = 0 /\ \A l \in Locks : owner[l] # c
    <2>1. Off(c) /\ Owns(c) /\ cpu[c] \in CpuRec BY DEF Core, CpuInv, TypeOK
    <2>2. ~cpu[c].intena /\ cpu[c].noff = 0 BY <1>1, <2>1 DEF Off
    <2>3. \A l \in Locks : owner[l] # c BY <1>1, <2>1 DEF Owns, Held
    <2> QED BY <2>1, <2>2, <2>3
  <1>3. /\ h' = [h EXCEPT ![c] = Idle] /\ cpu' = [cpu EXCEPT ![c] = x]
        /\ UNCHANGED <<k, run, st, owner>>
    BY DEF sret, sched
  <1>4. x \in CpuRec /\ x.intr /\ ~x.intena /\ x.noff = 0
    BY <1>2, CpuFields
  <1>5. Locking(c, {})
    BY <1>2, <1>3 DEF Core, TypeOK, Locking
  <1> HIDE DEF x
  <1>6. HandlerStep(c, Idle, x)
    BY <1>3, <1>4, <1>5, NoWakes, RoundFacts DEF HandlerStep, Locking
  <1> QED BY <1>1, <1>4, <1>6, RoundFacts, HandlerCore

\* A process that the scheduler runs finds the interrupts of its CPU as it left
\* those of another in sleep() or yield().
LEMMA DispatchCore ==
  ASSUME Core, NEW c \in CPUs, NEW p \in Procs, dispatch(c, p)
  PROVE  Core'
  <1> DEFINE x == [cpu[c] EXCEPT !.intr = k[p].intena]
             j == [k[p] EXCEPT !.trap = FALSE, !.intena = TRUE]
             g == [Idle EXCEPT !.dev = "clock", !.pc = "ret"]
  <1>1. run[c] = None /\ ~InHandler(c)
    <2>1. Pc(c) = "scheduler" BY DEF dispatch, At
    <2>2. h[c].pc # "scheduler" BY DEF Core, TypeOK, Handlers
    <2>3. run[c] # None => k[run[c]].pc # "scheduler" BY DEF Core, TypeOK, Kernels
    <2> QED BY <2>1, <2>2, <2>3 DEF Pc
  <1>2. cpu[c] \in CpuRec /\ ~cpu[c].intena /\ cpu[c].noff = 0 /\ \A l \in Locks : owner[l] # c
    <2>1. Off(c) /\ Owns(c) /\ cpu[c] \in CpuRec BY DEF Core, CpuInv, TypeOK
    <2>2. ~cpu[c].intena /\ cpu[c].noff = 0 BY <1>1, <2>1 DEF Off
    <2>3. \A l \in Locks : owner[l] # c BY <1>1, <2>1 DEF Owns, Held
    <2> QED BY <2>1, <2>2, <2>3
  <1>3. /\ st[p] = "runnable" /\ k[p] \in Kernels /\ k[p].pc \in Outside
        /\ (k[p].intena <=> ~k[p].trap) /\ \A d \in CPUs : run[d] # p
        /\ k[p].pc \in {"call", "enter"} => k[p].lock \in {"cons", "ticks"}
        /\ k[p].pc = "enter" => k[p].old
    BY DEF dispatch, Core, TypeOK, RunInv
  <1>4. /\ st' = [st EXCEPT ![p] = "running"] /\ run' = [run EXCEPT ![c] = p]
        /\ cpu' = [cpu EXCEPT ![c] = x] /\ UNCHANGED owner
        /\ h' = IF k[p].trap THEN [h EXCEPT ![c] = g] ELSE h
    BY DEF dispatch
  <1>5. k' = [k EXCEPT ![p] = j]
    BY DEF dispatch, Core, TypeOK
  <1>6. k[p].intena \in BOOLEAN
    BY <1>3 DEF Kernels
  <1>7. x \in CpuRec /\ (x.intr <=> k[p].intena) /\ ~x.intena /\ x.noff = 0
    <2> DEFINE b == k[p].intena
    <2>1. b \in BOOLEAN BY <1>6
    <2> HIDE DEF b
    <2>2. /\ [cpu[c] EXCEPT !.intr = b] \in CpuRec /\ ([cpu[c] EXCEPT !.intr = b].intr <=> b)
          /\ ~[cpu[c] EXCEPT !.intr = b].intena /\ [cpu[c] EXCEPT !.intr = b].noff = 0
      BY <1>2, <2>1, CpuFields
    <2> QED BY <2>2 DEF b
  <1>8. j \in Kernels
    BY <1>3 DEF Kernels
  <1>9. ~j.trap /\ j.intena /\ j.pc = k[p].pc /\ j.lock = k[p].lock /\ j.old = k[p].old
    BY <1>3 DEF Kernels
  <1>10. g \in Handlers /\ g.dev = "clock" /\ g.pc = "ret"
    BY DEF Handlers, Idle
  <1> HIDE DEF x, j, g
  <1>11. /\ run'[c] = p /\ k'[p] = j /\ cpu'[c] = x /\ st'[p] = "running"
         /\ \A q \in Procs : q # p => k'[q] = k[q] /\ st'[q] = st[q]
         /\ \A d \in CPUs : d # c => cpu'[d] = cpu[d] /\ run'[d] = run[d] /\ h'[d] = h[d]
         /\ h'[c] = IF k[p].trap THEN g ELSE h[c]
    BY <1>4, <1>5 DEF Core, TypeOK
  <1>12. TypeOK'
    BY <1>4, <1>5, <1>7, <1>8, <1>10 DEF Core, TypeOK
  <1>13. RunInv'
    <2>1. \A d, e \in CPUs : run'[d] = run'[e] /\ run'[d] # None => d = e
      BY <1>3, <1>11, SMTT(60) DEF Core, RunInv
    <2>2. ASSUME NEW d \in CPUs, run'[d] # None
          PROVE  st'[run'[d]] = "running" /\ ~k'[run'[d]].trap
      <3>1. CASE d = c BY <1>9, <1>11, <3>1
      <3>2. CASE d # c
        <4>1. run'[d] = run[d] /\ run[d] # p /\ run[d] # None /\ run[d] \in Procs
          BY <1>3, <1>11, <2>2, <3>2, SMTT(60) DEF Core, TypeOK
        <4>2. st[run[d]] = "running" /\ ~k[run[d]].trap
          BY <4>1 DEF Core, RunInv
        <4> QED BY <1>11, <4>1, <4>2, SMTT(60)
      <3> QED BY <3>1, <3>2
    <2>3. ASSUME NEW q \in Procs
          PROVE  /\ k'[q].intena <=> ~k'[q].trap
                 /\ st'[q] # "running" => k'[q].pc \in Outside
                 /\ k'[q].pc \in {"call", "enter"} => k'[q].lock \in {"cons", "ticks"}
                 /\ k'[q].pc = "enter" => k'[q].old
                 /\ k'[q].pc \in Inside => k'[q].lock \in Locks
                 /\ k'[q].pc = "tx" => k'[q].lock = "uart"
      <3>1. CASE q = p BY <1>3, <1>9, <1>11, <3>1
      <3>2. CASE q # p BY <1>11, <3>2 DEF Core, RunInv
      <3> QED BY <3>1, <3>2
    <2> QED BY <2>1, <2>2, <2>3 DEF RunInv
  <1>14. Alone(c)
    BY <1>3, <1>4, <1>11, SMTT(60) DEF Alone, Core, TypeOK
  <1>15. Off(c)'
    BY <1>1, <1>3, <1>7, <1>9, <1>10, <1>11 DEF Off
  <1>16. Owns(c)'
    BY <1>1, <1>2, <1>3, <1>4, <1>9, <1>10, <1>11, SMTT(60) DEF Owns, Held
  <1> QED BY <1>12, <1>13, <1>14, <1>15, <1>16, OthersKept DEF Core

\* Only processes that stay asleep are asleep for input or time, and their calls
\* are as they were.
Stay == \A p \in Procs : st'[p] \in {"cons.r", "ticks"} => st'[p] = st[p] /\ k'[p] = k[p]

\* A step of a CPU that puts no one to sleep.
LEMMA StayFacts ==
  ASSUME Core, Wakes, NEW c \in CPUs, \A p \in Procs : p # run[c] => k'[p] = k[p]
  PROVE  Stay
  <1>1. \A p \in Procs : p = run[c] => st[p] = "running"
    BY SMTT(60) DEF Core, TypeOK, RunInv
  <1> QED BY <1>1 DEF Wakes, Stay

\* A step of c leaves the other CPUs' processes alone.
Beside(c) == \A d \in CPUs : d # c =>
  run'[d] = run[d] /\ (run[d] # None => k'[run[d]] = k[run[d]])

\* Such is a step that changes nothing but the process on c.
LEMMA BesideFacts ==
  ASSUME Core, NEW c \in CPUs, \A d \in CPUs : d # c => run'[d] = run[d],
         \A p \in Procs : p # run[c] => k'[p] = k[p]
  PROVE  Beside(c)
  <1>1. \A d \in CPUs : d # c /\ run[d] # None => run[d] # run[c] /\ run[d] \in Procs
    BY SMTT(60) DEF Core, RunInv, TypeOK
  <1> QED BY <1>1 DEF Beside

\* The buffers and the clock are only changed under their locks, so that who is
\* about to sleep() keeps its reason.
LEMMA OthersChecked ==
  ASSUME Core, AllChecked, NEW c \in CPUs, Beside(c), Checked(c)',
         owner["cons"] = c \/ (cons'.r = cons.r /\ cons'.w = cons.w),
         owner["uart"] = c \/ UNCHANGED tx,
         owner["ticks"] = c \/ UNCHANGED ticks
  PROVE  AllChecked'
  <1>1. ASSUME NEW d \in CPUs, d # c PROVE Checked(d)'
    <2>1. SUFFICES ASSUME run'[d] # None, k'[run'[d]].pc = "sleep" PROVE Checked(d)'
      BY DEF Checked
    <2>2. /\ run'[d] = run[d] /\ run[d] # None /\ k'[run[d]] = k[run[d]]
          /\ k[run[d]].pc = "sleep" /\ run[d] \in Procs
      BY <1>1, <2>1 DEF Beside, Core, TypeOK
    <2>3. k[run[d]].lock \in Locks /\ Off(d) /\ Owns(d) /\ Checked(d)
      BY <1>1, <2>2 DEF Core, RunInv, CpuInv, AllChecked
    <2>4. ~InHandler(d)
      BY <2>2, <2>3 DEF Off
    <2>5. owner[k[run[d]].lock] # c
      BY <1>1, <2>2, <2>3, <2>4 DEF Owns, Held
    <2>6. CASE k[run[d]].lock = "cons"
      BY <2>2, <2>3, <2>5, <2>6 DEF Checked
    <2>7. CASE k[run[d]].lock = "uart"
      BY <2>2, <2>3, <2>5, <2>7 DEF Checked, Full
    <2>8. CASE k[run[d]].lock = "ticks"
      BY <2>2, <2>3, <2>5, <2>8 DEF Checked, Minus
    <2> QED BY <2>3, <2>6, <2>7, <2>8
  <1> QED BY <1>1 DEF AllChecked

\* A handler does not interrupt a process that is about to sleep().
LEMMA Awake ==
  ASSUME Core, NEW c \in CPUs, InHandler(c) \/ cpu[c].intr
  PROVE  run[c] # None => k[run[c]].pc # "sleep"
  <1>1. Off(c) BY DEF Core, CpuInv
  <1> QED BY <1>1 DEF Off

\* A step that leaves the input buffer and the clock alone and puts no one to sleep.
LEMMA Kept ==
  ASSUME IInv, Core', AllChecked', panic = "none", UNCHANGED <<panic, cons, ticks>>,
         rx' \in {"none"} \cup Keys, Stay
  PROVE  IInv'
  <1>1. DataTypeOK' /\ PanicOnlyWhenFull'
    BY DEF IInv, DataTypeOK, PanicOnlyWhenFull
  <1>2. SleepersHaveReason'
    BY DEF IInv, SleepersHaveReason, Stay, Minus
  <1> QED BY <1>1, <1>2 DEF IInv

\* Such a step of the process on c, or of a handler there.
LEMMA KeptBy ==
  ASSUME IInv, NEW c \in CPUs, Core', Wakes, panic = "none", UNCHANGED <<panic, cons, ticks, run>>,
         rx' \in {"none"} \cup Keys, \A p \in Procs : p # run[c] => k'[p] = k[p],
         owner["uart"] = c \/ UNCHANGED tx, Checked(c)'
  PROVE  IInv'
  <1>1. Stay
    BY StayFacts DEF IInv
  <1>2. AllChecked'
    BY BesideFacts, OthersChecked DEF IInv
  <1> QED BY <1>1, <1>2, Kept

\* The input buffer keeps its fields, and consoleintr() does not move cons.r.
LEMMA EditedFacts ==
  ASSUME DataTypeOK, NEW key
  PROVE  DOMAIN Edited(key) = {"r", "w", "e", "buf"} /\ Edited(key).r = cons.r
  BY DEF Edited, DataTypeOK

-----------------------------------------------------------------------------
(* Every step keeps the invariant.                                          *)

\* The parts of acquire().
LEMMA AcquireInv ==
  ASSUME IInv, NEW c \in CPUs, intr_get(c) \/ acquire(c) \/ acquired(c)
  PROVE  IInv'
  <1>1. Core' /\ UNCHANGED panic
    BY IntrGetCore, AcquireCore, AcquiredCore DEF IInv, intr_get, acquired
  <1>2. ~holding(c, Lock(c)) \/ acquired(c) \/ intr_get(c)
    BY <1>1 DEF acquire, At, Stop
  <1>3. panic = "none" /\ UNCHANGED <<cons, ticks, tx, rx, run, st>>
    BY <1>2 DEF intr_get, acquire, acquired, At, bufs, devs, sched
  <1>4. \/ Goto(c, Tried(Lock(c))) \/ Goto(c, "in")
        \/ /\ ~InHandler(c) /\ Pc(c) = "call"
           /\ k' = [k EXCEPT ![run[c]].pc = "enter", ![run[c]].old = cpu[c].intr]
    <2>1. InHandler(c) => Pc(c) # "call"
      BY DEF Pc, IInv, Core, TypeOK, Handlers
    <2> QED BY <1>2, <2>1 DEF intr_get, acquire, acquired, At
  <1>5. \A p \in Procs : p # run[c] => k'[p] = k[p]
    BY <1>4 DEF Goto, IInv, Core, TypeOK
  <1>6. run[c] # None => k'[run[c]].pc # "sleep"
    <2>1. run[c] # None => run[c] \in Procs /\ k[run[c]] \in Kernels BY DEF IInv, Core, TypeOK
    <2>2. CASE InHandler(c)
      BY <1>4, <2>2, Awake DEF Goto, IInv
    <2>3. CASE ~InHandler(c) /\ run[c] # None
      <3>1. \/ k' = [k EXCEPT ![run[c]].pc = Tried(Lock(c))] \/ k' = [k EXCEPT ![run[c]].pc = "in"]
            \/ k' = [k EXCEPT ![run[c]].pc = "enter", ![run[c]].old = cpu[c].intr]
        BY <1>4, <2>3 DEF Goto
      <3>2. Tried(Lock(c)) \in {"in", "spin"}
        BY DEF Tried
      <3>3. \/ k'[run[c]] = [k[run[c]] EXCEPT !.pc = Tried(Lock(c))]
            \/ k'[run[c]] = [k[run[c]] EXCEPT !.pc = "in"]
            \/ k'[run[c]] = [k[run[c]] EXCEPT !.pc = "enter", !.old = cpu[c].intr]
        BY <2>1, <2>3, <3>1 DEF IInv, Core, TypeOK
      <3> QED BY <2>1, <2>3, <3>2, <3>3 DEF Kernels
    <2> QED BY <2>2, <2>3
  <1>7. Checked(c)'
    BY <1>3, <1>6 DEF Checked
  <1>8. Wakes
    BY <1>3, NoWakes DEF IInv
  <1> QED BY <1>1, <1>3, <1>5, <1>7, <1>8, KeptBy DEF IInv, DataTypeOK

\* System calls that return or go on without sleeping.
LEMMA CallInv ==
  ASSUME IInv, NEW c \in CPUs,
         \/ sys_uptime(c)
         \/ \E fault \in BOOLEAN : consolewrite(c, fault)
         \/ \E y \in Calls : syscall(c, y[1], y[2])
  PROVE  IInv'
  <1>1. Core' /\ UNCHANGED panic
    BY SysUptimeCore, ConsolewriteCore, SyscallCore DEF IInv
  <1>2. panic = "none" /\ UNCHANGED <<cons, ticks, tx, rx, run, st>>
    BY DEF sys_uptime, consolewrite, syscall, Running, Holds, At, bufs, devs, sched
  <1>3. \A p \in Procs : p # run[c] => k'[p] = k[p]
    BY DEF sys_uptime, consolewrite, syscall, Return, IInv, Core, TypeOK
  <1>4. run[c] # None => k'[run[c]].pc # "sleep"
    <2>1. run[c] # None => run[c] \in Procs /\ k[run[c]] \in Kernels BY DEF IInv, Core, TypeOK
    <2>2. CASE k' = [k EXCEPT ![run[c]] = InUser]
      BY <2>1, <2>2 DEF InUser, IInv, Core, TypeOK
    <2>3. CASE k' = [k EXCEPT ![run[c]].pc = Tried("uart"), ![run[c]].lock = "uart"]
      <3>1. Tried("uart") \in {"in", "spin"}
        BY DEF Tried
      <3> QED BY <2>1, <2>3, <3>1 DEF IInv, Core, TypeOK, Kernels
    <2>4. ASSUME NEW y \in Calls, syscall(c, y[1], y[2])
          PROVE  run[c] # None => k'[run[c]].pc # "sleep"
      BY <2>1, <2>4 DEF syscall, IInv, Core, TypeOK, Kernels
    <2> QED BY <2>2, <2>3, <2>4 DEF sys_uptime, consolewrite, Return
  <1>5. Checked(c)' /\ Wakes
    BY <1>2, <1>4, NoWakes DEF Checked, IInv
  <1> QED BY <1>1, <1>2, <1>3, <1>5, KeptBy DEF IInv, DataTypeOK

\* kill(), exit(), and the UART.
LEMMA QuietInv ==
  ASSUME IInv,
         \/ byte_sent \/ \E key \in Keys : key_typed(key)
         \/ \E c \in CPUs : exit(c) \/ \E p \in Procs : kill(c, p)
  PROVE  IInv'
  <1>1. /\ panic = "none" /\ UNCHANGED <<panic, cons, tx, ticks, cpu, run, h, k, owner>>
        /\ rx' \in {"none"} \cup Keys
    BY DEF byte_sent, key_typed, exit, kill, At, bufs, devs, sched, IInv, DataTypeOK
  <1>2. UNCHANGED st \/ \E p \in Procs :
          st' = [st EXCEPT ![p] = IF Asleep(p) THEN "runnable" ELSE @]
    BY DEF byte_sent, key_typed, exit, kill, sched
  <1>3. Wakes
    BY <1>2 DEF Asleep, Wakes, IInv, Core, TypeOK
  <1>4. Core'
    BY <1>1, <1>3, WakeCore DEF IInv
  <1>5. Stay
    BY <1>1, <1>3 DEF Wakes, Stay
  <1>6. AllChecked'
    BY <1>1 DEF IInv, AllChecked, Checked, Full, Minus
  <1> QED BY <1>1, <1>4, <1>5, <1>6, Kept DEF IInv

\* uartputc() comes to sleep() only when the buffer is full, which it checks under
\* uart_tx_lock.
LEMMA UartputcInv ==
  ASSUME IInv, NEW c \in CPUs, uartputc(c)
  PROVE  IInv'
  <1>1. /\ Core' /\ run[c] \in Procs /\ owner["uart"] = c
        /\ k' = [k EXCEPT ![run[c]].pc = IF Full THEN "sleep" ELSE "tx"]
        /\ k'[run[c]].lock = "uart" /\ (~Full => k'[run[c]].pc = "tx")
    BY UartputcCore DEF IInv
  <1>2. /\ panic = "none" /\ UNCHANGED <<panic, cons, ticks, rx, run, st>>
        /\ Full => UNCHANGED tx
    BY DEF uartputc, Running, Holds, At, devs, sched
  <1>3. \A p \in Procs : p # run[c] => k'[p] = k[p]
    BY <1>1 DEF IInv, Core, TypeOK
  <1>4. Checked(c)'
    <2>1. CASE Full BY <1>1, <1>2, <2>1 DEF Checked, Full
    <2>2. CASE ~Full
      <3>1. k'[run[c]].pc # "sleep" BY <1>1, <2>2
      <3> QED BY <1>2, <3>1 DEF Checked
    <2> QED BY <2>1, <2>2
  <1>5. Wakes
    BY <1>2, NoWakes DEF IInv
  <1> QED BY <1>1, <1>2, <1>3, <1>4, <1>5, KeptBy DEF IInv, DataTypeOK

\* The loop of uartstart(), and the end of uartputc().
LEMMA UartstartInv ==
  ASSUME IInv, NEW c \in CPUs, uartstart(c) \/ uartputc_done(c)
  PROVE  IInv'
  <1>1. CASE uartstart(c)
    <2>1. Core' /\ Wakes /\ owner["uart"] = c
      BY <1>1, UartstartCore DEF IInv
    <2>2. panic = "none" /\ UNCHANGED <<panic, cons, ticks, rx, run, k>>
      BY <1>1 DEF uartstart, Starting, Holds, At
    <2>3. run[c] # None => k[run[c]].pc # "sleep"
      <3>1. CASE InHandler(c) BY <3>1, Awake DEF IInv
      <3>2. CASE ~InHandler(c) BY <1>1, <3>2 DEF uartstart, Starting, At, Pc
      <3> QED BY <3>1, <3>2
    <2>4. Checked(c)'
      BY <2>2, <2>3 DEF Checked
    <2> QED BY <2>1, <2>2, <2>4, KeptBy DEF IInv, DataTypeOK
  <1>2. CASE uartputc_done(c)
    <2>1. /\ Core' /\ panic' = "none" /\ run[c] \in Procs /\ k'[run[c]].pc = "in"
          /\ \A p \in Procs : p # run[c] => k'[p] = k[p]
      BY <1>2, UartputcDoneCore DEF IInv
    <2>2. panic = "none" /\ UNCHANGED <<cons, ticks, tx, rx, run, st>>
      BY <1>2 DEF uartputc_done, At, bufs, devs, sched
    <2>3. Checked(c)' /\ Wakes
      BY <2>1, <2>2, NoWakes DEF Checked, IInv
    <2> QED BY <2>1, <2>2, <2>3, KeptBy DEF IInv, DataTypeOK
  <1> QED BY <1>1, <1>2

\* sleep(): who gets to sleep has the reason it checked, and the panic of sched()
\* is that of a full output buffer.
LEMMA SleepInv ==
  ASSUME IInv, NEW c \in CPUs, sleep(c)
  PROVE  IInv'
  <1> DEFINE p == run[c]
  <1>1. /\ Core' /\ p \in Procs /\ p # None /\ k[p].pc = "sleep" /\ k[p] \in Kernels
        /\ IF k[p].lock = "uart"
             THEN panic' = "sched locks" /\ UNCHANGED <<k, run, st, bufs, rx>>
             ELSE /\ st' = [st EXCEPT ![p] = Chan(k[p].lock)] /\ k[p].lock \in {"cons", "ticks"}
                  /\ run' = [run EXCEPT ![c] = None] /\ UNCHANGED <<bufs, rx, panic>>
                  /\ k' = [k EXCEPT ![p].pc = "call", ![p].intena = TRUE]
    BY SleepCore DEF IInv
  <1>2. Checked(c) /\ panic = "none" /\ UNCHANGED <<cons, ticks, tx, rx>>
    BY <1>1 DEF IInv, AllChecked, sleep, At, bufs
  <1>3. DataTypeOK'
    BY <1>2 DEF IInv, DataTypeOK
  <1>4. CASE k[p].lock = "uart"
    <2>1. PanicOnlyWhenFull'
      BY <1>1, <1>2, <1>4 DEF Checked, PanicOnlyWhenFull, Full
    <2>2. AllChecked' /\ SleepersHaveReason'
      BY <1>1, <1>2, <1>4 DEF IInv, AllChecked, Checked, Full, Minus, SleepersHaveReason
    <2> QED BY <1>1, <1>3, <2>1, <2>2 DEF IInv
  <1>5. CASE k[p].lock # "uart"
    <2>1. /\ run'[c] = None /\ \A d \in CPUs : d # c => run'[d] = run[d]
          /\ st'[p] = Chan(k[p].lock) /\ k'[p].t0 = k[p].t0 /\ k'[p].n = k[p].n
          /\ \A q \in Procs : q # p => k'[q] = k[q] /\ st'[q] = st[q]
      <3>1. /\ k'[p] = [k[p] EXCEPT !.pc = "call", !.intena = TRUE]
            /\ \A q \in Procs : q # p => k'[q] = k[q]
        BY <1>1, <1>5 DEF IInv, Core, TypeOK
      <3>2. k'[p].t0 = k[p].t0 /\ k'[p].n = k[p].n
        BY <1>1, <3>1 DEF Kernels
      <3>3. /\ run'[c] = None /\ \A d \in CPUs : d # c => run'[d] = run[d]
            /\ st'[p] = Chan(k[p].lock) /\ \A q \in Procs : q # p => st'[q] = st[q]
        BY <1>1, <1>5 DEF IInv, Core, TypeOK
      <3> QED BY <3>1, <3>2, <3>3
    <2>2. Checked(c)'
      BY <2>1 DEF Checked
    <2>3. AllChecked'
      BY <1>2, <2>1, <2>2, BesideFacts, OthersChecked DEF IInv
    <2>4. SleepersHaveReason'
      <3>1. ASSUME NEW q \in Procs, q # p
            PROVE  /\ st'[q] = "cons.r" => cons'.r = cons'.w
                   /\ st'[q] = "ticks" => Minus(ticks', k'[q].t0) < k'[q].n
        BY <1>2, <2>1, <3>1 DEF IInv, SleepersHaveReason
      <3>2. /\ st'[p] = "cons.r" => cons'.r = cons'.w
            /\ st'[p] = "ticks" => Minus(ticks', k'[p].t0) < k'[p].n
        BY <1>1, <1>2, <1>5, <2>1 DEF Checked, Chan
      <3> QED BY <3>1, <3>2 DEF SleepersHaveReason, Minus
    <2>5. PanicOnlyWhenFull'
      BY <1>1, <1>2, <1>5 DEF PanicOnlyWhenFull
    <2> QED BY <1>1, <1>3, <2>3, <2>4, <2>5 DEF IInv
  <1> QED BY <1>4, <1>5

\* Handlers that put no one to sleep.
LEMMA HandlerInv ==
  ASSUME IInv, NEW c \in CPUs, uart_interrupt(c) \/ uartintr(c) \/ sret(c)
  PROVE  IInv'
  <1>1. Core' /\ UNCHANGED panic /\ UNCHANGED k /\ UNCHANGED st
    <2>1. CASE uart_interrupt(c) BY <2>1, UartInterruptCore DEF IInv
    <2>2. CASE uartintr(c) BY <2>2, UartintrCore DEF IInv, uartintr
    <2>3. CASE sret(c) BY <2>3, SretCore DEF IInv, sret, sched
    <2> QED BY <2>1, <2>2, <2>3
  <1>2. panic = "none" /\ UNCHANGED <<cons, ticks, tx, run>> /\ rx' \in {"none"} \cup Keys
    BY DEF uart_interrupt, Trap, uartintr, sret, Holds, At, bufs, devs, sched, IInv, DataTypeOK
  <1>3. InHandler(c) \/ cpu[c].intr
    <2>1. CASE sret(c)
      <3>1. run[c] # None => k[run[c]].pc # "ret" BY DEF IInv, Core, TypeOK, Kernels
      <3> QED BY <2>1, <3>1 DEF sret, At, Pc
    <2> QED BY <2>1 DEF uart_interrupt, Trap, uartintr
  <1>4. Checked(c)' /\ Wakes
    BY <1>1, <1>2, <1>3, Awake, NoWakes DEF Checked, IInv
  <1> QED BY <1>1, <1>2, <1>4, KeptBy

\* A process is run by the scheduler.
LEMMA DispatchInv ==
  ASSUME IInv, NEW c \in CPUs, NEW p \in Procs, dispatch(c, p)
  PROVE  IInv'
  <1>1. Core'
    BY DispatchCore DEF IInv
  <1>2. panic = "none" /\ UNCHANGED <<panic, cons, ticks, tx, rx>>
    BY DEF dispatch, At, bufs, devs
  <1>3. Stay
    BY DEF dispatch, Stay, IInv, Core, TypeOK
  <1>4. /\ st[p] = "runnable" /\ k[p].pc # "sleep" /\ k[p] \in Kernels
        /\ run' = [run EXCEPT ![c] = p] /\ k' = [k EXCEPT ![p].trap = FALSE, ![p].intena = TRUE]
    BY DEF dispatch, IInv, Core, TypeOK, RunInv
  <1>5. /\ run'[c] = p /\ k'[p].pc = k[p].pc
        /\ \A q \in Procs : q # p => k'[q] = k[q]
        /\ \A d \in CPUs : d # c => run'[d] = run[d]
    BY <1>4 DEF IInv, Core, TypeOK, Kernels
  <1>6. \A d \in CPUs : run[d] # None => run[d] # p /\ run[d] \in Procs
    BY <1>4 DEF IInv, Core, TypeOK, RunInv
  <1>7. Beside(c) /\ Checked(c)'
    BY <1>4, <1>5, <1>6 DEF Beside, Checked
  <1>8. AllChecked'
    BY <1>2, <1>7, OthersChecked DEF IInv
  <1> QED BY <1>1, <1>2, <1>3, <1>8, Kept DEF IInv, DataTypeOK

\* consoleread() comes to sleep() only when the buffer has no line, which it checks
\* under cons.lock.
LEMMA ConsolereadInv ==
  ASSUME IInv, NEW c \in CPUs, NEW fault \in BOOLEAN, consoleread(c, fault)
  PROVE  IInv'
  <1>1. Core' /\ UNCHANGED panic /\ panic = "none" /\ Calling(c, "cons") /\ Pc(c) = "in"
    BY ConsolereadCore DEF IInv, consoleread, Running, Holds, At, Calling
  <1>2. /\ run[c] \in Procs /\ run[c] # None /\ k[run[c]] \in Kernels /\ ~InHandler(c)
        /\ owner["cons"] = c
    BY <1>1, CallFacts DEF IInv, Calling
  <1>3. k[run[c]].pc = "in"
    BY <1>1, <1>2, OnCpu DEF IInv
  <1>4. UNCHANGED <<ticks, tx, rx, run, st>> /\ \A p \in Procs : p # run[c] => k'[p] = k[p]
    BY <1>2 DEF consoleread, Return, Goto, bufs, devs, sched, IInv, Core, TypeOK
  <1>5. Wakes
    BY <1>4, NoWakes DEF IInv
  <1>6. CASE cons.r = cons.w
    <2>1. UNCHANGED cons
      BY <1>6 DEF consoleread
    <2>2. \/ k' = [k EXCEPT ![run[c]] = InUser] \/ k' = [k EXCEPT ![run[c]].pc = "sleep"]
      BY <1>2, <1>6 DEF consoleread, Return, Goto
    <2>3. \/ k'[run[c]] = InUser \/ k'[run[c]] = [k[run[c]] EXCEPT !.pc = "sleep"]
      BY <1>2, <2>2 DEF IInv, Core, TypeOK
    <2>4. k'[run[c]].pc = "sleep" => k'[run[c]].lock = "cons"
      <3>1. k[run[c]].lock = "cons" BY <1>1, CallFacts DEF IInv
      <3>2. InUser.pc # "sleep" BY DEF InUser
      <3> QED BY <1>2, <2>3, <3>1, <3>2 DEF Kernels
    <2>5. Checked(c)'
      BY <1>4, <1>6, <2>1, <2>4 DEF Checked
    <2> QED BY <1>1, <1>4, <1>5, <2>1, <2>5, KeptBy DEF IInv, DataTypeOK
  <1>7. CASE cons.r # cons.w
    <2>1. UNCHANGED cons \/ cons' = [cons EXCEPT !.r = Plus(@, 1)]
      BY <1>7 DEF consoleread
    <2>2. DataTypeOK' /\ PanicOnlyWhenFull'
      BY <1>1, <1>4, <2>1 DEF IInv, DataTypeOK, PanicOnlyWhenFull
    <2>3. \A p \in Procs : st[p] # "cons.r"
      BY <1>7 DEF IInv, SleepersHaveReason
    <2>4. SleepersHaveReason'
      <3>1. \A p \in Procs : st'[p] = "ticks" => p # run[c]
        <4>1. st[run[c]] = "running" BY <1>1, CallFacts DEF IInv
        <4> QED BY <1>4, <4>1
      <3> QED BY <1>4, <2>3, <3>1 DEF IInv, SleepersHaveReason, Minus
    <2>5. \/ k' = [k EXCEPT ![run[c]] = InUser]
          \/ k' = [k EXCEPT ![run[c]].i = @ + 1]
      BY <1>7 DEF consoleread, Return
    <2>6. k'[run[c]].pc # "sleep"
      <3> DEFINE n == k[run[c]].i + 1
      <3>1. k'[run[c]] = InUser \/ k'[run[c]] = [k[run[c]] EXCEPT !.i = n]
        BY <1>2, <2>5 DEF IInv, Core, TypeOK
      <3>2. InUser.pc # "sleep" BY DEF InUser
      <3> HIDE DEF n
      <3> QED BY <1>2, <1>3, <3>1, <3>2 DEF Kernels
    <2>7. AllChecked'
      BY <1>2, <1>4, <2>6, BesideFacts, OthersChecked DEF Checked, IInv
    <2> QED BY <1>1, <2>2, <2>4, <2>7 DEF IInv
  <1> QED BY <1>6, <1>7

\* sys_sleep() comes to sleep() only when it has ticks left, which it checks under
\* tickslock.
LEMMA SysSleepInv ==
  ASSUME IInv, NEW c \in CPUs, sys_sleep(c)
  PROVE  IInv'
  <1> DEFINE p == run[c]
             t0 == IF k[p].t0 = None THEN ticks ELSE k[p].t0
             j == [k[p] EXCEPT !.t0 = t0, !.pc = "sleep"]
  <1>1. Core' /\ UNCHANGED panic /\ panic = "none" /\ Calling(c, "ticks")
    BY SysSleepCore DEF IInv, DataTypeOK, sys_sleep, Running, Holds, At, Calling
  <1>2. p \in Procs /\ p # None /\ k[p] \in Kernels /\ k[p].lock = "ticks"
    BY <1>1, CallFacts DEF IInv
  <1>3. UNCHANGED <<cons, ticks, tx, rx, run, st>>
    BY DEF sys_sleep, bufs, devs, sched
  <1>4. \/ k' = [k EXCEPT ![p] = InUser]
        \/ k' = [k EXCEPT ![p] = j] /\ ~(Minus(ticks, t0) >= k[p].n)
    BY <1>2 DEF sys_sleep, Return, IInv, Core, TypeOK
  <1>5. \A q \in Procs : q # p => k'[q] = k[q]
    BY <1>4 DEF IInv, Core, TypeOK
  <1>6. Checked(c)'
    <2>1. CASE k' = [k EXCEPT ![p] = InUser]
      BY <1>2, <1>3, <2>1 DEF InUser, Checked, IInv, Core, TypeOK
    <2>2. CASE k' = [k EXCEPT ![p] = j] /\ ~(Minus(ticks, t0) >= k[p].n)
      <3>1. t0 \in Nat /\ ticks \in Nat /\ k[p].n \in Nat
        BY <1>2 DEF IInv, DataTypeOK, Kernels
      <3>2. j.t0 = t0 /\ j.n = k[p].n /\ j.lock = "ticks"
        BY <1>2 DEF Kernels
      <3> HIDE DEF t0, j
      <3>3. Minus(ticks, t0) \in Nat
        BY <3>1, Wrapped
      <3>4. Minus(ticks, t0) < k[p].n
        BY <2>2, <3>1, <3>3, SMTT(60)
      <3>5. k'[p] = j
        BY <1>2, <2>2 DEF IInv, Core, TypeOK
      <3> QED BY <1>3, <3>2, <3>4, <3>5 DEF Checked, Minus
    <2> QED BY <1>4, <2>1, <2>2
  <1>7. Wakes
    BY <1>3, NoWakes DEF IInv
  <1> QED BY <1>1, <1>3, <1>5, <1>6, <1>7, KeptBy DEF IInv, DataTypeOK

\* A clock interrupt, and clockintr(), which wakes up all who sleep for time.
LEMMA ClockInv ==
  ASSUME IInv, NEW c \in CPUs, clock_interrupt(c) \/ clockintr(c)
  PROVE  IInv'
  <1>1. Core' /\ UNCHANGED panic /\ panic = "none"
    BY ClockInterruptCore, ClockintrCore DEF IInv, clock_interrupt, Trap, clockintr, Holds, At
  <1>2. ASSUME NEW x, yield(c, x)
        PROVE  \A p \in Procs : p # run[c] => k'[p] = k[p]
    BY <1>2 DEF yield, IInv, Core, TypeOK
  <1>3. CASE clock_interrupt(c)
    <2>1. UNCHANGED <<cons, ticks, tx, rx>>
      <3>1. UNCHANGED bufs BY <1>3, ClockInterruptCore DEF IInv
      <3> QED BY <1>3, <3>1 DEF bufs, clock_interrupt
    <2>2. CASE c = CPU0
      <3>1. UNCHANGED <<k, run, st>> /\ cpu[c].intr
        BY <1>3, <2>2 DEF clock_interrupt, Trap, sched
      <3>2. Checked(c)' /\ Wakes
        BY <3>1, Awake, NoWakes DEF Checked, IInv
      <3> QED BY <1>1, <2>1, <3>1, <3>2, KeptBy DEF IInv, DataTypeOK
    <2>3. CASE c # CPU0
      <3>1. yield(c, [cpu[c] EXCEPT !.intr = FALSE]) /\ st' = Yielded(c, st)
        BY <1>3, <2>3 DEF clock_interrupt
      <3>2. Stay
        BY <1>2, <3>1 DEF Stay, Yielded
      <3>3. run'[c] = None /\ \A d \in CPUs : d # c => run'[d] = run[d]
        BY <3>1 DEF yield, IInv, Core, TypeOK
      <3>4. AllChecked'
        BY <1>2, <2>1, <3>1, <3>3, BesideFacts, OthersChecked DEF Checked, IInv
      <3> QED BY <1>1, <2>1, <3>2, <3>4, Kept DEF IInv, DataTypeOK
    <2> QED BY <2>2, <2>3
  <1>4. CASE clockintr(c)
    <2>1. /\ UNCHANGED <<cons, tx, rx>> /\ ticks' = Plus(ticks, 1)
          /\ yield(c, pop_off(cpu[c])) /\ st' = Yielded(c, Woken("ticks"))
      BY <1>4 DEF clockintr, devs
    <2>2. ticks' \in Nat
      <3>1. ticks \in Nat BY DEF IInv, DataTypeOK
      <3>2. 1 \in Nat BY SMTT(60)
      <3> QED BY <2>1, <3>1, <3>2, Wrapped
    <2>3. DataTypeOK' /\ PanicOnlyWhenFull'
      BY <1>1, <2>1, <2>2 DEF IInv, DataTypeOK, PanicOnlyWhenFull
    <2>4. \A p \in Procs : st'[p] # "ticks" /\ (st'[p] = "cons.r" => st[p] = "cons.r")
      BY <2>1 DEF Yielded, Woken
    <2>5. SleepersHaveReason'
      BY <2>1, <2>4 DEF IInv, SleepersHaveReason
    <2>6. run'[c] = None /\ \A d \in CPUs : d # c => run'[d] = run[d]
      BY <2>1 DEF yield, IInv, Core, TypeOK
    <2>7. owner["ticks"] = c
      BY <1>4, ClockintrCore DEF IInv
    <2>8. AllChecked'
      BY <1>2, <2>1, <2>6, <2>7, BesideFacts, OthersChecked DEF Checked, IInv
    <2> QED BY <1>1, <2>3, <2>5, <2>8 DEF IInv
  <1> QED BY <1>3, <1>4

\* consoleintr() wakes up the readers whenever there is a new line for them.
LEMMA ConsoleintrInv ==
  ASSUME IInv, NEW c \in CPUs, consoleintr(c)
  PROVE  IInv'
  <1> DEFINE new == Edited(h[c].key)
  <1>1. /\ Core' /\ Wakes /\ UNCHANGED panic /\ UNCHANGED <<ticks, tx, k, run>>
        /\ panic = "none" /\ rx' = "none" /\ owner["cons"] = c /\ InHandler(c)
    BY ConsoleintrCore DEF IInv, consoleintr, Holds, At
  <1>2. cons' = new /\ st' = IF new.w # cons.w THEN Woken("cons.r") ELSE st
    BY DEF consoleintr
  <1>3. DOMAIN new = {"r", "w", "e", "buf"} /\ new.r = cons.r
    BY EditedFacts DEF IInv
  <1> HIDE DEF new
  <1>4. DataTypeOK' /\ PanicOnlyWhenFull'
    BY <1>1, <1>2, <1>3 DEF IInv, DataTypeOK, PanicOnlyWhenFull
  <1>5. SleepersHaveReason'
    <2>1. \A p \in Procs : st'[p] = "ticks" => st[p] = "ticks"
      BY <1>1 DEF Wakes
    <2>2. \A p \in Procs : st'[p] = "cons.r" => st[p] = "cons.r" /\ new.w = cons.w
      BY <1>2 DEF Woken
    <2> QED BY <1>1, <1>2, <1>3, <2>1, <2>2 DEF IInv, SleepersHaveReason, Minus
  <1>6. AllChecked'
    BY <1>1, Awake, BesideFacts, OthersChecked DEF Checked, IInv
  <1> QED BY <1>1, <1>4, <1>5, <1>6 DEF IInv

\* The invariant holds when every CPU is in user space.
LEMMA InitInv ==
  ASSUME Init
  PROVE  IInv
  <1>1. TypeOK
    <2>1. Idle \in Handlers BY DEF Idle, Handlers
    <2>2. InUser \in Kernels BY DEF InUser, Kernels
    <2>3. [intr |-> TRUE, noff |-> 0, intena |-> FALSE] \in CpuRec BY DEF CpuRec
    <2>4. k \in [Procs -> Kernels] /\ h \in [CPUs -> Handlers] /\ cpu \in [CPUs -> CpuRec]
      BY <2>1, <2>2, <2>3 DEF Init
    <2>5. /\ run \in [CPUs -> Procs \cup {None}] /\ owner \in [Locks -> CPUs \cup {None}]
          /\ st \in [Procs -> {"running", "runnable", "cons.r", "ticks", "uart_tx"}]
      BY DEF Init
    <2> QED BY <2>4, <2>5 DEF TypeOK
  <1>2. /\ \A p \in Procs : k[p].pc = "user" /\ k[p].intena /\ ~k[p].trap
        /\ \A c \in CPUs : /\ run[c] \in Procs /\ run[c] # None
                           /\ cpu[c].intr /\ ~cpu[c].intena /\ cpu[c].noff = 0 /\ h[c].dev = "none"
        /\ \A lk \in Locks : owner[lk] = None
        /\ \A p \in Procs : st[p] \in {"running", "runnable"}
    BY SMTT(60) DEF Init, InUser, Idle
  <1>3. RunInv
    BY <1>2, SMTT(60) DEF Init, RunInv
  <1>4. CpuInv
    BY <1>2 DEF CpuInv, Off, Owns, Held
  <1>5. DataTypeOK
    BY SMTT(60) DEF Init, DataTypeOK
  <1>6. PanicOnlyWhenFull /\ AllChecked /\ SleepersHaveReason
    BY <1>2 DEF Init, PanicOnlyWhenFull, AllChecked, Checked, SleepersHaveReason
  <1> QED BY <1>1, <1>3, <1>4, <1>5, <1>6 DEF IInv, Core

\* Every step of the system keeps the invariant.
LEMMA NextInv ==
  ASSUME IInv, [Next]_vars
  PROVE  IInv'
  <1>1. CASE UNCHANGED vars
    <2>1. /\ UNCHANGED cpu /\ UNCHANGED run /\ UNCHANGED h /\ UNCHANGED k /\ UNCHANGED st
          /\ UNCHANGED owner /\ UNCHANGED cons /\ UNCHANGED tx /\ UNCHANGED rx /\ UNCHANGED ticks
          /\ UNCHANGED panic
      BY <1>1 DEF vars
    <2>2. Core'
      BY <2>1, NoWakes, WakeCore DEF IInv
    <2>3. DataTypeOK' /\ PanicOnlyWhenFull' /\ AllChecked' /\ SleepersHaveReason'
      BY <2>1 DEF IInv, DataTypeOK, PanicOnlyWhenFull, Full, AllChecked, Checked,
                  SleepersHaveReason, Minus
    <2> QED BY <2>2, <2>3 DEF IInv
  <1>2. ASSUME NEW c \in CPUs,
               \/ intr_get(c) \/ acquire(c) \/ acquired(c) \/ sleep(c) \/ exit(c)
               \/ uartputc(c) \/ uartstart(c) \/ uartputc_done(c) \/ sys_sleep(c) \/ sys_uptime(c)
               \/ \E fault \in BOOLEAN : consolewrite(c, fault) \/ consoleread(c, fault)
               \/ uart_interrupt(c) \/ clock_interrupt(c) \/ clockintr(c)
               \/ uartintr(c) \/ consoleintr(c) \/ sret(c)
               \/ \E p \in Procs : dispatch(c, p) \/ kill(c, p)
               \/ \E x \in Calls : syscall(c, x[1], x[2])
        PROVE  IInv'
    BY <1>2, AcquireInv, CallInv, QuietInv, UartputcInv, UartstartInv, SleepInv, HandlerInv, DispatchInv,
       ConsolereadInv, SysSleepInv, ClockInv, ConsoleintrInv
  <1> QED BY <1>1, <1>2, QuietInv DEF Next, Rest

-----------------------------------------------------------------------------
(* Theorems.                                                                *)

\* The invariant holds for any number of CPUs, processes, keys and interrupts.
THEOREM ConsoleInvariant == Spec => []IInv
  <1> QED BY InitInv, NextInv, PTL DEF Spec

\* push_off(), pop_off(), sleep(), yield() and the traps: interrupts are on
\* exactly outside of handlers and with no push_off() outstanding, and a CPU with
\* interrupts on holds no spinlock, whatever CPU a process comes back on.
THEOREM InterruptsFollowLocks == Spec => []InterruptsMatchLocks
  <1>1. ASSUME IInv
        PROVE  InterruptsMatchLocks
    <2>1. ASSUME NEW c \in CPUs
          PROVE  /\ cpu[c].intr <=> (cpu[c].noff = 0 /\ ~InHandler(c))
                 /\ cpu[c].noff = 0 => \A lk \in DOMAIN owner : owner[lk] # c
      <3>1. Off(c) /\ Owns(c) /\ DOMAIN owner = Locks
        BY <1>1 DEF IInv, Core, CpuInv, TypeOK
      <3>2. cpu[c].intr <=> (cpu[c].noff = 0 /\ ~InHandler(c))
        BY <3>1, SMTT(60) DEF Off
      <3>3. ASSUME cpu[c].noff = 0, NEW lk \in Locks
            PROVE  ~Held(c, lk)
        BY <3>1, <3>3, SMTT(60) DEF Off, Held
      <3> QED BY <3>1, <3>2, <3>3 DEF Owns
    <2> QED BY <2>1 DEF InterruptsMatchLocks
  <1> QED BY <1>1, ConsoleInvariant, PTL

\* acquire(), release() and pop_off() never panic, and sched() only in a write()
\* that finds the output buffer full.
THEOREM OnlyFullPanics == Spec => []PanicOnlyWhenFull
  <1>1. IInv => PanicOnlyWhenFull
    BY DEF IInv
  <1> QED BY <1>1, ConsoleInvariant, PTL

\* Who sleeps in consoleread() has no line to read, and who sleeps in sys_sleep()
\* has ticks left: no wakeup() is lost.
THEOREM NoLostWakeup == Spec => []SleepersHaveReason
  <1>1. IInv => SleepersHaveReason
    BY DEF IInv
  <1> QED BY <1>1, ConsoleInvariant, PTL
=============================================================================
