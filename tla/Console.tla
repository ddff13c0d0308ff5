------------------------------ MODULE Console ------------------------------
(***************************************************************************)
(* The console: console.c and uart.c, run by processes on several CPUs and *)
(* by interrupt handlers on top of them, with the spinlocks of spinlock.c, *)
(* the interrupt enabling of push_off() and pop_off(), sleep() and yield() *)
(* of proc.c, the clock and sys_sleep().                                   *)
(*                                                                         *)
(* What runs on a CPU is a handler if one is active there, else a process. *)
(* A process takes a spinlock in two steps, with interrupts read and then  *)
(* disabled, or three when it spins; the code under the lock, up to the    *)
(* release, the next lock, a turn of a loop or sleep(), is one more.       *)
(* p->lock is only held within a step.  No step follows a panic, so what   *)
(* else the step of a panic would have done is of no account.              *)
(***************************************************************************)
EXTENDS Integers, Sequences, FiniteSets

CONSTANTS CPUs, Procs, None,
          CPU0,              \* the CPU whose clock interrupts count ticks
          Keys,              \* characters that are typed
          INPUT_BUF, UART_TX_BUF_SIZE,
          UintMod,           \* 2^32, a multiple of INPUT_BUF
          Calls,             \* the calls made: pairs of a name and an argument n
          Typed,             \* lines complete and begun, typed before the first step
          Start,             \* cons.r and ticks then, close to wrapping around
          MaxCalls, MaxKeys, MaxClock  \* bounds: calls, keys, clock interrupts

ASSUME ConsoleAssumption ==
  /\ CPU0 \in CPUs /\ None \notin Procs \cup CPUs
  /\ INPUT_BUF \in Nat \ {0} /\ UART_TX_BUF_SIZE \in Nat \ {0, 1}
  /\ UintMod \in Nat /\ UintMod > INPUT_BUF /\ UintMod % INPUT_BUF = 0
  /\ Start \in 0..UintMod-1
  /\ Calls \subseteq {"read", "write", "sleep", "uptime"} \X Nat
  /\ {MaxCalls, MaxKeys, MaxClock} \subseteq Nat

VARIABLES cpu,      \* of each CPU: intr (interrupts enabled), noff, and intena,
                    \* which is FALSE here while noff is 0 and it has no use
          run,      \* the process on each CPU, or None: the scheduler
          h,        \* the handler on each CPU
          k,        \* kernel side of each process
          st,       \* p->state, with the channel of a sleeper
          killed,
          owner,    \* of each spinlock: the CPU that holds it, or None
          cons, tx, \* input and output buffers with their indices
          busy,     \* the UART's transmit holding register is full
          rx,       \* the character in its receive register, or "none"
          irq, claimed,   \* UART interrupt pending; being served
          ticks, got, sent, ncalls, nkeys, nclock, panic

vars == <<cpu, run, h, k, st, killed, owner, cons, tx, busy, rx, irq, claimed,
          ticks, got, sent, ncalls, nkeys, nclock, panic>>
devs  == <<busy, rx, irq, claimed, nkeys, nclock>>
bufs  == <<cons, tx, got, sent, ticks>>
sched == <<run, st, killed, ncalls>>

Minus(a, b) == (a - b) % UintMod
Plus(a, b) == (a + b) % UintMod

Idle == [dev |-> "none", pc |-> "none", lock |-> "none", key |-> "none"]
InUser == [op |-> "none", pc |-> "user", lock |-> "none", n |-> 0, i |-> 0, t0 |-> None,
           old |-> FALSE, intena |-> TRUE, trap |-> FALSE]

\* Every CPU runs a process, in user space.
Init ==
  /\ cpu = [c \in CPUs |-> [intr |-> TRUE, noff |-> 0, intena |-> FALSE]]
  /\ run \in {r \in [CPUs -> Procs] : \A c, d \in CPUs : r[c] = r[d] => c = d}
  /\ h = [c \in CPUs |-> Idle]
  /\ k = [p \in Procs |-> InUser]
  /\ st = [p \in Procs |-> IF \E c \in CPUs : run[c] = p THEN "running" ELSE "runnable"]
  /\ killed = [p \in Procs |-> FALSE]
  /\ owner = [lk \in {"cons", "uart", "ticks"} |-> None]
  /\ \E t \in Typed :
       LET w == Plus(Start, Len(t.line))
           all == t.line \o t.edit
       IN cons = [r |-> Start, w |-> w, e |-> Plus(w, Len(t.edit)),
                  buf |-> [i \in 0..INPUT_BUF-1 |->
                     LET n == (i - Start) % INPUT_BUF IN
                     IF n < Len(all) THEN all[n + 1] ELSE "none"]]
  /\ tx = [r |-> 0, w |-> 0, buf |-> [i \in 0..UART_TX_BUF_SIZE-1 |-> <<>>]]
  /\ busy = FALSE /\ rx = "none" /\ irq = FALSE /\ claimed = FALSE
  /\ ticks = Start /\ got = "none" /\ sent = <<>>
  /\ ncalls = 0 /\ nkeys = 0 /\ nclock = 0 /\ panic = "none"

-----------------------------------------------------------------------------
(* Spinlocks and interrupt enabling.                                        *)

InHandler(c) == h[c].dev # "none"
Pc(c) == IF InHandler(c) THEN h[c].pc ELSE IF run[c] = None THEN "scheduler" ELSE k[run[c]].pc
Lock(c) == IF InHandler(c) THEN h[c].lock ELSE k[run[c]].lock
At(c, pc) == panic = "none" /\ Pc(c) = pc
Holds(c, lk) == At(c, "in") /\ Lock(c) = lk

Goto(c, pc) ==
  IF InHandler(c) THEN h' = [h EXCEPT ![c].pc = pc] /\ UNCHANGED k
  ELSE k' = [k EXCEPT ![run[c]].pc = pc] /\ UNCHANGED h

Stop(why) == panic' = why /\ UNCHANGED <<cpu, h, k, owner, bufs, devs, sched>>

\* Mutant: intena saved at every level.
push_off_M1(x, old) == [x EXCEPT !.intena = old, !.intr = FALSE, !.noff = @ + 1]

\* push_off() from intr_off() on, old being what intr_get() returned.  pop_off()
\* runs with interrupts off to its last instruction.
push_off(x, old) == [x EXCEPT !.intena = IF x.noff = 0 THEN old ELSE @,
                              !.intr = FALSE, !.noff = @ + 1]
pop_off(x) == [x EXCEPT !.noff = @ - 1, !.intr = x.noff = 1 /\ x.intena,
                        !.intena = @ /\ x.noff > 1]

\* The test-and-set of acquire() on lk: it succeeds at once or in a later step.
Try(c, lk) == owner' = [owner EXCEPT ![lk] = IF @ = None THEN c ELSE @]
Tried(lk) == IF owner[lk] = None THEN "in" ELSE "spin"

holding(c, lk) == owner[lk] = c

\* push_off() of a process that slept begins: like one in a call (see syscall) it
\* may be interrupted, and moved to another CPU, before it disables interrupts.
intr_get(c) ==
  /\ At(c, "call")
  /\ k' = [k EXCEPT ![run[c]].pc = "enter", ![run[c]].old = cpu[c].intr]
  /\ UNCHANGED <<cpu, h, owner, bufs, devs, sched, panic>>

\* acquire() of the code that runs on c: a panic if this CPU holds the lock.
acquire(c) ==
  LET old == IF InHandler(c) THEN cpu[c].intr ELSE k[run[c]].old IN
  /\ At(c, "enter")
  /\ IF holding(c, Lock(c)) THEN Stop("acquire")
     ELSE /\ cpu' = [cpu EXCEPT ![c] = push_off(@, old)]
          /\ Try(c, Lock(c)) /\ Goto(c, Tried(Lock(c)))
          /\ UNCHANGED <<bufs, devs, sched, panic>>

acquired(c) ==
  /\ At(c, "spin") /\ owner[Lock(c)] = None
  /\ owner' = [owner EXCEPT ![Lock(c)] = c]
  /\ Goto(c, "in")
  /\ UNCHANGED <<cpu, bufs, devs, sched, panic>>

\* The panics of release() and of its pop_off().
ReleasePanic(c, lk) ==
  CASE ~holding(c, lk) -> "release"
    [] holding(c, lk) /\ cpu[c].intr -> "pop_off - interruptible"
    [] holding(c, lk) /\ ~cpu[c].intr /\ cpu[c].noff < 1 -> "pop_off"
    [] OTHER -> "none"

release(c, lk) == /\ owner' = [owner EXCEPT ![lk] = None]
                  /\ cpu' = [cpu EXCEPT ![c] = pop_off(@)]
                  /\ panic' = ReleasePanic(c, lk)

-----------------------------------------------------------------------------
(* Scheduling.                                                              *)

\* The CPU is back in scheduler(), which enables interrupts.
ToScheduler(c) == /\ run' = [run EXCEPT ![c] = None]
                  /\ cpu' = [cpu EXCEPT ![c] = [intr |-> TRUE, noff |-> 0, intena |-> FALSE]]

\* The panics of sched() that depend on x, the CPU's state with p->lock held.
\* Its callers hold p->lock and have set p->state.
SchedPanic(x) == CASE x.noff # 1 -> "sched locks"
                   [] x.noff = 1 /\ x.intr -> "sched interruptible"
                   [] OTHER -> "none"

\* What a process sleeps for that holds lk.
Chan(lk) == CASE lk = "cons" -> "cons.r" [] lk = "uart" -> "uart_tx" [] lk = "ticks" -> "ticks"

\* sleep(Chan(lk), lk) of the process on c: p->lock is taken and lk released,
\* sched() saves intena, and the process takes lk again when it wakes.
sleep(c) ==
  LET p == run[c]
      lk == Lock(c)
      x == pop_off(push_off(cpu[c], cpu[c].intr))
  IN
  /\ At(c, "sleep")
  /\ IF ~holding(c, lk) THEN Stop("release")
     ELSE IF SchedPanic(x) # "none" THEN Stop(SchedPanic(x))
     ELSE /\ owner' = [owner EXCEPT ![lk] = None]
          /\ st' = [st EXCEPT ![p] = Chan(lk)]
          /\ k' = [k EXCEPT ![p].pc = "call", ![p].intena = x.intena]
          /\ ToScheduler(c)
          /\ UNCHANGED <<h, bufs, devs, killed, ncalls, panic>>

Woken(chan) == [p \in Procs |-> IF st[p] = chan THEN "runnable" ELSE st[p]]

\* yield() at the end of a clock interrupt, with x the CPU's state then: the
\* process comes back in the handler.  In the scheduler there is none to yield.
yield(c, x) ==
  LET p == run[c] IN
  /\ h' = [h EXCEPT ![c] = Idle]
  /\ cpu' = [cpu EXCEPT ![c] = [x EXCEPT !.intr = TRUE]]
  /\ run' = [run EXCEPT ![c] = None]
  /\ k' = IF p = None THEN k ELSE [k EXCEPT ![p].trap = TRUE, ![p].intena = FALSE]

YieldPanic(c, x) == IF run[c] = None THEN "none" ELSE SchedPanic(push_off(x, x.intr))
Yielded(c, s) == [p \in Procs |-> IF p = run[c] THEN "runnable" ELSE s[p]]

\* scheduler() runs p, whose sched() restores intena; p->lock is then released.
dispatch(c, p) ==
  /\ At(c, "scheduler") /\ st[p] = "runnable" /\ cpu[c].intr
  /\ st' = [st EXCEPT ![p] = "running"]
  /\ run' = [run EXCEPT ![c] = p]
  /\ cpu' = [cpu EXCEPT ![c].intr = k[p].intena]
  /\ h' = IF k[p].trap THEN [h EXCEPT ![c] = [Idle EXCEPT !.dev = "clock", !.pc = "ret"]] ELSE h
  /\ k' = [k EXCEPT ![p].trap = FALSE, ![p].intena = TRUE]
  /\ UNCHANGED <<owner, bufs, devs, killed, ncalls, panic>>

-----------------------------------------------------------------------------
(* System calls.                                                            *)

Running(c, op, lk) == Holds(c, lk) /\ ~InHandler(c) /\ k[run[c]].op = op

\* A call returns after releasing lk.
Return(c, lk) == release(c, lk) /\ k' = [k EXCEPT ![run[c]] = InUser] /\ UNCHANGED h

\* A call enters the kernel and comes to its first acquire(), whose push_off()
\* has looked at interrupts and not disabled them yet.
syscall(c, op, n) ==
  LET lk == IF op \in {"sleep", "uptime"} THEN "ticks" ELSE "cons" IN
  /\ At(c, "user") /\ ~killed[run[c]] /\ ncalls < MaxCalls
  /\ k' = [k EXCEPT ![run[c]] = [@ EXCEPT !.op = op, !.pc = "enter", !.n = n, !.lock = lk,
                                       !.old = cpu[c].intr]]
  /\ ncalls' = ncalls + 1
  /\ UNCHANGED <<cpu, run, h, st, killed, owner, bufs, devs, panic>>

Asleep(p) == st[p] \notin {"runnable", "running"}

kill(c, p) ==
  /\ At(c, "user") /\ ~killed[run[c]] /\ ncalls < MaxCalls
  /\ killed' = [killed EXCEPT ![p] = TRUE]
  /\ st' = [st EXCEPT ![p] = IF Asleep(p) THEN "runnable" ELSE @]
  /\ ncalls' = ncalls + 1
  /\ UNCHANGED <<cpu, run, h, k, owner, bufs, devs, panic>>

\* A killed process exits on its way to user space; a new one takes its place.
exit(c) ==
  /\ At(c, "user") /\ killed[run[c]]
  /\ killed' = [killed EXCEPT ![run[c]] = FALSE]
  /\ UNCHANGED <<cpu, run, h, k, st, owner, bufs, devs, ncalls, panic>>

\* consolewrite() holds cons.lock from the first byte to the last, or to one
\* that either_copyin() cannot read.
consolewrite(c, fault) ==
  LET j == k[run[c]] IN
  /\ Running(c, "write", "cons")
  /\ IF j.i = j.n \/ fault THEN Return(c, "cons")
     ELSE /\ k' = [k EXCEPT ![run[c]].pc = Tried("uart"), ![run[c]].lock = "uart"]
          /\ cpu' = [cpu EXCEPT ![c] = push_off(@, cpu[c].intr)]
          /\ Try(c, "uart") /\ UNCHANGED <<h, panic>>
  /\ UNCHANGED <<bufs, devs, sched>>

Full == (tx.w + 1) % UART_TX_BUF_SIZE = tx.r

\* uartputc() under uart_tx_lock, which consolewrite() calls under cons.lock: the
\* byte is put in the buffer and uartstart() called, or the buffer is full.
uartputc(c) ==
  LET p == run[c] IN
  /\ Running(c, "write", "uart")
  /\ IF Full THEN Goto(c, "sleep") /\ UNCHANGED tx
     ELSE /\ tx' = [tx EXCEPT !.buf[tx.w] = <<p, k[p].i>>, !.w = (@ + 1) % UART_TX_BUF_SIZE]
          /\ Goto(c, "tx")
  /\ UNCHANGED <<cpu, owner, cons, got, sent, ticks, devs, sched, panic>>

\* The code on c is in uartstart(), called by uartputc() or by uartintr().
Starting(c) == At(c, "tx") \/ (Holds(c, "uart") /\ InHandler(c))

\* A turn of uartstart()'s loop: a byte goes out if the UART can take one.
uartstart(c) ==
  /\ Starting(c) /\ tx.w # tx.r /\ ~busy
  /\ tx' = [tx EXCEPT !.r = (@ + 1) % UART_TX_BUF_SIZE]
  /\ st' = Woken("uart_tx")
  /\ sent' = tx.buf[tx.r] /\ busy' = TRUE
  /\ UNCHANGED <<cpu, h, k, owner, cons, got, ticks, rx, irq, claimed, nkeys, nclock,
                 run, killed, ncalls, panic>>

\* The end of uartstart() and of uartputc(), back in consolewrite()'s loop.
uartputc_done(c) ==
  /\ At(c, "tx") /\ (tx.w = tx.r \/ busy)
  /\ release(c, "uart")
  /\ k' = [k EXCEPT ![run[c]].pc = "in", ![run[c]].lock = "cons", ![run[c]].i = @ + 1]
  /\ UNCHANGED <<h, bufs, devs, sched>>

\* One round of consoleread()'s loop, whose either_copyout() may fail.  It comes
\* to sleep() after it looked at killed.
consoleread(c, fault) ==
  LET p == run[c]
      j == k[p]
      ch == cons.buf[cons.r % INPUT_BUF]
  IN
  /\ Running(c, "read", "cons")
  /\ IF j.i = j.n \/ (cons.r = cons.w /\ killed[p])
     THEN Return(c, "cons") /\ UNCHANGED <<cons, got>>
     ELSE IF cons.r = cons.w
     THEN Goto(c, "sleep") /\ UNCHANGED <<cons, got, cpu, owner, panic>>
     ELSE /\ IF ch = "eof" /\ j.i > 0 THEN UNCHANGED <<cons, got>>
             ELSE cons' = [cons EXCEPT !.r = Plus(@, 1)] /\ got' = ch
          /\ IF ch \in {"eof", "newline"} \/ fault THEN Return(c, "cons")
             ELSE k' = [k EXCEPT ![p].i = @ + 1] /\ UNCHANGED <<cpu, h, owner, panic>>
  /\ UNCHANGED <<tx, sent, ticks, devs, sched>>

\* sys_sleep(): t0 is the tick count when the call first held tickslock.
sys_sleep(c) ==
  LET p == run[c]
      t0 == IF k[p].t0 = None THEN ticks ELSE k[p].t0
  IN
  /\ Running(c, "sleep", "ticks")
  /\ IF Minus(ticks, t0) >= k[p].n \/ killed[p]
     THEN Return(c, "ticks")
     ELSE /\ k' = [k EXCEPT ![p].t0 = t0, ![p].pc = "sleep"]
          /\ UNCHANGED <<cpu, h, owner, panic>>
  /\ UNCHANGED <<bufs, devs, sched>>

sys_uptime(c) ==
  /\ Running(c, "uptime", "ticks")
  /\ Return(c, "ticks") /\ UNCHANGED <<bufs, devs, sched>>

-----------------------------------------------------------------------------
(* Interrupts.                                                              *)

\* A trap to kerneltrap() or usertrap(): the hardware disables interrupts, and
\* the handler comes to its first acquire().
Trap(c, handler) ==
  /\ panic = "none" /\ cpu[c].intr
  /\ IF holding(c, handler.lock)
     THEN panic' = "acquire" /\ UNCHANGED <<h, cpu, owner>>
     ELSE /\ h' = [h EXCEPT ![c] = [handler EXCEPT !.pc = Tried(handler.lock)]]
          /\ cpu' = [cpu EXCEPT ![c] = push_off([@ EXCEPT !.intr = FALSE], FALSE)]
          /\ Try(c, handler.lock) /\ UNCHANGED panic
  /\ UNCHANGED <<k, bufs, sched>>

\* A round of uartintr()'s loop: uartgetc() finds a character for consoleintr(),
\* or the loop ends and uartstart() is next.
UartRound == [dev |-> "uart", pc |-> "enter", key |-> rx,
              lock |-> IF rx = "none" THEN "uart" ELSE "cons"]

\* The PLIC gives a pending interrupt to one CPU until that completes it.
plic_claim == irq /\ ~claimed /\ irq' = FALSE /\ claimed' = TRUE
plic_complete == claimed' = FALSE

\* devintr() claims the UART's interrupt and calls uartintr().
uart_interrupt(c) ==
  /\ plic_claim
  /\ rx' = "none"
  /\ Trap(c, UartRound)
  /\ UNCHANGED <<busy, nkeys, nclock>>

\* The end of uartintr(), plic_complete() and the return from the trap.
uartintr(c) ==
  /\ Holds(c, "uart") /\ InHandler(c) /\ (tx.w = tx.r \/ busy)
  /\ owner' = [owner EXCEPT !["uart"] = None]
  /\ cpu' = [cpu EXCEPT ![c] = [pop_off(@) EXCEPT !.intr = TRUE]]
  /\ panic' = ReleasePanic(c, "uart")
  /\ plic_complete
  /\ h' = [h EXCEPT ![c] = Idle]
  /\ UNCHANGED <<k, bufs, sched, busy, rx, irq, nkeys, nclock>>

\* devintr() of a clock interrupt: clockintr() on CPU0, on others only yield().
clock_interrupt(c) ==
  /\ nclock < MaxClock /\ nclock' = nclock + 1
  /\ IF c = CPU0 THEN Trap(c, [Idle EXCEPT !.dev = "clock", !.lock = "ticks"])
     ELSE /\ panic = "none" /\ cpu[c].intr
          /\ yield(c, [cpu[c] EXCEPT !.intr = FALSE]) /\ st' = Yielded(c, st)
          /\ panic' = YieldPanic(c, [cpu[c] EXCEPT !.intr = FALSE])
          /\ UNCHANGED <<owner, bufs, killed, ncalls>>
  /\ UNCHANGED <<busy, rx, irq, claimed, nkeys>>

clockintr(c) ==
  /\ Holds(c, "ticks") /\ InHandler(c)
  /\ ticks' = Plus(ticks, 1)
  /\ st' = Yielded(c, Woken("ticks"))
  /\ owner' = [owner EXCEPT !["ticks"] = None]
  /\ yield(c, pop_off(cpu[c]))
  /\ panic' = IF ReleasePanic(c, "ticks") # "none" THEN ReleasePanic(c, "ticks")
              ELSE YieldPanic(c, pop_off(cpu[c]))
  /\ UNCHANGED <<killed, ncalls, cons, tx, got, sent, devs>>

\* Mutant: C('U') does not stop at the lines already handed to readers.
KillLength_M1 ==
  LET n == Minus(cons.e, cons.r) IN
  CHOOSE d \in 0..n :
    /\ d = n \/ cons.buf[Minus(cons.e, d + 1) % INPUT_BUF] = "newline"
    /\ \A x \in 0..d-1 : cons.buf[Minus(cons.e, x + 1) % INPUT_BUF] # "newline"

\* How many characters C('U') takes back: to the start of the line.
KillLength ==
  LET n == Minus(cons.e, cons.w) IN
  CHOOSE d \in 0..n :
    /\ d = n \/ cons.buf[Minus(cons.e, d + 1) % INPUT_BUF] = "newline"
    /\ \A x \in 0..d-1 : cons.buf[Minus(cons.e, x + 1) % INPUT_BUF] # "newline"

\* The input buffer after a key.
Edited(key) ==
  LET e == Plus(cons.e, 1)
      stored == [cons EXCEPT !.buf[cons.e % INPUT_BUF] = key, !.e = e]
  IN CASE key = "kill" -> [cons EXCEPT !.e = Minus(@, KillLength)]
       [] key = "backspace" -> IF cons.e = cons.w THEN cons ELSE [cons EXCEPT !.e = Minus(@, 1)]
       [] OTHER -> IF Minus(cons.e, cons.r) >= INPUT_BUF THEN cons
                   ELSE IF key \in {"newline", "eof"} \/ e = Plus(cons.r, INPUT_BUF)
                   THEN [stored EXCEPT !.w = e]
                   ELSE stored

\* uartputc_sync() spins until the UART is idle.  It tests LSR and writes THR
\* without uart_tx_lock; uartstart() on another CPU may write between the two,
\* and the chip's FIFO then takes both bytes.  Here the two are one step.
uartputc_sync == ~busy

\* consputc() echoes a key that changed the buffer to new.
consputc(new) == /\ new # cons => uartputc_sync
                 /\ busy' = (busy \/ new # cons)

\* Mutant: readers are not woken when the buffer fills up without a newline.
consoleintr_M1(c) ==
  LET new == Edited(h[c].key) IN
  /\ Holds(c, "cons") /\ InHandler(c)
  /\ consputc(new)
  /\ cons' = new
  /\ st' = IF h[c].key \in {"newline", "eof"} THEN Woken("cons.r") ELSE st
  /\ release(c, "cons")
  /\ h' = [h EXCEPT ![c] = UartRound] /\ rx' = "none"
  /\ UNCHANGED <<k, run, killed, ncalls, tx, got, sent, ticks, irq, claimed, nkeys, nclock>>

\* consoleintr() echoes what changed, waiting for the UART to be idle.
consoleintr(c) ==
  LET new == Edited(h[c].key) IN
  /\ Holds(c, "cons") /\ InHandler(c)
  /\ consputc(new)
  /\ cons' = new
  /\ st' = IF new.w # cons.w THEN Woken("cons.r") ELSE st
  /\ release(c, "cons")
  /\ h' = [h EXCEPT ![c] = UartRound] /\ rx' = "none"
  /\ UNCHANGED <<k, run, killed, ncalls, tx, got, sent, ticks, irq, claimed, nkeys, nclock>>

\* The return from the trap of a process that yielded.
sret(c) ==
  /\ At(c, "ret")
  /\ h' = [h EXCEPT ![c] = Idle]
  /\ cpu' = [cpu EXCEPT ![c].intr = TRUE]
  /\ UNCHANGED <<k, owner, bufs, devs, sched, panic>>

-----------------------------------------------------------------------------
(* The UART.                                                                *)

key_typed(key) ==
  /\ panic = "none" /\ rx = "none" /\ nkeys < MaxKeys
  /\ rx' = key /\ irq' = TRUE /\ nkeys' = nkeys + 1
  /\ UNCHANGED <<cpu, h, k, owner, bufs, sched, busy, claimed, nclock, panic>>

byte_sent ==
  /\ panic = "none" /\ busy
  /\ busy' = FALSE /\ irq' = TRUE
  /\ UNCHANGED <<cpu, h, k, owner, bufs, sched, rx, claimed, nkeys, nclock, panic>>

\* After a panic, or with no call or handler under way, nothing need happen.
Rest == /\ panic # "none" \/ \A c \in CPUs : Pc(c) \in {"user", "scheduler"}
        /\ UNCHANGED vars

Next ==
  \/ byte_sent \/ Rest
  \/ \E key \in Keys : key_typed(key)
  \/ \E c \in CPUs :
       \/ intr_get(c) \/ acquire(c) \/ acquired(c) \/ sleep(c) \/ exit(c)
       \/ uartputc(c) \/ uartstart(c) \/ uartputc_done(c) \/ sys_sleep(c) \/ sys_uptime(c)
       \/ \E fault \in BOOLEAN : consolewrite(c, fault) \/ consoleread(c, fault)
       \/ uart_interrupt(c) \/ clock_interrupt(c) \/ clockintr(c)
       \/ uartintr(c) \/ consoleintr(c) \/ sret(c)
       \/ \E p \in Procs : dispatch(c, p) \/ kill(c, p)
       \/ \E x \in Calls : syscall(c, x[1], x[2])

Spec == Init /\ [][Next]_vars

-----------------------------------------------------------------------------
(* Properties.                                                              *)

\* Interrupts are on exactly when the CPU has no push_off() outstanding and is
\* not in a handler; a CPU with interrupts on holds no spinlock.  So a handler
\* never spins on a lock of the code it interrupted, and interrupts come back
\* on after every call, across sleep() and yield() on different CPUs.
InterruptsMatchLocks == panic = "none" =>
  \A c \in CPUs :
    /\ cpu[c].intr <=> (cpu[c].noff = 0 /\ ~InHandler(c))
    /\ cpu[c].noff = 0 => \A lk \in DOMAIN owner : owner[lk] # c

\* uart.c:82-85: uartputc() "blocks if the output buffer is full" and is "suitable
\* for use by write()": a write() that finds the buffer full sleeps until there is
\* room, and sched() has nothing to complain of.
FullBufferBlocks == panic # "sched locks"

\* No wakeup is lost: who sleeps for input has none, who sleeps for time has
\* some left.
SleepersHaveReason == \A p \in Procs :
  /\ st[p] = "cons.r" => cons.r = cons.w
  /\ st[p] = "ticks" => Minus(ticks, k[p].t0) < k[p].n

\* The input and output buffers, with indices that wrap around, implement a
\* terminal: keys edit a line, lines reach readers in order and in full, bytes
\* go out in the order they were put.
Between(buf, size, a, n) == [i \in 1..n |-> buf[(a + i - 1) % size]]
T == INSTANCE Terminal WITH
       Bytes <- Procs \X UNION {0..x[2] : x \in Calls},
       InputSize <- INPUT_BUF, OutputSize <- UART_TX_BUF_SIZE - 1,
       edit <- Between(cons.buf, INPUT_BUF, cons.w, Minus(cons.e, cons.w)),
       line <- Between(cons.buf, INPUT_BUF, cons.r, Minus(cons.w, cons.r)),
       outq <- Between(tx.buf, UART_TX_BUF_SIZE, tx.r, (tx.w - tx.r) % UART_TX_BUF_SIZE)
RefinesTerminal == T!Spec
=============================================================================
