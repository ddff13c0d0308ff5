-------------------------------- MODULE Pipe --------------------------------
(***************************************************************************)
(* A pipe of kernel/pipe.c, shared by processes that inherited both of its *)
(* ends from fork() and that read, write, close their ends and get killed. *)
(*                                                                         *)
(* The lock of the pipe is in the variable lock.  sleep() gives it up in   *)
(* the step that puts the process to sleep: proc.c takes p->lock first.    *)
(***************************************************************************)
EXTENDS Integers, Sequences, FiniteSets

CONSTANTS Procs, Bytes, None,
          PIPESIZE,
          UintMod,   \* nread and nwrite are unsigned ints: 2^32 in the code
          Counts     \* bytes asked for in one call

ASSUME ConstantAssumption ==
  /\ PIPESIZE \in Nat \ {0} /\ UintMod \in Nat /\ Counts \subseteq Nat
  /\ UintMod % PIPESIZE = 0 /\ UintMod > PIPESIZE
  /\ None \notin Procs

VARIABLES
  data, nread, nwrite, readopen, writeopen,  \* struct pipe
  freed,   \* 1 after kfree(pi)
  lock,    \* the process that holds pi->lock
  ends,    \* per process: which ends it has open
  killed,
  pc, n, i \* per process: where it is, bytes asked for, bytes moved

pipe == <<data, nread, nwrite, readopen, writeopen, freed>>
vars == <<pipe, lock, ends, killed, pc, n, i>>

Reading == {"rwait", "rsleep", "rasleep", "rwake", "rcopy"}
Writing == {"wloop", "wsleep", "wasleep", "wwake"}
Closing == {"rclose", "wclose"}

Holding == {"rwait", "rsleep", "rcopy", "wloop", "wsleep"}  \* with pi->lock

TypeOK ==
  /\ readopen \in {0, 1} /\ writeopen \in {0, 1}
  /\ lock \in Procs \cup {None}
  /\ ends \in [Procs -> SUBSET {"r", "w"}]
  /\ killed \in [Procs -> {0, 1}]
  /\ pc \in [Procs -> {"idle"} \cup Reading \cup Writing \cup Closing]

\* pipealloc(), and fork() of the processes that share the pipe.
Init ==
  /\ data \in {[k \in 0..(PIPESIZE - 1) |-> b] : b \in Bytes}
  /\ nread = 0 /\ nwrite = 0
  /\ readopen = 1 /\ writeopen = 1 /\ freed = 0
  /\ lock = None
  /\ ends = [p \in Procs |-> {"r", "w"}]
  /\ killed = [p \in Procs |-> 0]
  /\ pc = [p \in Procs |-> "idle"]
  /\ n = [p \in Procs |-> 0]
  /\ i = [p \in Procs |-> 0]

-----------------------------------------------------------------------------
\* Mutant: one byte too many.
Full_M2 == nwrite = (nread + PIPESIZE + 1) % UintMod

Empty == nread = nwrite
Full  == nwrite = (nread + PIPESIZE) % UintMod

\* Mutant: nobody is woken.
wakeup_M1(c, p, l) == [pc EXCEPT ![p] = l]

\* pc after a step of p to l that wakes up everyone asleep at label c.
wakeup(c, p, l) ==
  [q \in Procs |-> IF q = p THEN l
                   ELSE IF pc[q] # c THEN pc[q]
                   ELSE IF c = "rasleep" THEN "rwake" ELSE "wwake"]

\* A process calls read() or write() for m bytes and gets the lock.
piperead(p, m) ==
  /\ pc[p] = "idle" /\ "r" \in ends[p] /\ killed[p] = 0 /\ lock = None
  /\ lock' = p
  /\ pc' = [pc EXCEPT ![p] = "rwait"]
  /\ n' = [n EXCEPT ![p] = m]
  /\ UNCHANGED <<pipe, ends, killed, i>>

pipewrite(p, m) ==
  /\ pc[p] = "idle" /\ "w" \in ends[p] /\ killed[p] = 0 /\ lock = None
  /\ lock' = p
  /\ pc' = [pc EXCEPT ![p] = "wloop"]
  /\ n' = [n EXCEPT ![p] = m]
  /\ UNCHANGED <<pipe, ends, killed, i>>

\* The test of the loop at the start of piperead().
read_test(p) ==
  /\ pc[p] = "rwait"
  /\ IF Empty /\ writeopen = 1
       THEN IF killed[p] = 1
              THEN pc' = [pc EXCEPT ![p] = "idle"] /\ lock' = None
              ELSE pc' = [pc EXCEPT ![p] = "rsleep"] /\ UNCHANGED lock
       ELSE pc' = [pc EXCEPT ![p] = "rcopy"] /\ UNCHANGED lock
  /\ n' = [n EXCEPT ![p] = IF pc'[p] = "idle" THEN 0 ELSE @]
  /\ UNCHANGED <<pipe, ends, killed, i>>

\* piperead() is done: wakeup(&pi->nwrite), release, return.
read_return(p) ==
  /\ pc' = wakeup("wasleep", p, "idle")
  /\ lock' = None
  /\ n' = [n EXCEPT ![p] = 0]
  /\ i' = [i EXCEPT ![p] = 0]

\* One turn of the copying loop; the byte is gone if copyout() fails.
read_copy(p) ==
  /\ pc[p] = "rcopy"
  /\ \/ /\ i[p] = n[p] \/ Empty
        /\ read_return(p)
        /\ UNCHANGED nread
     \/ /\ i[p] < n[p] /\ ~Empty
        /\ nread' = (nread + 1) % UintMod
        /\ \/ i' = [i EXCEPT ![p] = @ + 1] /\ UNCHANGED <<lock, pc, n>>
           \/ read_return(p)
  /\ UNCHANGED <<data, nwrite, readopen, writeopen, freed, ends, killed>>

\* Mutant: no test of readopen.
GiveUp_M1(p) == killed[p] = 1

GiveUp(p) == readopen = 0 \/ killed[p] = 1

\* One turn of the loop of pipewrite(): give up, sleep, put a byte, or return
\* at the end or when copyin() fails.
write_loop(p) ==
  /\ pc[p] = "wloop"
  /\ \/ /\ i[p] < n[p] /\ Full /\ GiveUp(p)
        /\ lock' = None
        /\ pc' = [pc EXCEPT ![p] = "idle"]
        /\ n' = [n EXCEPT ![p] = 0]
        /\ i' = [i EXCEPT ![p] = 0]
        /\ UNCHANGED <<data, nwrite>>
     \/ /\ i[p] < n[p] /\ Full /\ ~GiveUp(p)
        /\ pc' = wakeup("rasleep", p, "wsleep")
        /\ UNCHANGED <<data, nwrite, lock, n, i>>
     \/ /\ i[p] < n[p] /\ ~Full
        /\ \E b \in Bytes : data' = [data EXCEPT ![nwrite % PIPESIZE] = b]
        /\ nwrite' = (nwrite + 1) % UintMod
        /\ i' = [i EXCEPT ![p] = @ + 1]
        /\ UNCHANGED <<lock, pc, n>>
     \/ /\ i[p] = n[p] \/ ~Full
        /\ lock' = None
        /\ pc' = wakeup("rasleep", p, "idle")
        /\ n' = [n EXCEPT ![p] = 0]
        /\ i' = [i EXCEPT ![p] = 0]
        /\ UNCHANGED <<data, nwrite>>
  /\ UNCHANGED <<nread, readopen, writeopen, freed, ends, killed>>

sleep(p) ==
  /\ \/ pc[p] = "rsleep" /\ pc' = [pc EXCEPT ![p] = "rasleep"]
     \/ pc[p] = "wsleep" /\ pc' = [pc EXCEPT ![p] = "wasleep"]
  /\ lock' = None
  /\ UNCHANGED <<pipe, ends, killed, n, i>>

\* sleep() returns, with the lock.
wake(p) ==
  /\ lock = None
  /\ \/ pc[p] = "rwake" /\ pc' = [pc EXCEPT ![p] = "rwait"]
     \/ pc[p] = "wwake" /\ pc' = [pc EXCEPT ![p] = "wloop"]
  /\ lock' = p
  /\ UNCHANGED <<pipe, ends, killed, n, i>>

\* kill(), which also wakes up a sleeper.
kill(p) ==
  /\ killed[p] = 0
  /\ killed' = [killed EXCEPT ![p] = 1]
  /\ pc' = [pc EXCEPT ![p] = IF @ = "rasleep" THEN "rwake"
                             ELSE IF @ = "wasleep" THEN "wwake" ELSE @]
  /\ UNCHANGED <<pipe, lock, ends, n, i>>

\* Mutant: f->ref is not looked at.
LastRef_M1(p, e) == TRUE

LastRef(p, e) == \A q \in Procs \ {p} : e \notin ends[q]

\* fileclose() of one end; the last process to close it calls pipeclose().
fileclose(p, e) ==
  /\ pc[p] = "idle" /\ e \in ends[p]
  /\ ends' = [ends EXCEPT ![p] = @ \ {e}]
  /\ pc' = [pc EXCEPT ![p] =
              IF ~LastRef(p, e) THEN "idle"
              ELSE IF e = "r" THEN "rclose" ELSE "wclose"]
  /\ UNCHANGED <<pipe, lock, killed, n, i>>

pipeclose(p) ==
  /\ lock = None
  /\ \/ /\ pc[p] = "wclose"
        /\ writeopen' = 0
        /\ pc' = wakeup("rasleep", p, "idle")
        /\ UNCHANGED readopen
     \/ /\ pc[p] = "rclose"
        /\ readopen' = 0
        /\ pc' = wakeup("wasleep", p, "idle")
        /\ UNCHANGED writeopen
  /\ freed' = IF readopen' = 0 /\ writeopen' = 0 THEN 1 ELSE 0
  /\ UNCHANGED <<data, nread, nwrite, lock, ends, killed, n, i>>

\* A killed process exits, which closes its files.
Finish(p) == killed[p] = 1 /\ \E e \in {"r", "w"} : fileclose(p, e)

Step(p) == read_test(p) \/ read_copy(p) \/ write_loop(p) \/ sleep(p)

Next ==
  \E p \in Procs :
    \/ Step(p) \/ wake(p) \/ pipeclose(p) \/ kill(p)
    \/ \E m \in Counts : piperead(p, m) \/ pipewrite(p, m)
    \/ \E e \in {"r", "w"} : fileclose(p, e)

Spec == Init /\ [][Next]_vars

\* The holder of the lock goes on, and who spins for it gets it in the end.
FairSpec ==
  /\ Spec
  /\ \A p \in Procs : WF_vars(Step(p)) /\ SF_vars(wake(p)) /\ SF_vars(pipeclose(p))
                      /\ WF_vars(Finish(p))

-----------------------------------------------------------------------------
\* The pipe is not used after the last pipeclose() has freed it.
NoUseAfterFree ==
  freed = 1 => lock = None /\ \A p \in Procs : pc[p] = "idle"

\* When nobody is at work in the pipe, a reader is asleep only on an empty pipe
\* that can still be written and a writer only on a full one that can still be
\* read: no wakeup() is missed.  One case is left out: a writer that was killed
\* returns without wakeup(&pi->nread), with what it wrote in the pipe.
SleepersHaveReason ==
  lock = None =>
    \A p \in Procs :
      /\ pc[p] = "rasleep" =>
           writeopen = 1 /\ (Empty \/ \E q \in Procs : killed[q] = 1)
      /\ pc[p] = "wasleep" => Full /\ readopen = 1

\* The holder of pi->lock is the process that is inside the pipe.
LockInv == \A p \in Procs : lock = p <=> pc[p] \in Holding

\* A call has its end open; an end whose last reference is gone is closed by one
\* process, after which nobody has it.
EndsInv ==
  /\ \A p \in Procs : /\ pc[p] \in Reading => "r" \in ends[p]
                      /\ pc[p] \in Writing => "w" \in ends[p]
  /\ \A p \in Procs : /\ readopen = 0 => "r" \notin ends[p] /\ pc[p] # "rclose"
                      /\ writeopen = 0 => "w" \notin ends[p] /\ pc[p] # "wclose"
  /\ \A p, q \in Procs :
       /\ pc[p] = "rclose" => "r" \notin ends[q] /\ (pc[q] = "rclose" => q = p)
       /\ pc[p] = "wclose" => "w" \notin ends[q] /\ (pc[q] = "wclose" => q = p)
  /\ freed = IF readopen = 0 /\ writeopen = 0 THEN 1 ELSE 0

\* Who sleeps has a reason, or the process inside the pipe will wake it.
SleepInv ==
  \A p \in Procs :
    /\ pc[p] = "rsleep" => Empty /\ writeopen = 1
    /\ pc[p] = "wsleep" => Full /\ readopen = 1
    /\ pc[p] = "rasleep" =>
         writeopen = 1 /\ (Empty \/ \E q \in Procs : killed[q] = 1 \/ pc[q] = "wloop")
    /\ pc[p] = "wasleep" => readopen = 1 /\ (Full \/ \E q \in Procs : pc[q] = "rcopy")

\* The inductive invariant behind NoUseAfterFree and SleepersHaveReason: lock,
\* open ends, closes in progress and sleepers agree in every state.
IInv == TypeOK /\ LockInv /\ EndsInv /\ SleepInv

\* The bytes in the pipe.
Queue == [k \in 1..((nwrite - nread) % UintMod) |-> data[(nread + k - 1) % PIPESIZE]]

BSt == INSTANCE ByteStream WITH
  Capacity <- PIPESIZE, queue <- Queue, writable <- writeopen

\* Bytes are read in the order in which they were written, none twice, none
\* that was not written, also when nread and nwrite wrap around.
IsByteStream == BSt!Spec

\* When the last writer has closed its end, or the last reader, no call on the
\* other end stays blocked.
ReadersSeeEOF ==
  \A p \in Procs : (writeopen = 0 /\ pc[p] \in Reading) ~> pc[p] \notin Reading
WritersSeeClose ==
  \A p \in Procs : (readopen = 0 /\ pc[p] \in Writing) ~> pc[p] \notin Writing
=============================================================================
