------------------------------- MODULE Virtio -------------------------------
(***************************************************************************)
(* The disk driver of kernel/virtio_disk.c: descriptors, the two rings and *)
(* the completion interrupt, with processes on several CPUs and a device   *)
(* that takes requests in order and completes them in any order.           *)
(*                                                                         *)
(* disk.vdisk_lock is in the variable lock where a section of it is more   *)
(* than one step: the device and its interrupt line do not wait for it.    *)
(* A process holds the sleep-lock of its buffer, so a buffer and its block *)
(* are named by the process.  The device reports no errors.                *)
(***************************************************************************)
EXTENDS Integers, FiniteSets, FiniteSetsExt

CONSTANTS Procs, Values, None,
          NUM,      \* descriptors
          UintMod,  \* the ring indices are uint16: 2^16 in the code
          Start,    \* requests made, one at a time, before the model starts
          MaxCalls  \* bound: requests made after that

ASSUME ConstantAssumption ==
  /\ NUM \in Nat /\ NUM >= 3 /\ UintMod \in Nat
  /\ UintMod % NUM = 0 /\ UintMod > NUM
  /\ None \notin Procs /\ Start \in 1..(UintMod - 1) /\ MaxCalls \in Nat

VARIABLES
  free, desc,  \* disk.free, disk.desc: whose memory, flags & F_NEXT, next
  info,        \* disk.info[].b
  ring, avail, \* disk.avail[2...], disk.avail[1]
  elems, used, \* disk.used->elems[].id, disk.used->id
  used_idx,    \* disk.used_idx
  bdisk,       \* b->disk of each process's buffer
  disk, data,  \* contents of its block and of its buffer
  dir,         \* buf0.type: what it asked for
  seen, busy,  \* device: its place in the avail ring, the chains it works on
  isr,         \* device: its interrupt status
  irq,         \* where the interrupt handler is
  lock, pc,    \* vdisk_lock, and where each process is
  idx,         \* idx[0] of each process
  calls        \* requests made

drv  == <<free, desc, info, ring, avail, used_idx, bdisk>>
dev  == <<elems, used, disk, seen, busy>>
vars == <<drv, dev, data, dir, isr, irq, lock, pc, idx, calls>>

Ids     == 0..(NUM - 1)
Waiting == {"wait", "woken"}

TypeOK ==
  /\ free \in [Ids -> {0, 1}]
  /\ desc \in [Ids -> [addr : Procs \cup {None}, more : {0, 1}, next : Ids]]
  /\ info \in [Ids -> Procs \cup {None}]
  /\ ring \in [Ids -> Ids] /\ elems \in [Ids -> Ids]
  /\ {avail, used, seen} \subseteq 0..(UintMod - 1) /\ used_idx \in Ids
  /\ bdisk \in [Procs -> {0, 1}]
  /\ disk \in [Procs -> Values] /\ data \in [Procs -> Values]
  /\ dir \in [Procs -> {"read", "write"}]
  /\ busy \subseteq Ids /\ isr \in {0, 1}
  /\ irq \in {"off", "loop", "ack", "panic"}
  /\ lock \in Procs \cup {None}
  /\ pc \in [Procs -> {"idle", "alloc", "nodesc", "notify", "panic"} \cup Waiting]
  /\ idx \in [Procs -> Ids] /\ calls \in 0..MaxCalls

\* virtio_disk_init(), and requests that found descriptors 0, 1 and 2 free.
Init ==
  /\ free = [i \in Ids |-> 1]
  /\ desc = [i \in Ids |-> [addr |-> None, more |-> IF i < 2 THEN 1 ELSE 0,
                            next |-> IF i < 2 THEN i + 1 ELSE 0]]
  /\ info = [i \in Ids |-> None]
  /\ ring = [i \in Ids |-> 0] /\ elems = [i \in Ids |-> 0]
  /\ avail = Start /\ used = avail /\ used_idx = avail % NUM /\ seen = avail
  /\ bdisk = [p \in Procs |-> 0]
  /\ disk \in [Procs -> Values] /\ data \in [Procs -> Values]
  /\ dir = [p \in Procs |-> "read"]
  /\ busy = {} /\ isr = 0 /\ irq = "off"
  /\ lock = None
  /\ pc = [p \in Procs |-> "idle"]
  /\ idx = [p \in Procs |-> 0] /\ calls = 0

-----------------------------------------------------------------------------
\* Mutant: the index does not wrap around.
NextIdx_M1(n) == n + 1

NextIdx(n) == (n + 1) % UintMod

LockFree == lock = None /\ irq \notin {"loop", "ack"}

\* Mutant: alloc_desc() does not look at disk.free.
FreeIds_M1 == Ids

FreeIds == {i \in Ids : free[i] = 1}

\* Mutant: nobody is woken.
wake_free_M1(p, l) == [pc EXCEPT ![p] = l]

\* pc after wakeup(&disk.free[0]) by p, which goes to l.
wake_free(p, l) ==
  [q \in Procs |-> IF q = p THEN l ELSE IF pc[q] = "nodesc" THEN "alloc" ELSE pc[q]]

\* bread() or bwrite() of a buffer that the process may have changed.
virtio_disk_rw(p, d, v) ==
  /\ pc[p] = "idle" /\ calls < MaxCalls
  /\ calls' = calls + 1
  /\ dir' = [dir EXCEPT ![p] = d]
  /\ data' = [data EXCEPT ![p] = v]
  /\ pc' = [pc EXCEPT ![p] = "alloc"]
  /\ UNCHANGED <<drv, dev, isr, irq, lock, idx>>

\* alloc3_desc() fails: what it got it frees, which wakes other sleepers.
rw_sleep(p) ==
  /\ pc[p] = "alloc" /\ LockFree
  /\ Cardinality(FreeIds) < 3
  /\ pc' = IF FreeIds = {} THEN [pc EXCEPT ![p] = "nodesc"] ELSE wake_free(p, "nodesc")
  /\ UNCHANGED <<drv, dev, data, dir, isr, irq, lock, idx, calls>>

\* The three descriptors of a request of p.
format(p, i, j, k) ==
  [desc EXCEPT ![i] = [addr |-> p, more |-> 1, next |-> j],
               ![j] = [addr |-> p, more |-> 1, next |-> k],
               ![k] = [addr |-> p, more |-> 0, next |-> 0]]

\* alloc3_desc() succeeds: the request, and its slot in the ring.
rw_format(p) ==
  LET i == Min(FreeIds)
      j == Min(FreeIds \ {i})
      k == Min(FreeIds \ {i, j})
  IN
  /\ pc[p] = "alloc" /\ LockFree
  /\ Cardinality(FreeIds) >= 3
  /\ free' = [free EXCEPT ![i] = 0, ![j] = 0, ![k] = 0]
  /\ desc' = format(p, i, j, k)
  /\ bdisk' = [bdisk EXCEPT ![p] = 1]
  /\ info' = [info EXCEPT ![i] = p]
  /\ ring' = [ring EXCEPT ![avail % NUM] = i]
  /\ idx' = [idx EXCEPT ![p] = i]
  /\ lock' = p
  /\ pc' = [pc EXCEPT ![p] = "notify"]
  /\ UNCHANGED <<avail, used_idx, dev, data, dir, isr, irq, calls>>

\* The device may see the request from here on; sleep(b, &vdisk_lock).
rw_notify(p) ==
  /\ pc[p] = "notify"
  /\ avail' = NextIdx(avail)
  /\ lock' = None
  /\ pc' = [pc EXCEPT ![p] = "wait"]
  /\ UNCHANGED <<free, desc, info, ring, used_idx, bdisk, dev, data, dir, isr, irq, idx, calls>>

\* The descriptors free_chain(i) goes through.
Chain(i) ==
  LET j == desc[i].next IN
  {i} \cup (IF desc[i].more = 0 THEN {}
            ELSE {j} \cup IF desc[j].more = 0 THEN {} ELSE {desc[j].next})

\* Mutant: b->disk is not looked at again.
Done_M1(p) == TRUE

Done(p) == bdisk[p] = 0

\* p wakes up and looks at b->disk; free_chain() and return when it is 0.
rw_return(p) ==
  /\ pc[p] = "woken" /\ LockFree
  /\ \/ /\ ~Done(p)
        /\ pc' = [pc EXCEPT ![p] = "wait"]
        /\ UNCHANGED <<free, desc, info>>
     \/ /\ Done(p)
        /\ info' = [info EXCEPT ![idx[p]] = None]
        /\ free' = [i \in Ids |-> IF i \in Chain(idx[p]) THEN 1 ELSE free[i]]
        /\ desc' = [i \in Ids |-> IF i \in Chain(idx[p])
                                   THEN [desc[i] EXCEPT !.addr = None] ELSE desc[i]]
        /\ pc' = wake_free(p, IF \E i \in Chain(idx[p]) : free[i] = 1
                                THEN "panic" ELSE "idle")
  /\ UNCHANGED <<ring, avail, used_idx, bdisk, dev, data, dir, isr, irq, lock, idx, calls>>

\* kill() makes a sleeping process look again.
kill(p) ==
  /\ \/ pc[p] = "wait" /\ pc' = [pc EXCEPT ![p] = "woken"]
     \/ pc[p] = "nodesc" /\ pc' = [pc EXCEPT ![p] = "alloc"]
  /\ UNCHANGED <<drv, dev, data, dir, isr, irq, lock, idx, calls>>

-----------------------------------------------------------------------------
\* The interrupt line is up and a CPU takes the interrupt.
virtio_disk_intr ==
  /\ isr = 1 /\ irq = "off" /\ lock = None
  /\ irq' = "loop"
  /\ UNCHANGED <<drv, dev, data, dir, isr, lock, pc, idx, calls>>

\* One turn of the loop over the used ring.
intr_loop ==
  LET p == info[elems[used_idx]] IN
  /\ irq = "loop"
  /\ \/ /\ used_idx = used % NUM
        /\ irq' = "ack"
        /\ UNCHANGED <<used_idx, bdisk, pc>>
     \/ /\ used_idx # used % NUM
        /\ irq' = IF p = None THEN "panic" ELSE "loop"
        /\ bdisk' = [q \in Procs |-> IF q = p THEN 0 ELSE bdisk[q]]
        /\ pc' = [q \in Procs |-> IF q = p /\ pc[q] = "wait" THEN "woken" ELSE pc[q]]
        /\ used_idx' = (used_idx + 1) % NUM
  /\ UNCHANGED <<free, desc, info, ring, avail, dev, data, dir, isr, lock, idx, calls>>

\* The handler acknowledges what the status register says now.
intr_ack ==
  /\ irq = "ack"
  /\ isr' = 0
  /\ irq' = "off"
  /\ UNCHANGED <<drv, dev, data, dir, lock, pc, idx, calls>>

-----------------------------------------------------------------------------
\* The device takes the next request from the avail ring ...
device_take ==
  /\ seen # avail
  /\ busy' = busy \cup {ring[seen % NUM]}
  /\ seen' = NextIdx(seen)
  /\ UNCHANGED <<drv, elems, used, disk, data, dir, isr, irq, lock, pc, idx, calls>>

\* ... and completes one: header and data of the chain, used ring, interrupt.
device_complete(h) ==
  LET p == desc[h].addr
      q == desc[desc[h].next].addr
  IN
  /\ h \in busy /\ p # None /\ q # None
  /\ IF dir[p] = "read"
       THEN data' = [data EXCEPT ![q] = disk[p]] /\ UNCHANGED disk
       ELSE disk' = [disk EXCEPT ![p] = data[q]] /\ UNCHANGED data
  /\ elems' = [elems EXCEPT ![used % NUM] = h]
  /\ used' = NextIdx(used)
  /\ busy' = busy \ {h}
  /\ isr' = 1
  /\ UNCHANGED <<drv, dir, seen, irq, lock, pc, idx, calls>>

Device == device_take \/ \E h \in Ids : device_complete(h)
Handler == intr_loop \/ intr_ack
Driver(p) == rw_format(p) \/ rw_notify(p) \/ rw_return(p)

Next ==
  \/ \E p \in Procs : \/ Driver(p) \/ rw_sleep(p) \/ kill(p)
                      \/ \E v \in Values : virtio_disk_rw(p, "write", v)
                      \/ virtio_disk_rw(p, "read", data[p])
  \/ virtio_disk_intr \/ Handler \/ Device

Spec == Init /\ [][Next]_vars

\* The device works off its queue, the interrupt is taken, and a process that
\* finds the lock free, or descriptors free, again and again gets them.
FairSpec ==
  /\ Spec
  /\ WF_vars(device_take) /\ \A h \in Ids : WF_vars(device_complete(h))
  /\ SF_vars(virtio_disk_intr) /\ WF_vars(Handler)
  /\ \A p \in Procs : SF_vars(Driver(p))

-----------------------------------------------------------------------------
\* No descriptor is freed twice and no completion is for a request that is
\* gone: free_desc() does not panic and virtio_disk_intr() finds a buffer.
NoPanic == irq # "panic" /\ \A p \in Procs : pc[p] # "panic"

\* While the device works on a request, its three descriptors are neither freed
\* nor given to another one.
ChainsIntact ==
  \A h \in busy : /\ info[h] # None /\ Cardinality(Chain(h)) = 3
                  /\ \A i \in Chain(h) : free[i] = 0 /\ desc[i].addr = info[h]

\* A process sleeps for descriptors only while fewer than three are free, and
\* for its buffer only while the interrupt handler has not dealt with it: no
\* wakeup() is missed.
SleepersHaveReason ==
  \A p \in Procs : /\ pc[p] = "nodesc" => Cardinality(FreeIds) < 3
                   /\ pc[p] = "wait" => bdisk[p] = 1

\* The completions virtio_disk_intr() has not dealt with.
Unseen == {elems[(used_idx + n) % NUM] : n \in 0..(((used - used_idx) % NUM) - 1)}

Transferred(p) == pc[p] \in Waiting /\ (bdisk[p] = 0 \/ idx[p] \in Unseen)

BD == INSTANCE BlockDevice WITH
  st <- [p \in Procs |-> IF pc[p] = "idle" THEN "idle"
                         ELSE IF Transferred(p) THEN "done" ELSE "pending"]

\* virtio_disk_rw() transfers the block of its buffer once between call and
\* return, whatever the order in which the device completes requests.
IsBlockDevice == BD!Spec

\* Every request ends: virtio_disk_intr() tells its process.
RequestEnds == \A p \in Procs : pc[p] = "wait" ~> pc[p] = "idle"
=============================================================================
