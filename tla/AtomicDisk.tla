----------------------------- MODULE AtomicDisk -----------------------------
(***************************************************************************)
(* What kernel/log.c promises to the file system above it.                 *)
(*                                                                         *)
(* FS operations run concurrently against one memory image of the disk.    *)
(* The durable image moves only by taking over the whole memory image, at  *)
(* a moment when no operation is in progress, and a crash throws the       *)
(* memory image back to the durable one.  So after any crash the disk      *)
(* shows every operation of a group of operations or none of them.  The    *)
(* operation that ends last waits until the group is durable.              *)
(***************************************************************************)
CONSTANTS Procs, Blocks, Values

VARIABLES mem,      \* block contents the running operations see
          durable,  \* block contents a restart would show
          st        \* per process: "idle", in an operation "op", or "sync"

vars == <<mem, durable, st>>

Init ==
  /\ durable \in [Blocks -> Values]
  /\ mem = durable
  /\ st = [p \in Procs |-> "idle"]

Begin(p) ==
  /\ st[p] = "idle"
  /\ \A q \in Procs : st[q] # "sync"
  /\ st' = [st EXCEPT ![p] = "op"]
  /\ UNCHANGED <<mem, durable>>

Write(p, b, v) ==
  /\ st[p] = "op"
  /\ mem' = [mem EXCEPT ![b] = v]
  /\ UNCHANGED <<durable, st>>

End(p) ==
  /\ st[p] = "op"
  /\ st' = [st EXCEPT ![p] =
              IF \E q \in Procs \ {p} : st[q] = "op" THEN "idle" ELSE "sync"]
  /\ UNCHANGED <<mem, durable>>

Commit(p) ==
  /\ st[p] = "sync"
  /\ durable' = mem
  /\ UNCHANGED <<mem, st>>

Return(p) ==
  /\ st[p] = "sync"
  /\ durable = mem
  /\ st' = [st EXCEPT ![p] = "idle"]
  /\ UNCHANGED <<mem, durable>>

Crash ==
  /\ mem' = durable
  /\ st' = [p \in Procs |-> "idle"]
  /\ UNCHANGED durable

Next ==
  \/ \E p \in Procs : Begin(p) \/ End(p) \/ Commit(p) \/ Return(p)
  \/ \E p \in Procs, b \in Blocks, v \in Values : Write(p, b, v)
  \/ Crash

Spec == Init /\ [][Next]_vars
=============================================================================
