---------------------------- MODULE BlockDevice ----------------------------
(***************************************************************************)
(* What virtio_disk_rw() promises to bread() and bwrite(): between call    *)
(* and return the block of the buffer is transferred once, as a whole.     *)
(* The sleep-lock of the buffer keeps others off it and off its block.     *)
(***************************************************************************)
CONSTANTS Procs, Values
VARIABLES disk,  \* contents of each process's block
          data,  \* contents of the buffer it holds
          dir,   \* what it asked for
          st     \* "idle", "pending" or "done"

vars == <<disk, data, dir, st>>

Init ==
  /\ disk \in [Procs -> Values]
  /\ data \in [Procs -> Values]
  /\ dir \in [Procs -> {"read", "write"}]
  /\ st = [p \in Procs |-> "idle"]

\* The caller may have changed the buffer.
Call(p) ==
  /\ st[p] = "idle"
  /\ st' = [st EXCEPT ![p] = "pending"]
  /\ \E d \in {"read", "write"}, v \in Values :
       dir' = [dir EXCEPT ![p] = d] /\ data' = [data EXCEPT ![p] = v]
  /\ UNCHANGED disk

Transfer(p) ==
  /\ st[p] = "pending"
  /\ st' = [st EXCEPT ![p] = "done"]
  /\ IF dir[p] = "read"
       THEN data' = [data EXCEPT ![p] = disk[p]] /\ UNCHANGED disk
       ELSE disk' = [disk EXCEPT ![p] = data[p]] /\ UNCHANGED data
  /\ UNCHANGED dir

Return(p) ==
  /\ st[p] = "done"
  /\ st' = [st EXCEPT ![p] = "idle"]
  /\ UNCHANGED <<disk, data, dir>>

Next == \E p \in Procs : Call(p) \/ Transfer(p) \/ Return(p)

Spec == Init /\ [][Next]_vars
=============================================================================
