----------------------------- MODULE BlockStore -----------------------------
(***************************************************************************)
(* What kernel/bio.c promises: one contents per disk block, changed only   *)
(* by the one process that has the block's buffer.  Caching, recycling of  *)
(* buffers and writing them to disk cannot be seen.                        *)
(***************************************************************************)
CONSTANTS Procs, Blocks, Values, None

VARIABLES mem,    \* contents of each block
          owner   \* the block whose buffer a process has, or None

vars == <<mem, owner>>

Init ==
  /\ mem \in [Blocks -> Values]
  /\ owner = [p \in Procs |-> None]

Acquire(p, k) ==
  /\ owner[p] = None
  /\ \A q \in Procs : owner[q] # k
  /\ owner' = [owner EXCEPT ![p] = k]
  /\ UNCHANGED mem

Write(p, v) ==
  /\ owner[p] # None
  /\ mem' = [mem EXCEPT ![owner[p]] = v]
  /\ UNCHANGED owner

Release(p) ==
  /\ owner[p] # None
  /\ owner' = [owner EXCEPT ![p] = None]
  /\ UNCHANGED mem

Next ==
  \E p \in Procs : \/ \E k \in Blocks : Acquire(p, k)
                   \/ \E v \in Values : Write(p, v)
                   \/ Release(p)

Spec == Init /\ [][Next]_vars
=============================================================================
