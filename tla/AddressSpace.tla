---------------------------- MODULE AddressSpace ----------------------------
(* What virtual memory promises a process: pages of its own, which only its *)
(* own stores and system calls change.  A call that fails changes nothing,  *)
(* and what the kernel reads for a process is what its pages hold.          *)
(* Vm implements this.                                                      *)
EXTENDS Naturals, Sequences

CONSTANTS Procs, Values,
          Images   \* the address spaces exec() can load
VARIABLES space,   \* the pages of every process: contents, and user access
          got      \* what was last read

Page(v) == [v |-> v, u |-> TRUE]
Gone == <<[v |-> 0, u |-> FALSE]>>   \* no process

Init == /\ got = <<>>
        /\ \E p \in Procs : space = [q \in Procs |-> IF q = p THEN <<Page(0)>> ELSE Gone]

\* Only the memory of p changes.
Others(p) == UNCHANGED got /\ \A q \in Procs \ {p} : space'[q] = space[q]

Fork(p) == \E q \in Procs : Others(q) /\ space[q] = Gone /\ space'[q] = space[p]

Replace(p) == Others(p) /\ space'[p] \in Images \cup {Gone}   \* exec() and exit()

Resize(p) ==
  LET old == space[p]
      new == space'[p]
  IN Others(p) /\ new = [k \in 1..Len(new) |-> IF k <= Len(old) THEN old[k] ELSE Page(0)]

\* Pages a..b take the value v; all are the process's to access.
Store(p) ==
  LET old == space[p]
      new == space'[p]
  IN /\ Others(p)
     /\ \E a, b \in 1..Len(old), v \in Values :
          /\ \A k \in a..b : old[k].u
          /\ new = [k \in 1..Len(old) |-> IF k \in a..b THEN Page(v) ELSE old[k]]

\* The kernel reads pages from page a, all of them the process's to access.
Load(p) ==
  LET c == space[p]
      n == Len(got')
  IN /\ UNCHANGED space
     /\ \E a \in 1..Len(c) + 1 :
          /\ a + n - 1 <= Len(c)
          /\ \A k \in 1..n : c[a + k - 1].u /\ got'[k] = c[a + k - 1].v

Next == \E p \in Procs :
  space[p] # Gone /\ (Fork(p) \/ Replace(p) \/ Resize(p) \/ Store(p) \/ Load(p))

Spec == Init /\ [][Next]_<<space, got>>
=============================================================================
