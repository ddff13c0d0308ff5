----------------------------- MODULE ByteStream -----------------------------
(***************************************************************************)
(* What kernel/pipe.c promises: a bounded queue of bytes, with no bytes    *)
(* put in once the write end is closed.                                    *)
(***************************************************************************)
EXTENDS Naturals, Sequences

CONSTANTS Bytes, Capacity

VARIABLES queue,
          writable  \* 1 until the write end is closed

vars == <<queue, writable>>

Init == queue = << >> /\ writable = 1

Put(b) ==
  /\ writable = 1 /\ Len(queue) < Capacity
  /\ queue' = Append(queue, b)
  /\ UNCHANGED writable

Get ==
  /\ queue # << >>
  /\ queue' = Tail(queue)
  /\ UNCHANGED writable

Close ==
  /\ writable' = 0
  /\ UNCHANGED queue

Next == (\E b \in Bytes : Put(b)) \/ Get \/ Close

Spec == Init /\ [][Next]_vars
=============================================================================
