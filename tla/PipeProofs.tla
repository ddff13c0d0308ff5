----------------------------- MODULE PipeProofs -----------------------------
(***************************************************************************)
(* The safety of pipes, for any number of processes and any size, and that *)
(* a pipe is a ByteStream.                                                 *)
(***************************************************************************)
EXTENDS Pipe, SequenceTheorems, TLAPS

\* Which prover is tried first, and how long, where a step does not say.
USE SMTT(60), ZenonT(60)

-----------------------------------------------------------------------------
(* Indices that wrap around.                                                *)

\* x % m is the only number below m that differs from x by a multiple of m.
LEMMA ModIs ==
  ASSUME NEW m \in Nat, m > 0, NEW x \in Int, NEW q \in Int, NEW r \in 0..(m - 1),
         x = q * m + r
  PROVE  x % m = r
  BY SMTT(60)

\* What % computes.
LEMMA ModHas ==
  ASSUME NEW m \in Nat, m > 0, NEW x \in Int
  PROVE  x % m \in 0..(m - 1) /\ \E q \in Int : x = q * m + (x % m)
  <1>1. x % m \in 0..(m - 1) BY SMTT(60)
  <1>2. x \div m \in Int /\ x = (x \div m) * m + (x % m)
    BY SMTT(60)
  <1> QED BY <1>1, <1>2, ZenonT(60)

\* k places on from x in a ring of m.
LEMMA ModAdd ==
  ASSUME NEW m \in Nat, m > 0, NEW x \in Int, NEW k \in 0..m
  PROVE  (x + k) % m = IF (x % m) + k < m THEN (x % m) + k ELSE (x % m) + k - m
  <1>1. PICK q \in Int : x = q * m + (x % m) BY ModHas
  <1>2. PICK r : r = x % m OBVIOUS
  <1>3. r \in 0..(m - 1) BY <1>2, ModHas
  <1>4. CASE r + k < m
    <2>1. x + k = q * m + (r + k) /\ r + k \in 0..(m - 1) BY <1>1, <1>2, <1>3, <1>4
    <2>2. x + k \in Int /\ q \in Int BY <1>1
    <2>3. (x + k) % m = r + k BY <2>1, <2>2, ModIs, ZenonT(60)
    <2> QED BY <1>2, <1>4, <2>3
  <1>5. CASE r + k >= m
    <2>1. x + k = (q + 1) * m + (r + k - m) /\ r + k - m \in 0..(m - 1)
      BY <1>1, <1>2, <1>3, <1>5
    <2>2. x + k \in Int /\ q + 1 \in Int BY <1>1
    <2>3. (x + k) % m = r + k - m BY <2>1, <2>2, ModIs, ZenonT(60)
    <2> QED BY <1>2, <1>3, <1>5, <2>3
  <1> QED BY <1>3, <1>4, <1>5

\* Indices count modulo UintMod, a multiple of the size of the ring.
LEMMA ModMod ==
  ASSUME NEW m \in Nat, m > 0, NEW u \in Nat, u > 0, u % m = 0, NEW x \in Int
  PROVE  (x % u) % m = x % m
  <1>0. x % u \in Int /\ u \in Int BY ModHas
  <1>1. PICK a \in Int, r \in Int : x = a * u + r /\ r = x % u BY <1>0, ModHas, ZenonT(60)
  <1>2. PICK b \in Int : u = b * m
    <2>1. PICK b \in Int : u = b * m + (u % m) BY <1>0, ModHas, ZenonT(60)
    <2>2. u = b * m BY <2>1
    <2> QED BY <2>2
  <1>3. PICK c \in Int, s \in 0..(m - 1) : r = c * m + s /\ s = r % m
    BY ModHas, ZenonT(60)
  <1>4. x = (a * b + c) * m + s
    <2>1. a * u = (a * b) * m BY <1>2
    <2>2. (a * b + c) * m = (a * b) * m + c * m OBVIOUS
    <2>3. x = (a * b) * m + (c * m + s) BY <1>1, <1>3, <2>1, ZenonT(60)
    <2>4. (a * b) * m \in Int /\ c * m \in Int OBVIOUS
    <2> QED BY <2>2, <2>3, <2>4
  <1>5. a * b + c \in Int OBVIOUS
  <1>6. x % m = s BY <1>4, <1>5, ModIs
  <1> QED BY <1>1, <1>3, <1>6

\* Differences and sums of indices.
LEMMA Diff ==
  ASSUME NEW u \in Nat, u > 0, NEW a \in 0..(u - 1), NEW b \in 0..(u - 1)
  PROVE  (b - a) % u = IF a <= b THEN b - a ELSE b - a + u
  <1>1. CASE a <= b
    <2>1. b - a = 0 * u + (b - a) /\ b - a \in 0..(u - 1) BY <1>1
    <2> QED BY <1>1, <2>1, ModIs
  <1>2. CASE a > b
    <2>1. b - a = (-1) * u + (b - a + u) /\ b - a + u \in 0..(u - 1) BY <1>2
    <2>2. b - a \in Int /\ -1 \in Int OBVIOUS
    <2>3. (b - a) % u = b - a + u BY <2>1, <2>2, ModIs, ZenonT(60)
    <2> QED BY <1>2, <2>3
  <1> QED BY <1>1, <1>2

\* An index moved on by at most one round, as PIPESIZE bytes move nread.
LEMMA Sum ==
  ASSUME NEW u \in Nat, u > 0, NEW a \in 0..(u - 1), NEW k \in 0..u
  PROVE  (a + k) % u = IF a + k < u THEN a + k ELSE a + k - u
  <1>1. a = 0 * u + a OBVIOUS
  <1>2. a % u = a /\ a \in Int BY <1>1, ModIs
  <1>3. (a + k) % u = IF (a % u) + k < u THEN (a % u) + k ELSE (a % u) + k - u
    BY <1>2, ModAdd, ZenonT(60)
  <1> QED BY <1>2, <1>3, ZenonT(60)

\* Index b is d ahead of a: how far with b moved on, and with a moved on.
Ahead(u, a, b, d) ==
  /\ d \in 0..(u - 1) /\ (a + d) % u = b /\ (d = 0 <=> a = b)
  /\ (a + 1) % u \in 0..(u - 1) /\ (b + 1) % u \in 0..(u - 1)
  /\ \A k \in 0..(u - 1) : b = (a + k) % u <=> k = d
  /\ d + 1 < u => (((b + 1) % u) - a) % u = d + 1
  /\ d > 0 => (b - ((a + 1) % u)) % u = d - 1

\* nwrite - nread, as an unsigned int, is how far nwrite is ahead of nread.
LEMMA Distance ==
  ASSUME NEW u \in Nat, u > 1, NEW a \in 0..(u - 1), NEW b \in 0..(u - 1)
  PROVE  Ahead(u, a, b, (b - a) % u)
  <1>0. PICK d : d = (b - a) % u BY ZenonT(60)
  <1>1. d = IF a <= b THEN b - a ELSE b - a + u BY <1>0, Diff
  <1>2. d \in 0..(u - 1) /\ (d = 0 <=> a = b) BY <1>1
  <1>3. \A k \in 0..(u - 1) : (a + k) % u = IF a + k < u THEN a + k ELSE a + k - u
    <2> TAKE k \in 0..(u - 1)
    <2>1. k \in 0..u OBVIOUS
    <2> QED BY <2>1, Sum
  <1>4. /\ (a + 1) % u = IF a + 1 < u THEN a + 1 ELSE a + 1 - u
        /\ (b + 1) % u = IF b + 1 < u THEN b + 1 ELSE b + 1 - u
    <2>1. 1 \in 0..u OBVIOUS
    <2> QED BY <2>1, Sum
  <1>5. PICK x \in 0..(u - 1), y \in 0..(u - 1) : x = (a + 1) % u /\ y = (b + 1) % u
    BY <1>4
  <1>6. /\ (y - a) % u = IF a <= y THEN y - a ELSE y - a + u
        /\ (b - x) % u = IF x <= b THEN b - x ELSE b - x + u
    BY Diff
  <1>7. d + 1 < u => (y - a) % u = d + 1 BY <1>1, <1>4, <1>5, <1>6
  <1>8. d > 0 => (b - x) % u = d - 1 BY <1>1, <1>4, <1>5, <1>6
  <1>9. \A k \in 0..(u - 1) : b = (a + k) % u <=> k = d BY <1>1, <1>3
  <1>10. (a + d) % u = b BY <1>2, <1>9, ZenonT(60)
  <1>11. /\ d + 1 < u => (((b + 1) % u) - a) % u = d + 1
         /\ d > 0 => (b - ((a + 1) % u)) % u = d - 1
    BY <1>5, <1>7, <1>8, SMTT(60)
  <1>12. (a + 1) % u \in 0..(u - 1) /\ (b + 1) % u \in 0..(u - 1) BY <1>5, ZenonT(60)
  <1>13. Ahead(u, a, b, d) BY <1>2, <1>9, <1>10, <1>11, <1>12, ZenonT(60) DEF Ahead
  <1> QED BY <1>0, <1>13, ZenonT(60)

\* Different places in a ring.
LEMMA Apart ==
  ASSUME NEW m \in Nat, m > 0, NEW x \in Int, NEW j \in 0..(m - 1), NEW k \in 0..(m - 1),
         (x + j) % m = (x + k) % m
  PROVE  j = k
  <1>1. j \in 0..m /\ k \in 0..m /\ x % m \in 0..(m - 1) BY ModHas
  <1> QED BY <1>1, ModAdd

-----------------------------------------------------------------------------
(* The queue in a ring.                                                     *)

\* The d entries of ring f, of m places, from index a on.
Entries(f, m, a, d) == [k \in 1..d |-> f[(a + k - 1) % m]]

\* s has them in order.
IsRow(s, S, f, m, a, d) ==
  s \in Seq(S) /\ Len(s) = d /\ \A k \in 1..d : s[k] = f[(a + k - 1) % m]

\* Entries() is such a sequence.
LEMMA EntriesRow ==
  ASSUME NEW S, NEW m \in Nat, m > 0, NEW f \in [0..(m - 1) -> S], NEW a \in Int, NEW d \in Nat
  PROVE  IsRow(Entries(f, m, a, d), S, f, m, a, d)
  <1>1. ASSUME NEW k \in 1..d PROVE f[(a + k - 1) % m] \in S
    <2>1. a + k - 1 \in Int BY SMTT(60)
    <2>2. (a + k - 1) % m \in 0..(m - 1) BY <2>1, ModHas, ZenonT(60)
    <2> QED BY <2>2, ZenonT(60)
  <1>2. Entries(f, m, a, d) \in [1..d -> S] BY <1>1, ZenonT(60) DEF Entries
  <1>3. Entries(f, m, a, d) \in Seq(S)
    <2>1. Seq(S) = UNION {[1..e -> S] : e \in Nat} BY SeqDef, ZenonT(60)
    <2>2. [1..d -> S] \in {[1..e -> S] : e \in Nat} BY ZenonT(60)
    <2> QED BY <1>2, <2>1, <2>2, ZenonT(60)
  <1>4. Len(Entries(f, m, a, d)) = d BY <1>2, <1>3, LenProperties, SMTT(60)
  <1>5. \A k \in 1..d : Entries(f, m, a, d)[k] = f[(a + k - 1) % m] BY ZenonT(60) DEF Entries
  <1> QED BY <1>3, <1>4, <1>5, ZenonT(60) DEF IsRow

\* Rows of the same entries are equal.
LEMMA SameRow ==
  ASSUME NEW S, NEW s \in Seq(S), NEW t \in Seq(S), NEW d \in Nat, Len(s) = d, Len(t) = d,
         \A k \in 1..d : s[k] = t[k]
  PROVE  s = t
  BY SeqEqual, ZenonT(60)

\* With x put behind them, and with the first of them taken.
PutBehind(f, m, a, d, x) ==
  Entries([f EXCEPT ![(a + d) % m] = x], m, a, d + 1) = Append(Entries(f, m, a, d), x)
GotFirst(f, m, a, d) ==
  /\ Entries(f, m, a, d) # << >>
  /\ Entries(f, m, a + 1, d - 1) = Tail(Entries(f, m, a, d))

\* The place after the last is none of theirs.
LEMMA EntriesPut ==
  ASSUME NEW S, NEW m \in Nat, m > 0, NEW f \in [0..(m - 1) -> S], NEW a \in Int,
         NEW d \in 0..(m - 1), NEW x \in S
  PROVE  PutBehind(f, m, a, d, x)
  <1>1. PICK z : z = (a + d) % m /\ z \in 0..(m - 1)
    <2>1. a + d \in Int BY SMTT(60)
    <2> QED BY <2>1, ModHas, ZenonT(60)
  <1>2. PICK g : g = [f EXCEPT ![z] = x] BY ZenonT(60)
  <1>3. g \in [0..(m - 1) -> S] /\ g[z] = x /\ \A y \in 0..(m - 1) : y # z => g[y] = f[y]
    BY <1>1, <1>2, ZenonT(60)
  <1>4. d \in Nat /\ d + 1 \in Nat BY SMTT(60)
  <1>5. PICK s : s = Entries(f, m, a, d) /\ IsRow(s, S, f, m, a, d)
    BY <1>4, EntriesRow, ZenonT(60)
  <1>6. PICK t : t = Entries(g, m, a, d + 1) /\ IsRow(t, S, g, m, a, d + 1)
    BY <1>3, <1>4, EntriesRow, ZenonT(60)
  <1>7. ASSUME NEW k \in 1..d PROVE g[(a + k - 1) % m] = f[(a + k - 1) % m]
    <2>1. PICK j \in 0..(m - 1) : j = k - 1 /\ j # d BY SMTT(60)
    <2>2. a + k - 1 = a + j /\ a + j \in Int BY <2>1, SMTT(60)
    <2>3. (a + j) % m # (a + d) % m BY <2>1, Apart, ZenonT(60)
    <2>4. (a + j) % m \in 0..(m - 1) BY <2>2, ModHas, ZenonT(60)
    <2> QED BY <1>1, <1>3, <2>2, <2>3, <2>4, ZenonT(60)
  <1>8. g[(a + (d + 1) - 1) % m] = x
    <2>1. a + (d + 1) - 1 = a + d BY SMTT(60)
    <2> QED BY <1>1, <1>3, <2>1, ZenonT(60)
  <1>9. PICK v : v = Append(s, x) /\ v \in Seq(S) /\ Len(v) = d + 1 /\ v[d + 1] = x
                 /\ \A k \in 1..d : v[k] = s[k]
    <2>1. s \in Seq(S) /\ Len(s) = d BY <1>5, ZenonT(60) DEF IsRow
    <2>2. /\ Append(s, x) \in Seq(S) /\ Len(Append(s, x)) = d + 1 /\ Append(s, x)[d + 1] = x
          /\ \A k \in 1..d : Append(s, x)[k] = s[k]
      BY <2>1, SMTT(60)
    <2> QED BY <2>2, ZenonT(60)
  <1>10. ASSUME NEW k \in 1..(d + 1) PROVE t[k] = v[k]
    <2>1. k = d + 1 \/ k \in 1..d BY SMTT(60)
    <2>2. t[k] = g[(a + k - 1) % m] BY <1>6, ZenonT(60) DEF IsRow
    <2>3. CASE k = d + 1 BY <1>8, <1>9, <2>2, <2>3, ZenonT(60)
    <2>4. CASE k \in 1..d
      <3>1. s[k] = f[(a + k - 1) % m] BY <1>5, <2>4, ZenonT(60) DEF IsRow
      <3> QED BY <1>7, <1>9, <2>2, <2>4, <3>1, ZenonT(60)
    <2> QED BY <2>1, <2>3, <2>4, ZenonT(60)
  <1>11. t \in Seq(S) /\ Len(t) = d + 1 BY <1>6, ZenonT(60) DEF IsRow
  <1>12. t = v BY <1>4, <1>9, <1>10, <1>11, SameRow, ZenonT(60)
  <1> QED BY <1>1, <1>2, <1>5, <1>6, <1>9, <1>12, ZenonT(60) DEF PutBehind

\* The second becomes the first.
LEMMA EntriesGet ==
  ASSUME NEW S, NEW m \in Nat, m > 0, NEW f \in [0..(m - 1) -> S], NEW a \in Int,
         NEW d \in Nat, d > 0
  PROVE  GotFirst(f, m, a, d)
  <1>1. PICK s : s = Entries(f, m, a, d) /\ IsRow(s, S, f, m, a, d)
    BY EntriesRow, ZenonT(60)
  <1>2. d - 1 \in Nat /\ a + 1 \in Int BY SMTT(60)
  <1>3. PICK t : t = Entries(f, m, a + 1, d - 1) /\ IsRow(t, S, f, m, a + 1, d - 1)
    BY <1>2, EntriesRow, ZenonT(60)
  <1>4. s \in Seq(S) /\ Len(s) = d BY <1>1, ZenonT(60) DEF IsRow
  <1>5. s # << >> BY <1>4, SMTT(60)
  <1>6. PICK v : v = Tail(s) /\ v \in Seq(S) /\ Len(v) = d - 1
                 /\ \A k \in 1..(d - 1) : v[k] = s[k + 1]
    <2>1. /\ Tail(s) \in Seq(S) /\ Len(Tail(s)) = d - 1
          /\ \A k \in 1..(d - 1) : Tail(s)[k] = s[k + 1]
      BY <1>4, <1>5, HeadTailProperties, SMTT(60)
    <2> QED BY <2>1, ZenonT(60)
  <1>7. ASSUME NEW k \in 1..(d - 1) PROVE t[k] = v[k]
    <2>1. (a + 1) + k - 1 = a + (k + 1) - 1 /\ k + 1 \in 1..d BY SMTT(60)
    <2>2. t[k] = f[((a + 1) + k - 1) % m] BY <1>3, ZenonT(60) DEF IsRow
    <2>3. s[k + 1] = f[(a + (k + 1) - 1) % m] BY <1>1, <2>1, ZenonT(60) DEF IsRow
    <2> QED BY <1>6, <2>1, <2>2, <2>3, ZenonT(60)
  <1>8. t \in Seq(S) /\ Len(t) = d - 1 BY <1>3, ZenonT(60) DEF IsRow
  <1>9. t = v BY <1>2, <1>6, <1>7, <1>8, SameRow, ZenonT(60)
  <1> QED BY <1>1, <1>3, <1>5, <1>6, <1>9, ZenonT(60) DEF GotFirst

-----------------------------------------------------------------------------
(* The invariant.                                                           *)

USE ConstantAssumption DEF Reading, Writing, Closing, Holding

\* pipealloc() leaves a state in which the invariant holds.
LEMMA InitInv == Init => IInv
  BY DEF Init, IInv, TypeOK, LockInv, EndsInv, SleepInv, Empty, Full

\* Entering piperead() or pipewrite() keeps the invariant.
LEMMA CallInv ==
  ASSUME IInv, NEW p \in Procs, NEW m \in Counts, piperead(p, m) \/ pipewrite(p, m)
  PROVE  IInv'
  <1>1. TypeOK' BY DEF IInv, TypeOK, piperead, pipewrite, pipe
  <1>2. LockInv' BY DEF IInv, TypeOK, LockInv, piperead, pipewrite, pipe
  <1>3. EndsInv' BY DEF IInv, TypeOK, EndsInv, piperead, pipewrite, pipe
  <1>4. SleepInv' BY DEF IInv, TypeOK, LockInv, SleepInv, Empty, Full, piperead, pipewrite, pipe
  <1> QED BY <1>1, <1>2, <1>3, <1>4 DEF IInv

\* The steps of piperead() keep the invariant.
LEMMA ReadInv ==
  ASSUME IInv, NEW p \in Procs, read_test(p) \/ read_copy(p)
  PROVE  IInv'
  <1>1. TypeOK'
    BY DEF IInv, TypeOK, read_test, read_copy, read_return, wakeup, pipe
  <1>2. LockInv'
    BY DEF IInv, TypeOK, LockInv, read_test, read_copy, read_return, wakeup, pipe
  <1>3. EndsInv'
    BY DEF IInv, TypeOK, EndsInv, read_test, read_copy, read_return, wakeup, pipe
  <1>4. SleepInv'
    <2>1. CASE read_test(p)
      BY <2>1 DEF IInv, TypeOK, LockInv, SleepInv, Empty, Full, read_test, pipe
    <2>2. CASE read_copy(p)
      BY <2>2 DEF IInv, TypeOK, LockInv, SleepInv, Empty, Full, read_copy, read_return, wakeup
    <2> QED BY <2>1, <2>2
  <1> QED BY <1>1, <1>2, <1>3, <1>4 DEF IInv

\* A turn of pipewrite()'s loop keeps the invariant.
LEMMA WriteInv ==
  ASSUME IInv, NEW p \in Procs, write_loop(p)
  PROVE  IInv'
  <1>1. TypeOK' BY DEF IInv, TypeOK, write_loop, wakeup
  <1>2. LockInv' BY DEF IInv, TypeOK, LockInv, write_loop, wakeup
  <1>3. EndsInv' BY DEF IInv, TypeOK, EndsInv, write_loop, wakeup
  <1>4. SleepInv'
    BY DEF IInv, TypeOK, LockInv, EndsInv, SleepInv, Empty, Full, GiveUp, write_loop, wakeup
  <1> QED BY <1>1, <1>2, <1>3, <1>4 DEF IInv

\* Going to sleep, waking up and being killed keep the invariant.
LEMMA SchedInv ==
  ASSUME IInv, NEW p \in Procs, sleep(p) \/ wake(p) \/ kill(p)
  PROVE  IInv'
  <1>1. TypeOK' BY DEF IInv, TypeOK, sleep, wake, kill, pipe
  <1>2. LockInv' BY DEF IInv, TypeOK, LockInv, sleep, wake, kill, pipe
  <1>3. EndsInv' BY DEF IInv, TypeOK, EndsInv, sleep, wake, kill, pipe
  <1>4. SleepInv'
    BY DEF IInv, TypeOK, LockInv, SleepInv, Empty, Full, sleep, wake, kill, pipe
  <1> QED BY <1>1, <1>2, <1>3, <1>4 DEF IInv

\* Closing an end keeps the invariant.
LEMMA CloseInv ==
  ASSUME IInv, NEW p \in Procs,
         pipeclose(p) \/ \E e \in {"r", "w"} : fileclose(p, e)
  PROVE  IInv'
  <1>1. TypeOK' BY DEF IInv, TypeOK, pipeclose, fileclose, wakeup, pipe
  <1>2. LockInv' BY DEF IInv, TypeOK, LockInv, pipeclose, fileclose, wakeup, pipe
  <1>3. EndsInv'
    <2>1. CASE pipeclose(p)
      BY <2>1 DEF IInv, TypeOK, EndsInv, pipeclose, wakeup
    <2>2. CASE \E e \in {"r", "w"} : fileclose(p, e)
      BY <2>2 DEF IInv, TypeOK, EndsInv, fileclose, LastRef, pipe
    <2> QED BY <2>1, <2>2
  <1>4. SleepInv'
    BY DEF IInv, TypeOK, LockInv, SleepInv, Empty, Full, pipeclose, fileclose, wakeup, pipe
  <1> QED BY <1>1, <1>2, <1>3, <1>4 DEF IInv

\* Every step of every process keeps the invariant of the pipe.
LEMMA NextInv == IInv /\ [Next]_vars => IInv'
  <1> SUFFICES ASSUME IInv, [Next]_vars PROVE IInv'
    OBVIOUS
  <1>1. CASE UNCHANGED vars
    BY <1>1 DEF vars, pipe, IInv, TypeOK, LockInv, EndsInv, SleepInv, Empty, Full
  <1>2. CASE Next
    BY <1>2, CallInv, ReadInv, WriteInv, SchedInv, CloseInv DEF Next, Step
  <1> QED BY <1>1, <1>2

\* pipe.c, proc.c: lock, open ends, closes and sleepers agree in every reachable
\* state.
THEOREM PipeInvariant == Spec => []IInv
  BY InitInv, NextInv, PTL DEF Spec

\* pipeclose(): no process is in the pipe, waits for its lock or is still to
\* close an end when kfree(pi) has run.
THEOREM FreedLast == Spec => []NoUseAfterFree
  <1>1. IInv => NoUseAfterFree
    BY DEF IInv, TypeOK, LockInv, EndsInv, NoUseAfterFree
  <1> QED BY <1>1, PipeInvariant, PTL

\* sleep() and wakeup() in pipe.c: a process asleep in a pipe nobody is working
\* in has a reason to be, unless a killed writer left bytes behind.
THEOREM NoLostWakeup == Spec => []SleepersHaveReason
  <1>1. IInv => SleepersHaveReason
    BY DEF IInv, TypeOK, LockInv, SleepInv, SleepersHaveReason
  <1> QED BY <1>1, PipeInvariant, PTL


-----------------------------------------------------------------------------
(* Pipe implements ByteStream.                                              *)

\* nread and nwrite are unsigned ints that differ by at most PIPESIZE.
RingInv ==
  /\ data \in [0..(PIPESIZE - 1) -> Bytes]
  /\ nread \in 0..(UintMod - 1) /\ nwrite \in 0..(UintMod - 1)
  /\ (nwrite - nread) % UintMod <= PIPESIZE

\* What a step does to the bytes: pipewrite() adds one, piperead() takes one, or
\* they stay as they are.
Puts(b) == /\ ~Full /\ writeopen = 1
           /\ data' = [data EXCEPT ![nwrite % PIPESIZE] = b]
           /\ nwrite' = (nwrite + 1) % UintMod
           /\ UNCHANGED <<nread, writeopen>>
Gets == ~Empty /\ nread' = (nread + 1) % UintMod /\ UNCHANGED <<data, nwrite, writeopen>>
Keeps == UNCHANGED <<data, nread, nwrite>> /\ (UNCHANGED writeopen \/ writeopen' = 0)

\* Every step is one of the three; a process in pipewrite() has the write end
\* open, so writeopen is 1.
LEMMA StepKinds ==
  ASSUME IInv, [Next]_vars
  PROVE  (\E b \in Bytes : Puts(b)) \/ Gets \/ Keeps
  <1>1. CASE UNCHANGED vars BY <1>1 DEF vars, pipe, Keeps
  <1>2. ASSUME NEW p \in Procs, read_test(p) \/ sleep(p) \/ wake(p) \/ kill(p)
        PROVE  Keeps
    BY <1>2 DEF read_test, sleep, wake, kill, pipe, Keeps
  <1>3. ASSUME NEW p \in Procs, read_copy(p) PROVE Gets \/ Keeps
    BY <1>3 DEF read_copy, Gets, Keeps
  <1>4. ASSUME NEW p \in Procs, write_loop(p) PROVE (\E b \in Bytes : Puts(b)) \/ Keeps
    <2>1. pc[p] = "wloop" /\ UNCHANGED <<nread, writeopen>> BY <1>4 DEF write_loop
    <2>2. writeopen = 1 BY <2>1 DEF IInv, TypeOK, EndsInv
    <2> QED BY <1>4, <2>1, <2>2 DEF write_loop, Puts, Keeps
  <1>5. ASSUME NEW p \in Procs, pipeclose(p) PROVE Keeps
    BY <1>5 DEF pipeclose, Keeps
  <1>6. ASSUME NEW p \in Procs, NEW e \in {"r", "w"}, fileclose(p, e) PROVE Keeps
    BY <1>6 DEF fileclose, pipe, Keeps
  <1>7. ASSUME NEW p \in Procs, NEW c \in Counts, piperead(p, c) \/ pipewrite(p, c)
        PROVE  Keeps
    BY <1>7 DEF piperead, pipewrite, pipe, Keeps
  <1> QED BY <1>1, <1>2, <1>3, <1>4, <1>5, <1>6, <1>7, ZenonT(60) DEF Next, Step

\* PIPESIZE and UintMod, and how many bytes there are.
LEMMA Sizes ==
  /\ PIPESIZE \in Nat /\ PIPESIZE > 0 /\ UintMod \in Nat /\ UintMod > 1
  /\ UintMod > PIPESIZE /\ UintMod % PIPESIZE = 0
  OBVIOUS

\* The number of bytes; Full and Empty compare it with PIPESIZE and 0.
LEMMA Count ==
  ASSUME RingInv
  PROVE  \E d \in 0..PIPESIZE :
           /\ d = (nwrite - nread) % UintMod
           /\ Queue = Entries(data, PIPESIZE, nread, d)
           /\ Full <=> d = PIPESIZE
           /\ Empty <=> d = 0
           /\ (nread + d) % PIPESIZE = nwrite % PIPESIZE
           /\ (nwrite + 1) % UintMod \in 0..(UintMod - 1)
           /\ (nread + 1) % UintMod \in 0..(UintMod - 1)
           /\ d < PIPESIZE => (((nwrite + 1) % UintMod) - nread) % UintMod = d + 1
           /\ d > 0 => (nwrite - ((nread + 1) % UintMod)) % UintMod = d - 1
  <1>1. nread \in 0..(UintMod - 1) /\ nwrite \in 0..(UintMod - 1)
    BY ZenonT(60) DEF RingInv
  <1>2. PICK d : d = (nwrite - nread) % UintMod BY ZenonT(60)
  <1>3. /\ d \in 0..(UintMod - 1) /\ (nread + d) % UintMod = nwrite /\ (d = 0 <=> nread = nwrite)
        /\ (nread + 1) % UintMod \in 0..(UintMod - 1)
        /\ (nwrite + 1) % UintMod \in 0..(UintMod - 1)
        /\ \A k \in 0..(UintMod - 1) : nwrite = (nread + k) % UintMod <=> k = d
        /\ d + 1 < UintMod => (((nwrite + 1) % UintMod) - nread) % UintMod = d + 1
        /\ d > 0 => (nwrite - ((nread + 1) % UintMod)) % UintMod = d - 1
    <2>1. Ahead(UintMod, nread, nwrite, (nwrite - nread) % UintMod)
      BY <1>1, Sizes, Distance, ZenonT(60)
    <2>2. Ahead(UintMod, nread, nwrite, d) BY <1>2, <2>1, ZenonT(60)
    <2> QED BY <2>2, ZenonT(60) DEF Ahead
  <1>4. d <= PIPESIZE BY <1>2, ZenonT(60) DEF RingInv
  <1>5. d \in 0..PIPESIZE /\ PIPESIZE \in 0..(UintMod - 1) /\ (d < PIPESIZE => d + 1 < UintMod)
    <2> HIDE ConstantAssumption
    <2>1. /\ PIPESIZE \in Nat /\ PIPESIZE > 0 /\ UintMod \in Nat /\ UintMod > PIPESIZE
          /\ d \in 0..(UintMod - 1)
      BY <1>3, Sizes, ZenonT(60)
    <2> QED BY <1>4, <2>1, SMTT(60)
  <1>6. (nread + d) % PIPESIZE = nwrite % PIPESIZE
    <2> HIDE ConstantAssumption
    <2>1. nread + d \in Int BY <1>1, <1>3, Sizes, SMTT(60)
    <2>2. UintMod > 0 BY Sizes, SMTT(60)
    <2>3. ((nread + d) % UintMod) % PIPESIZE = (nread + d) % PIPESIZE
      BY <2>1, <2>2, Sizes, ModMod, ZenonT(60)
    <2> QED BY <1>3, <2>3, ZenonT(60)
  <1>7. (Full <=> d = PIPESIZE) /\ (Empty <=> d = 0) BY <1>3, <1>5, ZenonT(60) DEF Full, Empty
  <1>8. Queue = Entries(data, PIPESIZE, nread, d) BY <1>2, ZenonT(60) DEF Queue, Entries
  <1> QED BY <1>2, <1>3, <1>5, <1>6, <1>7, <1>8, ZenonT(60)

\* pipewrite() puts a byte behind the others.
LEMMA PutStep ==
  ASSUME RingInv, NEW b \in Bytes, Puts(b)
  PROVE  RingInv' /\ BSt!Put(b)
  <1> HIDE ConstantAssumption
  <1>1. PICK d \in 0..PIPESIZE :
          /\ d = (nwrite - nread) % UintMod
          /\ Queue = Entries(data, PIPESIZE, nread, d)
          /\ Full <=> d = PIPESIZE
          /\ (nread + d) % PIPESIZE = nwrite % PIPESIZE
          /\ (nwrite + 1) % UintMod \in 0..(UintMod - 1)
          /\ d < PIPESIZE => (((nwrite + 1) % UintMod) - nread) % UintMod = d + 1
    BY Count, ZenonT(60)
  <1>2. /\ ~Full /\ writeopen = 1 /\ nread' = nread /\ writeopen' = writeopen
        /\ nwrite' = (nwrite + 1) % UintMod /\ data' = [data EXCEPT ![nwrite % PIPESIZE] = b]
    BY ZenonT(60) DEF Puts
  <1>3. d \in 0..(PIPESIZE - 1) /\ d < PIPESIZE /\ d + 1 <= PIPESIZE /\ d \in Nat
    <2>1. d # PIPESIZE BY <1>1, <1>2, ZenonT(60)
    <2> QED BY <2>1, Sizes, SMTT(60)
  <1>4. (nwrite' - nread') % UintMod = d + 1 BY <1>1, <1>2, <1>3, ZenonT(60)
  <1>5. data \in [0..(PIPESIZE - 1) -> Bytes] /\ nread \in Int
    <2>1. nread \in 0..(UintMod - 1) BY ZenonT(60) DEF RingInv
    <2>2. nread \in Int BY <2>1, Sizes, SMTT(60)
    <2> QED BY <2>2, ZenonT(60) DEF RingInv
  <1>6. data' \in [0..(PIPESIZE - 1) -> Bytes] BY <1>2, <1>5, ZenonT(60)
  <1>7. RingInv' BY <1>1, <1>2, <1>3, <1>4, <1>6, ZenonT(60) DEF RingInv
  <1>8. data' = [data EXCEPT ![(nread + d) % PIPESIZE] = b] BY <1>1, <1>2, ZenonT(60)
  <1>9. Entries(data', PIPESIZE, nread, d + 1) = Append(Queue, b)
    <2>1. Queue = Entries(data, PIPESIZE, nread, d) BY <1>1, ZenonT(60)
    <2>2. PutBehind(data, PIPESIZE, nread, d, b)
      BY <1>3, <1>5, Sizes, EntriesPut, ZenonT(60)
    <2> QED BY <1>8, <2>1, <2>2, ZenonT(60) DEF PutBehind
  <1>10. Queue' = Append(Queue, b) BY <1>2, <1>4, <1>9, ZenonT(60) DEF Queue, Entries
  <1>11. Len(Queue) = d
    <2>1. Queue = Entries(data, PIPESIZE, nread, d) BY <1>1, ZenonT(60)
    <2>2. IsRow(Entries(data, PIPESIZE, nread, d), Bytes, data, PIPESIZE, nread, d)
      BY <1>3, <1>5, Sizes, EntriesRow, ZenonT(60)
    <2> QED BY <2>1, <2>2, ZenonT(60) DEF IsRow
  <1> QED BY <1>2, <1>3, <1>7, <1>10, <1>11, ZenonT(60) DEF BSt!Put

\* piperead() takes the first byte.
LEMMA GetStep ==
  ASSUME RingInv, Gets
  PROVE  RingInv' /\ BSt!Get
  <1> HIDE ConstantAssumption
  <1>1. PICK d \in 0..PIPESIZE :
          /\ d = (nwrite - nread) % UintMod
          /\ Queue = Entries(data, PIPESIZE, nread, d)
          /\ Empty <=> d = 0
          /\ (nread + 1) % UintMod \in 0..(UintMod - 1)
          /\ d > 0 => (nwrite - ((nread + 1) % UintMod)) % UintMod = d - 1
    BY Count, ZenonT(60)
  <1>2. /\ ~Empty /\ nread' = (nread + 1) % UintMod
        /\ nwrite' = nwrite /\ data' = data /\ writeopen' = writeopen
    BY ZenonT(60) DEF Gets
  <1>3. d > 0 /\ d \in Nat /\ d - 1 <= PIPESIZE /\ d - 1 \in Nat
    <2>1. d # 0 BY <1>1, <1>2, ZenonT(60)
    <2> QED BY <2>1, Sizes, SMTT(60)
  <1>4. (nwrite' - nread') % UintMod = d - 1
    <2>1. (nwrite - ((nread + 1) % UintMod)) % UintMod = d - 1 BY <1>1, <1>3, ZenonT(60)
    <2>2. nread' = (nread + 1) % UintMod /\ nwrite' = nwrite BY <1>2, ZenonT(60)
    <2> QED BY <2>1, <2>2, SMTT(60)
  <1>5. data \in [0..(PIPESIZE - 1) -> Bytes] /\ nread \in Int /\ nread' \in Int
    <2>1. nread \in 0..(UintMod - 1) BY ZenonT(60) DEF RingInv
    <2>2. nread \in Int BY <2>1, Sizes, SMTT(60)
    <2>3. nread' \in 0..(UintMod - 1) BY <1>1, <1>2, ZenonT(60)
    <2>4. nread' \in Int BY <2>3, Sizes, SMTT(60)
    <2> QED BY <2>2, <2>4, ZenonT(60) DEF RingInv
  <1>6. RingInv' BY <1>1, <1>2, <1>3, <1>4, ZenonT(60) DEF RingInv
  <1>7. Queue # << >> /\ Entries(data, PIPESIZE, nread + 1, d - 1) = Tail(Queue)
    <2>1. Queue = Entries(data, PIPESIZE, nread, d) BY <1>1, ZenonT(60)
    <2>2. GotFirst(data, PIPESIZE, nread, d) BY <1>3, <1>5, Sizes, EntriesGet, ZenonT(60)
    <2> QED BY <2>1, <2>2, ZenonT(60) DEF GotFirst
  <1>8. Entries(data, PIPESIZE, nread', d - 1) = Entries(data, PIPESIZE, nread + 1, d - 1)
    <2>1. ASSUME NEW k \in 1..(d - 1)
          PROVE  (nread' + k - 1) % PIPESIZE = (nread + 1 + k - 1) % PIPESIZE
      <3>1. PICK z \in Int : z = k - 1 BY <1>3, SMTT(60)
      <3>2. nread' % PIPESIZE = (nread + 1) % PIPESIZE
        <4>1. nread + 1 \in Int /\ UintMod > 0 BY <1>5, Sizes, SMTT(60)
        <4> QED BY <1>2, <4>1, Sizes, ModMod, ZenonT(60)
      <3>3. /\ z \in 0..PIPESIZE /\ nread' + k - 1 = nread' + z
            /\ nread + 1 + k - 1 = (nread + 1) + z /\ nread + 1 \in Int
        BY <1>1, <1>3, <1>5, <3>1, Sizes, SMTT(60)
      <3>4. (nread' + z) % PIPESIZE = ((nread + 1) + z) % PIPESIZE
        <4>1. (nread' + z) % PIPESIZE = IF (nread' % PIPESIZE) + z < PIPESIZE
                THEN (nread' % PIPESIZE) + z ELSE (nread' % PIPESIZE) + z - PIPESIZE
          BY <1>5, <3>3, Sizes, ModAdd, ZenonT(60)
        <4>2. ((nread + 1) + z) % PIPESIZE = IF ((nread + 1) % PIPESIZE) + z < PIPESIZE
                THEN ((nread + 1) % PIPESIZE) + z ELSE ((nread + 1) % PIPESIZE) + z - PIPESIZE
          BY <3>3, Sizes, ModAdd, ZenonT(60)
        <4> QED BY <3>2, <4>1, <4>2, SMTT(60)
      <3> QED BY <3>3, <3>4, ZenonT(60)
    <2> QED BY <2>1, ZenonT(60) DEF Entries
  <1>9. Queue' = Tail(Queue) BY <1>2, <1>4, <1>7, <1>8, ZenonT(60) DEF Queue, Entries
  <1> QED BY <1>2, <1>6, <1>7, <1>9, ZenonT(60) DEF BSt!Get

\* The other steps move no bytes.
LEMMA KeepStep ==
  ASSUME RingInv, Keeps
  PROVE  RingInv' /\ (BSt!Close \/ UNCHANGED BSt!vars)
  <1>1. data' = data /\ nread' = nread /\ nwrite' = nwrite BY DEF Keeps
  <1>2. Queue' = Queue BY <1>1, ZenonT(60) DEF Queue
  <1>3. RingInv' BY <1>1, ZenonT(60) DEF RingInv
  <1> QED BY <1>2, <1>3, ZenonT(60) DEF Keeps, BSt!Close, BSt!vars

\* pipealloc() makes an empty pipe.
LEMMA EmptyPipe ==
  ASSUME Init
  PROVE  RingInv /\ BSt!Init
  <1>1. nread = 0 /\ nwrite = 0 /\ writeopen = 1 BY DEF Init
  <1>2. data \in [0..(PIPESIZE - 1) -> Bytes] BY ZenonT(60) DEF Init
  <1> HIDE ConstantAssumption
  <1>3. (0 - 0) % UintMod = 0 /\ 0 \in 0..(UintMod - 1) /\ 0 <= PIPESIZE
    <2>1. 0 - 0 = 0 * UintMod + 0 /\ 0 \in 0..(UintMod - 1) /\ 0 <= PIPESIZE
      BY Sizes, SMTT(60)
    <2>2. 0 - 0 \in Int /\ 0 \in Int /\ UintMod > 0 BY Sizes, SMTT(60)
    <2> QED BY <2>1, <2>2, Sizes, ModIs, ZenonT(60)
  <1>4. RingInv BY <1>1, <1>2, <1>3, ZenonT(60) DEF RingInv
  <1>5. Queue = << >>
    <2>1. Queue = [k \in 1..0 |-> data[(nread + k - 1) % PIPESIZE]]
      BY <1>1, <1>3, ZenonT(60) DEF Queue
    <2> QED BY <2>1, SMTT(60)
  <1> QED BY <1>1, <1>4, <1>5, ZenonT(60) DEF BSt!Init

\* pipe.c: the bytes written to a pipe are read in order, once each, whatever
\* processes share it and however often nread and nwrite wrap around; none goes
\* in after the write end is closed.
THEOREM PipeIsByteStream == Spec => IsByteStream
  <1>1. Init => RingInv /\ BSt!Init BY EmptyPipe
  <1>2. IInv /\ RingInv /\ [Next]_vars => RingInv' /\ [BSt!Next]_(BSt!vars)
    <2> SUFFICES ASSUME IInv, RingInv, [Next]_vars
                 PROVE  RingInv' /\ (BSt!Next \/ UNCHANGED BSt!vars)
      OBVIOUS
    <2> QED BY StepKinds, PutStep, GetStep, KeepStep, ZenonT(60) DEF BSt!Next
  <1> QED BY <1>1, <1>2, PipeInvariant, PTL DEF Spec, IsByteStream, BSt!Spec
=============================================================================
