---------------------------- MODULE VirtioProofs ----------------------------
(***************************************************************************)
(* The safety of the disk driver, for any number of processes and          *)
(* descriptors and any size of the ring indices, and that it implements    *)
(* BlockDevice.                                                            *)
(***************************************************************************)
EXTENDS Virtio, FiniteSetTheorems, WellFoundedInduction, TLAPS

\* Which prover is tried first, and how long, where a step does not say.
USE ZenonT(60), SMTT(60)

\* Where a process can be.
Labels == {"idle", "alloc", "nodesc", "notify", "panic"} \cup Waiting

\* A process has a request from alloc3_desc() to free_chain().
Requesting == {"notify"} \cup Waiting

\* Places in a ring: the one of an index, and the one after NUM - 1 is 0.
Slot(x) == x % NUM
Wrap(n) == IF n < NUM THEN n ELSE n - NUM

\* The n entries of ring f from place s on, and that they are different.
Window(f, s, n) == {f[Wrap(s + k)] : k \in 0..(n - 1)}
AllDiffer(f, s, n) ==
  \A j, k \in 0..(n - 1) : f[Wrap(s + j)] = f[Wrap(s + k)] => j = k

\* Ring f with h in the place after those n entries.
Put(f, s, n, h) == [f EXCEPT ![Wrap(s + n)] = h]

\* Requests the device has not taken, and completions the handler has not seen.
QueueLen == IF seen <= avail THEN avail - seen ELSE avail + UintMod - seen
UsedLen  == IF used_idx <= Slot(used) THEN Slot(used) - used_idx
            ELSE Slot(used) + NUM - used_idx
Queue == Window(ring, Slot(seen), QueueLen)
Used  == Window(elems, used_idx, UsedLen)

\* Descriptors i, j and k are the request of p.
Owns(p, i, j, k) ==
  /\ i # j /\ j # k /\ i # k
  /\ free[i] = 0 /\ free[j] = 0 /\ free[k] = 0
  /\ desc[i] = [addr |-> p, more |-> 1, next |-> j]
  /\ desc[j] = [addr |-> p, more |-> 1, next |-> k]
  /\ desc[k] = [addr |-> p, more |-> 0, next |-> 0]
  /\ info[i] = p

\* Whose request has descriptors, and that disk.info names just those.
ChainInv ==
  /\ \A p \in Procs : pc[p] \in Requesting => \E j, k \in Ids : Owns(p, idx[p], j, k)
  /\ \A h \in Ids : info[h] # None => pc[info[h]] \in Requesting /\ idx[info[h]] = h

\* vdisk_lock, and what a process that holds it is about to make visible.
LockInv ==
  /\ lock # None => pc[lock] = "notify"
  /\ irq \in {"loop", "ack"} => lock = None
  /\ \A p \in Procs : pc[p] = "notify" =>
       lock = p /\ bdisk[p] = 1 /\ ring[Slot(avail)] = idx[p]

\* No ring is full, so neither side overwrites an entry the other has yet to read.
RingInv ==
  /\ QueueLen < NUM
  /\ Slot(avail) = Wrap(Slot(seen) + QueueLen)
  /\ AllDiffer(ring, Slot(seen), QueueLen)
  /\ AllDiffer(elems, used_idx, UsedLen)

\* h is the first descriptor of a request whose process is to be told of its end.
InFlight(h) ==
  /\ h \in Ids /\ info[h] # None
  /\ pc[info[h]] \in Waiting /\ bdisk[info[h]] = 1

\* A request in flight is in one place: queued, with the device, or completed.
PlaceInv ==
  /\ \A h \in Queue \cup busy \cup Used : InFlight(h)
  /\ Queue \cap busy = {} /\ Queue \cap Used = {} /\ busy \cap Used = {}

\* The requests of processes that wait are all still known to somebody: none is
\* lost between the driver, the device and the interrupt handler.
NoneLost ==
  \A p \in Procs : pc[p] \in Waiting /\ bdisk[p] = 1 => idx[p] \in Queue \cup busy \cup Used

IInv ==
  /\ TypeOK /\ NoPanic /\ SleepersHaveReason
  /\ ChainInv /\ LockInv /\ RingInv /\ PlaceInv /\ NoneLost

-----------------------------------------------------------------------------
(* Indices.                                                                 *)

\* The facts about the constants that arithmetic needs.
LEMMA Constants ==
  /\ NUM \in Nat /\ NUM >= 3 /\ UintMod \in Nat /\ UintMod > NUM
  /\ Ids = 0..(NUM - 1) /\ None \notin Procs /\ MaxCalls \in Nat
  BY ConstantAssumption DEF Ids

\* x % n is the only number below n that differs from x by a multiple of n.
LEMMA ModIs ==
  ASSUME NEW n \in Nat, n > 0, NEW x \in Int, NEW q \in Int, NEW r \in 0..(n - 1),
         x = q * n + r
  PROVE  x % n = r
  BY SMTT(60)

\* What % computes.
LEMMA ModHas ==
  ASSUME NEW n \in Nat, n > 0, NEW x \in Int
  PROVE  x % n \in 0..(n - 1) /\ \E q \in Int : x = q * n + (x % n)
  <1>1. x % n \in 0..(n - 1) BY SMTT(60)
  <1>2. x \div n \in Int /\ x = (x \div n) * n + (x % n)
    BY SMTT(60)
  <1> QED BY <1>1, <1>2

\* Numbers below 2 * NUM, and the places they stand for.
LEMMA WrapMod ==
  ASSUME NEW n \in 0..(2 * NUM - 1)
  PROVE  n % NUM = Wrap(n)
  <1>1. CASE n < NUM
    <2>1. n = 0 * NUM + n /\ n \in 0..(NUM - 1) BY <1>1, Constants, SMTT(60)
    <2> QED BY <1>1, <2>1, ModIs, Constants, SMTT(60) DEF Wrap
  <1>2. CASE n >= NUM
    <2>1. n = 1 * NUM + (n - NUM) /\ n - NUM \in 0..(NUM - 1) BY <1>2, Constants, SMTT(60)
    <2> QED BY <1>2, <2>1, ModIs, Constants, SMTT(60) DEF Wrap
  <1> QED BY <1>1, <1>2, Constants, SMTT(60)

\* NUM consecutive places of a ring are different, and are all of them.
LEMMA WrapFacts ==
  ASSUME NEW s \in Ids
  PROVE  /\ Wrap(s) = s
         /\ \A k \in 0..NUM : Wrap(s + k) \in Ids
         /\ \A j, k \in 0..(NUM - 1) : Wrap(s + j) = Wrap(s + k) => j = k
         /\ \A k \in 0..(NUM - 1) : Wrap(Wrap(s + 1) + k) = Wrap(s + (k + 1))
  BY Constants, SMTT(60) DEF Wrap

\* The ring indices wrap around at UintMod, which is a multiple of NUM: the
\* entry after an index is in the place after its place.
LEMMA NextIdxFacts ==
  ASSUME NEW x \in 0..(UintMod - 1)
  PROVE  /\ Slot(x) \in Ids
         /\ NextIdx(x) = IF x = UintMod - 1 THEN 0 ELSE x + 1
         /\ Slot(NextIdx(x)) = Wrap(Slot(x) + 1)
  <1> USE Constants
  <1>1. NextIdx(x) = IF x = UintMod - 1 THEN 0 ELSE x + 1
    <2>1. CASE x = UintMod - 1
      <3>1. x + 1 = 1 * UintMod + 0 BY <2>1, SMTT(60)
      <3> QED BY <2>1, <3>1, ModIs, SMTT(60) DEF NextIdx
    <2>2. CASE x # UintMod - 1
      <3>1. x + 1 = 0 * UintMod + (x + 1) /\ x + 1 \in 0..(UintMod - 1) BY <2>2, SMTT(60)
      <3> QED BY <2>2, <3>1, ModIs, SMTT(60) DEF NextIdx
    <2> QED BY <2>1, <2>2
  <1>2. Slot(x) \in 0..(NUM - 1) /\ \E q \in Int : x = q * NUM + Slot(x)
    <2>1. x \in Int /\ NUM > 0 BY SMTT(60)
    <2> QED BY <2>1, ModHas, ZenonT(60) DEF Slot
  <1>3. PICK q \in Int : x = q * NUM + Slot(x) BY <1>2, ZenonT(60)
  <1>4. (x + 1) % NUM = Wrap(Slot(x) + 1)
    <2>1. CASE Slot(x) < NUM - 1
      <3>1. x + 1 = q * NUM + (Slot(x) + 1) /\ Slot(x) + 1 \in 0..(NUM - 1)
        BY <1>2, <1>3, <2>1, SMTT(60)
      <3>2. (x + 1) % NUM = Slot(x) + 1 BY <3>1, ModIs, SMTT(60)
      <3> QED BY <1>2, <2>1, <3>2, SMTT(60) DEF Wrap
    <2>2. CASE Slot(x) = NUM - 1
      <3>1. x + 1 = (q + 1) * NUM + 0 BY <1>3, <2>2, SMTT(60)
      <3> QED BY <2>2, <3>1, ModIs, SMTT(60) DEF Wrap
    <2> QED BY <1>2, <2>1, <2>2, SMTT(60)
  <1>5. UintMod % NUM = 0 /\ 0 % NUM = 0
    BY ConstantAssumption, WrapMod, SMTT(60) DEF Wrap
  <1> QED BY <1>1, <1>2, <1>4, <1>5, SMTT(60) DEF Slot

-----------------------------------------------------------------------------
(* Rings.                                                                   *)

\* An entry written after the last one leaves the others as they are, and joins
\* them when the index moves on.
LEMMA Push ==
  ASSUME NEW f \in [Ids -> Ids], NEW s \in Ids, NEW n \in 0..(NUM - 1), NEW h \in Ids,
         AllDiffer(f, s, n)
  PROVE  LET g == Put(f, s, n, h)
         IN /\ Window(g, s, n) = Window(f, s, n) /\ AllDiffer(g, s, n)
            /\ g \in [Ids -> Ids] /\ g[Wrap(s + n)] = h
  <1> DEFINE g == Put(f, s, n, h)
  <1>1. \A k \in 0..(n - 1) : Wrap(s + k) \in Ids /\ Wrap(s + k) # Wrap(s + n)
    BY Constants, SMTT(60) DEF Wrap
  <1>2. \A k \in 0..(n - 1) : g[Wrap(s + k)] = f[Wrap(s + k)] BY <1>1 DEF Put
  <1>3. Wrap(s + n) \in Ids BY Constants, SMTT(60) DEF Wrap
  <1>4. g \in [Ids -> Ids] /\ g[Wrap(s + n)] = h BY <1>3 DEF Put
  <1> HIDE DEF g
  <1>5. Window(g, s, n) = Window(f, s, n) /\ AllDiffer(g, s, n) BY <1>2 DEF Window, AllDiffer
  <1> QED BY <1>4, <1>5 DEF g

\* The entries of a ring when the next place is counted in.
LEMMA Grow ==
  ASSUME NEW f \in [Ids -> Ids], NEW s \in Ids, NEW n \in 0..(NUM - 1),
         AllDiffer(f, s, n), f[Wrap(s + n)] \notin Window(f, s, n)
  PROVE  /\ Window(f, s, n + 1) = Window(f, s, n) \cup {f[Wrap(s + n)]}
         /\ AllDiffer(f, s, n + 1)
  <1>1. 0..(n + 1 - 1) = 0..(n - 1) \cup {n} BY Constants, SMTT(60)
  <1>2. \A k \in 0..(n - 1) : f[Wrap(s + k)] # f[Wrap(s + n)] BY DEF Window
  <1> QED BY <1>1, <1>2, SMTT(60) DEF Window, AllDiffer

\* The first entry leaves when the other index moves on.
LEMMA Shrink ==
  ASSUME NEW f \in [Ids -> Ids], NEW s \in Ids, NEW n \in 1..NUM, AllDiffer(f, s, n)
  PROVE  /\ f[s] \in Window(f, s, n)
         /\ Window(f, Wrap(s + 1), n - 1) = Window(f, s, n) \ {f[s]}
         /\ AllDiffer(f, Wrap(s + 1), n - 1)
  <1> USE Constants
  <1>1. \A k \in 0..(n - 1 - 1) : Wrap(Wrap(s + 1) + k) = Wrap(s + (k + 1)) /\ k + 1 \in 0..(n - 1)
    BY SMTT(60) DEF Wrap
  <1>2. Wrap(s + 0) = s /\ 0 \in 0..(n - 1) BY SMTT(60) DEF Wrap
  <1>3. \A k \in 0..(n - 1) : k # 0 => k - 1 \in 0..(n - 1 - 1) /\ (k - 1) + 1 = k BY SMTT(60)
  <1>4. f[s] \in Window(f, s, n) BY <1>2 DEF Window
  <1>5. \A k \in 0..(n - 1) : f[Wrap(s + k)] = f[s] => k = 0 BY <1>2, ZenonT(60) DEF AllDiffer
  <1>6. Window(f, Wrap(s + 1), n - 1) \subseteq Window(f, s, n) \ {f[s]}
    <2> SUFFICES ASSUME NEW h \in Window(f, Wrap(s + 1), n - 1)
                 PROVE  h \in Window(f, s, n) \ {f[s]}
      OBVIOUS
    <2>1. PICK k \in 0..(n - 1 - 1) : h = f[Wrap(Wrap(s + 1) + k)] BY DEF Window
    <2>2. h = f[Wrap(s + (k + 1))] /\ k + 1 \in 0..(n - 1) BY <1>1, <2>1
    <2>3. k + 1 # 0 BY SMTT(60)
    <2> QED BY <1>5, <2>2, <2>3, ZenonT(60) DEF Window
  <1>7. Window(f, s, n) \ {f[s]} \subseteq Window(f, Wrap(s + 1), n - 1)
    <2> SUFFICES ASSUME NEW h \in Window(f, s, n) \ {f[s]}
                 PROVE  h \in Window(f, Wrap(s + 1), n - 1)
      OBVIOUS
    <2>1. PICK k \in 0..(n - 1) : h = f[Wrap(s + k)] BY DEF Window
    <2>2. k # 0 BY <1>2, <2>1
    <2>3. k - 1 \in 0..(n - 1 - 1) /\ h = f[Wrap(Wrap(s + 1) + (k - 1))]
      BY <1>1, <1>3, <2>1, <2>2, ZenonT(60)
    <2> QED BY <2>3 DEF Window
  <1>8. AllDiffer(f, Wrap(s + 1), n - 1)
    <2> SUFFICES ASSUME NEW j \in 0..(n - 1 - 1), NEW k \in 0..(n - 1 - 1),
                        f[Wrap(Wrap(s + 1) + j)] = f[Wrap(Wrap(s + 1) + k)]
                 PROVE  j = k
      BY DEF AllDiffer
    <2>1. f[Wrap(s + (j + 1))] = f[Wrap(s + (k + 1))] BY <1>1
    <2>2. j + 1 = k + 1 BY <1>1, <2>1, ZenonT(60) DEF AllDiffer
    <2> QED BY <2>2, SMTT(60)
  <1> QED BY <1>4, <1>6, <1>7, <1>8

\* A set with an element less, and a set with an element.
LEMMA OneLess ==
  ASSUME NEW S, IsFiniteSet(S), NEW x \in S
  PROVE  /\ IsFiniteSet(S \ {x}) /\ Cardinality(S) \in Nat
         /\ Cardinality(S \ {x}) = Cardinality(S) - 1
  <1>1. IsFiniteSet(S \ {x}) /\ Cardinality(S \ {x}) = Cardinality(S) - 1
    BY FS_RemoveElement, ZenonT(60)
  <1> QED BY <1>1, FS_CardinalityType

\* A set with an element is not empty.
LEMMA NotEmpty ==
  ASSUME NEW S, IsFiniteSet(S), Cardinality(S) >= 1
  PROVE  S # {}
  BY FS_EmptySet, SMTT(60)

\* Different entries that leave out two descriptors leave two places free.
LEMMA RoomLeft ==
  ASSUME NEW f \in [Ids -> Ids], NEW s \in Ids, NEW n \in 0..NUM, AllDiffer(f, s, n),
         NEW x \in Ids, NEW y \in Ids, x # y,
         x \notin Window(f, s, n), y \notin Window(f, s, n)
  PROVE  n <= NUM - 2
  <1> DEFINE T == (Ids \ {x}) \ {y}
             g == [k \in 0..(n - 1) |-> f[Wrap(s + k)]]
  <1>1. IsFiniteSet(Ids) /\ Cardinality(Ids) = NUM BY Constants, FS_Interval, SMTT(60)
  <1>2. IsFiniteSet(Ids \ {x}) /\ Cardinality(Ids \ {x}) = NUM - 1
    BY <1>1, OneLess
  <1>3. IsFiniteSet(T) /\ Cardinality(T) = NUM - 2
    <2>1. y \in Ids \ {x} OBVIOUS
    <2>2. IsFiniteSet(T) /\ Cardinality(T) = Cardinality(Ids \ {x}) - 1
      BY <1>2, <2>1, OneLess, ZenonT(60)
    <2> QED BY <1>2, <2>2, Constants, SMTT(60)
  <1>4. \A k \in 0..(n - 1) : f[Wrap(s + k)] \in T
    <2> SUFFICES ASSUME NEW k \in 0..(n - 1) PROVE f[Wrap(s + k)] \in T
      OBVIOUS
    <2>1. Wrap(s + k) \in Ids BY Constants, SMTT(60) DEF Wrap
    <2>2. f[Wrap(s + k)] \in Window(f, s, n) BY DEF Window
    <2> QED BY <2>1, <2>2
  <1>5. g \in Injection(0..(n - 1), T)
    <2>1. g \in [0..(n - 1) -> T] BY <1>4
    <2>2. \A j, k \in 0..(n - 1) : g[j] = g[k] => j = k BY DEF AllDiffer
    <2> QED BY <2>1, <2>2 DEF Injection, IsInjective
  <1>6. Cardinality(0..(n - 1)) <= NUM - 2 BY <1>3, <1>5, FS_Injection, SMTT(60)
  <1>7. Cardinality(0..(n - 1)) = n BY FS_Interval, Constants, SMTT(60)
  <1> QED BY <1>6, <1>7, Constants

\* alloc3_desc() gets three descriptors that are free, when there are three.
LEMMA MinIn ==
  ASSUME NEW S, S \subseteq Nat, S # {}
  PROVE  Min(S) \in S
  <1>1. PICK x \in S : \A y \in S : ~(<<y, x>> \in OpToRel(<, Nat))
    BY NatLessThanWellFounded, WFMin, ZenonT(60)
  <1>2. ASSUME NEW y \in Nat, NEW z \in Nat, y < z PROVE <<y, z>> \in OpToRel(<, Nat)
    BY <1>2 DEF OpToRel
  <1>3. ASSUME NEW y \in S PROVE x =< y
    <2>1. x \in Nat /\ y \in Nat /\ ~(y < x) BY <1>1, <1>2, ZenonT(60)
    <2> QED BY <2>1, SMTT(60)
  <1> QED BY <1>3, ZenonT(60) DEF Min

\* The free descriptors are finitely many.
LEMMA FiniteFree ==
  IsFiniteSet(FreeIds) /\ Cardinality(FreeIds) \in Nat
  <1>1. IsFiniteSet(Ids) BY FS_Interval, Constants, SMTT(60)
  <1>2. FreeIds \in SUBSET Ids BY DEF FreeIds
  <1> QED BY <1>1, <1>2, FS_Subset, FS_CardinalityType

\* alloc3_desc() finds three different descriptors when three are free.
LEMMA ThreeFree ==
  ASSUME TypeOK, Cardinality(FreeIds) >= 3
  PROVE  LET i == Min(FreeIds)
             j == Min(FreeIds \ {i})
             k == Min(FreeIds \ {i, j})
         IN i \in FreeIds /\ j \in FreeIds \ {i} /\ k \in FreeIds \ {i, j}
  <1> DEFINE i == Min(FreeIds)
             j == Min(FreeIds \ {i})
             k == Min(FreeIds \ {i, j})
  <1>1. FreeIds \subseteq Ids /\ IsFiniteSet(Ids) /\ Ids \subseteq Nat
    BY FS_Interval, Constants, SMTT(60) DEF FreeIds
  <1>2. IsFiniteSet(FreeIds) BY <1>1, FS_Subset, ZenonT(60)
  <1>3. i \in FreeIds 
    <2>1. FreeIds # {} BY <1>2, NotEmpty, FS_CardinalityType, SMTT(60)
    <2> QED BY <1>1, <2>1, MinIn, ZenonT(60)
  <1>4. IsFiniteSet(FreeIds \ {i}) /\ Cardinality(FreeIds \ {i}) >= 2
    <2>1. Cardinality(FreeIds \ {i}) = Cardinality(FreeIds) - 1 /\ Cardinality(FreeIds) \in Nat
         /\ IsFiniteSet(FreeIds \ {i})
      BY <1>2, <1>3, OneLess, ZenonT(60)
    <2> HIDE DEF i
    <2> QED BY <2>1, SMTT(60)
  <1>5. FreeIds \ {i} # {} BY <1>4, NotEmpty, FS_CardinalityType, SMTT(60)
  <1>6. j \in FreeIds \ {i} BY <1>1, <1>5, MinIn, ZenonT(60)
  <1>7. FreeIds \ {i, j} = (FreeIds \ {i}) \ {j} OBVIOUS
  <1>8. IsFiniteSet(FreeIds \ {i, j}) /\ Cardinality(FreeIds \ {i, j}) >= 1
    <2> DEFINE F == FreeIds \ {i}
    <2>1. Cardinality(F \ {j}) = Cardinality(F) - 1 /\ Cardinality(F) \in Nat
         /\ IsFiniteSet(F \ {j})
      BY <1>4, <1>6, OneLess, ZenonT(60)
    <2>2. Cardinality(F) >= 2 BY <1>4
    <2> HIDE DEF i, j, F
    <2>3. Cardinality(F \ {j}) >= 1 BY <2>1, <2>2, SMTT(60)
    <2> QED BY <1>7, <2>1, <2>3 DEF F
  <1>9. FreeIds \ {i, j} # {} BY <1>8, NotEmpty
  <1>10. k \in FreeIds \ {i, j} BY <1>1, <1>9, MinIn, ZenonT(60)
  <1> QED BY <1>3, <1>6, <1>10

-----------------------------------------------------------------------------
(* Consequences of the invariant.                                           *)

\* The ranges of the ring indices and of what they enclose.
LEMMA Ranges ==
  ASSUME TypeOK, RingInv
  PROVE  /\ Slot(avail) \in Ids /\ Slot(seen) \in Ids /\ Slot(used) \in Ids /\ used_idx \in Ids
         /\ QueueLen \in 0..(NUM - 1) /\ UsedLen \in 0..(NUM - 1)
         /\ Slot(avail) = Wrap(Slot(seen) + QueueLen)
         /\ Slot(used) = Wrap(used_idx + UsedLen)
  <1>1. avail \in 0..(UintMod - 1) /\ seen \in 0..(UintMod - 1) /\ used \in 0..(UintMod - 1)
         /\ used_idx \in Ids
    BY DEF TypeOK
  <1>2. Slot(avail) \in Ids /\ Slot(seen) \in Ids /\ Slot(used) \in Ids
    BY <1>1, NextIdxFacts
  <1>3. QueueLen \in 0..(NUM - 1) BY <1>1, Constants, SMTT(60) DEF QueueLen, RingInv
  <1>4. UsedLen \in 0..(NUM - 1) /\ Slot(used) = Wrap(used_idx + UsedLen)
    BY <1>1, <1>2, Constants, SMTT(60) DEF UsedLen, Wrap
  <1> QED BY <1>1, <1>2, <1>3, <1>4 DEF RingInv

\* The labels of processes.
LEMMA PcType ==
  ASSUME TypeOK
  PROVE  /\ pc \in [Procs -> Labels] /\ \A q \in Procs : pc[q] \in Labels
         /\ "idle" \in Labels /\ "alloc" \in Labels /\ "nodesc" \in Labels
         /\ "notify" \in Labels /\ "wait" \in Labels /\ "woken" \in Labels
  BY DEF TypeOK, Labels, Waiting

\* free_chain() of a request goes through its three descriptors.
LEMMA ChainOf ==
  ASSUME NEW p, NEW i, NEW j, NEW k, Owns(p, i, j, k)
  PROVE  Chain(i) = {i, j, k} /\ Cardinality(Chain(i)) = 3
  <1>1. Chain(i) = {i, j, k} BY SMTT(60) DEF Owns, Chain
  <1>2. i # j /\ k \notin {i, j} BY DEF Owns
  <1>3. IsFiniteSet({i}) /\ Cardinality({i}) = 1 BY FS_Singleton, ZenonT(60)
  <1>4. IsFiniteSet({i} \cup {j}) /\ Cardinality({i} \cup {j}) = 2
    <2>1. j \notin {i} BY <1>2
    <2> QED BY <1>3, <2>1, FS_AddElement, SMTT(60)
  <1>5. Cardinality(({i} \cup {j}) \cup {k}) = 3
    <2>1. k \notin {i} \cup {j} BY <1>2
    <2> QED BY <1>4, <2>1, FS_AddElement, SMTT(60)
  <1>6. ({i} \cup {j}) \cup {k} = {i, j, k} OBVIOUS
  <1> QED BY <1>1, <1>5, <1>6

\* disk.info[h] is the process whose request h starts.
LEMMA InfoOwns ==
  ASSUME TypeOK, ChainInv, NEW h \in Ids, info[h] # None
  PROVE  /\ info[h] \in Procs /\ pc[info[h]] \in Requesting /\ idx[info[h]] = h
         /\ \E j, k \in Ids : Owns(info[h], h, j, k)
  <1>1. info[h] \in Procs BY DEF TypeOK
  <1>2. pc[info[h]] \in Requesting /\ idx[info[h]] = h BY DEF ChainInv
  <1>3. \E j, k \in Ids : Owns(info[h], idx[info[h]], j, k) BY <1>1, <1>2, ZenonT(60) DEF ChainInv
  <1> QED BY <1>1, <1>2, <1>3, ZenonT(60)

\* A descriptor is in the request of the process its entry names.
LEMMA OwnerIs ==
  ASSUME NEW p, NEW i, NEW j, NEW k, Owns(p, i, j, k)
  PROVE  /\ \A d \in {i, j, k} : desc[d].addr = p /\ free[d] = 0
         /\ desc[i].more = 1 /\ desc[j].more = 1 /\ desc[k].more = 0
         /\ desc[i].next = j /\ desc[j].next = k
  BY SMTT(60) DEF Owns

\* No request in flight starts with a descriptor of a process that is not waiting.
LEMMA NotInFlight ==
  ASSUME TypeOK, ChainInv, NEW p \in Procs, NEW i \in Ids, NEW j \in Ids, NEW k \in Ids,
         Owns(p, i, j, k), NEW h, InFlight(h)
  PROVE  /\ h \notin {j, k} /\ (h = i => pc[p] \in Waiting)
  <1>1. h \in Ids /\ info[h] # None BY DEF InFlight
  <1>2. info[h] \in Procs /\ idx[info[h]] = h /\ desc[h].addr = info[h]
    BY <1>1, InfoOwns, OwnerIs, ZenonT(60)
  <1>3. ASSUME h \in {j, k} PROVE FALSE
    <2>1. info[h] = p
      <3>1. desc[h].addr = p BY <1>3, SMTT(60) DEF Owns
      <3> QED BY <1>2, <3>1
    <2>2. info[i] = p /\ info[i] # None /\ i # j /\ i # k BY Constants DEF Owns
    <2>3. idx[p] = i BY <2>2, InfoOwns, ZenonT(60)
    <2> QED BY <1>2, <1>3, <2>1, <2>2, <2>3
  <1>4. h = i => pc[p] \in Waiting BY DEF Owns, InFlight
  <1> QED BY <1>3, <1>4

-----------------------------------------------------------------------------
(* Steps that leave the requests where they are.                            *)

\* The rings, the descriptors and who waits stay.
Calm ==
  /\ UNCHANGED <<free, desc, info, ring, avail, elems, used, used_idx, bdisk, seen, busy,
                 lock, idx>>
  /\ \A q \in Procs : /\ pc'[q] \in Waiting <=> pc[q] \in Waiting
                      /\ pc'[q] = "notify" <=> pc[q] = "notify"

\* The rings are what they were when no index and no entry changes.
LEMMA SameRings ==
  ASSUME RingInv, UNCHANGED <<ring, avail, elems, used, used_idx, seen>>
  PROVE  RingInv' /\ Queue' = Queue /\ Used' = Used
  <1>1. QueueLen' = QueueLen /\ Slot(seen)' = Slot(seen) /\ Slot(avail)' = Slot(avail)
    BY DEF QueueLen, Slot
  <1>2. UsedLen' = UsedLen BY DEF UsedLen, Slot
  <1> QED BY <1>1, <1>2, ZenonT(60) DEF RingInv, Queue, Used

\* A step that touches neither the descriptors nor the rings keeps the invariant.
LEMMA CalmInv ==
  ASSUME IInv, Calm, TypeOK', NoPanic', SleepersHaveReason',
         irq' \in {"loop", "ack"} => lock = None
  PROVE  IInv'
  <1>1. ChainInv'
    <2>1. \A p, i, j, k : Owns(p, i, j, k)' <=> Owns(p, i, j, k)
      <3>1. free' = free /\ desc' = desc /\ info' = info BY DEF Calm
      <3> QED BY <3>1, SMTT(60) DEF Owns
    <2>2. \A p \in Procs : pc'[p] \in Requesting <=> pc[p] \in Requesting
      BY ZenonT(60) DEF Calm, Requesting
    <2>3. \A h \in Ids : info[h] # None => info[h] \in Procs BY DEF IInv, TypeOK
    <2>4. idx' = idx /\ info' = info BY DEF Calm
    <2> QED BY <2>1, <2>2, <2>3, <2>4, ZenonT(60) DEF IInv, ChainInv
  <1>2. LockInv'
    BY ZenonT(60) DEF IInv, TypeOK, Calm, LockInv, Slot
  <1>3. RingInv' /\ Queue' = Queue /\ Used' = Used
    BY SameRings DEF IInv, Calm
  <1>4. \A h : InFlight(h) => InFlight(h)'
    BY ZenonT(60) DEF IInv, TypeOK, Calm, InFlight
  <1>5. PlaceInv'
    BY <1>3, <1>4, ZenonT(60) DEF IInv, PlaceInv, Calm
  <1>6. NoneLost'
    BY <1>3, ZenonT(60) DEF IInv, NoneLost, Calm
  <1> QED BY <1>1, <1>2, <1>3, <1>5, <1>6 DEF IInv

\* Entering virtio_disk_rw(), sleeping for descriptors and kill() are calm.
LEMMA RwInv ==
  ASSUME IInv, NEW p \in Procs, NEW d \in {"read", "write"}, NEW v \in Values,
         virtio_disk_rw(p, d, v)
  PROVE  IInv'
  <1>1. Calm BY DEF IInv, TypeOK, Calm, virtio_disk_rw, drv, dev, Waiting
  <1>2. TypeOK'
    <2>1. calls' \in 0..MaxCalls BY Constants, SMTT(60) DEF IInv, TypeOK, virtio_disk_rw
    <2>2. pc' \in [Procs -> Labels] BY PcType DEF IInv, virtio_disk_rw
    <2> QED BY <2>1, <2>2 DEF IInv, TypeOK, virtio_disk_rw, drv, dev, Labels
  <1>3. NoPanic' BY DEF IInv, TypeOK, NoPanic, virtio_disk_rw
  <1>4. SleepersHaveReason'
    BY DEF IInv, TypeOK, SleepersHaveReason, virtio_disk_rw, drv, FreeIds
  <1>5. irq' \in {"loop", "ack"} => lock = None BY DEF IInv, LockInv, virtio_disk_rw
  <1> QED BY <1>1, <1>2, <1>3, <1>4, <1>5, CalmInv

\* What wakeup(&disk.free[0]) does to the processes.
LEMMA Woken ==
  ASSUME TypeOK, NEW p \in Procs, NEW l,
         l \in Labels, pc' = wake_free(p, l)
  PROVE  /\ pc' \in [Procs -> Labels]
         /\ pc'[p] = l
         /\ \A q \in Procs : q # p =>
              /\ pc'[q] # "nodesc"
              /\ pc'[q] = pc[q] \/ (pc'[q] = "alloc" /\ pc[q] = "nodesc")
  <1>1. pc \in [Procs -> Labels] /\ "alloc" \in Labels BY PcType
  <1>2. pc' = [q \in Procs |-> IF q = p THEN l ELSE IF pc[q] = "nodesc" THEN "alloc" ELSE pc[q]]
    BY DEF wake_free
  <1>3. pc' \in [Procs -> Labels] BY <1>1, <1>2
  <1> QED BY <1>1, <1>2, <1>3

\* virtio_disk_rw() sleeps when fewer than three descriptors are free.
LEMMA SleepInv ==
  ASSUME IInv, NEW p \in Procs, rw_sleep(p)
  PROVE  IInv'
  <1>0. /\ pc[p] = "alloc" /\ Cardinality(FreeIds) < 3
        /\ UNCHANGED <<drv, dev, data, dir, isr, irq, lock, idx, calls>>
        /\ pc' = [pc EXCEPT ![p] = "nodesc"] \/ pc' = wake_free(p, "nodesc")
    BY DEF rw_sleep
  <1>1. /\ pc' \in [Procs -> Labels]
        /\ pc'[p] = "nodesc"
        /\ \A q \in Procs : q # p => pc'[q] = pc[q] \/ (pc'[q] = "alloc" /\ pc[q] = "nodesc")
    <2>1. CASE pc' = [pc EXCEPT ![p] = "nodesc"]
      <3>1. pc \in [Procs -> Labels] /\ "nodesc" \in Labels BY PcType DEF IInv
      <3> QED BY <2>1, <3>1
    <2>2. CASE pc' = wake_free(p, "nodesc") BY <2>2, PcType, Woken DEF IInv
    <2> QED BY <1>0, <2>1, <2>2
  <1>2. Calm BY <1>0, <1>1 DEF Calm, drv, dev, Waiting
  <1>3. TypeOK' BY <1>0, <1>1 DEF IInv, TypeOK, drv, dev, Labels
  <1>4. NoPanic' BY <1>0, <1>1 DEF IInv, NoPanic
  <1>5. SleepersHaveReason'
    <2>1. FreeIds' = FreeIds /\ bdisk' = bdisk BY <1>0 DEF FreeIds, drv
    <2> QED BY <1>0, <1>1, <2>1 DEF IInv, SleepersHaveReason
  <1>6. irq' \in {"loop", "ack"} => lock = None BY <1>0 DEF IInv, LockInv
  <1> QED BY <1>2, <1>3, <1>4, <1>5, <1>6, CalmInv

\* kill() wakes a process that waits for descriptors or for the disk.
LEMMA KillInv ==
  ASSUME IInv, NEW p \in Procs, kill(p)
  PROVE  IInv'
  <1>1. Calm BY DEF IInv, TypeOK, Calm, kill, drv, dev, Waiting
  <1>2. TypeOK' BY DEF IInv, TypeOK, kill, drv, dev, Waiting
  <1>3. NoPanic' BY DEF IInv, TypeOK, NoPanic, kill
  <1>4. SleepersHaveReason'
    BY ZenonT(60) DEF IInv, TypeOK, SleepersHaveReason, kill, drv, FreeIds
  <1>5. irq' \in {"loop", "ack"} => lock = None BY ZenonT(60) DEF IInv, LockInv, kill
  <1> QED BY <1>1, <1>2, <1>3, <1>4, <1>5, CalmInv

\* The interrupt handler starts, or ends, and touches no request.
LEMMA IrqInv ==
  ASSUME IInv, virtio_disk_intr \/ intr_ack
  PROVE  IInv'
  <1>1. Calm BY DEF Calm, virtio_disk_intr, intr_ack, drv, dev
  <1>2. TypeOK' BY DEF IInv, TypeOK, virtio_disk_intr, intr_ack, drv, dev
  <1>3. NoPanic' BY DEF IInv, NoPanic, virtio_disk_intr, intr_ack
  <1>4. SleepersHaveReason'
    BY DEF IInv, SleepersHaveReason, virtio_disk_intr, intr_ack, drv, FreeIds
  <1>5. irq' \in {"loop", "ack"} => lock = None
    BY DEF IInv, LockInv, virtio_disk_intr, intr_ack
  <1> QED BY <1>1, <1>2, <1>3, <1>4, <1>5, CalmInv

-----------------------------------------------------------------------------
(* Steps that move a request.                                               *)

\* What rw_format(p) does, with the descriptors alloc3_desc() gave.
Formatted(p, i, j, k) ==
  /\ i # j /\ j # k /\ i # k /\ free[i] = 1 /\ free[j] = 1 /\ free[k] = 1
  /\ pc[p] = "alloc" /\ lock = None /\ irq \notin {"loop", "ack"}
  /\ free' = [free EXCEPT ![i] = 0, ![j] = 0, ![k] = 0]
  /\ desc' = [desc EXCEPT ![i] = [addr |-> p, more |-> 1, next |-> j],
                          ![j] = [addr |-> p, more |-> 1, next |-> k],
                          ![k] = [addr |-> p, more |-> 0, next |-> 0]]
  /\ bdisk' = [bdisk EXCEPT ![p] = 1]
  /\ info' = [info EXCEPT ![i] = p]
  /\ ring' = [ring EXCEPT ![Slot(avail)] = i]
  /\ idx' = [idx EXCEPT ![p] = i]
  /\ lock' = p
  /\ pc' = [pc EXCEPT ![p] = "notify"]
  /\ UNCHANGED <<avail, used_idx>> /\ UNCHANGED <<elems, used, disk, seen, busy>>
  /\ UNCHANGED <<data, dir, isr, irq, calls>>

\* virtio_disk_rw() fills in the three descriptors it allocated.
LEMMA FormatFacts ==
  ASSUME TypeOK, NEW p \in Procs, rw_format(p)
  PROVE  \E i, j, k \in Ids : Formatted(p, i, j, k)
  <1> DEFINE i == Min(FreeIds)
             j == Min(FreeIds \ {i})
             k == Min(FreeIds \ {i, j})
  <1>1. i \in FreeIds /\ j \in FreeIds \ {i} /\ k \in FreeIds \ {i, j}
    BY ThreeFree, ZenonT(60) DEF rw_format
  <1>2. /\ i \in Ids /\ j \in Ids /\ k \in Ids /\ i # j /\ j # k /\ i # k
        /\ free[i] = 1 /\ free[j] = 1 /\ free[k] = 1
    <2> HIDE DEF i, j, k
    <2> QED BY <1>1 DEF FreeIds
  <1>3. Formatted(p, i, j, k)
    BY <1>2, ZenonT(60) DEF rw_format, format, LockFree, Slot, dev, Formatted
  <1> QED BY <1>2, <1>3

\* alloc3_desc() gives free descriptors, so no request loses one, and the slot
\* of the ring that is written is not one the device has yet to read.
LEMMA FormatInv ==
  ASSUME IInv, NEW p \in Procs, rw_format(p)
  PROVE  IInv'
  <1>0. PICK i, j, k \in Ids : Formatted(p, i, j, k) BY FormatFacts DEF IInv
  <1>1. /\ pc[p] = "alloc" /\ lock = None /\ irq \notin {"loop", "ack"}
        /\ free' = [free EXCEPT ![i] = 0, ![j] = 0, ![k] = 0]
        /\ desc' = [desc EXCEPT ![i] = [addr |-> p, more |-> 1, next |-> j],
                                ![j] = [addr |-> p, more |-> 1, next |-> k],
                                ![k] = [addr |-> p, more |-> 0, next |-> 0]]
        /\ bdisk' = [bdisk EXCEPT ![p] = 1]
        /\ info' = [info EXCEPT ![i] = p]
        /\ ring' = [ring EXCEPT ![Slot(avail)] = i]
        /\ idx' = [idx EXCEPT ![p] = i]
        /\ lock' = p
        /\ pc' = [pc EXCEPT ![p] = "notify"]
    BY <1>0 DEF Formatted
  <1>2. /\ UNCHANGED <<avail, used_idx>> /\ UNCHANGED <<elems, used, disk, seen, busy>>
        /\ UNCHANGED <<data, dir, isr, irq, calls>>
    BY <1>0 DEF Formatted
  <1>4. /\ i \in Ids /\ j \in Ids /\ k \in Ids /\ i # j /\ j # k /\ i # k
        /\ free[i] = 1 /\ free[j] = 1 /\ free[k] = 1
    BY <1>0 DEF Formatted
  <1>5. TypeOK'
    <2>1. free' \in [Ids -> {0, 1}] BY <1>1, ZenonT(60) DEF IInv, TypeOK
    <2>2. desc' \in [Ids -> [addr : Procs \cup {None}, more : {0, 1}, next : Ids]]
      <3> DEFINE R == [addr : Procs \cup {None}, more : {0, 1}, next : Ids]
      <3>1. /\ [addr |-> p, more |-> 1, next |-> j] \in R
            /\ [addr |-> p, more |-> 1, next |-> k] \in R
            /\ [addr |-> p, more |-> 0, next |-> 0] \in R
        BY <1>4, Constants, SMTT(60)
      <3>2. desc \in [Ids -> R] BY DEF IInv, TypeOK
      <3> HIDE DEF R
      <3>3. desc' \in [Ids -> R] BY <1>1, <3>1, <3>2
      <3> QED BY <3>3 DEF R
    <2>3. info' \in [Ids -> Procs \cup {None}] /\ ring' \in [Ids -> Ids]
           /\ bdisk' \in [Procs -> {0, 1}] /\ idx' \in [Procs -> Ids]
      BY <1>1, <1>4, ZenonT(60) DEF IInv, TypeOK
    <2>4. pc' \in [Procs -> Labels] BY <1>1, PcType DEF IInv
    <2> QED BY <1>1, <1>2, <2>1, <2>2, <2>3, <2>4 DEF IInv, TypeOK, Labels
  <1>6. NoPanic' BY <1>1, <1>2 DEF IInv, TypeOK, NoPanic
  <1>7. SleepersHaveReason'
    <2>1. FreeIds' \subseteq FreeIds BY <1>1 DEF IInv, TypeOK, FreeIds
    <2>2. IsFiniteSet(FreeIds) BY FiniteFree
    <2>3. Cardinality(FreeIds') <= Cardinality(FreeIds)
           /\ Cardinality(FreeIds') \in Nat /\ Cardinality(FreeIds) \in Nat
      BY <2>1, <2>2, FS_Subset, FS_CardinalityType
    <2> QED BY <1>1, <2>3, SMTT(60) DEF IInv, TypeOK, SleepersHaveReason
  <1>8. ChainInv'
    <2>1. Owns(p, i, j, k)'
      <3>1. PICK R : desc \in [Ids -> R] BY ZenonT(60) DEF IInv, TypeOK
      <3>2. /\ desc'[i] = [addr |-> p, more |-> 1, next |-> j]
            /\ desc'[j] = [addr |-> p, more |-> 1, next |-> k]
            /\ desc'[k] = [addr |-> p, more |-> 0, next |-> 0]
        BY <1>1, <1>4, <3>1, ZenonT(60)
      <3>3. free'[i] = 0 /\ free'[j] = 0 /\ free'[k] = 0 /\ info'[i] = p
        BY <1>1, <1>4 DEF IInv, TypeOK
      <3> QED BY <1>4, <3>2, <3>3 DEF Owns
    <2>2. ASSUME NEW q \in Procs, q # p, pc'[q] \in Requesting
          PROVE  (\E a, b \in Ids : Owns(q, idx[q], a, b))'
      <3>1. pc[q] \in Requesting /\ idx'[q] = idx[q] BY <1>1, <2>2 DEF IInv, TypeOK
      <3>2. PICK a, b \in Ids : Owns(q, idx[q], a, b) BY <3>1 DEF IInv, ChainInv
      <3>3. \A d \in {idx[q], a, b} : d \in Ids /\ d # i /\ d # j /\ d # k
        BY <1>4, <3>2, SMTT(60) DEF IInv, TypeOK, Owns
      <3>4. \A d \in {idx[q], a, b} : free'[d] = free[d] /\ desc'[d] = desc[d]
        BY <1>1, <3>3, ZenonT(60) DEF IInv, TypeOK
      <3>5. info'[idx[q]] = info[idx[q]] BY <1>1, <3>3, ZenonT(60) DEF IInv, TypeOK
      <3>6. Owns(q, idx[q], a, b)' BY <3>1, <3>2, <3>4, <3>5, ZenonT(60) DEF Owns
      <3> QED BY <3>6
    <2>3. ASSUME NEW h \in Ids, info'[h] # None
          PROVE  pc'[info'[h]] \in Requesting /\ idx'[info'[h]] = h
      <3>1. CASE h = i BY <1>1, <1>4, <3>1, ZenonT(60) DEF IInv, TypeOK, Requesting
      <3>2. CASE h # i
        <4>1. info'[h] = info[h] BY <1>1, <3>2, ZenonT(60) DEF IInv, TypeOK
        <4>2. info[h] \in Procs /\ pc[info[h]] \in Requesting /\ idx[info[h]] = h
          BY <2>3, <4>1, InfoOwns DEF IInv
        <4>3. info[h] # p BY <1>1, <4>2, ZenonT(60) DEF Requesting, Waiting
        <4> QED BY <1>1, <4>1, <4>2, <4>3, ZenonT(60) DEF IInv, TypeOK
      <3> QED BY <3>1, <3>2, ZenonT(60)
    <2>4. idx'[p] = i BY <1>1, ZenonT(60) DEF IInv, TypeOK
    <2> QED BY <1>4, <2>1, <2>2, <2>3, <2>4 DEF ChainInv
  <1>9. LockInv'
    <2>1. \A q \in Procs : q # p => pc'[q] # "notify"
      BY <1>1, Constants DEF IInv, TypeOK, LockInv
    <2>2. Slot(avail)' = Slot(avail) BY <1>2 DEF Slot
    <2>3. Slot(avail) \in Ids BY Ranges DEF IInv
    <2>4. ring'[Slot(avail)] = i /\ idx'[p] = i /\ bdisk'[p] = 1 /\ pc'[p] = "notify"
      BY <1>1, <2>3 DEF IInv, TypeOK
    <2> QED BY <1>1, <1>2, <2>1, <2>2, <2>4, ZenonT(60) DEF LockInv
  <1>10. RingInv' /\ Queue' = Queue /\ Used' = Used
    <2>1. /\ QueueLen' = QueueLen /\ UsedLen' = UsedLen
          /\ Slot(seen)' = Slot(seen) /\ Slot(avail)' = Slot(avail)
      BY <1>2 DEF QueueLen, UsedLen, Slot
    <2>2. ring' = [ring EXCEPT ![Wrap(Slot(seen) + QueueLen)] = i]
      BY <1>1 DEF IInv, RingInv
    <2>3. /\ Window(ring', Slot(seen), QueueLen) = Window(ring, Slot(seen), QueueLen)
          /\ AllDiffer(ring', Slot(seen), QueueLen)
      <3>1. ring \in [Ids -> Ids] /\ AllDiffer(ring, Slot(seen), QueueLen)
        BY DEF IInv, RingInv, TypeOK
      <3>2. Slot(seen) \in Ids /\ QueueLen \in 0..(NUM - 1) BY Ranges DEF IInv
      <3> DEFINE s == Slot(seen)
                 n == QueueLen
                 g == Put(ring, s, n, i)
      <3>3. /\ ring \in [Ids -> Ids] /\ AllDiffer(ring, s, n) /\ s \in Ids
            /\ n \in 0..(NUM - 1)
        BY <3>1, <3>2
      <3> HIDE DEF s, n
      <3>4. Window(g, s, n) = Window(ring, s, n) /\ AllDiffer(g, s, n)
        BY <1>4, <3>3, Push
      <3> QED BY <2>2, <3>4 DEF s, n, Put
    <2> QED BY <1>2, <2>1, <2>3 DEF IInv, RingInv, Queue, Used
  <1>11. \A h : InFlight(h) => InFlight(h)'
    <2> SUFFICES ASSUME NEW h, InFlight(h) PROVE InFlight(h)'
      OBVIOUS
    <2>1. h \in Ids /\ info[h] \in Procs /\ info[h] # p
      BY <1>1, InfoOwns DEF IInv, InFlight, Waiting
    <2>2. h # i
      <3>1. PICK a, b \in Ids : Owns(info[h], h, a, b) BY <2>1, InfoOwns, Constants DEF IInv
      <3> QED BY <1>4, <3>1, SMTT(60) DEF Owns
    <2> QED BY <1>1, <2>1, <2>2 DEF IInv, TypeOK, InFlight
  <1>12. PlaceInv' BY <1>2, <1>10, <1>11 DEF IInv, PlaceInv
  <1>13. NoneLost'
    <2>1. \A q \in Procs : pc'[q] \in Waiting => q # p BY <1>1, ZenonT(60) DEF IInv, TypeOK, Waiting
    <2> QED BY <1>1, <1>2, <1>10, <2>1, ZenonT(60) DEF IInv, TypeOK, NoneLost
  <1> QED BY <1>5, <1>6, <1>7, <1>8, <1>9, <1>10, <1>12, <1>13 DEF IInv

\* The descriptors of a request stay its own while nobody writes them.
LEMMA SameOwns ==
  ASSUME UNCHANGED <<free, desc, info>>
  PROVE  \A p, i, j, k : Owns(p, i, j, k)' <=> Owns(p, i, j, k)
  <1>1. free' = free /\ desc' = desc /\ info' = info OBVIOUS
  <1> QED BY <1>1, SMTT(60) DEF Owns

\* So does what a process has when it only moves on.
LEMMA SameChains ==
  ASSUME IInv, UNCHANGED <<free, desc, info, idx>>,
         \A q \in Procs : pc'[q] \in Requesting <=> pc[q] \in Requesting
  PROVE  ChainInv'
  <1>1. \A p, i, j, k : Owns(p, i, j, k)' <=> Owns(p, i, j, k) BY SameOwns, ZenonT(60)
  <1>2. \A h \in Ids : info[h] # None => info[h] \in Procs BY DEF IInv, TypeOK
  <1> QED BY <1>1, <1>2, ZenonT(60) DEF IInv, ChainInv

\* The ring of completions alone.
LEMMA SameUsed ==
  ASSUME UNCHANGED <<elems, used, used_idx>>
  PROVE  Used' = Used /\ UsedLen' = UsedLen
  BY DEF Used, UsedLen, Slot

\* One more request in the avail ring, when it is visible: the ring has room
\* because the other descriptors of the request start none that is queued.
LEMMA NotifyFacts ==
  ASSUME IInv, NEW p \in Procs, rw_notify(p)
  PROVE  /\ idx[p] \in Ids /\ info[idx[p]] = p /\ ~InFlight(idx[p])
         /\ Queue' = Queue \cup {idx[p]} /\ RingInv'
  <1>1. /\ pc[p] = "notify" /\ avail' = NextIdx(avail)
        /\ UNCHANGED <<ring, seen>> /\ UNCHANGED <<elems, used, used_idx>>
    BY DEF rw_notify, dev
  <1>2. idx[p] \in Ids BY DEF IInv, TypeOK
  <1>3. PICK j, k \in Ids : Owns(p, idx[p], j, k) BY <1>1 DEF IInv, ChainInv, Requesting
  <1>4. info[idx[p]] = p /\ idx[p] # j BY <1>3 DEF Owns
  <1>5. ~InFlight(idx[p]) BY <1>1, <1>4 DEF InFlight, Waiting
  <1>6. ~InFlight(j) BY <1>2, <1>3, NotInFlight DEF IInv
  <1>7. idx[p] \notin Queue /\ j \notin Queue BY <1>5, <1>6 DEF IInv, PlaceInv
  <1>8. /\ Slot(seen) \in Ids /\ Slot(avail) \in Ids /\ QueueLen \in 0..(NUM - 1)
        /\ Slot(avail) = Wrap(Slot(seen) + QueueLen)
    BY Ranges DEF IInv
  <1>9. ring \in [Ids -> Ids] /\ AllDiffer(ring, Slot(seen), QueueLen)
    BY DEF IInv, TypeOK, RingInv
  <1>10. QueueLen <= NUM - 2
    <2>1. QueueLen \in 0..NUM BY <1>8, Constants, SMTT(60)
    <2> QED BY <1>2, <1>4, <1>7, <1>8, <1>9, <2>1, RoomLeft DEF Queue
  <1>11. avail \in 0..(UintMod - 1) /\ seen \in 0..(UintMod - 1) BY DEF IInv, TypeOK
  <1>12. /\ avail' = IF avail = UintMod - 1 THEN 0 ELSE avail + 1
         /\ Slot(avail)' = Wrap(Slot(avail) + 1)
    <2>1. Slot(avail)' = Slot(NextIdx(avail)) BY <1>1 DEF Slot
    <2> QED BY <1>1, <1>11, <2>1, NextIdxFacts
  <1>13. QueueLen' = QueueLen + 1
    <2>1. seen' = seen BY <1>1
    <2> QED BY <1>8, <1>11, <1>12, <2>1, Constants, SMTT(60) DEF QueueLen
  <1>14. Slot(seen)' = Slot(seen) BY <1>1 DEF Slot
  <1>15. Slot(avail)' = Wrap(Slot(seen) + (QueueLen + 1))
    BY <1>8, <1>10, <1>12, Constants, SMTT(60) DEF Wrap
  <1>16. ring[Slot(avail)] = idx[p] BY <1>1 DEF IInv, LockInv
  <1>17. /\ Window(ring, Slot(seen), QueueLen + 1)
              = Window(ring, Slot(seen), QueueLen) \cup {idx[p]}
         /\ AllDiffer(ring, Slot(seen), QueueLen + 1)
    <2>1. ring[Wrap(Slot(seen) + QueueLen)] = idx[p] BY <1>8, <1>16
    <2>2. ring[Wrap(Slot(seen) + QueueLen)] \notin Window(ring, Slot(seen), QueueLen)
      BY <1>7, <2>1 DEF Queue
    <2> DEFINE s == Slot(seen)
               n == QueueLen
    <2>3. /\ s \in Ids /\ n \in 0..(NUM - 1) /\ AllDiffer(ring, s, n)
          /\ ring[Wrap(s + n)] \notin Window(ring, s, n)
      BY <1>8, <1>9, <2>2
    <2> HIDE DEF s, n
    <2>4. /\ Window(ring, s, n + 1) = Window(ring, s, n) \cup {ring[Wrap(s + n)]}
          /\ AllDiffer(ring, s, n + 1)
      BY <1>9, <2>3, Grow
    <2> QED BY <2>1, <2>4 DEF s, n
  <1>18. Queue' = Queue \cup {idx[p]} BY <1>1, <1>13, <1>14, <1>17 DEF Queue
  <1>19. QueueLen' < NUM BY <1>8, <1>10, <1>13, Constants, SMTT(60)
  <1>20. AllDiffer(elems, used_idx, UsedLen)'
    BY <1>1, SameUsed DEF IInv, RingInv
  <1>21. RingInv' BY <1>1, <1>13, <1>14, <1>15, <1>17, <1>19, <1>20 DEF RingInv
  <1> QED BY <1>2, <1>4, <1>5, <1>18, <1>21

\* virtio_disk_rw() publishes the request, notifies the device and waits.
LEMMA NotifyInv ==
  ASSUME IInv, NEW p \in Procs, rw_notify(p)
  PROVE  IInv'
  <1>1. /\ pc[p] = "notify" /\ avail' = NextIdx(avail) /\ lock' = None
        /\ pc' = [pc EXCEPT ![p] = "wait"]
        /\ UNCHANGED <<free, desc, info, idx, bdisk, irq, ring>>
        /\ UNCHANGED <<elems, used, used_idx, busy, seen, disk, data, dir, isr, calls>>
    BY DEF rw_notify, dev
  <1>2. /\ pc'[p] = "wait" /\ pc' \in [Procs -> Labels]
        /\ \A q \in Procs : q # p => pc'[q] = pc[q]
    BY <1>1, PcType DEF IInv
  <1>3. bdisk[p] = 1 /\ lock = p BY <1>1 DEF IInv, LockInv
  <1>4. TypeOK'
    <2>1. avail' \in 0..(UintMod - 1)
      <3>1. avail \in 0..(UintMod - 1) BY DEF IInv, TypeOK
      <3>2. NextIdx(avail) = IF avail = UintMod - 1 THEN 0 ELSE avail + 1
        BY <3>1, NextIdxFacts
      <3> QED BY <1>1, <3>1, <3>2, Constants, SMTT(60)
    <2> QED BY <1>1, <1>2, <2>1 DEF IInv, TypeOK, Labels
  <1>5. NoPanic' BY <1>1, <1>2 DEF IInv, NoPanic
  <1>6. SleepersHaveReason'
    <2>1. FreeIds' = FreeIds BY <1>1 DEF FreeIds
    <2> QED BY <1>1, <1>2, <1>3, <2>1 DEF IInv, SleepersHaveReason
  <1>7. ChainInv'
    <2>1. \A q \in Procs : pc'[q] \in Requesting <=> pc[q] \in Requesting
      BY <1>1, <1>2 DEF Requesting, Waiting
    <2> QED BY <1>1, <2>1, SameChains
  <1>8. LockInv'
    <2>1. \A q \in Procs : pc'[q] # "notify" BY <1>2, <1>3 DEF IInv, LockInv
    <2> QED BY <1>1, <2>1 DEF LockInv
  <1>9. /\ idx[p] \in Ids /\ info[idx[p]] = p /\ ~InFlight(idx[p])
        /\ Queue' = Queue \cup {idx[p]} /\ RingInv'
    BY NotifyFacts
  <1>10. Used' = Used /\ busy' = busy BY <1>1, SameUsed
  <1>11. \A h : InFlight(h) => InFlight(h)'
    BY <1>1, <1>2 DEF IInv, TypeOK, InFlight, Waiting
  <1>12. InFlight(idx[p])' BY <1>1, <1>2, <1>3, <1>9, Constants, ZenonT(60) DEF InFlight, Waiting
  <1>13. PlaceInv'
    <2>1. idx[p] \notin busy /\ idx[p] \notin Used BY <1>9 DEF IInv, PlaceInv
    <2>2. idx' = idx BY <1>1
    <2> QED BY <1>9, <1>10, <1>11, <1>12, <2>1, <2>2, ZenonT(60) DEF IInv, PlaceInv
  <1>14. NoneLost'
    BY <1>1, <1>2, <1>9, <1>10 DEF IInv, NoneLost, Waiting
  <1> QED BY <1>4, <1>5, <1>6, <1>7, <1>8, <1>9, <1>13, <1>14 DEF IInv

\* What free_chain() of a request that is done does: its own three descriptors
\* and its info are free, and processes that wait for descriptors look again.
LEMMA ReturnFacts ==
  ASSUME IInv, NEW p \in Procs, rw_return(p), Done(p),
         NEW j \in Ids, NEW k \in Ids, Owns(p, idx[p], j, k)
  PROVE  /\ info' = [info EXCEPT ![idx[p]] = None]
         /\ free' = [d \in Ids |-> IF d \in {idx[p], j, k} THEN 1 ELSE free[d]]
         /\ desc' = [d \in Ids |-> IF d \in {idx[p], j, k}
                                     THEN [desc[d] EXCEPT !.addr = None] ELSE desc[d]]
         /\ pc' = wake_free(p, "idle")
  <1>1. /\ info' = [info EXCEPT ![idx[p]] = None]
        /\ free' = [d \in Ids |-> IF d \in Chain(idx[p]) THEN 1 ELSE free[d]]
        /\ desc' = [d \in Ids |-> IF d \in Chain(idx[p])
                                   THEN [desc[d] EXCEPT !.addr = None] ELSE desc[d]]
        /\ pc' = wake_free(p, IF \E d \in Chain(idx[p]) : free[d] = 1
                                THEN "panic" ELSE "idle")
    BY DEF rw_return
  <1>2. Chain(idx[p]) = {idx[p], j, k} BY ChainOf, SMTT(60)
  <1>3. ~ \E d \in Chain(idx[p]) : free[d] = 1 BY <1>2, SMTT(60) DEF Owns
  <1> QED BY <1>1, <1>2, <1>3, ZenonT(60)

\* virtio_disk_rw() frees the chain of a finished request, or waits again.
LEMMA ReturnInv ==
  ASSUME IInv, NEW p \in Procs, rw_return(p)
  PROVE  IInv'
  <1>1. /\ pc[p] = "woken" /\ lock = None /\ irq \notin {"loop", "ack"}
        /\ UNCHANGED <<ring, avail, used_idx, bdisk>> /\ UNCHANGED <<elems, used, disk, seen, busy>>
        /\ UNCHANGED <<data, dir, isr, irq, lock, idx, calls>>
    BY DEF rw_return, LockFree, dev
  <1>2. CASE ~Done(p)
    <2>1. pc' = [pc EXCEPT ![p] = "wait"] /\ UNCHANGED <<free, desc, info>>
      BY <1>2 DEF rw_return
    <2>2. /\ pc' \in [Procs -> Labels] /\ pc'[p] = "wait"
          /\ \A q \in Procs : q # p => pc'[q] = pc[q]
      BY <2>1, PcType DEF IInv
    <2>3. bdisk[p] = 1 BY <1>2 DEF IInv, TypeOK, Done
    <2>4. Calm BY <1>1, <2>1, <2>2 DEF Calm, Waiting
    <2>5. TypeOK' BY <1>1, <2>1, <2>2 DEF IInv, TypeOK, Labels
    <2>6. NoPanic' BY <1>1, <2>2 DEF IInv, NoPanic
    <2>7. SleepersHaveReason'
      <3>1. FreeIds' = FreeIds BY <2>1 DEF FreeIds
      <3> QED BY <1>1, <2>2, <2>3, <3>1, ZenonT(60) DEF IInv, SleepersHaveReason
    <2> QED BY <1>1, <2>4, <2>5, <2>6, <2>7, CalmInv
  <1>3. CASE Done(p)
    <2> DEFINE i == idx[p]
    <2>1. i \in Ids BY DEF IInv, TypeOK
    <2>2. PICK j, k \in Ids : Owns(p, i, j, k)
      BY <1>1, ZenonT(60) DEF IInv, ChainInv, Requesting, Waiting
    <2>3. /\ info' = [info EXCEPT ![i] = None]
          /\ free' = [d \in Ids |-> IF d \in {i, j, k} THEN 1 ELSE free[d]]
          /\ desc' = [d \in Ids |-> IF d \in {i, j, k}
                                      THEN [desc[d] EXCEPT !.addr = None] ELSE desc[d]]
          /\ pc' = wake_free(p, "idle")
      BY <1>3, <2>2, ReturnFacts
    <2>4. /\ pc' \in [Procs -> Labels] /\ pc'[p] = "idle"
          /\ \A q \in Procs : q # p =>
               pc'[q] # "nodesc" /\ (pc'[q] = pc[q] \/ (pc'[q] = "alloc" /\ pc[q] = "nodesc"))
      BY <2>3, Woken, PcType DEF IInv
    <2>5. bdisk[p] = 0 BY <1>3 DEF Done
    <2>6. TypeOK'
      <3>1. info' \in [Ids -> Procs \cup {None}] /\ free' \in [Ids -> {0, 1}]
        BY <2>1, <2>3 DEF IInv, TypeOK
      <3>2. desc' \in [Ids -> [addr : Procs \cup {None}, more : {0, 1}, next : Ids]]
        <4> DEFINE R == [addr : Procs \cup {None}, more : {0, 1}, next : Ids]
        <4>1. \A r \in R : [r EXCEPT !.addr = None] \in R OBVIOUS
        <4>2. desc \in [Ids -> R] BY DEF IInv, TypeOK
        <4>3. \A d \in Ids : desc[d] \in R BY <4>2
        <4> HIDE DEF R
        <4>4. desc' \in [Ids -> R] BY <2>3, <4>1, <4>3
        <4> QED BY <4>4 DEF R
      <3> QED BY <1>1, <2>4, <3>1, <3>2 DEF IInv, TypeOK, Labels
    <2>7. NoPanic' BY <1>1, <2>4 DEF IInv, NoPanic
    <2>8. SleepersHaveReason' BY <1>1, <2>4, ZenonT(60) DEF IInv, SleepersHaveReason
    <2>9. ChainInv'
      <3>1. ASSUME NEW q \in Procs, pc'[q] \in Requesting
            PROVE  (\E a, b \in Ids : Owns(q, idx[q], a, b))'
        <4>1. q # p /\ pc[q] = pc'[q] BY <2>4, <3>1 DEF Requesting, Waiting
        <4>2. PICK a, b \in Ids : Owns(q, idx[q], a, b) BY <3>1, <4>1 DEF IInv, ChainInv
        <4>3. \A d \in {idx[q], a, b} : d \in Ids /\ d \notin {i, j, k}
          <5>1. \A d \in {idx[q], a, b} : desc[d].addr = q BY <4>2, OwnerIs, SMTT(60)
          <5>2. \A d \in {i, j, k} : desc[d].addr = p BY <2>2, OwnerIs, SMTT(60)
          <5>3. idx[q] \in Ids BY DEF IInv, TypeOK
          <5> QED BY <4>1, <5>1, <5>2, <5>3, SMTT(60)
        <4>4. \A d \in {idx[q], a, b} : free'[d] = free[d] /\ desc'[d] = desc[d]
          BY <2>3, <4>3, ZenonT(60)
        <4>5. info'[idx[q]] = info[idx[q]] BY <2>1, <2>3, <4>3 DEF IInv, TypeOK
        <4>6. Owns(q, idx[q], a, b)' BY <1>1, <4>2, <4>4, <4>5, ZenonT(60) DEF Owns
        <4> QED BY <4>6
      <3>2. ASSUME NEW h \in Ids, info'[h] # None
            PROVE  pc'[info'[h]] \in Requesting /\ idx'[info'[h]] = h
        <4>1. h # i /\ info'[h] = info[h] BY <2>1, <2>3, <3>2 DEF IInv, TypeOK
        <4>2. info[h] \in Procs /\ pc[info[h]] \in Requesting /\ idx[info[h]] = h
          BY <3>2, <4>1, InfoOwns DEF IInv
        <4>3. info[h] # p BY <4>1, <4>2
        <4>4. pc'[info[h]] = pc[info[h]] BY <2>4, <4>2, <4>3 DEF Requesting, Waiting
        <4> QED BY <1>1, <4>1, <4>2, <4>4, ZenonT(60)
      <3> QED BY <3>1, <3>2, ZenonT(60) DEF ChainInv
    <2>10. LockInv'
      <3>1. \A q \in Procs : pc'[q] # "notify"
        BY <1>1, <2>4, Constants DEF IInv, LockInv
      <3> QED BY <1>1, <3>1, ZenonT(60) DEF IInv, LockInv
    <2>11. RingInv' /\ Queue' = Queue /\ Used' = Used BY <1>1, SameRings DEF IInv
    <2>12. \A h : InFlight(h) => InFlight(h)'
      <3> SUFFICES ASSUME NEW h, InFlight(h) PROVE InFlight(h)'
        OBVIOUS
      <3>1. h \in Ids /\ info[h] \in Procs /\ info[h] # p /\ pc[info[h]] \in Waiting
        BY <2>5, InfoOwns, SMTT(60) DEF IInv, InFlight
      <3>2. h # i BY <2>2, <3>1 DEF Owns
      <3>3. info'[h] = info[h] BY <2>1, <2>3, <3>1, <3>2 DEF IInv, TypeOK
      <3>4. pc'[info[h]] = pc[info[h]] BY <2>4, <3>1 DEF Waiting
      <3> QED BY <1>1, <3>1, <3>3, <3>4 DEF InFlight
    <2>13. PlaceInv' BY <1>1, <2>11, <2>12 DEF IInv, PlaceInv
    <2>14. NoneLost'
      <3>1. \A q \in Procs : pc'[q] \in Waiting => pc[q] \in Waiting BY <2>4 DEF Waiting
      <3> QED BY <1>1, <2>11, <3>1 DEF IInv, NoneLost
    <2> QED BY <2>6, <2>7, <2>8, <2>9, <2>10, <2>11, <2>13, <2>14 DEF IInv
  <1> QED BY <1>2, <1>3

\* A turn of the handler's loop takes the oldest completion, which is of a
\* request whose process still waits.
LEMMA LoopFacts ==
  ASSUME IInv, intr_loop, used_idx # Slot(used)
  PROVE  LET h == elems[used_idx] IN
         /\ h \in Used /\ InFlight(h) /\ info[h] \in Procs /\ idx[info[h]] = h
         /\ used_idx' \in Ids /\ Used' = Used \ {h} /\ Queue' = Queue /\ RingInv'
  <1> DEFINE h == elems[used_idx]
  <1>1. /\ used_idx' = (used_idx + 1) % NUM
        /\ UNCHANGED <<ring, avail, seen>> /\ UNCHANGED <<elems, used>>
    BY DEF intr_loop, dev, Slot
  <1>2. used_idx \in Ids /\ Slot(used) \in Ids /\ UsedLen \in 0..(NUM - 1)
    BY Ranges DEF IInv
  <1>3. elems \in [Ids -> Ids] /\ AllDiffer(elems, used_idx, UsedLen)
    BY DEF IInv, TypeOK, RingInv
  <1>4. used_idx' = Wrap(used_idx + 1)
    <2>1. used_idx + 1 \in 0..(2 * NUM - 1) BY <1>2, Constants, SMTT(60)
    <2> QED BY <1>1, <2>1, WrapMod
  <1>5. used_idx' \in Ids BY <1>2, <1>4, Constants, SMTT(60) DEF Wrap
  <1>6. UsedLen \in 1..NUM BY <1>2, Constants, SMTT(60) DEF UsedLen
  <1>7. UsedLen' = UsedLen - 1
    <2>1. Slot(used)' = Slot(used) BY <1>1 DEF Slot
    <2> QED BY <1>2, <1>4, <2>1, Constants, SMTT(60) DEF UsedLen, Wrap
  <1>8. /\ h \in Used /\ Window(elems, Wrap(used_idx + 1), UsedLen - 1) = Used \ {h}
        /\ AllDiffer(elems, Wrap(used_idx + 1), UsedLen - 1)
    <2> DEFINE n == UsedLen
    <2>1. n \in 1..NUM /\ AllDiffer(elems, used_idx, n) BY <1>3, <1>6
    <2> HIDE DEF n
    <2>2. /\ elems[used_idx] \in Window(elems, used_idx, n)
          /\ Window(elems, Wrap(used_idx + 1), n - 1)
               = Window(elems, used_idx, n) \ {elems[used_idx]}
          /\ AllDiffer(elems, Wrap(used_idx + 1), n - 1)
      BY <1>2, <1>3, <2>1, Shrink
    <2> QED BY <2>2 DEF n, Used
  <1>9. Used' = Used \ {h} /\ AllDiffer(elems, used_idx, UsedLen)'
    BY <1>1, <1>4, <1>7, <1>8 DEF Used
  <1>10. QueueLen' = QueueLen /\ Slot(seen)' = Slot(seen) /\ Slot(avail)' = Slot(avail)
    BY <1>1 DEF QueueLen, Slot
  <1>11. Queue' = Queue /\ RingInv' BY <1>1, <1>9, <1>10 DEF IInv, Queue, RingInv
  <1>12. InFlight(h) BY <1>8, ZenonT(60) DEF IInv, PlaceInv
  <1>13. info[h] \in Procs /\ idx[info[h]] = h
    BY <1>12, InfoOwns DEF IInv, InFlight
  <1> QED BY <1>5, <1>8, <1>9, <1>11, <1>12, <1>13, ZenonT(60)

\* So virtio_disk_intr() finds a buffer, and tells no other process.
LEMMA LoopInv ==
  ASSUME IInv, intr_loop
  PROVE  IInv'
  <1>1. /\ irq = "loop"
        /\ UNCHANGED <<free, desc, info, ring, avail>>
        /\ UNCHANGED <<elems, used, disk, seen, busy>>
        /\ UNCHANGED <<data, dir, isr, lock, idx, calls>>
    BY DEF intr_loop, dev
  <1>2. lock = None BY <1>1 DEF IInv, LockInv
  <1>3. FreeIds' = FreeIds BY <1>1 DEF FreeIds
  <1>4. CASE used_idx = Slot(used)
    <2>1. irq' = "ack" /\ UNCHANGED <<used_idx, bdisk, pc>> BY <1>4, ZenonT(60) DEF intr_loop, Slot
    <2>2. Calm BY <1>1, <2>1 DEF Calm
    <2>3. TypeOK' BY <1>1, <2>1 DEF IInv, TypeOK
    <2>4. NoPanic' BY <2>1 DEF IInv, NoPanic
    <2>5. SleepersHaveReason' BY <1>3, <2>1 DEF IInv, SleepersHaveReason
    <2> QED BY <1>2, <2>2, <2>3, <2>4, <2>5, CalmInv
  <1>5. CASE used_idx # Slot(used)
    <2>1. PICK h : h = elems[used_idx] OBVIOUS
    <2>2. /\ h \in Used /\ InFlight(h) /\ info[h] \in Procs /\ idx[info[h]] = h
          /\ used_idx' \in Ids /\ Used' = Used \ {h} /\ Queue' = Queue /\ RingInv'
      BY <1>5, <2>1, LoopFacts, ZenonT(60)
    <2>3. PICK p \in Procs : p = info[h] BY <2>2
    <2>4. /\ h \in Ids /\ info[h] = p /\ idx[p] = h /\ pc[p] \in Waiting /\ bdisk[p] = 1
      BY <2>2, <2>3 DEF InFlight
    <2>5. /\ irq' = "loop"
          /\ bdisk' = [q \in Procs |-> IF q = p THEN 0 ELSE bdisk[q]]
          /\ pc' = [q \in Procs |-> IF q = p /\ pc[q] = "wait" THEN "woken" ELSE pc[q]]
      BY <1>5, <2>1, <2>3, Constants, ZenonT(60) DEF intr_loop, Slot
    <2>6. /\ pc' \in [Procs -> Labels] /\ bdisk' \in [Procs -> {0, 1}]
          /\ \A q \in Procs : q # p => pc'[q] = pc[q] /\ bdisk'[q] = bdisk[q]
          /\ pc'[p] = "woken" /\ bdisk'[p] = 0
      <3>1. pc \in [Procs -> Labels] /\ "woken" \in Labels BY PcType DEF IInv
      <3>2. bdisk \in [Procs -> {0, 1}] BY DEF IInv, TypeOK
      <3> QED BY <2>4, <2>5, <3>1, <3>2 DEF Waiting
    <2>7. TypeOK' BY <1>1, <2>2, <2>5, <2>6, ZenonT(60) DEF IInv, TypeOK, Labels
    <2>8. NoPanic' BY <2>5, <2>6, ZenonT(60) DEF IInv, NoPanic
    <2>9. SleepersHaveReason' BY <1>3, <2>6 DEF IInv, SleepersHaveReason
    <2>10. ChainInv'
      <3>1. \A q \in Procs : pc'[q] \in Requesting <=> pc[q] \in Requesting
        BY <2>4, <2>6 DEF Requesting, Waiting
      <3> QED BY <1>1, <3>1, SameChains, ZenonT(60)
    <2>11. LockInv'
      <3>1. \A q \in Procs : pc'[q] # "notify"
        BY <1>2, <2>6, Constants DEF IInv, LockInv
      <3> QED BY <1>1, <1>2, <3>1 DEF LockInv
    <2>12. ASSUME NEW g, InFlight(g), g # h PROVE InFlight(g)'
      <3>1. info[g] \in Procs /\ idx[info[g]] = g BY <2>12, InfoOwns DEF IInv, InFlight
      <3>2. info[g] # p BY <2>4, <2>12, <3>1
      <3> QED BY <1>1, <2>6, <2>12, <3>1, <3>2 DEF InFlight
    <2>13. PlaceInv'
      <3>1. h \notin Queue /\ h \notin busy BY <2>2 DEF IInv, PlaceInv
      <3> QED BY <1>1, <2>2, <2>12, <3>1 DEF IInv, PlaceInv
    <2>14. NoneLost'
      <3> SUFFICES ASSUME NEW q \in Procs, pc'[q] \in Waiting, bdisk'[q] = 1
                   PROVE  idx[q] \in Queue' \cup busy' \cup Used'
        BY <1>1 DEF NoneLost
      <3>1. q # p BY <2>6, SMTT(60)
      <3>2. pc[q] \in Waiting /\ bdisk[q] = 1 BY <2>6, <3>1
      <3>3. idx[q] \in Queue \cup busy \cup Used BY <3>2 DEF IInv, NoneLost
      <3>4. info[idx[q]] = q BY <3>2, ZenonT(60) DEF IInv, ChainInv, Requesting, Owns
      <3>5. idx[q] # h BY <2>4, <3>1, <3>4
      <3> QED BY <1>1, <2>2, <3>3, <3>5
    <2> QED BY <2>2, <2>7, <2>8, <2>9, <2>10, <2>11, <2>13, <2>14 DEF IInv
  <1> QED BY <1>4, <1>5

\* A step of the device changes neither who waits nor whose descriptors are whose.
LEMMA DeviceKeeps ==
  ASSUME IInv, UNCHANGED <<drv, irq, lock, pc, idx>>
  PROVE  /\ NoPanic' /\ SleepersHaveReason' /\ ChainInv' /\ LockInv'
         /\ \A h : InFlight(h) => InFlight(h)'
  <1>1. /\ UNCHANGED <<free, desc, info, ring, avail, used_idx, bdisk>>
        /\ UNCHANGED <<irq, lock, pc, idx>>
    BY DEF drv
  <1>2. NoPanic' BY <1>1 DEF IInv, NoPanic
  <1>3. SleepersHaveReason'
    <2>1. FreeIds' = FreeIds BY <1>1 DEF FreeIds
    <2> QED BY <1>1, <2>1 DEF IInv, SleepersHaveReason
  <1>4. ChainInv' BY <1>1, SameChains
  <1>5. LockInv'
    <2>1. Slot(avail)' = Slot(avail) BY <1>1 DEF Slot
    <2> QED BY <1>1, <2>1 DEF IInv, LockInv
  <1>6. \A h : InFlight(h) => InFlight(h)' BY <1>1 DEF InFlight
  <1> QED BY <1>2, <1>3, <1>4, <1>5, <1>6

\* The device takes the oldest request of the avail ring.
LEMMA TakeInv ==
  ASSUME IInv, device_take
  PROVE  IInv'
  <1> DEFINE h == ring[Slot(seen)]
  <1>1. /\ seen # avail /\ busy' = busy \cup {h} /\ seen' = NextIdx(seen)
        /\ UNCHANGED <<elems, used, disk>> /\ UNCHANGED <<data, dir, isr, calls>>
        /\ UNCHANGED <<drv, irq, lock, pc, idx>>
    BY DEF device_take, Slot
  <1>2. UNCHANGED <<free, desc, info, ring, avail, used_idx, bdisk>> BY <1>1 DEF drv
  <1>3. /\ Slot(seen) \in Ids /\ Slot(avail) \in Ids /\ QueueLen \in 0..(NUM - 1)
        /\ Slot(avail) = Wrap(Slot(seen) + QueueLen)
    BY Ranges DEF IInv
  <1>4. avail \in 0..(UintMod - 1) /\ seen \in 0..(UintMod - 1) BY DEF IInv, TypeOK
  <1>5. /\ seen' = IF seen = UintMod - 1 THEN 0 ELSE seen + 1
        /\ Slot(seen)' = Wrap(Slot(seen) + 1)
    <2>1. Slot(seen)' = Slot(NextIdx(seen)) BY <1>1 DEF Slot
    <2> QED BY <1>1, <1>4, <2>1, NextIdxFacts
  <1>6. QueueLen \in 1..NUM BY <1>1, <1>3, <1>4, Constants, SMTT(60) DEF QueueLen
  <1>7. QueueLen' = QueueLen - 1
    BY <1>1, <1>2, <1>3, <1>4, <1>5, Constants, SMTT(60) DEF QueueLen
  <1>8. /\ h \in Queue /\ Window(ring, Wrap(Slot(seen) + 1), QueueLen - 1) = Queue \ {h}
        /\ AllDiffer(ring, Wrap(Slot(seen) + 1), QueueLen - 1)
    <2> DEFINE n == QueueLen
               s == Slot(seen)
    <2>1. n \in 1..NUM /\ s \in Ids /\ ring \in [Ids -> Ids] /\ AllDiffer(ring, s, n)
      BY <1>3, <1>6, ZenonT(60) DEF IInv, TypeOK, RingInv
    <2> HIDE DEF n, s
    <2>2. /\ ring[s] \in Window(ring, s, n)
          /\ Window(ring, Wrap(s + 1), n - 1) = Window(ring, s, n) \ {ring[s]}
          /\ AllDiffer(ring, Wrap(s + 1), n - 1)
      BY <2>1, Shrink
    <2> QED BY <2>2 DEF n, s, Queue
  <1>9. Queue' = Queue \ {h} BY <1>2, <1>5, <1>7, <1>8 DEF Queue
  <1>10. Used' = Used /\ UsedLen' = UsedLen BY <1>1, <1>2, SameUsed
  <1>11. RingInv'
    <2>1. Slot(avail)' = Wrap(Wrap(Slot(seen) + 1) + (QueueLen - 1))
      <3>1. Slot(avail)' = Slot(avail) BY <1>2 DEF Slot
      <3> QED BY <1>3, <1>6, <3>1, Constants, SMTT(60) DEF Wrap
    <2>2. QueueLen' < NUM BY <1>6, <1>7, Constants, SMTT(60)
    <2> QED BY <1>1, <1>2, <1>5, <1>7, <1>8, <1>10, <2>1, <2>2 DEF IInv, RingInv
  <1>12. InFlight(h) /\ h \in Ids BY <1>8, ZenonT(60) DEF IInv, PlaceInv, InFlight
  <1>13. TypeOK'
    <2>1. seen' \in 0..(UintMod - 1) BY <1>4, <1>5, Constants, SMTT(60)
    <2> QED BY <1>1, <1>2, <1>12, <2>1, ZenonT(60) DEF IInv, TypeOK
  <1>14. /\ NoPanic' /\ SleepersHaveReason' /\ ChainInv' /\ LockInv'
         /\ \A g : InFlight(g) => InFlight(g)'
    BY <1>1, DeviceKeeps
  <1>15. PlaceInv' /\ NoneLost'
    <2> HIDE DEF h
    <2>1. \A g \in Queue' \cup busy' \cup Used' : g \in Queue \cup busy \cup Used
      BY <1>1, <1>8, <1>9, <1>10
    <2>2. PlaceInv' BY <1>1, <1>8, <1>9, <1>10, <1>14, <2>1 DEF IInv, PlaceInv
    <2>3. NoneLost' BY <1>1, <1>2, <1>9, <1>10 DEF IInv, NoneLost
    <2> QED BY <2>2, <2>3
  <1> QED BY <1>11, <1>13, <1>14, <1>15 DEF IInv

\* The device completes a request: it joins the used ring, which has room.
LEMMA CompleteFacts ==
  ASSUME IInv, NEW h \in Ids, device_complete(h)
  PROVE  /\ h \in busy /\ InFlight(h) /\ info[h] \in Procs /\ idx[info[h]] = h
         /\ desc[h].addr = info[h] /\ desc[desc[h].next].addr = info[h]
         /\ elems' \in [Ids -> Ids] /\ used' \in 0..(UintMod - 1)
         /\ Used' = Used \cup {h} /\ Queue' = Queue /\ RingInv'
  <1>1. /\ h \in busy /\ elems' = [elems EXCEPT ![Slot(used)] = h] /\ used' = NextIdx(used)
        /\ UNCHANGED <<ring, avail, seen, used_idx>>
    BY ZenonT(60) DEF device_complete, drv, Slot
  <1>2. InFlight(h) /\ h \notin Used BY <1>1 DEF IInv, PlaceInv
  <1>3. info[h] \in Procs /\ idx[info[h]] = h /\ \E j, k \in Ids : Owns(info[h], h, j, k)
    BY <1>2, InfoOwns DEF IInv, InFlight
  <1>4. PICK j, k \in Ids : Owns(info[h], h, j, k) BY <1>3
  <1>5. desc[h].addr = info[h] /\ desc[desc[h].next].addr = info[h] /\ h # j
    BY <1>4, SMTT(60) DEF Owns
  <1>6. j \notin Used
    <2>1. ~InFlight(j) BY <1>3, <1>4, NotInFlight, ZenonT(60) DEF IInv
    <2> QED BY <2>1 DEF IInv, PlaceInv
  <1>7. /\ used_idx \in Ids /\ Slot(used) \in Ids /\ UsedLen \in 0..(NUM - 1)
        /\ Slot(used) = Wrap(used_idx + UsedLen)
    BY Ranges DEF IInv
  <1>8. elems \in [Ids -> Ids] /\ AllDiffer(elems, used_idx, UsedLen)
    BY ZenonT(60) DEF IInv, TypeOK, RingInv
  <1>9. UsedLen <= NUM - 2
    <2>1. UsedLen \in 0..NUM BY <1>7, Constants, SMTT(60)
    <2> QED BY <1>2, <1>5, <1>6, <1>7, <1>8, <2>1, RoomLeft, ZenonT(60) DEF Used
  <1>10. used \in 0..(UintMod - 1) BY DEF IInv, TypeOK
  <1>11. /\ used' = IF used = UintMod - 1 THEN 0 ELSE used + 1
         /\ Slot(used)' = Wrap(Slot(used) + 1)
    <2>1. Slot(used)' = Slot(NextIdx(used)) BY <1>1 DEF Slot
    <2> QED BY <1>1, <1>10, <2>1, NextIdxFacts
  <1>12. used' \in 0..(UintMod - 1) BY <1>10, <1>11, Constants, SMTT(60)
  <1>13. UsedLen' = UsedLen + 1
    <2>1. used_idx' = used_idx BY <1>1
    <2>2. used_idx \in 0..(NUM - 1) /\ Slot(used) \in 0..(NUM - 1) BY <1>7, Constants
    <2> QED BY <1>9, <1>11, <2>1, <2>2, Constants, SMTT(60) DEF UsedLen, Wrap
  <1>14. /\ elems' \in [Ids -> Ids]
         /\ Window(elems', used_idx, UsedLen + 1) = Used \cup {h}
         /\ AllDiffer(elems', used_idx, UsedLen + 1)
    <2> DEFINE n == UsedLen
               s == used_idx
               g == Put(elems, s, n, h)
    <2>1. n \in 0..(NUM - 1) /\ s \in Ids /\ AllDiffer(elems, s, n) BY <1>7, <1>8
    <2>2. g = elems' BY <1>1, <1>7 DEF Put
    <2>3. h \notin Window(elems, s, n) BY <1>2 DEF Used
    <2> HIDE DEF n, s
    <2>4. /\ Window(g, s, n) = Window(elems, s, n) /\ AllDiffer(g, s, n)
          /\ g \in [Ids -> Ids] /\ g[Wrap(s + n)] = h
      BY <1>8, <2>1, Push, SMTT(60)
    <2> HIDE DEF g
    <2>5. g[Wrap(s + n)] \notin Window(g, s, n) BY <2>3, <2>4
    <2>6. /\ Window(g, s, n + 1) = Window(g, s, n) \cup {g[Wrap(s + n)]}
          /\ AllDiffer(g, s, n + 1)
      BY <2>1, <2>4, <2>5, Grow
    <2>7. Window(g, s, n + 1) = Window(elems, s, n) \cup {h} BY <2>4, <2>6
    <2> QED BY <2>2, <2>4, <2>6, <2>7 DEF n, s, Used
  <1>15. Used' = Used \cup {h} /\ AllDiffer(elems, used_idx, UsedLen)'
    BY <1>1, <1>13, <1>14, ZenonT(60) DEF Used
  <1>16. QueueLen' = QueueLen /\ Slot(seen)' = Slot(seen) /\ Slot(avail)' = Slot(avail)
    BY <1>1 DEF QueueLen, Slot
  <1>17. Queue' = Queue /\ RingInv' BY <1>1, <1>15, <1>16 DEF IInv, Queue, RingInv
  <1> QED BY <1>1, <1>2, <1>3, <1>5, <1>12, <1>14, <1>15, <1>17, ZenonT(60)

\* The device transfers the data and puts the head on the used ring.
LEMMA CompleteInv ==
  ASSUME IInv, NEW h \in Ids, device_complete(h)
  PROVE  IInv'
  <1>1. /\ h \in busy /\ InFlight(h) /\ info[h] \in Procs
        /\ desc[h].addr = info[h] /\ desc[desc[h].next].addr = info[h]
        /\ elems' \in [Ids -> Ids] /\ used' \in 0..(UintMod - 1)
        /\ Used' = Used \cup {h} /\ Queue' = Queue /\ RingInv'
    BY CompleteFacts, ZenonT(60)
  <1>2. /\ busy' = busy \ {h} /\ isr' = 1 /\ UNCHANGED <<dir, seen, calls>>
        /\ UNCHANGED <<drv, irq, lock, pc, idx>>
    BY ZenonT(60) DEF device_complete
  <1>3. UNCHANGED <<free, desc, info, ring, avail, used_idx, bdisk>> BY <1>2 DEF drv
  <1>4. disk' \in [Procs -> Values] /\ data' \in [Procs -> Values]
    <2>1. disk \in [Procs -> Values] /\ data \in [Procs -> Values] BY DEF IInv, TypeOK
    <2>2. PICK p \in Procs : p = info[h] BY <1>1
    <2>3. \/ data' = [data EXCEPT ![p] = disk[p]] /\ UNCHANGED disk
          \/ disk' = [disk EXCEPT ![p] = data[p]] /\ UNCHANGED data
      BY <1>1, <2>2, ZenonT(60) DEF device_complete
    <2> QED BY <2>1, <2>3
  <1>5. TypeOK' BY <1>1, <1>2, <1>3, <1>4, ZenonT(60) DEF IInv, TypeOK
  <1>6. /\ NoPanic' /\ SleepersHaveReason' /\ ChainInv' /\ LockInv'
        /\ \A g : InFlight(g) => InFlight(g)'
    BY <1>2, DeviceKeeps
  <1>7. PlaceInv'
    <2>1. \A g \in Queue' \cup busy' \cup Used' : g \in Queue \cup busy \cup Used
      BY <1>1, <1>2, ZenonT(60)
    <2> QED BY <1>1, <1>2, <1>6, <2>1, ZenonT(60) DEF IInv, PlaceInv
  <1>8. NoneLost' BY <1>1, <1>2, <1>3 DEF IInv, NoneLost
  <1> QED BY <1>1, <1>5, <1>6, <1>7, <1>8, ZenonT(60) DEF IInv

-----------------------------------------------------------------------------
(* The invariant.                                                           *)

\* virtio_disk_init() establishes the invariant.
LEMMA InitInv ==
  ASSUME Init
  PROVE  IInv
  <1>1. /\ Start \in 0..(UintMod - 1) /\ Slot(Start) \in Ids
    <2>1. Start \in 0..(UintMod - 1) BY ConstantAssumption, SMTT(60)
    <2> QED BY <2>1, NextIdxFacts
  <1>2. /\ avail = Start /\ used = Start /\ seen = Start /\ used_idx = Slot(Start)
        /\ free = [i \in Ids |-> 1] /\ info = [i \in Ids |-> None]
        /\ ring = [i \in Ids |-> 0] /\ elems = [i \in Ids |-> 0]
        /\ bdisk = [p \in Procs |-> 0] /\ dir = [p \in Procs |-> "read"]
        /\ disk \in [Procs -> Values] /\ data \in [Procs -> Values]
        /\ busy = {} /\ isr = 0 /\ irq = "off" /\ lock = None
        /\ pc = [p \in Procs |-> "idle"] /\ idx = [p \in Procs |-> 0] /\ calls = 0
    BY DEF Init, Slot
  <1>3. desc \in [Ids -> [addr : Procs \cup {None}, more : {0, 1}, next : Ids]]
    <2>1. 0 \in Ids /\ \A i \in Ids : i < 2 => i + 1 \in Ids BY Constants, SMTT(60)
    <2>2. desc = [i \in Ids |-> [addr |-> None, more |-> IF i < 2 THEN 1 ELSE 0,
                                 next |-> IF i < 2 THEN i + 1 ELSE 0]]
      BY DEF Init
    <2>3. \A i \in Ids : (IF i < 2 THEN i + 1 ELSE 0) \in Ids BY <2>1
    <2> QED BY <2>2, <2>3
  <1>4. TypeOK
    <2>1. 0 \in Ids /\ 0 \in 0..MaxCalls BY Constants, SMTT(60)
    <2> QED BY <1>1, <1>2, <1>3, <2>1, ZenonT(60) DEF TypeOK
  <1>5. QueueLen = 0 /\ UsedLen = 0 BY <1>1, <1>2, Constants, SMTT(60) DEF QueueLen, UsedLen
  <1>6. Queue = {} /\ Used = {}
    <2>1. 0..(0 - 1) = {} BY SMTT(60)
    <2> QED BY <1>5, <2>1 DEF Queue, Used, Window
  <1>7. RingInv
    <2>1. Slot(avail) = Wrap(Slot(seen) + QueueLen)
      BY <1>1, <1>2, <1>5, Constants, SMTT(60) DEF Wrap
    <2>2. 0..(0 - 1) = {} BY SMTT(60)
    <2>3. QueueLen < NUM BY <1>5, Constants, SMTT(60)
    <2> QED BY <1>5, <2>1, <2>2, <2>3 DEF RingInv, AllDiffer
  <1>8. NoPanic /\ SleepersHaveReason BY <1>2 DEF NoPanic, SleepersHaveReason
  <1>9. ChainInv /\ LockInv BY <1>2 DEF ChainInv, LockInv, Requesting, Waiting
  <1>10. PlaceInv /\ NoneLost BY <1>2, <1>6 DEF PlaceInv, NoneLost, Waiting
  <1> QED BY <1>4, <1>7, <1>8, <1>9, <1>10 DEF IInv

\* A step with no request in it.
LEMMA StutterInv ==
  ASSUME IInv, UNCHANGED vars
  PROVE  IInv'
  <1>1. UNCHANGED <<drv, dev, data, dir, isr, irq, lock, pc, idx, calls>> BY DEF vars
  <1>2. Calm BY <1>1 DEF Calm, drv, dev
  <1>3. TypeOK' BY <1>1 DEF IInv, TypeOK, drv, dev
  <1>4. NoPanic' BY <1>1 DEF IInv, NoPanic
  <1>5. SleepersHaveReason' BY <1>1, ZenonT(60) DEF IInv, SleepersHaveReason, drv, FreeIds
  <1>6. irq' \in {"loop", "ack"} => lock = None BY <1>1, ZenonT(60) DEF IInv, LockInv
  <1> QED BY <1>2, <1>3, <1>4, <1>5, <1>6, CalmInv

\* Every step keeps the invariant.
LEMMA NextInv ==
  ASSUME IInv, [Next]_vars
  PROVE  IInv'
  <1>1. ASSUME NEW p \in Procs, Driver(p) PROVE IInv'
    BY <1>1, FormatInv, NotifyInv, ReturnInv DEF Driver
  <1>2. ASSUME NEW p \in Procs, rw_sleep(p) \/ kill(p) PROVE IInv'
    BY <1>2, SleepInv, KillInv
  <1>3. ASSUME NEW p \in Procs, NEW v \in Values, virtio_disk_rw(p, "write", v) PROVE IInv'
    BY <1>3, RwInv
  <1>4. ASSUME NEW p \in Procs, virtio_disk_rw(p, "read", data[p]) PROVE IInv'
    <2>1. data[p] \in Values BY DEF IInv, TypeOK
    <2> QED BY <1>4, <2>1, RwInv
  <1>5. ASSUME virtio_disk_intr \/ Handler PROVE IInv'
    BY <1>5, IrqInv, LoopInv DEF Handler
  <1>6. ASSUME Device PROVE IInv'
    BY <1>6, TakeInv, CompleteInv DEF Device
  <1>7. CASE UNCHANGED vars BY <1>7, StutterInv
  <1> QED BY <1>1, <1>2, <1>3, <1>4, <1>5, <1>6, <1>7 DEF Next

\* The rings, the descriptors, the lock and the processes always agree as IInv
\* says, for any number of processes and descriptors and any index width.
THEOREM VirtioInvariant == Spec => []IInv
  <1>1. Init => IInv BY InitInv
  <1>2. IInv /\ [Next]_vars => IInv' BY NextInv
  <1> QED BY <1>1, <1>2, PTL DEF Spec

\* Type correctness of driver and device: the ring entries and used_idx stay below
\* NUM and the counters below their width, through alloc3_desc(), free_chain(), the
\* handler and the device.
THEOREM TypeCorrect == Spec => []TypeOK
  <1>1. IInv => TypeOK BY DEF IInv
  <1> QED BY <1>1, VirtioInvariant, PTL

\* free_desc() never frees a free descriptor, and virtio_disk_intr() never meets
\* a completion without a buffer.
THEOREM NeverPanics == Spec => []NoPanic
  <1>1. IInv => NoPanic BY DEF IInv
  <1> QED BY <1>1, VirtioInvariant, PTL

\* No request the device works on loses a descriptor, whatever the driver does
\* for other processes meanwhile.
THEOREM DeviceKeepsChains == Spec => []ChainsIntact
  <1>1. IInv => ChainsIntact
    <2> SUFFICES ASSUME IInv, NEW h \in busy
                 PROVE  /\ info[h] # None /\ Cardinality(Chain(h)) = 3
                        /\ \A i \in Chain(h) : free[i] = 0 /\ desc[i].addr = info[h]
      BY DEF ChainsIntact
    <2>1. h \in Ids /\ info[h] # None BY DEF IInv, PlaceInv, InFlight
    <2>2. PICK j, k \in Ids : Owns(info[h], h, j, k) BY <2>1, InfoOwns DEF IInv
    <2> QED BY <2>1, <2>2, ChainOf, OwnerIs, SMTT(60)
  <1> QED BY <1>1, VirtioInvariant, PTL

\* Nobody sleeps in virtio_disk_rw() for descriptors that are there or for a
\* buffer the handler is done with: no wakeup() comes too early.
THEOREM NoWakeupMissed == Spec => []SleepersHaveReason
  <1>1. IInv => SleepersHaveReason BY DEF IInv
  <1> QED BY <1>1, VirtioInvariant, PTL

\* Every request whose process is to be told is in the avail ring, with the
\* device, or in the used ring: wrapping indices never hide one.
THEOREM NoRequestLost == Spec => []NoneLost
  <1>1. IInv => NoneLost BY DEF IInv
  <1> QED BY <1>1, VirtioInvariant, PTL

-----------------------------------------------------------------------------
(* The driver implements BlockDevice.                                       *)

\* Where BlockDevice sees the request of p, by the entries between the indices.
Told(p)  == pc[p] \in Waiting /\ (bdisk[p] = 0 \/ idx[p] \in Used)
Stage(p) == IF pc[p] = "idle" THEN "idle" ELSE IF Told(p) THEN "done" ELSE "pending"
Stages   == [p \in Procs |-> Stage(p)]

\* Unseen, which counts from used_idx with %, is those entries.
LEMMA UnseenIsUsed ==
  ASSUME IInv
  PROVE  Unseen = Used
  <1>1. /\ used_idx \in Ids /\ Slot(used) \in Ids /\ UsedLen \in 0..(NUM - 1)
        /\ used \in 0..(UintMod - 1)
    BY Ranges, ZenonT(60) DEF IInv, TypeOK
  <1>2. (used - used_idx) % NUM = UsedLen
    <2>1. NUM \in Nat /\ NUM > 0 /\ used \in Int BY <1>1, Constants, SMTT(60)
    <2>2. PICK q \in Int : used = q * NUM + Slot(used) BY <2>1, ModHas, ZenonT(60) DEF Slot
    <2>3. used - used_idx \in Int BY <1>1, Constants, SMTT(60)
    <2>4. CASE used_idx <= Slot(used)
      <3>1. UsedLen = Slot(used) - used_idx BY <2>4 DEF UsedLen
      <3>2. used - used_idx = q * NUM + UsedLen BY <1>1, <2>2, <3>1, Constants, SMTT(60)
      <3> QED BY <1>1, <2>1, <2>3, <3>2, ModIs, ZenonT(60)
    <2>5. CASE ~(used_idx <= Slot(used))
      <3>1. UsedLen = Slot(used) + NUM - used_idx BY <2>5 DEF UsedLen
      <3>2. used - used_idx = (q - 1) * NUM + UsedLen
        <4>1. (q - 1) * NUM = q * NUM - NUM BY <2>1, SMTT(60)
        <4>2. q * NUM \in Int BY <2>1, SMTT(60)
        <4> QED BY <1>1, <2>2, <3>1, <4>1, <4>2, Constants, SMTT(60)
      <3>3. q - 1 \in Int BY SMTT(60)
      <3> QED BY <1>1, <2>1, <2>3, <3>2, <3>3, ModIs, ZenonT(60)
    <2> QED BY <2>4, <2>5
  <1>3. \A n \in 0..(UsedLen - 1) : (used_idx + n) % NUM = Wrap(used_idx + n)
    <2> SUFFICES ASSUME NEW n \in 0..(UsedLen - 1)
                 PROVE  (used_idx + n) % NUM = Wrap(used_idx + n)
      OBVIOUS
    <2>1. used_idx + n \in 0..(2 * NUM - 1) BY <1>1, Constants, SMTT(60)
    <2> QED BY <2>1, WrapMod
  <1> QED BY <1>2, <1>3 DEF Unseen, Used, Window

\* The refinement mapping, from the private state of the driver.
LEMMA MappingIs ==
  ASSUME IInv
  PROVE  [p \in Procs |-> IF pc[p] = "idle" THEN "idle"
                          ELSE IF Transferred(p) THEN "done" ELSE "pending"] = Stages
  <1>1. \A p \in Procs : Transferred(p) <=> Told(p)
    BY UnseenIsUsed DEF Transferred, Told
  <1> QED BY <1>1 DEF Stages, Stage

\* A waiting process knows its request by the descriptor disk.info has it under.
LEMMA OwnIdx ==
  ASSUME IInv, NEW q \in Procs, pc[q] \in Waiting
  PROVE  info[idx[q]] = q
  BY ZenonT(60) DEF IInv, ChainInv, Requesting, Owns

\* The steps in which BlockDevice sees nothing.
LEMMA SilentSteps ==
  ASSUME IInv, Next,
         \A p \in Procs : ~(rw_return(p) /\ Done(p)),
         \A p \in Procs, d \in {"read", "write"}, v \in Values : ~virtio_disk_rw(p, d, v),
         \A h \in Ids : ~device_complete(h)
  PROVE  UNCHANGED <<disk, data, dir>> /\ Stages' = Stages
  <1> SUFFICES UNCHANGED <<disk, data, dir>> /\ \A q \in Procs : Stage(q)' = Stage(q)
    BY DEF Stages
  <1>1. ASSUME NEW p \in Procs, rw_format(p)
        PROVE  UNCHANGED <<disk, data, dir>> /\ \A q \in Procs : Stage(q)' = Stage(q)
    <2>1. PICK i, j, k \in Ids : Formatted(p, i, j, k) BY <1>1, FormatFacts DEF IInv
    <2>2. /\ pc[p] = "alloc" /\ bdisk' = [bdisk EXCEPT ![p] = 1] /\ idx' = [idx EXCEPT ![p] = i]
          /\ pc' = [pc EXCEPT ![p] = "notify"] /\ UNCHANGED <<elems, used, used_idx>>
          /\ UNCHANGED <<disk, data, dir>>
      BY <2>1, ZenonT(60) DEF Formatted
    <2>3. Used' = Used BY <2>2, SameUsed
    <2>4. pc'[p] = "notify" BY <2>2 DEF IInv, TypeOK
    <2>5. \A q \in Procs : q # p => pc'[q] = pc[q] /\ bdisk'[q] = bdisk[q] /\ idx'[q] = idx[q]
      BY <2>2 DEF IInv, TypeOK
    <2> QED BY <2>2, <2>3, <2>4, <2>5, SMTT(60) DEF Stage, Told, Waiting
  <1>2. ASSUME NEW p \in Procs, rw_notify(p)
        PROVE  UNCHANGED <<disk, data, dir>> /\ \A q \in Procs : Stage(q)' = Stage(q)
    <2>1. /\ pc[p] = "notify" /\ pc' = [pc EXCEPT ![p] = "wait"] /\ UNCHANGED <<bdisk, idx>>
          /\ UNCHANGED <<elems, used, used_idx>> /\ UNCHANGED <<disk, data, dir>>
      BY <1>2 DEF rw_notify, dev
    <2>2. Used' = Used BY <2>1, SameUsed
    <2>3. pc'[p] = "wait" /\ \A q \in Procs : q # p => pc'[q] = pc[q]
      BY <2>1 DEF IInv, TypeOK
    <2>4. bdisk[p] = 1 /\ idx[p] \notin Used
      BY <1>2, <2>1, NotifyFacts, ZenonT(60) DEF IInv, LockInv, PlaceInv
    <2> QED BY <2>1, <2>2, <2>3, <2>4, SMTT(60) DEF Stage, Told, Waiting
  <1>3. ASSUME NEW p \in Procs, rw_return(p)
        PROVE  UNCHANGED <<disk, data, dir>> /\ \A q \in Procs : Stage(q)' = Stage(q)
    <2>1. /\ pc[p] = "woken" /\ pc' = [pc EXCEPT ![p] = "wait"] /\ UNCHANGED <<bdisk, idx>>
          /\ UNCHANGED <<elems, used, used_idx>> /\ UNCHANGED <<disk, data, dir>>
      BY <1>3 DEF rw_return, dev
    <2>2. Used' = Used BY <2>1, SameUsed
    <2>3. pc'[p] = "wait" /\ \A q \in Procs : q # p => pc'[q] = pc[q]
      BY <2>1 DEF IInv, TypeOK
    <2> QED BY <2>1, <2>2, <2>3, ZenonT(60) DEF Stage, Told, Waiting
  <1>4. ASSUME NEW p \in Procs, rw_sleep(p) \/ kill(p)
        PROVE  UNCHANGED <<disk, data, dir>> /\ \A q \in Procs : Stage(q)' = Stage(q)
    <2>1. /\ UNCHANGED <<bdisk, idx>> /\ UNCHANGED <<elems, used, used_idx>>
          /\ UNCHANGED <<disk, data, dir>>
      BY <1>4 DEF rw_sleep, kill, drv, dev
    <2>2. Used' = Used BY <2>1, SameUsed
    <2>3. pc \in [Procs -> Labels] BY PcType DEF IInv
    <2>4. \A q \in Procs : /\ pc'[q] = "idle" <=> pc[q] = "idle"
                           /\ pc'[q] \in Waiting <=> pc[q] \in Waiting
      BY <1>4, <2>3 DEF rw_sleep, kill, wake_free, Waiting
    <2> QED BY <2>1, <2>2, <2>4, ZenonT(60) DEF Stage, Told
  <1>5. ASSUME intr_loop
        PROVE  UNCHANGED <<disk, data, dir>> /\ \A q \in Procs : Stage(q)' = Stage(q)
    <2>1. UNCHANGED <<disk, data, dir>> /\ idx' = idx BY <1>5, ZenonT(60) DEF intr_loop, dev
    <2>2. CASE used_idx = Slot(used)
      <3>1. UNCHANGED <<bdisk, pc>> /\ UNCHANGED <<elems, used, used_idx>>
        BY <1>5, <2>2, ZenonT(60) DEF intr_loop, dev, Slot
      <3>2. Used' = Used BY <3>1, SameUsed
      <3> QED BY <2>1, <3>1, <3>2, ZenonT(60) DEF Stage, Told
    <2>3. CASE used_idx # Slot(used)
      <3>1. PICK h : h = elems[used_idx] OBVIOUS
      <3>2. h \in Used /\ InFlight(h) /\ info[h] \in Procs /\ Used' = Used \ {h}
             /\ idx[info[h]] = h
        BY <1>5, <2>3, <3>1, LoopFacts, ZenonT(60)
      <3>3. PICK p \in Procs : p = info[h] BY <3>2, ZenonT(60)
      <3>4. /\ bdisk' = [q \in Procs |-> IF q = p THEN 0 ELSE bdisk[q]]
            /\ pc' = [q \in Procs |-> IF q = p /\ pc[q] = "wait" THEN "woken" ELSE pc[q]]
        BY <1>5, <2>3, <3>1, <3>3, ZenonT(60) DEF intr_loop, Slot
      <3>5. Stage(p) = "done" /\ pc[p] \in Waiting
        BY <3>2, <3>3, ZenonT(60) DEF InFlight, Stage, Told, Waiting
      <3>6. Stage(p)' = "done" BY <3>4, <3>5 DEF Stage, Told, Waiting
      <3>7. ASSUME NEW q \in Procs, q # p PROVE Stage(q)' = Stage(q)
        <4>1. pc'[q] = pc[q] /\ bdisk'[q] = bdisk[q] BY <3>4, <3>7, ZenonT(60)
        <4>2. pc[q] \in Waiting => idx[q] # h BY <3>3, <3>7, OwnIdx
        <4> QED BY <2>1, <3>2, <4>1, <4>2, ZenonT(60) DEF Stage, Told
      <3> QED BY <2>1, <3>5, <3>6, <3>7
    <2> QED BY <2>2, <2>3
  <1>6. ASSUME virtio_disk_intr \/ intr_ack \/ device_take
        PROVE  UNCHANGED <<disk, data, dir>> /\ \A q \in Procs : Stage(q)' = Stage(q)
    <2>1. /\ UNCHANGED <<bdisk, idx, pc>> /\ UNCHANGED <<elems, used, used_idx>>
          /\ UNCHANGED <<disk, data, dir>>
      BY <1>6 DEF virtio_disk_intr, intr_ack, device_take, drv, dev
    <2>2. Used' = Used BY <2>1, SameUsed
    <2> QED BY <2>1, <2>2 DEF Stage, Told
  <1>7. \A p \in Procs : data[p] \in Values BY DEF IInv, TypeOK
  <1> QED BY <1>1, <1>2, <1>3, <1>4, <1>5, <1>6, <1>7 DEF Next, Driver, Handler, Device

\* A call, a completion by the device and a return are what BlockDevice says.
LEMMA CallStep ==
  ASSUME IInv, NEW p \in Procs, NEW d \in {"read", "write"}, NEW v \in Values,
         virtio_disk_rw(p, d, v)
  PROVE  /\ Stage(p) = "idle" /\ Stages' = [Stages EXCEPT ![p] = "pending"]
         /\ dir' = [dir EXCEPT ![p] = d] /\ data' = [data EXCEPT ![p] = v] /\ UNCHANGED disk
  <1>1. /\ pc[p] = "idle" /\ pc' = [pc EXCEPT ![p] = "alloc"] /\ UNCHANGED <<bdisk, idx, disk>>
        /\ UNCHANGED <<elems, used, used_idx>>
        /\ dir' = [dir EXCEPT ![p] = d] /\ data' = [data EXCEPT ![p] = v]
    BY DEF virtio_disk_rw, drv, dev
  <1>2. Used' = Used BY <1>1, SameUsed
  <1>3. pc'[p] = "alloc" /\ \A q \in Procs : q # p => pc'[q] = pc[q] BY <1>1 DEF IInv, TypeOK
  <1>4. Stage(p)' = "pending" BY <1>3 DEF Stage, Told, Waiting
  <1>5. \A q \in Procs : q # p => Stage(q)' = Stage(q) BY <1>1, <1>2, <1>3 DEF Stage, Told
  <1>6. Stage(p) = "idle" BY <1>1 DEF Stage
  <1> QED BY <1>1, <1>4, <1>5, <1>6, ZenonT(60) DEF Stages

\* device_complete() is the transfer of the block device.
LEMMA TransferStep ==
  ASSUME IInv, NEW h \in Ids, device_complete(h), NEW p \in Procs, p = info[h]
  PROVE  /\ Stage(p) = "pending" /\ Stages' = [Stages EXCEPT ![p] = "done"]
         /\ IF dir[p] = "read"
              THEN data' = [data EXCEPT ![p] = disk[p]] /\ UNCHANGED disk
              ELSE disk' = [disk EXCEPT ![p] = data[p]] /\ UNCHANGED data
         /\ UNCHANGED dir
  <1>1. /\ h \in busy /\ InFlight(h) /\ idx[p] = h /\ desc[h].addr = p
        /\ desc[desc[h].next].addr = p /\ Used' = Used \cup {h}
    BY CompleteFacts, ZenonT(60)
  <1>2. UNCHANGED <<bdisk, idx, pc, dir>> BY ZenonT(60) DEF device_complete, drv
  <1>3. IF dir[p] = "read"
          THEN data' = [data EXCEPT ![p] = disk[p]] /\ UNCHANGED disk
          ELSE disk' = [disk EXCEPT ![p] = data[p]] /\ UNCHANGED data
    BY <1>1, ZenonT(60) DEF device_complete
  <1>4. pc[p] \in Waiting /\ bdisk[p] = 1 /\ h \notin Used
    BY <1>1, ZenonT(60) DEF IInv, InFlight, PlaceInv
  <1>5. Stage(p) = "pending" BY <1>1, <1>4, SMTT(60) DEF Stage, Told, Waiting
  <1>6. Stage(p)' = "done" BY <1>1, <1>2, <1>4, ZenonT(60) DEF Stage, Told, Waiting
  <1>7. ASSUME NEW q \in Procs, q # p PROVE Stage(q)' = Stage(q)
    <2>1. pc[q] \in Waiting => idx[q] # h BY <1>7, OwnIdx
    <2> QED BY <1>1, <1>2, <2>1 DEF Stage, Told
  <1> QED BY <1>2, <1>3, <1>5, <1>6, <1>7, ZenonT(60) DEF Stages

\* virtio_disk_rw() returns only after the transfer: the return of the block device.
LEMMA ReturnStep ==
  ASSUME IInv, NEW p \in Procs, rw_return(p), Done(p)
  PROVE  /\ Stage(p) = "done" /\ Stages' = [Stages EXCEPT ![p] = "idle"]
         /\ UNCHANGED <<disk, data, dir>>
  <1>1. /\ pc[p] = "woken" /\ bdisk[p] = 0 /\ UNCHANGED <<bdisk, idx>>
        /\ UNCHANGED <<elems, used, used_idx>> /\ UNCHANGED <<disk, data, dir>>
    BY DEF rw_return, dev, Done
  <1>2. PICK j, k \in Ids : Owns(p, idx[p], j, k)
    BY <1>1, ZenonT(60) DEF IInv, ChainInv, Requesting, Waiting
  <1>3. pc' = wake_free(p, "idle") BY <1>2, ReturnFacts
  <1>4. /\ pc'[p] = "idle"
        /\ \A q \in Procs : q # p => pc'[q] = pc[q] \/ (pc'[q] = "alloc" /\ pc[q] = "nodesc")
    BY <1>3, Woken, PcType, ZenonT(60) DEF IInv
  <1>5. Used' = Used BY <1>1, SameUsed
  <1>6. Stage(p) = "done" /\ Stage(p)' = "idle" BY <1>1, <1>4 DEF Stage, Told, Waiting
  <1>7. \A q \in Procs : q # p => Stage(q)' = Stage(q)
    BY <1>1, <1>4, <1>5 DEF Stage, Told, Waiting
  <1> QED BY <1>1, <1>6, <1>7, ZenonT(60) DEF Stages

\* The driver, the device and the interrupt handler together do what bread() and
\* bwrite() rely on: each call transfers the block of its buffer exactly once
\* before it returns, and no other.
THEOREM DriverIsBlockDevice == Spec => IsBlockDevice
  <1> DEFINE M == [p \in Procs |-> IF pc[p] = "idle" THEN "idle"
                                   ELSE IF Transferred(p) THEN "done" ELSE "pending"]
  <1>1. Init => BD!Init
    <2> SUFFICES ASSUME Init PROVE BD!Init
      OBVIOUS
    <2>1. M = [p \in Procs |-> "idle"] BY DEF Init
    <2> QED BY <2>1 DEF Init, BD!Init
  <1>2. IInv => M = Stages BY MappingIs
  <1>3. (IInv => M = Stages)' BY <1>2, PTL
  <1>4. IInv /\ IInv' /\ [Next]_vars => [BD!Next]_BD!vars
    <2> SUFFICES ASSUME IInv, IInv', [Next]_vars PROVE [BD!Next]_BD!vars
      OBVIOUS
    <2>1. M = Stages BY MappingIs
    <2>2. M' = Stages' BY <1>3
    <2>3. \A p \in Procs : M[p] = Stage(p) BY <2>1 DEF Stages
    <2> HIDE DEF M
    <2>4. ASSUME NEW p \in Procs, NEW d \in {"read", "write"}, NEW v \in Values,
                 virtio_disk_rw(p, d, v)
          PROVE  BD!Next
      <3>1. /\ M[p] = "idle" /\ M' = [M EXCEPT ![p] = "pending"]
            /\ dir' = [dir EXCEPT ![p] = d] /\ data' = [data EXCEPT ![p] = v] /\ UNCHANGED disk
        BY <2>1, <2>2, <2>3, <2>4, CallStep, SMTT(60)
      <3>2. BD!Call(p) BY <3>1, ZenonT(60) DEF BD!Call, M
      <3> QED BY <3>2 DEF BD!Next
    <2>5. ASSUME NEW h \in Ids, device_complete(h) PROVE BD!Next
      <3>1. PICK p \in Procs : p = info[h] BY <2>5, CompleteFacts
      <3>2. /\ M[p] = "pending" /\ M' = [M EXCEPT ![p] = "done"]
            /\ IF dir[p] = "read"
                 THEN data' = [data EXCEPT ![p] = disk[p]] /\ UNCHANGED disk
                 ELSE disk' = [disk EXCEPT ![p] = data[p]] /\ UNCHANGED data
            /\ UNCHANGED dir
        BY <2>1, <2>2, <2>3, <2>5, <3>1, TransferStep
      <3>3. BD!Transfer(p) BY <3>2, ZenonT(60) DEF BD!Transfer, M
      <3> QED BY <3>3 DEF BD!Next
    <2>6. ASSUME NEW p \in Procs, rw_return(p), Done(p) PROVE BD!Next
      <3>1. /\ M[p] = "done" /\ M' = [M EXCEPT ![p] = "idle"] /\ UNCHANGED <<disk, data, dir>>
        BY <2>1, <2>2, <2>3, <2>6, ReturnStep
      <3>2. BD!Return(p) BY <3>1 DEF BD!Return, M
      <3> QED BY <3>2 DEF BD!Next
    <2>7. CASE /\ Next
               /\ \A p \in Procs : ~(rw_return(p) /\ Done(p))
               /\ \A p \in Procs, d \in {"read", "write"}, v \in Values : ~virtio_disk_rw(p, d, v)
               /\ \A h \in Ids : ~device_complete(h)
      <3>1. UNCHANGED <<disk, data, dir>> /\ M' = M BY <2>1, <2>2, <2>7, SilentSteps
      <3> QED BY <3>1, ZenonT(60) DEF BD!vars, M
    <2>8. CASE UNCHANGED vars
      <3>1. UNCHANGED <<disk, data, dir>> BY <2>8 DEF vars, dev
      <3>2. UNCHANGED <<pc, bdisk, idx, elems, used, used_idx>> BY <2>8 DEF vars, drv, dev
      <3>3. M' = M BY <3>2 DEF M, Transferred, Unseen
      <3> QED BY <3>1, <3>3 DEF BD!vars, M
    <2> QED BY <2>4, <2>5, <2>6, <2>7, <2>8
  <1> QED BY <1>1, <1>4, VirtioInvariant, PTL DEF Spec, IsBlockDevice, BD!Spec

=============================================================================
