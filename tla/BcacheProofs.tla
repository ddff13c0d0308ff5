---------------------------- MODULE BcacheProofs ----------------------------
(***************************************************************************)
(* Theorems about the buffer cache, for any number of processes, blocks    *)
(* and buffers, after a boot that finds an empty log: its invariant, that  *)
(* it panics only when every buffer is in use, and that it implements      *)
(* BlockStore.                                                             *)
(***************************************************************************)
EXTENDS Bcache, FiniteSetTheorems, TLAPS

\* Which prover is tried first, and how long, where a step does not say.
USE ZenonT(60), SMTT(60)

-----------------------------------------------------------------------------
(* Counting references. *)

\* References to one buffer: processes, and one log entry at most.
LEMMA RefsBound ==
  ASSUME NEW S, NEW x, S \subseteq Procs \cup {x}
  PROVE  IsFiniteSet(S) /\ Cardinality(S) \in Nat /\ Cardinality(S) < RefMod
<1>1. IsFiniteSet(Procs)
  BY ConstantAssumption
<1>2. /\ IsFiniteSet(Procs \cup {x}) /\ Cardinality(Procs) \in Nat
      /\ Cardinality(Procs \cup {x}) <= Cardinality(Procs) + 1
  <2>1. /\ IsFiniteSet(Procs \cup {x})
        /\ Cardinality(Procs \cup {x}) =
             IF x \in Procs THEN Cardinality(Procs) ELSE Cardinality(Procs) + 1
    BY <1>1, FS_AddElement
  <2>2. Cardinality(Procs) \in Nat
    BY <1>1, FS_CardinalityType
  <2>3. QED
    BY <2>1, <2>2, SMTT(60)
<1>3. /\ IsFiniteSet(S) /\ Cardinality(S) <= Cardinality(Procs \cup {x})
      /\ Cardinality(Procs \cup {x}) \in Nat
  BY <1>2, FS_Subset, FS_CardinalityType
<1>4. QED
  BY <1>2, <1>3, FS_CardinalityType, ConstantAssumption, SMTT(60)

\* The references to a buffer: processes and one log entry at most, so the
\* unsigned refcnt of bio.c has room to count them.
LEMMA RefsSmall ==
  ASSUME NEW b \in Bufs
  PROVE  /\ Refs(b) \subseteq Procs \cup {blockno[b]}
         /\ Refs(b)' \subseteq Procs \cup {blockno[b]'}
         /\ IsFiniteSet(Refs(b)) /\ IsFiniteSet(Refs(b)')
         /\ Cardinality(Refs(b)') < RefMod
<1>1. /\ Refs(b) \subseteq Procs \cup {blockno[b]}
      /\ Refs(b)' \subseteq Procs \cup {blockno[b]'}
  BY DEF Refs
<1>2. QED
  BY <1>1, RefsBound

\* A counter that follows the references to its buffer.
LEMMA CountAdd ==
  ASSUME NEW S, NEW x, NEW n, IsFiniteSet(S), n = Cardinality(S), x \notin S,
         Cardinality(S \cup {x}) < RefMod
  PROVE  RefInc(n) = Cardinality(S \cup {x})
<1>1. Cardinality(S) \in Nat /\ Cardinality(S \cup {x}) = Cardinality(S) + 1
  BY FS_AddElement, FS_CardinalityType
<1>2. QED
  BY <1>1, ConstantAssumption, SMTT(60) DEF RefInc

\* b->refcnt-- counts one reference less.
LEMMA CountRemove ==
  ASSUME NEW S, NEW x, NEW n, IsFiniteSet(S), n = Cardinality(S), x \in S
  PROVE  RefDec(n) = Cardinality(S \ {x})
<1>1. /\ Cardinality(S) \in Nat /\ Cardinality(S) # 0
      /\ Cardinality(S \ {x}) = Cardinality(S) - 1
  BY FS_RemoveElement, FS_CardinalityType, FS_EmptySet
<1>2. QED
  BY <1>1 DEF RefDec

-----------------------------------------------------------------------------
(* Type correctness. *)

\* binit() leaves values of the right types.
LEMMA InitType == Init => TypeOK
<1> SUFFICES ASSUME Init PROVE TypeOK
  OBVIOUS
<1>1. /\ data \in [Bufs -> Values] /\ lru \in [1..NBUF -> Bufs]
      /\ disk \in [Blocks -> Values]
  BY DEF Init
<1>2. refcnt \in [Bufs -> 0..(RefMod - 1)]
  BY ConstantAssumption, FS_CardinalityType, SMTT(60) DEF Init
<1>3. QED
  BY <1>1, <1>2, ConstantAssumption DEF Init, TypeOK, Using

\* refcnt++ and refcnt-- stay in the range of an unsigned int.
LEMMA RefType ==
  ASSUME NEW n \in 0..(RefMod - 1)
  PROVE  RefInc(n) \in 0..(RefMod - 1) /\ RefDec(n) \in 0..(RefMod - 1)
  BY ConstantAssumption, SMTT(60) DEF RefInc, RefDec

\* What each process is doing with which buffer, which a step may not blur.
Placed == \A p \in Procs : pc[p] \in Using => buf[p] \in Bufs /\ want[p] \in Blocks
                                              /\ blockno[buf[p]] = want[p]

\* The invariant places every process at the buffer of its block.
LEMMA PlacedInv == CacheInv /\ Identity => Placed
  BY DEF CacheInv, Identity, Placed

\* Every step of the cache keeps the types.
LEMMA NextType ==
  ASSUME TypeOK, Placed, [Next]_vars
  PROVE  TypeOK'
<1> USE DEF Using, Waiting, Locking, Filled
<1>1. ASSUME NEW p \in Procs, NEW k \in Blocks, bget(p, k) PROVE TypeOK'
  <2>1. NBUF \in Nat /\ 1 \in 0..(RefMod - 1)
    BY ConstantAssumption, FS_CardinalityType, SMTT(60)
  <2>2. CASE \E i \in 1..NBUF :
               /\ Hit(k, i)
               /\ refcnt' = [refcnt EXCEPT ![lru[i]] = RefInc(@)]
               /\ buf' = [buf EXCEPT ![p] = lru[i]]
               /\ pc' = [pc EXCEPT ![p] = "lock"]
               /\ UNCHANGED <<blockno, valid>>
    <3>1. PICK i \in 1..NBUF :
               /\ refcnt' = [refcnt EXCEPT ![lru[i]] = RefInc(@)]
               /\ buf' = [buf EXCEPT ![p] = lru[i]]
               /\ pc' = [pc EXCEPT ![p] = "lock"]
               /\ UNCHANGED <<blockno, valid>>
      BY <2>2
    <3>2. lru[i] \in Bufs /\ RefInc(refcnt[lru[i]]) \in 0..(RefMod - 1)
      BY RefType DEF TypeOK
    <3>3. QED
      BY <1>1, <3>1, <3>2 DEF TypeOK, bget
  <2>3. CASE \E i \in 1..NBUF :
               /\ blockno' = [blockno EXCEPT ![lru[i]] = k]
               /\ valid' = [valid EXCEPT ![lru[i]] = 0]
               /\ refcnt' = [refcnt EXCEPT ![lru[i]] = 1]
               /\ buf' = [buf EXCEPT ![p] = lru[i]]
               /\ pc' = [pc EXCEPT ![p] = "lock"]
    <3>1. PICK i \in 1..NBUF :
               /\ blockno' = [blockno EXCEPT ![lru[i]] = k]
               /\ valid' = [valid EXCEPT ![lru[i]] = 0]
               /\ refcnt' = [refcnt EXCEPT ![lru[i]] = 1]
               /\ buf' = [buf EXCEPT ![p] = lru[i]]
               /\ pc' = [pc EXCEPT ![p] = "lock"]
      BY <2>3
    <3>2. lru[i] \in Bufs
      BY DEF TypeOK
    <3>3. QED
      BY <1>1, <2>1, <3>1, <3>2 DEF TypeOK, bget
  <2>4. CASE /\ pc' = [pc EXCEPT ![p] = "panic"]
             /\ UNCHANGED <<blockno, valid, refcnt, buf>>
    BY <1>1, <2>4 DEF TypeOK, bget
  <2>5. QED
    BY <1>1, <2>2, <2>3, <2>4 DEF bget
<1>2. ASSUME NEW p \in Procs, acquiresleep(p) PROVE TypeOK'
  BY <1>2 DEF TypeOK, acquiresleep
<1>3. ASSUME NEW p \in Procs, bread(p) PROVE TypeOK'
  <2>1. buf[p] \in Bufs /\ disk[blockno[buf[p]]] \in Values
    BY <1>3 DEF TypeOK, bread, Placed
  <2>2. QED
    BY <1>3, <2>1 DEF TypeOK, bread
<1>4. ASSUME NEW p \in Procs, NEW v \in Values, modify(p, v) PROVE TypeOK'
  BY <1>4 DEF TypeOK, modify
<1>5. ASSUME NEW p \in Procs, log_write(p) PROVE TypeOK'
  <2>1. /\ buf[p] \in Bufs /\ want[p] \in Blocks
        /\ RefInc(refcnt[buf[p]]) \in 0..(RefMod - 1)
    BY <1>5, RefType DEF TypeOK, log_write, Placed
  <2>2. refcnt' \in [Bufs -> 0..(RefMod - 1)]
    BY <1>5, <2>1 DEF TypeOK, log_write
  <2>3. QED
    BY <1>5, <2>1, <2>2 DEF TypeOK, log_write
<1>6. ASSUME NEW p \in Procs, install(p) PROVE TypeOK'
  <2>1. PICK v \in Values :
          /\ data' = [data EXCEPT ![buf[p]] = v]
          /\ disk' = [disk EXCEPT ![want[p]] = v] \/ disk' = disk
    BY <1>6 DEF install
  <2>2. data' \in [Bufs -> Values] /\ disk' \in [Blocks -> Values]
    BY <2>1 DEF TypeOK
  <2>3. pc' = [pc EXCEPT ![p] = "unpin"] \/ pc' = [pc EXCEPT ![p] = "panic"]
    BY <1>6 DEF install
  <2>4. pc' \in [Procs -> {"idle", "panic"} \cup Using]
    BY <2>3 DEF TypeOK, Using, Locking
  <2>5. QED
    BY <1>6, <2>2, <2>4 DEF TypeOK, install
<1>7. ASSUME NEW p \in Procs, bunpin(p) PROVE TypeOK'
  <2>1. buf[p] \in Bufs /\ RefDec(refcnt[buf[p]]) \in 0..(RefMod - 1)
    BY <1>7, RefType DEF TypeOK, bunpin, Placed
  <2>2. QED
    BY <1>7, <2>1 DEF TypeOK, bunpin
<1>8. ASSUME NEW p \in Procs, releasesleep(p) PROVE TypeOK'
  <2>1. pc' \in [Procs -> {"idle", "panic"} \cup Using]
    <3>1. CASE locked[buf[p]] # p
      BY <1>8, <3>1 DEF TypeOK, releasesleep
    <3>2. CASE locked[buf[p]] = p
      <4>1. pc' = [q \in Procs |->
                     IF q = p THEN "unref"
                     ELSE IF pc[q] = "asleep" /\ buf[q] = buf[p] THEN "lock"
                     ELSE pc[q]]
        BY <1>8, <3>2 DEF releasesleep
      <4>2. QED
        BY <4>1 DEF TypeOK
    <3>3. QED
      BY <3>1, <3>2
  <2>2. locked' \in [Bufs -> Procs \cup {None}]
    BY <1>8, SMTT(60) DEF TypeOK, releasesleep
  <2>3. QED
    BY <1>8, <2>1, <2>2 DEF TypeOK, releasesleep
<1>9. ASSUME NEW p \in Procs, brelse(p) PROVE TypeOK'
  <2>1. buf[p] \in Bufs /\ RefDec(refcnt[buf[p]]) \in 0..(RefMod - 1)
    BY <1>9, RefType DEF TypeOK, brelse, Placed
  <2>2. MoveToFront(buf[p]) \in [1..NBUF -> Bufs]
    <3>1. \A i \in 1..NBUF : i # 1 => i - 1 \in 1..NBUF
      BY ConstantAssumption, FS_CardinalityType, SMTT(60)
    <3>2. QED
      BY <2>1, <3>1 DEF TypeOK, MoveToFront
  <2>3. lru' \in [1..NBUF -> Bufs]
    BY <1>9, <2>2 DEF TypeOK, brelse
  <2>4. QED
    BY <1>9, <2>1, <2>3 DEF TypeOK, brelse
<1>10. CASE end_recovery
  BY <1>10 DEF TypeOK, end_recovery, bufvars
<1>11. CASE UNCHANGED vars
  BY <1>11 DEF TypeOK, vars, bufvars
<1>12. QED
  BY <1>1, <1>2, <1>3, <1>4, <1>5, <1>6, <1>7, <1>8, <1>9, <1>10, <1>11 DEF Next

-----------------------------------------------------------------------------
(* References and the identity of buffers. *)

\* binit() leaves no references and no buffer in use.
LEMMA InitCache == Init => CacheInv /\ Identity
<1> SUFFICES ASSUME Init PROVE CacheInv /\ Identity
  OBVIOUS
<1>1. \A b \in Bufs : Refs(b) = {}
  BY ConstantAssumption DEF Init, Refs, Using, Waiting, Locking, Filled
<1>2. QED
  BY <1>1, FS_EmptySet
     DEF Init, CacheInv, Identity, Using, Waiting, Locking, Filled

\* A step that leaves the references alone.
LEMMA QuietCache ==
  ASSUME TypeOK, CacheInv, Identity,
         UNCHANGED <<blockno, refcnt, lru, logged, buf, want>>,
         \A q \in Procs : pc'[q] \in Using <=> pc[q] \in Using
  PROVE  CacheInv' /\ Identity'
<1>1. \A b \in Bufs : Refs(b)' = Refs(b)
  BY DEF Refs
<1>2. QED
  BY <1>1 DEF CacheInv, Identity

\* bget() finds the block cached.
LEMMA HitCache ==
  ASSUME TypeOK, CacheInv, Identity, NEW p \in Procs, NEW k \in Blocks,
         NEW b \in Bufs, pc[p] = "idle", blockno[b] = k,
         refcnt' = [refcnt EXCEPT ![b] = RefInc(@)],
         buf' = [buf EXCEPT ![p] = b], want' = [want EXCEPT ![p] = k],
         pc' = [pc EXCEPT ![p] = "lock"], UNCHANGED <<blockno, lru, logged>>
  PROVE  CacheInv' /\ Identity'
<1>1. p \notin Refs(b) /\ Refs(b)' = Refs(b) \cup {p}
  BY ConstantAssumption, SMTT(60) DEF TypeOK, Refs, Using, Waiting, Locking, Filled
<1>2. \A c \in Bufs : c # b => Refs(c)' = Refs(c)
  BY DEF TypeOK, Refs, Using, Waiting, Locking, Filled
<1>3. refcnt'[b] = Cardinality(Refs(b)')
  <2>1. IsFiniteSet(Refs(b)) /\ Cardinality(Refs(b) \cup {p}) < RefMod
    BY <1>1, RefsSmall
  <2>2. refcnt[b] = Cardinality(Refs(b)) /\ refcnt'[b] = RefInc(refcnt[b])
    BY DEF CacheInv, TypeOK
  <2>3. RefInc(refcnt[b]) = Cardinality(Refs(b) \cup {p})
    BY <1>1, <2>1, <2>2, CountAdd
  <2>4. QED
    BY <1>1, <2>2, <2>3
<1>4. \A c \in Bufs : refcnt'[c] = Cardinality(Refs(c)')
  BY <1>2, <1>3 DEF CacheInv, TypeOK
<1>5. \A q \in Procs : pc'[q] \in Using =>
        buf'[q] \in Bufs /\ want'[q] \in Blocks /\ blockno'[buf'[q]] = want'[q]
  BY DEF CacheInv, Identity, TypeOK
<1>6. QED
  BY <1>4, <1>5 DEF CacheInv, Identity

\* bget() recycles a buffer nobody refers to.
LEMMA RecycleCache ==
  ASSUME TypeOK, CacheInv, Identity, DataInv, NEW p \in Procs, NEW k \in Blocks,
         NEW b \in Bufs, pc[p] = "idle", \A c \in Bufs : blockno[c] # k,
         refcnt[b] = 0,
         blockno' = [blockno EXCEPT ![b] = k], refcnt' = [refcnt EXCEPT ![b] = 1],
         buf' = [buf EXCEPT ![p] = b], want' = [want EXCEPT ![p] = k],
         pc' = [pc EXCEPT ![p] = "lock"], UNCHANGED <<lru, logged>>
  PROVE  CacheInv' /\ Identity'
<1>1. Refs(b) = {}
  BY RefsSmall, FS_EmptySet DEF CacheInv
<1>2. k \notin logged
  BY DEF DataInv
<1>3. Refs(b)' = {p}
  BY <1>1, <1>2, ConstantAssumption, SMTT(60)
     DEF TypeOK, Refs, Using, Waiting, Locking, Filled
<1>4. \A c \in Bufs : c # b => Refs(c)' = Refs(c)
  BY DEF TypeOK, Refs, Using, Waiting, Locking, Filled
<1>5. \A c \in Bufs : refcnt'[c] = Cardinality(Refs(c)')
  BY <1>3, <1>4, FS_Singleton DEF CacheInv, TypeOK
<1>6. \A q \in Procs : q # p /\ pc[q] \in Using => buf[q] # b
  BY <1>1 DEF Refs
<1>7. \A q \in Procs : pc'[q] \in Using =>
        buf'[q] \in Bufs /\ want'[q] \in Blocks /\ blockno'[buf'[q]] = want'[q]
  BY <1>6 DEF CacheInv, Identity, TypeOK
<1>8. \A c, d \in Bufs : blockno'[c] = blockno'[d] /\ blockno'[c] # None => c = d
  BY DEF CacheInv, TypeOK
<1>9. QED
  BY <1>5, <1>7, <1>8 DEF CacheInv, Identity

\* A block enters or leaves the log while a process has its buffer.
LEMMA PinCache ==
  ASSUME TypeOK, CacheInv, Identity, NEW p \in Procs, pc[p] \in Using,
         \A q \in Procs : pc'[q] \in Using <=> pc[q] \in Using,
         UNCHANGED <<blockno, lru, buf, want>>,
         \/ /\ want[p] \notin logged /\ logged' = logged \cup {want[p]}
            /\ refcnt' = [refcnt EXCEPT ![buf[p]] = RefInc(@)]
         \/ /\ want[p] \in logged /\ logged' = logged \ {want[p]}
            /\ refcnt' = [refcnt EXCEPT ![buf[p]] = RefDec(@)]
  PROVE  CacheInv' /\ Identity'
<1>0. buf[p] \in Bufs /\ want[p] \in Blocks
  BY DEF CacheInv
<1> PICK b \in Bufs : b = buf[p]
  BY <1>0
<1> PICK k \in Blocks : k = want[p]
  BY <1>0
<1>1. blockno[b] = k /\ k \notin Procs
  BY ConstantAssumption DEF Identity
<1>2. \A c \in Bufs : c # b => blockno[c] # k
  BY <1>1, ConstantAssumption, SMTT(60) DEF CacheInv
<1>3. \A c \in Bufs : c # b => Refs(c)' = Refs(c)
  BY <1>2 DEF Refs
<1>4. refcnt'[b] = Cardinality(Refs(b)')
  <2>1. IsFiniteSet(Refs(b)) /\ refcnt[b] = Cardinality(Refs(b))
    BY <1>1, RefsSmall DEF CacheInv
  <2>2. CASE /\ k \notin logged /\ logged' = logged \cup {k}
             /\ refcnt' = [refcnt EXCEPT ![b] = RefInc(@)]
    <3>1. k \notin Refs(b) /\ Refs(b)' = Refs(b) \cup {k}
      BY <1>1, <2>2 DEF Refs
    <3>2. Cardinality(Refs(b) \cup {k}) < RefMod
      BY <1>1, <3>1, RefsSmall
    <3>3. RefInc(refcnt[b]) = Cardinality(Refs(b) \cup {k})
      BY <2>1, <3>1, <3>2, CountAdd
    <3>4. QED
      BY <1>1, <2>2, <3>1, <3>3 DEF TypeOK
  <2>3. CASE /\ k \in logged /\ logged' = logged \ {k}
             /\ refcnt' = [refcnt EXCEPT ![b] = RefDec(@)]
    <3>1. k \in Refs(b) /\ Refs(b)' = Refs(b) \ {k}
      BY <1>1, <2>3 DEF Refs
    <3>2. RefDec(refcnt[b]) = Cardinality(Refs(b) \ {k})
      BY <2>1, <3>1, CountRemove
    <3>3. QED
      BY <1>1, <2>3, <3>1, <3>2 DEF TypeOK
  <2>4. QED
    BY <2>2, <2>3
<1>5. \A c \in Bufs : refcnt'[c] = Cardinality(Refs(c)')
  BY <1>3, <1>4 DEF CacheInv, TypeOK
<1>6. QED
  BY <1>5 DEF CacheInv, Identity

\* brelse() gives its reference back.
LEMMA BrelseCache ==
  ASSUME TypeOK, CacheInv, Identity, NEW p \in Procs, brelse(p)
  PROVE  CacheInv' /\ Identity'
<1>0. pc[p] = "unref" /\ buf[p] \in Bufs
  BY DEF brelse, CacheInv, Using
<1> PICK b \in Bufs : b = buf[p]
  BY <1>0
<1>1. /\ pc[p] = "unref"
      /\ refcnt' = [refcnt EXCEPT ![b] = RefDec(@)]
      /\ pc' = [pc EXCEPT ![p] = "idle"]
      /\ buf' = [buf EXCEPT ![p] = None] /\ want' = [want EXCEPT ![p] = None]
      /\ UNCHANGED <<blockno, logged>>
  BY DEF brelse, CacheInv, Using
<1>2. p \in Refs(b) /\ Refs(b)' = Refs(b) \ {p}
  BY <1>1, ConstantAssumption, SMTT(60) DEF TypeOK, Refs, Using, Waiting, Locking, Filled
<1>3. \A c \in Bufs : c # b => Refs(c)' = Refs(c)
  BY <1>1 DEF TypeOK, Refs, Using, Waiting, Locking, Filled
<1>4. \A c \in Bufs : refcnt'[c] = Cardinality(Refs(c)')
  <2>1. IsFiniteSet(Refs(b)) /\ refcnt[b] = Cardinality(Refs(b))
    BY <1>1, RefsSmall DEF CacheInv
  <2>2. RefDec(refcnt[b]) = Cardinality(Refs(b) \ {p})
    BY <1>2, <2>1, CountRemove
  <2>3. QED
    BY <1>1, <1>2, <1>3, <2>2 DEF CacheInv, TypeOK
<1>5. \A c \in Bufs : \E i \in 1..NBUF : lru'[i] = c
  <2>1. CASE lru' = lru
    BY <2>1 DEF CacheInv
  <2>2. CASE lru' = MoveToFront(b)
    <3>1. NBUF \in Nat /\ \A c \in Bufs : \E i \in 1..NBUF : lru[i] = c
      BY ConstantAssumption, FS_CardinalityType DEF CacheInv
    <3> DEFINE at == CHOOSE i \in 1..NBUF : lru[i] = b
    <3>2. at \in 1..NBUF /\ lru[at] = b
      BY <1>1, <3>1
    <3>3. lru' = [i \in 1..NBUF |-> IF i = 1 THEN b
                                   ELSE IF i <= at THEN lru[i - 1] ELSE lru[i]]
      BY <2>2 DEF MoveToFront
    <3> HIDE DEF at
    <3>4. ASSUME NEW c \in Bufs PROVE \E i \in 1..NBUF : lru'[i] = c
      <4>1. CASE c = b
        BY <3>1, <3>2, <3>3, <4>1, SMTT(60)
      <4>2. CASE c # b
        <5>1. PICK j \in 1..NBUF : lru[j] = c
          BY <3>1
        <5>2. j # at
          BY <3>2, <4>2, <5>1
        <5>3. CASE j < at
          <6>1. j + 1 \in 1..NBUF /\ lru'[j + 1] = c
            BY <3>1, <3>2, <3>3, <5>1, <5>3, SMTT(60)
          <6>2. QED
            BY <6>1
        <5>4. CASE j > at
          <6>1. lru'[j] = c
            BY <3>1, <3>2, <3>3, <5>1, <5>4, SMTT(60)
          <6>2. QED
            BY <6>1
        <5>5. QED
          BY <3>1, <3>2, <5>2, <5>3, <5>4, SMTT(60)
      <4>3. QED
        BY <4>1, <4>2
    <3>5. QED
      BY <3>4
  <2>3. QED
    BY <2>1, <2>2 DEF brelse
<1>6. QED
  BY <1>1, <1>4, <1>5, SMTT(60) DEF CacheInv, Identity, TypeOK, Using, Waiting, Locking, Filled

-----------------------------------------------------------------------------
(* Sleep-locks. *)

\* A step outside acquiresleep() and releasesleep().
LEMMA QuietLock ==
  ASSUME TypeOK, LockInv, SleeperHasHolder, locked' = locked,
         \A q \in Procs : pc'[q] \in Locking <=> pc[q] \in Locking,
         \A q \in Procs : pc[q] \in Locking => buf'[q] = buf[q],
         \A q \in Procs : pc'[q] = "asleep" => pc[q] = "asleep" /\ buf'[q] = buf[q]
  PROVE  LockInv' /\ SleeperHasHolder'
  BY SMTT(60) DEF LockInv, SleeperHasHolder, TypeOK

\* acquiresleep() gives a free sleep-lock to one process, or puts it to sleep
\* while there is a holder.
LEMMA AcquireLock ==
  ASSUME TypeOK, Placed, LockInv, SleeperHasHolder, NEW p \in Procs,
         acquiresleep(p)
  PROVE  LockInv' /\ SleeperHasHolder'
<1> USE DEF Using, Waiting, Locking, Filled
<1>1. pc[p] = "lock" /\ buf[p] \in Bufs /\ buf' = buf /\ p # None
  BY ConstantAssumption DEF acquiresleep, Placed
<1>2. CASE locked[buf[p]] # None
  <2>1. locked' = locked /\ pc' = [pc EXCEPT ![p] = "asleep"]
    BY <1>2 DEF acquiresleep
  <2>2. QED
    BY <1>1, <1>2, <2>1, SMTT(60) DEF LockInv, SleeperHasHolder, TypeOK
<1>3. CASE locked[buf[p]] = None
  <2>1. /\ locked' = [locked EXCEPT ![buf[p]] = p]
        /\ pc' = [pc EXCEPT ![p] = "read"]
    BY <1>3 DEF acquiresleep
  <2>2. SleeperHasHolder'
    BY <1>1, <2>1, SMTT(60) DEF SleeperHasHolder, TypeOK
  <2>3. \A q \in Procs : pc[q] \in Locking => locked[buf[q]] = q /\ q # None
    BY ConstantAssumption DEF LockInv
  <2>4. \A q \in Procs : pc'[q] \in Locking => locked'[buf'[q]] = q
    BY <1>1, <1>3, <2>1, <2>3, SMTT(60) DEF TypeOK
  <2>5. \A b \in Bufs : locked'[b] # None =>
          pc'[locked'[b]] \in Locking /\ buf'[locked'[b]] = b
    BY <1>1, <1>3, <2>1, SMTT(60) DEF LockInv, TypeOK
  <2>6. QED
    BY <2>2, <2>4, <2>5 DEF LockInv
<1>4. QED
  BY <1>2, <1>3

\* releasesleep() leaves no sleeper behind and moves no process to another
\* buffer.
LEMMA ReleaseLock ==
  ASSUME TypeOK, Placed, LockInv, SleeperHasHolder, NEW p \in Procs,
         releasesleep(p)
  PROVE  /\ LockInv' /\ SleeperHasHolder'
         /\ \A q \in Procs : pc'[q] \in Using <=> pc[q] \in Using
         /\ pc'[p] = "unref"
         /\ \A q \in Procs : q # p =>
              pc'[q] = pc[q] \/ (pc'[q] \in Waiting /\ pc[q] \in Waiting)
<1> USE DEF Using, Waiting, Locking, Filled
<1>1. /\ pc[p] = "use" /\ buf[p] \in Bufs /\ buf' = buf
      /\ locked[buf[p]] = p
  BY DEF releasesleep, Placed, LockInv
<1>2. /\ locked' = [locked EXCEPT ![buf[p]] = None]
      /\ pc' = [q \in Procs |->
                  IF q = p THEN "unref"
                  ELSE IF pc[q] = "asleep" /\ buf[q] = buf[p] THEN "lock"
                  ELSE pc[q]]
  BY <1>1 DEF releasesleep
<1>3. \A q \in Procs : pc[q] \in Locking /\ q # p => buf[q] # buf[p]
  BY <1>1 DEF LockInv
<1>4. \A q \in Procs : pc'[q] \in Locking => locked'[buf'[q]] = q
  BY <1>1, <1>2, <1>3, SMTT(60) DEF LockInv, TypeOK
<1>5. ASSUME NEW b \in Bufs, locked'[b] # None
      PROVE  pc'[locked'[b]] \in Locking /\ buf'[locked'[b]] = b
  <2>1. b # buf[p] /\ locked'[b] = locked[b]
    BY <1>1, <1>2, <1>5 DEF TypeOK
  <2>2. locked[b] \in Procs /\ pc[locked[b]] \in Locking /\ buf[locked[b]] = b
    BY <1>5, <2>1, SMTT(60) DEF LockInv, TypeOK
  <2>3. QED
    BY <1>1, <1>2, <2>1, <2>2
<1>6. SleeperHasHolder'
  BY <1>1, <1>2, SMTT(60) DEF SleeperHasHolder, TypeOK
<1>8. LockInv'
  BY <1>4, <1>5 DEF LockInv
<1>9. pc'[p] = "unref"
  BY <1>2
<1>10. ASSUME NEW q \in Procs, q # p
       PROVE  pc'[q] = pc[q] \/ (pc'[q] \in Waiting /\ pc[q] \in Waiting)
  BY <1>2, <1>10
<1>11. ASSUME NEW q \in Procs PROVE pc'[q] \in Using <=> pc[q] \in Using
  BY <1>1, <1>9, <1>10
<1>12. QED
  BY <1>6, <1>8, <1>9, <1>10, <1>11

\* bwrite() is called with the buffer locked, so install_trans() writes it home.
LEMMA InstallWrites ==
  ASSUME LockInv, NEW p \in Procs, install(p)
  PROVE  /\ pc[p] = "use" /\ want[p] \in logged
         /\ pc' = [pc EXCEPT ![p] = "unpin"]
         /\ \E v \in Values : /\ boot = 0 => v = data[buf[p]]
                              /\ data' = [data EXCEPT ![buf[p]] = v]
                              /\ disk' = [disk EXCEPT ![want[p]] = v]
         /\ UNCHANGED <<blockno, valid, refcnt, locked, lru, logged, boot, buf, want>>
<1>1. pc[p] = "use" /\ locked[buf[p]] = p
  BY DEF install, LockInv, Locking, Filled
<1>2. QED
  BY <1>1 DEF install

\* Two processes never have the same buffer.
LEMMA OneHolder ==
  ASSUME TypeOK, CacheInv, Identity, LockInv, NEW p \in Procs, pc[p] \in Locking
  PROVE  /\ buf[p] \in Bufs /\ want[p] \in Blocks /\ blockno[buf[p]] = want[p]
         /\ \A q \in Procs : q # p /\ pc[q] \in Locking =>
              buf[q] # buf[p] /\ want[q] # want[p]
         /\ \A b \in Bufs : b # buf[p] => blockno[b] # want[p]
<1>1. buf[p] \in Bufs /\ want[p] \in Blocks /\ blockno[buf[p]] = want[p]
  BY DEF CacheInv, Identity, Using
<1>2. \A b \in Bufs : b # buf[p] => blockno[b] # want[p]
  BY <1>1, ConstantAssumption, SMTT(60) DEF CacheInv
<1>3. \A q \in Procs : q # p /\ pc[q] \in Locking => buf[q] # buf[p]
  BY DEF LockInv
<1>4. \A q \in Procs : pc[q] \in Locking => buf[q] \in Bufs /\ blockno[buf[q]] = want[q]
  BY DEF CacheInv, Identity, Using
<1>5. QED
  BY <1>1, <1>2, <1>3, <1>4

-----------------------------------------------------------------------------
(* Contents. *)

\* With an empty log, binit() leaves nothing in the cache.
LEMMA InitData == Init /\ Replay = {} => DataInv
<1> SUFFICES ASSUME Init, Replay = {} PROVE DataInv
  OBVIOUS
<1>1. Reserved = {}
  BY DEF Init, Reserved
<1>2. Cardinality(Reserved) <= MaxPinned
  BY <1>1, FS_EmptySet, ConstantAssumption, SMTT(60)
<1>3. QED
  BY <1>2, SMTT(60) DEF Init, DataInv, Filled

\* A step that neither touches contents nor fills a buffer.
LEMMA QuietData ==
  ASSUME TypeOK, DataInv, boot = 0, boot' = 0,
         UNCHANGED <<blockno, valid, data, disk, logged>>,
         \A q \in Procs : pc'[q] \in Filled =>
           pc[q] = pc'[q] /\ buf'[q] = buf[q] /\ want'[q] = want[q],
         \A q \in Procs : pc[q] = "dirty" => pc'[q] = "dirty"
  PROVE  DataInv'
<1> USE DEF Filled
<1>1. Reserved' = Reserved
  BY DEF Reserved
<1>2. QED
  BY <1>1, SMTT(60) DEF DataInv

\* bget() may recycle a buffer without references: nothing in it is newer than
\* the disk.
LEMMA RecycleData ==
  ASSUME TypeOK, CacheInv, Identity, DataInv, NEW p \in Procs, NEW k \in Blocks,
         NEW b \in Bufs, pc[p] = "idle", boot = 0, boot' = 0, refcnt[b] = 0,
         blockno' = [blockno EXCEPT ![b] = k], valid' = [valid EXCEPT ![b] = 0],
         buf' = [buf EXCEPT ![p] = b], want' = [want EXCEPT ![p] = k],
         pc' = [pc EXCEPT ![p] = "lock"], UNCHANGED <<data, disk, logged>>
  PROVE  DataInv'
<1> USE DEF Filled
<1>1. Refs(b) = {}
  BY RefsSmall, FS_EmptySet DEF CacheInv
<1>2. \A q \in Procs : pc[q] \in Filled => buf[q] # b
  BY <1>1 DEF Refs, Using, Locking
<1>3. blockno[b] \notin logged
  BY <1>1 DEF Refs
<1>4. Reserved' = Reserved
  BY DEF Reserved, TypeOK
<1>5. \A q \in Procs : pc'[q] \in Filled =>
        q # p /\ pc'[q] = pc[q] /\ buf'[q] = buf[q] /\ want'[q] = want[q]
  BY DEF TypeOK
<1>6. /\ \A q \in Procs : pc'[q] \in Filled => valid'[buf'[q]] = 1
      /\ \A q \in Procs : pc'[q] = "unpin" =>
           want'[q] \in logged' /\ data'[buf'[q]] = disk'[want'[q]]
  BY <1>2, <1>5, SMTT(60) DEF DataInv, TypeOK
<1>7. \A j \in logged' : \E c \in Bufs : blockno'[c] = j /\ valid'[c] = 1
  BY <1>3, SMTT(60) DEF DataInv, TypeOK
<1>8. \A c \in Bufs : valid'[c] = 1 =>
        /\ blockno'[c] # None
        /\ \/ blockno'[c] \in Reserved' \/ data'[c] = disk'[blockno'[c]]
  BY <1>4, SMTT(60) DEF DataInv, TypeOK
<1>9. QED
  BY <1>4, <1>6, <1>7, <1>8, SMTT(60) DEF DataInv

\* The process steps that change contents or the log.
LEMMA ContentData ==
  ASSUME TypeOK, CacheInv, Identity, LockInv, DataInv, NEW p \in Procs, boot = 0,
         \/ bread(p) \/ log_write(p) \/ install(p) \/ bunpin(p)
         \/ \E v \in Values : modify(p, v)
  PROVE  DataInv'
<1> USE DEF Filled
<1>0. pc[p] \in Locking
  BY DEF bread, log_write, install, bunpin, modify, Locking
<1> PICK b \in Bufs : b = buf[p]
  BY <1>0, OneHolder
<1> PICK k \in Blocks : k = want[p]
  BY <1>0, OneHolder
<1>1. /\ blockno[b] = k /\ \A c \in Bufs : c # b => blockno[c] # k
      /\ \A q \in Procs : q # p /\ pc[q] \in Filled => buf[q] # b /\ want[q] # k
      /\ \A q \in Procs : pc[q] \in Filled => buf[q] \in Bufs /\ want[q] \in Blocks
  BY <1>0, OneHolder DEF CacheInv, Using, Locking
<1>2. UNCHANGED <<blockno, buf, want, boot>>
  BY DEF bread, log_write, install, bunpin, modify
<1>3. CASE bread(p)
  <2>1. /\ pc[p] = "read" /\ pc' = [pc EXCEPT ![p] = "use"]
        /\ valid' = [valid EXCEPT ![b] = 1] /\ UNCHANGED <<disk, logged>>
        /\ data' = [data EXCEPT ![b] = IF valid[b] = 1 THEN @ ELSE disk[k]]
    BY <1>1, <1>3 DEF bread
  <2>2. Reserved' = Reserved
    BY <1>2, <2>1 DEF Reserved, TypeOK
  <2>3. \A c \in Bufs : valid'[c] = 1 =>
          blockno'[c] # None
            /\ (blockno'[c] \in Reserved' \/ data'[c] = disk'[blockno'[c]])
    BY <1>1, <1>2, <2>1, <2>2, ConstantAssumption, SMTT(60) DEF DataInv, TypeOK
  <2>4. /\ \A q \in Procs : pc'[q] \in Filled => valid'[buf'[q]] = 1
        /\ \A q \in Procs : pc'[q] = "unpin" =>
             want'[q] \in logged' /\ data'[buf'[q]] = disk'[want'[q]]
    BY <1>1, <1>2, <2>1, SMTT(60) DEF DataInv, TypeOK
  <2>5. \A j \in logged' : \E c \in Bufs : blockno'[c] = j /\ valid'[c] = 1
    BY <1>2, <2>1 DEF DataInv, TypeOK
  <2>6. Cardinality(Reserved') <= MaxPinned
    BY <2>2 DEF DataInv
  <2>7. boot' # 1
    BY <1>2, SMTT(60)
  <2>8. QED
    BY <2>3, <2>4, <2>5, <2>6, <2>7 DEF DataInv
<1>4. CASE \E v \in Values : modify(p, v)
  <2>1. PICK v \in Values : modify(p, v)
    BY <1>4
  <2>2. /\ pc[p] = "use" /\ pc' = [pc EXCEPT ![p] = "dirty"]
        /\ Cardinality(Reserved \cup {k}) <= MaxPinned
        /\ data' = [data EXCEPT ![b] = v] /\ UNCHANGED <<valid, disk, logged>>
    BY <2>1 DEF modify
  <2>3. Reserved' = Reserved \cup {k}
    BY <1>2, <2>2 DEF Reserved, TypeOK
  <2>4. \A c \in Bufs : valid'[c] = 1 =>
          blockno'[c] # None
            /\ (blockno'[c] \in Reserved' \/ data'[c] = disk'[blockno'[c]])
    BY <1>1, <1>2, <2>2, <2>3 DEF DataInv, TypeOK
  <2>5. /\ \A q \in Procs : pc'[q] \in Filled => valid'[buf'[q]] = 1
        /\ \A q \in Procs : pc'[q] = "unpin" =>
             want'[q] \in logged' /\ data'[buf'[q]] = disk'[want'[q]]
    BY <1>1, <1>2, <2>2, SMTT(60) DEF DataInv, TypeOK
  <2>6. \A j \in logged' : \E c \in Bufs : blockno'[c] = j /\ valid'[c] = 1
    BY <1>2, <2>2 DEF DataInv
  <2>a. Cardinality(Reserved \cup {k}) <= MaxPinned
    BY <2>2
  <2>7. Cardinality(Reserved') <= MaxPinned
    BY <2>a, <2>3
  <2>8. boot' # 1
    BY <1>2, SMTT(60)
  <2>9. QED
    BY <2>4, <2>5, <2>6, <2>7, <2>8 DEF DataInv
<1>5. CASE log_write(p)
  <2>1. /\ pc[p] = "dirty" /\ pc' = [pc EXCEPT ![p] = "use"]
        /\ logged' = logged \cup {k} /\ UNCHANGED <<valid, data, disk>>
    BY <1>5 DEF log_write
  <2>2. Reserved' = Reserved
    BY <1>2, <2>1 DEF Reserved, TypeOK
  <2>3. /\ \A q \in Procs : pc'[q] \in Filled => valid'[buf'[q]] = 1
        /\ \A q \in Procs : pc'[q] = "unpin" =>
             want'[q] \in logged' /\ data'[buf'[q]] = disk'[want'[q]]
    BY <1>2, <2>1, SMTT(60) DEF DataInv, TypeOK
  <2>4. \A j \in logged' : \E c \in Bufs : blockno'[c] = j /\ valid'[c] = 1
    BY <1>1, <1>2, <2>1, SMTT(60) DEF DataInv
  <2>5. QED
    BY <1>2, <2>1, <2>2, <2>3, <2>4 DEF DataInv
<1>6. CASE install(p)
  <2>1. PICK v \in Values : /\ boot = 0 => v = data[b]
                            /\ data' = [data EXCEPT ![b] = v]
                            /\ disk' = [disk EXCEPT ![k] = v]
    BY <1>6, InstallWrites
  <2>2. /\ pc[p] = "use" /\ k \in logged /\ pc' = [pc EXCEPT ![p] = "unpin"]
        /\ data' = data /\ disk' = [disk EXCEPT ![k] = data[b]]
        /\ UNCHANGED <<valid, logged>>
    BY <1>6, <2>1, InstallWrites DEF TypeOK
  <2>3. Reserved' = Reserved
    BY <1>2, <2>2 DEF Reserved, TypeOK
  <2>4. /\ \A q \in Procs : pc'[q] \in Filled => valid'[buf'[q]] = 1
        /\ \A q \in Procs : pc'[q] = "unpin" =>
             want'[q] \in logged' /\ data'[buf'[q]] = disk'[want'[q]]
    BY <1>1, <1>2, <2>2, SMTT(60) DEF DataInv, TypeOK
  <2>5. \A c \in Bufs : valid'[c] = 1 =>
          blockno'[c] # None
            /\ (blockno'[c] \in Reserved' \/ data'[c] = disk'[blockno'[c]])
    BY <1>1, <1>2, <2>2, <2>3, SMTT(60) DEF DataInv, TypeOK
  <2>6. QED
    BY <1>2, <2>2, <2>3, <2>4, <2>5, SMTT(60) DEF DataInv
<1>7. CASE bunpin(p)
  <2>1. /\ pc[p] = "unpin" /\ pc' = [pc EXCEPT ![p] = "use"]
        /\ logged' = logged \ {k} /\ UNCHANGED <<valid, data, disk>>
        /\ data[b] = disk[k]
    BY <1>7 DEF bunpin, DataInv
  <2>2. Reserved' \subseteq Reserved /\ Reserved \subseteq Reserved' \cup {k}
    BY <1>2, <2>1 DEF Reserved, TypeOK
  <2>3. Cardinality(Reserved') <= MaxPinned
    <3>1. IsFiniteSet(Reserved)
      <4>1. Reserved \in SUBSET Blocks
        BY <1>1, SMTT(60) DEF Reserved, TypeOK
      <4>2. QED
        BY <4>1, ConstantAssumption, FS_Subset
    <3>2. /\ Cardinality(Reserved') <= Cardinality(Reserved)
          /\ Cardinality(Reserved') \in Nat /\ Cardinality(Reserved) \in Nat
      BY <2>2, <3>1, FS_Subset, FS_CardinalityType
    <3>3. QED
      BY <3>2, ConstantAssumption, SMTT(60) DEF DataInv
  <2>4. \A c \in Bufs : valid'[c] = 1 =>
          blockno'[c] # None
            /\ (blockno'[c] \in Reserved' \/ data'[c] = disk'[blockno'[c]])
    BY <1>1, <1>2, <2>1, <2>2 DEF DataInv
  <2>5. /\ \A q \in Procs : pc'[q] \in Filled => valid'[buf'[q]] = 1
        /\ \A q \in Procs : pc'[q] = "unpin" =>
             want'[q] \in logged' /\ data'[buf'[q]] = disk'[want'[q]]
    BY <1>1, <1>2, <2>1, SMTT(60) DEF DataInv, TypeOK
  <2>6. QED
    BY <1>2, <2>1, <2>3, <2>4, <2>5 DEF DataInv
<1>8. QED
  BY <1>3, <1>4, <1>5, <1>6, <1>7

-----------------------------------------------------------------------------
(* The invariant. *)

\* What bget() can do once the log has been replayed.
LEMMA BgetCases ==
  ASSUME TypeOK, CacheInv, DataInv, NEW p \in Procs, NEW k \in Blocks, bget(p, k)
  PROVE  /\ pc[p] = "idle" /\ boot = 0 /\ want' = [want EXCEPT ![p] = k]
         /\ UNCHANGED <<locked, data, lru, disk, logged, boot>>
         /\ \/ \E b \in Bufs :
                /\ blockno[b] = k
                /\ refcnt' = [refcnt EXCEPT ![b] = RefInc(@)]
                /\ buf' = [buf EXCEPT ![p] = b]
                /\ pc' = [pc EXCEPT ![p] = "lock"]
                /\ UNCHANGED <<blockno, valid>>
            \/ \E b \in Bufs :
                /\ \A c \in Bufs : blockno[c] # k
                /\ refcnt[b] = 0
                /\ blockno' = [blockno EXCEPT ![b] = k]
                /\ valid' = [valid EXCEPT ![b] = 0]
                /\ refcnt' = [refcnt EXCEPT ![b] = 1]
                /\ buf' = [buf EXCEPT ![p] = b]
                /\ pc' = [pc EXCEPT ![p] = "lock"]
            \/ /\ \A b \in Bufs : refcnt[b] # 0
               /\ pc' = [pc EXCEPT ![p] = "panic"]
               /\ UNCHANGED <<blockno, valid, refcnt, buf>>
<1>1. /\ pc[p] = "idle" /\ boot = 0 /\ want' = [want EXCEPT ![p] = k]
      /\ UNCHANGED <<locked, data, lru, disk, logged, boot>>
  BY DEF bget, DataInv, TypeOK
<1>2. \A i \in 1..NBUF : lru[i] \in Bufs
  BY DEF TypeOK
<1>3. QED
  BY <1>1, <1>2 DEF bget, Hit, Unused

\* bget() keeps the invariant, whether it hits, recycles or panics.
LEMMA BgetInv ==
  ASSUME IInv, NEW p \in Procs, NEW k \in Blocks, bget(p, k)
  PROVE  CacheInv' /\ Identity' /\ LockInv' /\ DataInv' /\ SleeperHasHolder'
<1>1. TypeOK /\ CacheInv /\ Identity /\ LockInv /\ DataInv /\ SleeperHasHolder
  BY DEF IInv
<1>2. /\ pc[p] = "idle" /\ boot = 0 /\ want' = [want EXCEPT ![p] = k]
      /\ UNCHANGED <<locked, data, lru, disk, logged, boot>>
  BY <1>1, BgetCases
<1>3. ASSUME NEW s \in {"lock", "panic"}, pc' = [pc EXCEPT ![p] = s]
      PROVE  /\ \A q \in Procs : q # p => pc'[q] = pc[q]
             /\ pc'[p] \notin Locking /\ pc[p] \notin Locking /\ pc'[p] # "asleep"
  BY <1>1, <1>2, <1>3 DEF TypeOK, Locking, Filled
<1>4. ASSUME NEW b \in Bufs, blockno[b] = k, UNCHANGED <<blockno, valid>>,
             refcnt' = [refcnt EXCEPT ![b] = RefInc(@)],
             buf' = [buf EXCEPT ![p] = b], pc' = [pc EXCEPT ![p] = "lock"]
      PROVE  CacheInv' /\ Identity' /\ LockInv' /\ DataInv' /\ SleeperHasHolder'
  <2>1. CacheInv' /\ Identity'
    BY <1>1, <1>2, <1>4, HitCache
  <2>2. LockInv' /\ SleeperHasHolder'
    BY <1>1, <1>2, <1>3, <1>4, QuietLock DEF TypeOK
  <2>3. DataInv'
    BY <1>1, <1>2, <1>3, <1>4, QuietData DEF TypeOK, Filled
  <2>4. QED
    BY <2>1, <2>2, <2>3
<1>5. ASSUME NEW b \in Bufs, \A c \in Bufs : blockno[c] # k, refcnt[b] = 0,
             blockno' = [blockno EXCEPT ![b] = k], valid' = [valid EXCEPT ![b] = 0],
             refcnt' = [refcnt EXCEPT ![b] = 1],
             buf' = [buf EXCEPT ![p] = b], pc' = [pc EXCEPT ![p] = "lock"]
      PROVE  CacheInv' /\ Identity' /\ LockInv' /\ DataInv' /\ SleeperHasHolder'
  <2>1. CacheInv' /\ Identity'
    BY <1>1, <1>2, <1>5, RecycleCache
  <2>2. LockInv' /\ SleeperHasHolder'
    BY <1>1, <1>2, <1>3, <1>5, QuietLock DEF TypeOK
  <2>3. DataInv'
    BY <1>1, <1>2, <1>5, RecycleData
  <2>4. QED
    BY <2>1, <2>2, <2>3
<1>6. ASSUME pc' = [pc EXCEPT ![p] = "panic"],
             UNCHANGED <<blockno, valid, refcnt, buf>>
      PROVE  CacheInv' /\ Identity' /\ LockInv' /\ DataInv' /\ SleeperHasHolder'
  <2>1. CacheInv' /\ Identity'
    <3>1. \A q \in Procs : pc'[q] \in Using <=> pc[q] \in Using
      BY <1>1, <1>2, <1>6 DEF TypeOK, Using, Waiting, Locking, Filled
    <3>2. \A b \in Bufs : Refs(b)' = Refs(b)
      BY <1>2, <1>6, <3>1 DEF Refs
    <3>3. \A q \in Procs : pc'[q] \in Using => q # p
      BY <1>1, <1>6 DEF TypeOK, Using, Waiting, Locking, Filled
    <3>4. QED
      BY <1>1, <1>2, <1>6, <3>1, <3>2, <3>3 DEF CacheInv, Identity, TypeOK
  <2>2. LockInv' /\ SleeperHasHolder'
    BY <1>1, <1>2, <1>3, <1>6, QuietLock DEF TypeOK
  <2>3. DataInv'
    BY <1>1, <1>2, <1>3, <1>6, QuietData DEF TypeOK, Filled
  <2>4. QED
    BY <2>1, <2>2, <2>3
<1>7. QED
  BY <1>1, <1>4, <1>5, <1>6, BgetCases, SMTT(60)

\* Every other step of a process.
LEMMA ProcInv ==
  ASSUME IInv, NEW p \in Procs,
         \/ acquiresleep(p) \/ bread(p) \/ log_write(p) \/ install(p)
         \/ bunpin(p) \/ releasesleep(p) \/ brelse(p)
         \/ \E v \in Values : modify(p, v)
  PROVE  CacheInv' /\ Identity' /\ LockInv' /\ DataInv' /\ SleeperHasHolder'
<1>1. /\ TypeOK /\ CacheInv /\ Identity /\ LockInv /\ DataInv
      /\ SleeperHasHolder /\ Placed
  BY PlacedInv DEF IInv
<1>2. pc[p] # "idle" /\ boot = 0 /\ boot' = 0
  BY <1>1 DEF acquiresleep, bread, log_write, install, bunpin, releasesleep, brelse,
              modify, DataInv, TypeOK
<1>3. CASE acquiresleep(p)
  <2>1. /\ pc[p] = "lock" /\ pc'[p] \in {"asleep", "read"}
        /\ \A q \in Procs : q # p => pc'[q] = pc[q]
        /\ UNCHANGED <<blockno, valid, refcnt, data, lru, disk, logged, buf, want>>
    BY <1>1, <1>3 DEF acquiresleep, TypeOK
  <2>2. CacheInv' /\ Identity'
    BY <1>1, <2>1, QuietCache DEF Using, Waiting, Locking
  <2>3. DataInv'
    BY <1>1, <1>2, <2>1, QuietData DEF Filled
  <2>4. QED
    BY <1>1, <1>3, <2>2, <2>3, AcquireLock
<1>4. CASE releasesleep(p)
  <2>1. /\ LockInv' /\ SleeperHasHolder'
        /\ \A q \in Procs : pc'[q] \in Using <=> pc[q] \in Using
        /\ pc'[p] = "unref" /\ pc[p] = "use"
        /\ \A q \in Procs : q # p =>
             pc'[q] = pc[q] \/ (pc'[q] \in Waiting /\ pc[q] \in Waiting)
        /\ UNCHANGED <<blockno, valid, refcnt, data, lru, disk, logged, buf, want>>
    BY <1>1, <1>4, ReleaseLock DEF releasesleep
  <2>2. CacheInv' /\ Identity'
    BY <1>1, <2>1, QuietCache
  <2>3. DataInv'
    BY <1>1, <1>2, <2>1, QuietData DEF Filled, Waiting
  <2>4. QED
    BY <2>1, <2>2, <2>3
<1>5. CASE brelse(p)
  <2>1. /\ pc[p] = "unref" /\ pc' = [pc EXCEPT ![p] = "idle"]
        /\ UNCHANGED <<blockno, valid, locked, data, disk, logged>>
        /\ \A q \in Procs : q # p =>
             pc'[q] = pc[q] /\ buf'[q] = buf[q] /\ want'[q] = want[q]
        /\ pc'[p] = "idle"
    BY <1>1, <1>5 DEF brelse, TypeOK
  <2>2. CacheInv' /\ Identity'
    BY <1>1, <1>5, BrelseCache
  <2>3. LockInv' /\ SleeperHasHolder'
    BY <1>1, <2>1, QuietLock DEF Locking, Filled
  <2>4. DataInv'
    BY <1>1, <1>2, <2>1, QuietData DEF Filled
  <2>5. QED
    BY <2>2, <2>3, <2>4
<1>6. CASE \/ bread(p) \/ log_write(p) \/ install(p) \/ bunpin(p)
           \/ \E v \in Values : modify(p, v)
  <2>1. /\ pc[p] \in Locking
        /\ \E s \in Filled : pc' = [pc EXCEPT ![p] = s]
        /\ UNCHANGED <<blockno, lru, buf, want, locked>>
    BY <1>1, <1>6, InstallWrites DEF bread, log_write, bunpin, modify, Filled, Locking
  <2>2. /\ \A q \in Procs : q # p => pc'[q] = pc[q]
        /\ pc'[p] \in Filled
    BY <1>1, <2>1 DEF TypeOK
  <2>3. /\ \A q \in Procs : pc'[q] \in Using <=> pc[q] \in Using
        /\ \A q \in Procs : pc'[q] \in Locking <=> pc[q] \in Locking
        /\ \A q \in Procs : pc'[q] = "asleep" => pc[q] = "asleep"
    BY <2>1, <2>2 DEF Using, Waiting, Locking, Filled
  <2>4. LockInv' /\ SleeperHasHolder'
    BY <1>1, <2>1, <2>3, QuietLock
  <2>5. DataInv'
    BY <1>1, <1>2, <1>6, ContentData
  <2>6. CacheInv' /\ Identity'
    <3>1. CASE UNCHANGED <<refcnt, logged>>
      BY <1>1, <2>1, <2>3, <3>1, QuietCache
    <3>2. CASE log_write(p) /\ want[p] \notin logged
      <4>1. /\ logged' = logged \cup {want[p]}
            /\ refcnt' = [refcnt EXCEPT ![buf[p]] = RefInc(@)]
        BY <3>2 DEF log_write
      <4>2. QED
        BY <1>1, <2>1, <2>3, <3>2, <4>1, PinCache DEF Using
    <3>3. CASE bunpin(p)
      <4>1. /\ want[p] \in logged /\ logged' = logged \ {want[p]}
            /\ refcnt' = [refcnt EXCEPT ![buf[p]] = RefDec(@)]
        BY <1>1, <3>3 DEF bunpin, DataInv
      <4>2. QED
        BY <1>1, <2>1, <2>3, <4>1, PinCache DEF Using
    <3>4. CASE log_write(p) /\ want[p] \in logged
      <4>1. UNCHANGED <<refcnt, logged>>
        BY <1>1, <3>4 DEF log_write, TypeOK
      <4>2. QED
        BY <3>1, <4>1
    <3>5. QED
      BY <1>6, <3>1, <3>2, <3>3, <3>4 DEF bread, install, modify
  <2>7. QED
    BY <2>4, <2>5, <2>6
<1>7. QED
  BY <1>3, <1>4, <1>5, <1>6

\* The invariant of the cache is inductive once the log found at boot is empty.
THEOREM CacheInvariant ==
  ASSUME Replay = {}
  PROVE  Spec => []IInv
<1>1. Init => IInv
  <2> SUFFICES ASSUME Init PROVE IInv
    OBVIOUS
  <2>1. LockInv /\ SleeperHasHolder
    BY DEF Init, LockInv, SleeperHasHolder, Locking, Filled
  <2>2. QED
    BY <2>1, InitType, InitCache, InitData DEF IInv
<1>2. IInv /\ [Next]_vars => IInv'
  <2> SUFFICES ASSUME IInv, [Next]_vars PROVE IInv'
    OBVIOUS
  <2>1. TypeOK'
    BY NextType, PlacedInv DEF IInv
  <2>2. ASSUME NEW p \in Procs,
               \/ \E k \in Blocks : bget(p, k)
               \/ \E v \in Values : modify(p, v)
               \/ acquiresleep(p) \/ bread(p) \/ log_write(p) \/ install(p)
               \/ bunpin(p) \/ releasesleep(p) \/ brelse(p)
        PROVE  IInv'
    <3>1. CacheInv' /\ Identity' /\ LockInv' /\ DataInv' /\ SleeperHasHolder'
      BY <2>2, BgetInv, ProcInv
    <3>2. QED
      BY <2>1, <3>1 DEF IInv
  <2>3. CASE end_recovery \/ UNCHANGED vars
    <3>1. /\ UNCHANGED <<blockno, valid, refcnt, locked, data, lru, disk, logged, pc,
                         buf, want>>
          /\ boot' = 0 \/ boot' = boot
      BY <2>3 DEF end_recovery, vars, bufvars
    <3>2. CacheInv' /\ Identity'
      BY <3>1, QuietCache DEF IInv
    <3>3. LockInv' /\ SleeperHasHolder'
      BY <3>1, QuietLock DEF IInv
    <3>4. DataInv'
      <4>1. Reserved' = Reserved
        BY <3>1 DEF Reserved
      <4>2. QED
        BY <3>1, <4>1, SMTT(60) DEF IInv, DataInv
    <3>5. QED
      BY <2>1, <3>2, <3>3, <3>4 DEF IInv
  <2>4. QED
    BY <2>2, <2>3 DEF Next
<1>3. QED
  BY <1>1, <1>2, PTL DEF Spec

\* No buffer is recycled under a process that bget() gave it to.
THEOREM BuffersKeepIdentity ==
  ASSUME Replay = {}
  PROVE  Spec => []Identity
<1>1. IInv => Identity
  BY DEF IInv
<1>2. QED
  BY <1>1, CacheInvariant, PTL

-----------------------------------------------------------------------------
(* Running out of buffers. *)

\* A buffer with a refcnt is one that somebody refers to.
LEMMA CountedIsUsed ==
  ASSUME CacheInv, NEW b \in Bufs, refcnt[b] # 0
  PROVE  Refs(b) # {}
  BY FS_EmptySet DEF CacheInv

\* bget() panics "no buffers" only while every buffer is in use or pinned, and
\* bwrite() and brelse() do not panic, however many processes, blocks and
\* buffers there are: no call leaks a reference.
THEOREM NoReferenceLeaks ==
  ASSUME Replay = {}
  PROVE  Spec => PanicOnlyWhenAllInUse
<1> DEFINE Exhausted == \A p \in Procs : pc'[p] = "panic" /\ pc[p] # "panic" =>
                          pc[p] = "idle" /\ \A b \in Bufs : Refs(b) # {}
<1>1. IInv /\ [Next]_vars => [Exhausted]_vars
  <2> SUFFICES ASSUME IInv, [Next]_vars PROVE Exhausted \/ UNCHANGED vars
    OBVIOUS
  <2>1. TypeOK /\ CacheInv /\ LockInv /\ SleeperHasHolder /\ Placed
    BY PlacedInv DEF IInv
  <2>2. ASSUME NEW p \in Procs, NEW k \in Blocks, bget(p, k) PROVE Exhausted
    <3>1. pc[p] = "idle" /\ \A q \in Procs : q # p => pc'[q] = pc[q]
      BY <2>1, <2>2 DEF bget, TypeOK
    <3>2. ASSUME pc'[p] = "panic" PROVE \A b \in Bufs : refcnt[b] # 0
      BY <2>1, <2>2, <3>2 DEF bget, TypeOK
    <3>3. QED
      BY <2>1, <3>1, <3>2, CountedIsUsed
  <2>3. ASSUME NEW p \in Procs, releasesleep(p) PROVE Exhausted
    BY <2>1, <2>3, ReleaseLock DEF Waiting
  <2>4. ASSUME NEW p \in Procs, install(p) PROVE Exhausted
    BY <2>1, <2>4, InstallWrites DEF TypeOK
  <2>5. ASSUME NEW p \in Procs,
               \/ acquiresleep(p) \/ bread(p) \/ log_write(p)
               \/ bunpin(p) \/ brelse(p) \/ \E v \in Values : modify(p, v)
        PROVE  Exhausted
    BY <2>1, <2>5 DEF acquiresleep, bread, log_write, bunpin, brelse, modify, TypeOK
  <2>6. CASE end_recovery
    BY <2>6 DEF end_recovery
  <2>7. QED
    BY <2>2, <2>3, <2>4, <2>5, <2>6 DEF Next
<1>2. QED
  BY <1>1, CacheInvariant, PTL DEF Spec, PanicOnlyWhenAllInUse

-----------------------------------------------------------------------------
(* The cache implements BlockStore. *)

owner == [p \in Procs |-> IF pc[p] \in Filled THEN want[p] ELSE None]

\* A block has the contents of its buffer, once read ...
LEMMA Cached ==
  ASSUME CacheInv, NEW k \in Blocks
  PROVE  /\ \A b \in Bufs : blockno[b] = k /\ valid[b] = 1 => Contents[k] = data[b]
         /\ (\A b \in Bufs : ~(blockno[b] = k /\ valid[b] = 1)) => Contents[k] = disk[k]
  BY ConstantAssumption, SMTT(60) DEF CacheInv, Contents

\* ... and so it is after a step.
LEMMA CachedNext ==
  ASSUME CacheInv', NEW k \in Blocks
  PROVE  /\ \A b \in Bufs : blockno'[b] = k /\ valid'[b] = 1 => Contents'[k] = data'[b]
         /\ (\A b \in Bufs : ~(blockno'[b] = k /\ valid'[b] = 1)) => Contents'[k] = disk'[k]
  BY ConstantAssumption, SMTT(60) DEF CacheInv, Contents

\* Two sets of contents are equal when they are for every block.
LEMMA SameContents ==
  ASSUME \A k \in Blocks : Contents'[k] = Contents[k]
  PROVE  Contents' = Contents
<1>1. Contents = [k \in Blocks |-> Contents[k]]
  BY DEF Contents
<1>2. Contents' = [k \in Blocks |-> Contents'[k]]
  BY DEF Contents
<1>3. QED
  BY <1>1, <1>2

\* Nothing but modify() changes the contents of a block.
LEMMA ContentsKept ==
  ASSUME IInv, CacheInv', NEW p \in Procs,
         \/ \E k \in Blocks : bget(p, k)
         \/ acquiresleep(p) \/ bread(p) \/ log_write(p) \/ install(p)
         \/ bunpin(p) \/ releasesleep(p) \/ brelse(p)
  PROVE  Contents' = Contents
<1>1. TypeOK /\ CacheInv /\ Identity /\ LockInv /\ DataInv
  BY DEF IInv
<1>2. ASSUME UNCHANGED <<blockno, valid, data, disk>> PROVE Contents' = Contents
  BY <1>2 DEF Contents
<1>3. ASSUME NEW k \in Blocks, bget(p, k) PROVE Contents' = Contents
  <2>1. UNCHANGED <<data, disk>>
    BY <1>3 DEF bget
  <2>2. CASE UNCHANGED <<blockno, valid>>
    BY <1>2, <2>1, <2>2
  <2>3. CASE \E b \in Bufs :
                /\ \A c \in Bufs : blockno[c] # k
                /\ refcnt[b] = 0
                /\ blockno' = [blockno EXCEPT ![b] = k]
                /\ valid' = [valid EXCEPT ![b] = 0]
    <3> PICK b \in Bufs : /\ \A c \in Bufs : blockno[c] # k
                          /\ refcnt[b] = 0
                          /\ blockno' = [blockno EXCEPT ![b] = k]
                          /\ valid' = [valid EXCEPT ![b] = 0]
      BY <2>3
    <3>1. Refs(b) = {}
      BY <1>1, RefsSmall, FS_EmptySet DEF CacheInv
    <3>2. valid[b] = 1 => blockno[b] # None /\ data[b] = disk[blockno[b]]
      <4>1. blockno[b] \notin logged
        BY <3>1 DEF Refs
      <4>2. \A q \in Procs : pc[q] = "dirty" => want[q] # blockno[b]
        <5>1. SUFFICES ASSUME NEW q \in Procs, pc[q] = "dirty", want[q] = blockno[b]
                       PROVE  FALSE
          OBVIOUS
        <5>2. pc[q] \in Locking /\ pc[q] \in Using
          BY <5>1 DEF Locking, Filled, Using
        <5>3. buf[q] = b
          BY <1>1, <5>1, <5>2, OneHolder
        <5>4. QED
          BY <3>1, <5>2, <5>3 DEF Refs
      <4>3. QED
        BY <1>1, <4>1, <4>2 DEF DataInv, Reserved
    <3>3. ASSUME NEW m \in Blocks PROVE Contents'[m] = Contents[m]
      <4>1. CASE \E c \in Bufs : c # b /\ blockno[c] = m /\ valid[c] = 1
        BY <1>1, <2>1, <4>1, Cached, CachedNext, SMTT(60) DEF TypeOK
      <4>2. CASE ~\E c \in Bufs : c # b /\ blockno[c] = m /\ valid[c] = 1
        <5>1. Contents'[m] = disk[m]
          BY <1>1, <2>1, <4>2, CachedNext, SMTT(60) DEF TypeOK
        <5>2. CASE blockno[b] = m /\ valid[b] = 1
          BY <1>1, <3>2, <5>1, <5>2, Cached
        <5>3. CASE ~(blockno[b] = m /\ valid[b] = 1)
          BY <1>1, <4>2, <5>1, <5>3, Cached
        <5>4. QED
          BY <5>2, <5>3
      <4>3. QED
        BY <4>1, <4>2
    <3>4. QED
      BY <3>3, SameContents
  <2>4. QED
    BY <1>1, <1>3, <2>2, <2>3, BgetCases, SMTT(60)
<1>4. ASSUME bread(p) \/ install(p) PROVE Contents' = Contents
  <2>0. pc[p] \in Locking /\ boot = 0
    BY <1>1, <1>4 DEF bread, install, Locking, Filled, DataInv, TypeOK
  <2> PICK b \in Bufs : b = buf[p]
    BY <1>1, <2>0, OneHolder
  <2> PICK k \in Blocks : k = want[p]
    BY <1>1, <2>0, OneHolder
  <2>1. blockno[b] = k /\ blockno' = blockno /\ \A c \in Bufs : c # b => blockno[c] # k
    BY <1>1, <1>4, <2>0, OneHolder DEF bread, install
  <2>2. \A c \in Bufs : c # b => valid'[c] = valid[c] /\ data'[c] = data[c]
    BY <1>1, <1>4 DEF bread, install, TypeOK
  <2>3. \A m \in Blocks : m # k => disk'[m] = disk[m]
    BY <1>1, <1>4 DEF bread, install, TypeOK
  <2>4. valid'[b] = 1 /\ data'[b] = (IF valid[b] = 1 THEN data[b] ELSE disk[k])
    <3>1. CASE bread(p)
      BY <1>1, <2>1, <3>1 DEF bread, TypeOK
    <3>2. CASE install(p)
      <4>1. valid[b] = 1 /\ valid' = valid
        BY <1>1, <3>2 DEF install, DataInv, Filled
      <4>2. data'[b] = data[b]
        BY <1>1, <2>0, <3>2 DEF install, TypeOK
      <4>3. QED
        BY <4>1, <4>2
    <3>3. QED
      BY <1>4, <3>1, <3>2
  <2>5. Contents'[k] = Contents[k]
    <3>1. Contents'[k] = data'[b]
      BY <2>1, <2>4, CachedNext
    <3>2. CASE valid[b] = 1
      BY <1>1, <2>1, <2>4, <3>1, <3>2, Cached
    <3>3. CASE valid[b] # 1
      BY <1>1, <2>1, <2>4, <3>1, <3>3, Cached
    <3>4. QED
      BY <3>2, <3>3
  <2>6. ASSUME NEW m \in Blocks, m # k PROVE Contents'[m] = Contents[m]
    <3>1. CASE \E c \in Bufs : blockno[c] = m /\ valid[c] = 1
      <4>1. PICK c \in Bufs : blockno[c] = m /\ valid[c] = 1
        BY <3>1
      <4>2. blockno'[c] = m /\ valid'[c] = 1 /\ data'[c] = data[c]
        BY <2>1, <2>2, <2>6, <4>1
      <4>3. QED
        BY <1>1, <4>1, <4>2, Cached, CachedNext
    <3>2. CASE ~\E c \in Bufs : blockno[c] = m /\ valid[c] = 1
      <4>1. \A c \in Bufs : ~(blockno'[c] = m /\ valid'[c] = 1)
        BY <2>1, <2>2, <2>6, <3>2
      <4>2. disk'[m] = disk[m]
        BY <2>3, <2>6
      <4>3. QED
        BY <1>1, <3>2, <4>1, <4>2, Cached, CachedNext
    <3>3. QED
      BY <3>1, <3>2
  <2>7. QED
    BY <2>5, <2>6, SameContents
<1>5. ASSUME acquiresleep(p) \/ log_write(p) \/ bunpin(p) \/ releasesleep(p) \/ brelse(p)
      PROVE  Contents' = Contents
  BY <1>2, <1>5 DEF acquiresleep, log_write, bunpin, releasesleep, brelse
<1>6. QED
  BY <1>3, <1>4, <1>5

\* modify() is a write of the one owner of the block.
LEMMA ModifyWrites ==
  ASSUME IInv, CacheInv', NEW p \in Procs, NEW v \in Values, modify(p, v)
  PROVE  /\ owner[p] # None /\ owner' = owner
         /\ Contents' = [Contents EXCEPT ![owner[p]] = v]
<1>1. TypeOK /\ CacheInv /\ Identity /\ LockInv /\ DataInv /\ pc[p] = "use"
  BY DEF IInv, modify
<1>2. pc[p] \in Filled /\ pc[p] \in Locking
  BY <1>1 DEF Filled, Locking
<1> PICK b \in Bufs : b = buf[p]
  BY <1>1, <1>2, OneHolder
<1> PICK k \in Blocks : k = want[p]
  BY <1>1, <1>2, OneHolder
<1>3. /\ blockno[b] = k /\ valid[b] = 1
      /\ \A c \in Bufs : c # b => blockno[c] # k
  BY <1>1, <1>2, OneHolder DEF DataInv
<1>4. /\ UNCHANGED <<blockno, valid, disk, want>>
      /\ data' = [data EXCEPT ![b] = v] /\ pc' = [pc EXCEPT ![p] = "dirty"]
  BY DEF modify
<1>5. \A q \in Procs : pc'[q] \in Filled <=> pc[q] \in Filled
  BY <1>1, <1>4 DEF TypeOK, Filled
<1>6. owner[p] = k /\ k # None /\ owner' = owner
  BY <1>2, <1>4, <1>5, ConstantAssumption DEF owner
<1>7. ASSUME NEW m \in Blocks
      PROVE  Contents'[m] = IF m = k THEN v ELSE Contents[m]
  <2>1. CASE m = k
    BY <1>1, <1>3, <1>4, <2>1, CachedNext DEF TypeOK
  <2>2. CASE m # k
    <3>1. CASE \E c \in Bufs : blockno[c] = m /\ valid[c] = 1
      BY <1>1, <1>3, <1>4, <2>2, <3>1, Cached, CachedNext, SMTT(60) DEF TypeOK
    <3>2. CASE ~\E c \in Bufs : blockno[c] = m /\ valid[c] = 1
      BY <1>1, <1>4, <2>2, <3>2, Cached, CachedNext
    <3>3. QED
      BY <2>2, <3>1, <3>2
  <2>3. QED
    BY <2>1, <2>2
<1>8. /\ Contents' = [m \in Blocks |-> Contents'[m]]
      /\ Contents = [m \in Blocks |-> Contents[m]]
  BY DEF Contents
<1>9. QED
  BY <1>6, <1>7, <1>8

\* bread() makes its caller the one owner of the block, releasesleep() ends
\* that, and no other step of a process but modify() is seen.
LEMMA OwnerSteps ==
  ASSUME IInv, NEW p \in Procs
  PROVE  /\ bread(p) => \E k \in Blocks :
              /\ owner[p] = None /\ \A q \in Procs : owner[q] # k
              /\ owner' = [owner EXCEPT ![p] = k]
         /\ releasesleep(p) => owner[p] # None /\ owner' = [owner EXCEPT ![p] = None]
         /\ (\E k \in Blocks : bget(p, k)) \/ acquiresleep(p) \/ log_write(p)
              \/ install(p) \/ bunpin(p) \/ brelse(p) => owner' = owner
<1>1. TypeOK /\ CacheInv /\ Identity /\ LockInv /\ DataInv /\ SleeperHasHolder /\ Placed
  BY PlacedInv DEF IInv
<1> USE DEF Filled
<1>2. ASSUME bread(p)
      PROVE  \E k \in Blocks :
               /\ owner[p] = None /\ \A q \in Procs : owner[q] # k
               /\ owner' = [owner EXCEPT ![p] = k]
  <2>1. pc[p] = "read" /\ pc[p] \in Locking
    BY <1>2 DEF bread, Locking
  <2> PICK k \in Blocks : k = want[p]
    BY <1>1, <2>1, OneHolder
  <2>2. owner[p] = None
    BY <2>1 DEF owner
  <2>3. \A q \in Procs : owner[q] # k
    <3>1. \A q \in Procs : pc[q] \in Filled => q # p /\ pc[q] \in Locking
      BY <2>1 DEF Locking
    <3>2. \A q \in Procs : pc[q] \in Filled => want[q] # k
      BY <1>1, <2>1, <3>1, OneHolder
    <3>3. QED
      BY <3>2, ConstantAssumption DEF owner
  <2>4. owner' = [owner EXCEPT ![p] = k]
    <3>1. pc' = [pc EXCEPT ![p] = "use"] /\ want' = want
      BY <1>2 DEF bread
    <3>2. QED
      BY <1>1, <3>1 DEF owner, TypeOK
  <2>5. QED
    BY <2>2, <2>3, <2>4
<1>3. ASSUME releasesleep(p)
      PROVE  owner[p] # None /\ owner' = [owner EXCEPT ![p] = None]
  <2>1. pc[p] = "use" /\ want' = want /\ pc' \in [Procs -> {"idle", "panic"} \cup Using]
    <3>1. pc[p] = "use" /\ want' = want
      BY <1>3 DEF releasesleep
    <3>2. TypeOK'
      BY <1>1, <1>3, NextType DEF Next
    <3>3. QED
      BY <3>1, <3>2 DEF TypeOK
  <2>2. want[p] \in Blocks
    BY <1>1, <2>1 DEF Placed, Using, Locking
  <2>3. /\ pc'[p] = "unref"
        /\ \A q \in Procs : q # p =>
             pc'[q] = pc[q] \/ (pc'[q] \in Waiting /\ pc[q] \in Waiting)
    BY <1>1, <1>3, ReleaseLock
  <2>4. \A q \in Procs : pc'[q] \in Filled <=> (q # p /\ pc[q] \in Filled)
    BY <2>1, <2>3 DEF Waiting
  <2>5. QED
    BY <2>1, <2>2, <2>4, ConstantAssumption DEF owner
<1>4. ASSUME (\E k \in Blocks : bget(p, k)) \/ acquiresleep(p) \/ log_write(p)
               \/ install(p) \/ bunpin(p) \/ brelse(p)
      PROVE  owner' = owner
  <2>1. /\ \A q \in Procs : q # p => pc'[q] = pc[q] /\ want'[q] = want[q]
        /\ pc'[p] \in Filled <=> pc[p] \in Filled
        /\ pc[p] \in Filled => want'[p] = want[p]
    <3>1. CASE install(p)
      BY <1>1, <3>1, InstallWrites DEF TypeOK
    <3>2. CASE ~install(p)
      BY <1>1, <1>4, <3>2, SMTT(60) DEF TypeOK, bget, acquiresleep, log_write, bunpin, brelse
    <3>3. QED
      BY <3>1, <3>2
  <2>2. QED
    BY <2>1 DEF owner
<1>5. QED
  BY <1>2, <1>3, <1>4

\* bio.c hides its buffers: with any number of processes, blocks and buffers,
\* a block has one contents, which only the process holding it changes.
THEOREM BcacheRefines ==
  ASSUME Replay = {}
  PROVE  Spec => RefinesBlockStore
<1>0. owner = [p \in Procs |-> IF pc[p] \in Filled THEN want[p] ELSE None]
  BY DEF owner
<1>1. Init => BS!Init
  <2> SUFFICES ASSUME Init PROVE BS!Init
    OBVIOUS
  <2>1. Contents \in [Blocks -> Values]
    BY SMTT(60) DEF Init, Contents
  <2>2. owner = [p \in Procs |-> None]
    BY DEF Init, owner, Filled
  <2>3. QED
    BY <1>0, <2>1, <2>2 DEF BS!Init
<1>2. IInv /\ IInv' /\ [Next]_vars => [BS!Next]_(BS!vars)
  <2> SUFFICES ASSUME IInv, IInv', [Next]_vars PROVE [BS!Next]_(BS!vars)
    OBVIOUS
  <2>0. CacheInv'
    BY DEF IInv
  <2>1. ASSUME NEW p \in Procs, bread(p) PROVE BS!Next
    BY <2>0, <2>1, ContentsKept, OwnerSteps DEF BS!Next, BS!Acquire, owner
  <2>2. ASSUME NEW p \in Procs, NEW v \in Values, modify(p, v) PROVE BS!Next
    BY <2>0, <2>2, ModifyWrites DEF BS!Next, BS!Write, owner
  <2>3. ASSUME NEW p \in Procs, releasesleep(p) PROVE BS!Next
    BY <2>0, <2>3, ContentsKept, OwnerSteps DEF BS!Next, BS!Release, owner
  <2>4. ASSUME NEW p \in Procs,
               \/ \E k \in Blocks : bget(p, k)
               \/ acquiresleep(p) \/ log_write(p) \/ install(p) \/ bunpin(p) \/ brelse(p)
        PROVE  UNCHANGED BS!vars
    BY <2>0, <2>4, ContentsKept, OwnerSteps DEF BS!vars, owner
  <2>5. CASE end_recovery \/ UNCHANGED vars
    BY <2>5 DEF BS!vars, end_recovery, vars, bufvars, Contents
  <2>6. QED
    BY <2>1, <2>2, <2>3, <2>4, <2>5 DEF Next
<1>3. QED
  BY <1>1, <1>2, CacheInvariant, PTL DEF Spec, RefinesBlockStore, BS!Spec
=============================================================================
