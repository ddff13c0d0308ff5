----------------------------- MODULE LogProofs -----------------------------
(***************************************************************************)
(* Theorems about the log, for any number of processes and blocks and any  *)
(* log size.  First which process may be where and how much of the log the *)
(* operations may fill, then cache, log blocks, header and home blocks.    *)
(***************************************************************************)
EXTENDS LogInv, FiniteSetTheorems, TLAPS

\* Which prover is tried first, and how long, where a step does not say.
USE ZenonT(60), SMTT(60)

-----------------------------------------------------------------------------
(* Counting operations and log slots. *)

\* There are finitely many operations in progress.
LEMMA ActiveFinite ==
  ASSUME TypeOK
  PROVE  IsFiniteSet(Active) /\ Cardinality(Active) \in Nat
<1>1. Active \in SUBSET Procs
  BY DEF Active
<1>2. QED
  BY <1>1, ConstantAssumption, FS_Subset, FS_CardinalityType

\* Multiplication of natural numbers, as the counting arguments use it.
LEMMA MulFacts ==
  ASSUME NEW k \in Nat, NEW m \in Nat, NEW n \in Nat, m <= n
  PROVE  /\ k * m \in Nat /\ k * m <= k * n
         /\ (k + 1) * m = k * m + m
         /\ k >= 1 => n - m <= k * n - k * m
<1>1. k * m \in Nat /\ k * n \in Nat
  BY SMTT(60)
<1>2. k * (n - m) \in Nat /\ k * n - k * m = k * (n - m)
  BY SMTT(60)
<1>3. (k + 1) * m = k * m + m
  BY SMTT(60)
<1>4. ASSUME k >= 1 PROVE n - m <= k * (n - m)
  <2>1. (k - 1) * (n - m) \in Nat
    BY <1>4, SMTT(60)
  <2>2. (k - 1) * (n - m) = k * (n - m) - (n - m)
    BY <1>4, SMTT(60)
  <2>3. QED
    BY <2>1, <2>2, SMTT(60)
<1>5. QED
  BY <1>1, <1>2, <1>3, <1>4, SMTT(60)

\* An operation in progress has at most OpBlocks tickets.
LEMMA TicketBound ==
  ASSUME TypeOK, ControlInv
  PROVE  /\ outstanding \in Nat
         /\ IsFiniteSet(Tickets) /\ Cardinality(Tickets) \in Nat
         /\ Cardinality(Tickets) <= outstanding * OpBlocks
<1>1. IsFiniteSet(Active) /\ Cardinality(Active) \in Nat
  BY ActiveFinite
<1>2. IsFiniteSet(1..OpBlocks) /\ Cardinality(1..OpBlocks) = OpBlocks
  BY FS_Interval, ConstantAssumption, SMTT(60)
<1>3. /\ IsFiniteSet(Active \X (1..OpBlocks))
      /\ Cardinality(Active \X (1..OpBlocks))
           = Cardinality(Active) * Cardinality(1..OpBlocks)
  BY <1>1, <1>2, FS_Product
<1>4. Tickets \in SUBSET (Active \X (1..OpBlocks))
  BY DEF Tickets
<1>5. QED
  BY <1>1, <1>2, <1>3, <1>4, FS_Subset, FS_CardinalityType, SMTT(60) DEF ControlInv

\* The log never holds more than the reservations left of it: each running
\* operation keeps MAXOPBLOCKS - OpBlocks slots free.
LEMMA LogFits ==
  ASSUME TypeOK, ControlInv, SpaceInv
  PROVE  /\ Len(lh) <= LOGSIZE
         /\ \A p \in Active : Len(lh) + (MAXOPBLOCKS - OpBlocks) <= LOGSIZE
<1>1. /\ outstanding \in Nat
      /\ Cardinality(Tickets) \in Nat
      /\ Cardinality(Tickets) <= outstanding * OpBlocks
  BY TicketBound
<1>2. /\ outstanding * OpBlocks \in Nat
      /\ outstanding * MAXOPBLOCKS \in Nat
      /\ outstanding * OpBlocks <= outstanding * MAXOPBLOCKS
      /\ outstanding >= 1 =>
           MAXOPBLOCKS - OpBlocks
             <= outstanding * MAXOPBLOCKS - outstanding * OpBlocks
  BY <1>1, MulFacts, ConstantAssumption
<1>3. Len(lh) \in Nat /\ LOGSIZE \in Nat /\ OpBlocks \in Nat
        /\ MAXOPBLOCKS \in Nat
  BY ConstantAssumption, SMTT(60) DEF TypeOK
<1>4. Len(lh) + outstanding * MAXOPBLOCKS <= LOGSIZE + Cardinality(Tickets)
  BY DEF SpaceInv
<1>5. Len(lh) <= LOGSIZE
  BY <1>1, <1>2, <1>3, <1>4, SMTT(60)
<1>6. ASSUME NEW p \in Active
      PROVE  Len(lh) + (MAXOPBLOCKS - OpBlocks) <= LOGSIZE
  <2>1. outstanding >= 1
    BY <1>1, <1>6, ActiveFinite, FS_EmptySet, SMTT(60) DEF ControlInv
  <2>2. QED
    BY <1>1, <1>2, <1>3, <1>4, <2>1, SMTT(60)
<1>7. QED
  BY <1>5, <1>6

-----------------------------------------------------------------------------
(* Type correctness. *)

\* The type invariant holds of the image mkfs leaves.
LEMMA InitType == Init => TypeOK
  BY ConstantAssumption, SMTT(60)
  DEF Init, TypeOK, PcStates, OpStates, CommitStates

\* Each step of log.c keeps the type invariant.
LEMMA NextType ==
  TypeOK /\ ControlInv /\ SpaceInv /\ [Next]_vars => TypeOK'
<1> SUFFICES ASSUME TypeOK, ControlInv, SpaceInv, [Next]_vars PROVE TypeOK'
  OBVIOUS
<1> USE ConstantAssumption DEF TypeOK, PcStates, OpStates, CommitStates,
        memvars, diskvars, opvars
<1>1. ASSUME NEW p \in Procs, begin_op(p) PROVE TypeOK'
  <2>1. CASE committing = 1 \/ NoSpace
    BY <1>1, <2>1 DEF begin_op
  <2>2. CASE ~(committing = 1 \/ NoSpace)
    <3>1. wrote' = [wrote EXCEPT ![p] = {}] /\ outstanding' = outstanding + 1
      BY <1>1, <2>2 DEF begin_op
    <3>2. wrote' \in [Procs -> SUBSET Blocks]
      BY <3>1
    <3>3. pc' \in [Procs -> PcStates]
      BY <1>1, <2>2, SMTT(60) DEF begin_op
    <3>4. QED
      BY <1>1, <2>2, <3>1, <3>2, <3>3, SMTT(60) DEF begin_op
  <2>3. QED
    BY <2>1, <2>2
<1>2. ASSUME NEW p \in Procs, NEW b \in Blocks, NEW v \in Values,
             modify(p, b, v)
      PROVE  TypeOK'
  BY <1>2 DEF modify
<1>3. ASSUME NEW p \in Procs, log_write_check(p) PROVE TypeOK'
  BY <1>3 DEF log_write_check
<1>4. ASSUME NEW p \in Procs, log_write(p) PROVE TypeOK'
  <2>1. held[p] \in Blocks
    BY <1>4 DEF log_write, ControlInv
  <2>2. lh' \in Seq(Blocks)
    BY <1>4, <2>1, SMTT(60) DEF log_write
  <2>3. QED
    BY <1>4, <2>1, <2>2 DEF log_write
<1>5. ASSUME NEW p \in Procs, end_op(p) PROVE TypeOK'
  <2>1. pc' \in [Procs -> PcStates]
    BY <1>5 DEF end_op, wakeup
  <2>2. outstanding' \in Int /\ committing' \in {0, 1}
    BY <1>5, SMTT(60) DEF end_op
  <2>3. QED
    BY <1>5, <2>1, <2>2 DEF end_op
<1>6. ASSUME NEW p \in Procs, commit(p) PROVE TypeOK'
  BY <1>6 DEF commit
<1>7. ASSUME NEW p \in Procs, write_log(p) PROVE TypeOK'
  <2>1. CASE tail < Len(lh)
    <3>1. cache[lh[tail + 1]] \in Values
      BY <2>1, SMTT(60)
    <3>2. logd' \in [1..LOGSIZE -> Values]
      BY <1>7, <2>1, <3>1 DEF write_log
    <3>3. QED
      BY <1>7, <2>1, <3>2, SMTT(60) DEF write_log
  <2>2. CASE ~(tail < Len(lh))
    BY <1>7, <2>2 DEF write_log
  <2>3. QED
    BY <2>1, <2>2
<1>8. ASSUME NEW p \in Procs, write_head(p) PROVE TypeOK'
  BY <1>8 DEF write_head
<1>9. ASSUME install_trans, UNCHANGED <<sys, pc>> PROVE TypeOK'
  <2>1. lh[tail + 1] \in Blocks /\ logd[tail + 1] \in Values
    BY <1>9, LogFits, SMTT(60) DEF install_trans
  <2>2. cache' \in [Blocks -> Values] /\ home' \in [Blocks -> Values]
    BY <1>9, <2>1 DEF install_trans
  <2>3. QED
    BY <1>9, <2>2, SMTT(60) DEF install_trans
<1>10. ASSUME NEW p \in Procs, install(p) PROVE TypeOK'
  BY <1>9, <1>10, SMTT(60) DEF install
<1>11. ASSUME NEW p \in Procs, erase(p) PROVE TypeOK'
  BY <1>11, SMTT(60) DEF erase
<1>12. ASSUME NEW p \in Procs, end_commit(p) PROVE TypeOK'
  <2>1. pc' \in [Procs -> PcStates]
    BY <1>12 DEF end_commit, wakeup
  <2>2. QED
    BY <1>12, <2>1 DEF end_commit
<1>13. CASE Recover
  <2>1. CASE read_head
    BY <2>1 DEF read_head
  <2>2. CASE recover_install
    BY <1>9, <2>2 DEF recover_install
  <2>3. CASE recover_clear
    BY <2>3, SMTT(60) DEF recover_clear
  <2>4. QED
    BY <1>13, <2>1, <2>2, <2>3 DEF Recover
<1>14. CASE Crash
  <2>1. home' \in [Blocks -> Values]
    BY <1>14, SMTT(60) DEF Crash
  <2>2. logd' \in [1..LOGSIZE -> Values]
    BY <1>14 DEF Crash
  <2>3. /\ pc' \in [Procs -> PcStates]
        /\ wrote' \in [Procs -> SUBSET Blocks]
        /\ held' \in [Procs -> Blocks \cup {NoBlock}]
    BY <1>14 DEF Crash
  <2>4. QED
    BY <1>14, <2>1, <2>2, <2>3, SMTT(60) DEF Crash
<1>15. CASE UNCHANGED vars
  BY <1>15 DEF vars
<1>16. QED
  BY <1>1, <1>2, <1>3, <1>4, <1>5, <1>6, <1>7, <1>8, <1>10, <1>11, <1>12,
     <1>13, <1>14, <1>15
  DEF Next, CommitStep, LogWriteStep

-----------------------------------------------------------------------------
(* Who may be where. *)

\* A fresh image has no operation and no commit in progress.
LEMMA InitControl == Init => ControlInv
<1> SUFFICES ASSUME Init PROVE ControlInv
  OBVIOUS
<1>1. Active = {} /\ Committers = {}
  BY DEF Init, Active, Committers, OpStates, CommitStates
<1>2. Cardinality({}) = 0
  BY FS_EmptySet
<1>3. QED
  BY <1>1, <1>2, ConstantAssumption, SMTT(60) DEF Init, ControlInv

\* A step that moves one process without it entering or leaving an operation
\* or commit() leaves both sets alone.
LEMMA SameSets ==
  ASSUME TypeOK, NEW p \in Procs, NEW s \in PcStates,
         pc' = [pc EXCEPT ![p] = s],
         pc[p] \in OpStates <=> s \in OpStates,
         pc[p] \in CommitStates <=> s \in CommitStates
  PROVE  Active' = Active /\ Committers' = Committers
  BY DEF TypeOK, Active, Committers

\* Each step of log.c keeps ControlInv.
LEMMA NextControl ==
  TypeOK /\ ControlInv /\ SpaceInv /\ [Next]_vars => ControlInv'
<1> SUFFICES ASSUME TypeOK, ControlInv, SpaceInv, [Next]_vars
             PROVE  ControlInv'
  OBVIOUS
<1>0. IsFiniteSet(Active) /\ Cardinality(Active) \in Nat
  BY ActiveFinite
<1> USE ConstantAssumption DEF PcStates, OpStates, CommitStates,
        memvars, diskvars, opvars
<1>1. ASSUME NEW p \in Procs, begin_op(p) PROVE ControlInv'
  <2>1. CASE committing = 1 \/ NoSpace
    <3>1. pc' = [pc EXCEPT ![p] = "asleep"]
      BY <1>1, <2>1 DEF begin_op
    <3>2. Active' = Active /\ Committers' = Committers
      BY <1>1, <3>1, SameSets DEF begin_op
    <3>3. UNCHANGED <<outstanding, committing, sys, held>> /\ sys = "up"
            /\ pc[p] \in {"idle", "begin"}
      BY <1>1, <2>1 DEF begin_op
    <3>4. QED
      BY <3>1, <3>2, <3>3, SMTT(60) DEF ControlInv, TypeOK
  <2>2. CASE ~(committing = 1 \/ NoSpace)
    <3>1. /\ pc' = [pc EXCEPT ![p] = "op"]
          /\ outstanding' = outstanding + 1
          /\ UNCHANGED <<committing, sys, held>> /\ sys = "up"
          /\ pc[p] \in {"idle", "begin"} /\ committing # 1
      BY <1>1, <2>2 DEF begin_op
    <3>2. /\ Active' = Active \cup {p} /\ p \notin Active
          /\ Committers' = Committers
      BY <3>1 DEF TypeOK, Active, Committers
    <3>3. Cardinality(Active') = Cardinality(Active) + 1
      BY <1>0, <3>2, FS_AddElement
    <3>4. QED
      BY <3>1, <3>2, <3>3 DEF ControlInv, TypeOK
  <2>3. QED
    BY <2>1, <2>2
<1>2. ASSUME NEW p \in Procs, NEW b \in Blocks, NEW v \in Values,
             modify(p, b, v)
      PROVE  ControlInv'
  <2>1. Active' = Active /\ Committers' = Committers
    BY <1>2, SameSets DEF modify
  <2>2. QED
    BY <1>2, <2>1, SMTT(60) DEF modify, ControlInv, TypeOK
<1>3. ASSUME NEW p \in Procs, log_write_check(p) PROVE ControlInv'
  <2>1. PICK s \in {"panic", "checked"} : pc' = [pc EXCEPT ![p] = s]
    BY <1>3 DEF log_write_check
  <2>2. Active' = Active /\ Committers' = Committers
    BY <1>3, <2>1, SameSets DEF log_write_check
  <2>3. QED
    BY <1>3, <2>1, <2>2, SMTT(60) DEF log_write_check, ControlInv, TypeOK
<1>4. ASSUME NEW p \in Procs, log_write(p) PROVE ControlInv'
  <2>1. Active' = Active /\ Committers' = Committers
    BY <1>4, SameSets DEF log_write
  <2>2. QED
    BY <1>4, <2>1, SMTT(60) DEF log_write, ControlInv, TypeOK
<1>5. ASSUME NEW p \in Procs, end_op(p) PROVE ControlInv'
  <2>1. p \in Active /\ committing = 0 /\ sys = "up" /\ Committers = {}
    BY <1>5 DEF end_op, Active, ControlInv, TypeOK
  <2>2. CASE outstanding = 1
    <3>1. /\ pc' = [pc EXCEPT ![p] = "commit"] /\ committing' = 1
          /\ outstanding' = 0 /\ UNCHANGED <<sys, held>> /\ pc[p] = "op"
      BY <1>5, <2>1, <2>2, SMTT(60) DEF end_op
    <3>2. Active = {p}
      <4>1. Cardinality(Active) = 1
        BY <2>2 DEF ControlInv
      <4>2. PICK x : Active = {x}
        BY <1>0, <4>1, FS_Singleton
      <4>3. QED
        BY <2>1, <4>2
    <3>3. Active' = {} /\ Committers' = {p}
      BY <2>1, <3>1, <3>2 DEF TypeOK, Active, Committers
    <3>4. Cardinality(Active') = 0
      BY <3>3, FS_EmptySet
    <3>5. QED
      BY <2>1, <3>1, <3>3, <3>4 DEF ControlInv, TypeOK
  <2>3. CASE outstanding # 1
    <3>1. /\ pc' = wakeup([pc EXCEPT ![p] = "idle"])
          /\ outstanding' = outstanding - 1
          /\ UNCHANGED <<committing, sys, held>> /\ pc[p] = "op"
      BY <1>5, <2>1, <2>3, SMTT(60) DEF end_op
    <3>2. Active' = Active \ {p} /\ Committers' = Committers
      BY <3>1 DEF TypeOK, Active, Committers, wakeup
    <3>3. Cardinality(Active') = Cardinality(Active) - 1
      BY <1>0, <2>1, <3>2, FS_RemoveElement
    <3>4. \A q \in Procs : pc'[q] \in {"write", "checked", "panic"}
                            <=> pc[q] \in {"write", "checked", "panic"}
      BY <3>1 DEF TypeOK, wakeup
    <3>5. \A q \in Procs : pc'[q] \in {"write", "checked"}
                            <=> pc[q] \in {"write", "checked"}
      BY <3>1 DEF TypeOK, wakeup
    <3>6. QED
      BY <2>1, <3>1, <3>2, <3>3, <3>4, <3>5 DEF ControlInv, TypeOK
  <2>4. QED
    BY <2>2, <2>3
<1>6. ASSUME NEW p \in Procs, CommitStep(p), ~end_commit(p) PROVE ControlInv'
  <2>1. PICK s \in CommitStates : pc' = [pc EXCEPT ![p] = s]
    BY <1>6, SMTT(60) DEF CommitStep, commit, write_log, write_head, install, erase,
                TypeOK
  <2>2. /\ pc[p] \in CommitStates
        /\ UNCHANGED <<outstanding, committing, sys, held>>
    BY <1>6 DEF CommitStep, commit, write_log, write_head, install, erase,
                install_trans
  <2>3. Active' = Active /\ Committers' = Committers
    BY <2>1, <2>2, SameSets
  <2>4. sys = "up"
    BY <2>2 DEF ControlInv, TypeOK
  <2>5. QED
    BY <2>1, <2>2, <2>3, <2>4, SMTT(60) DEF ControlInv, TypeOK
<1>7. ASSUME NEW p \in Procs, end_commit(p) PROVE ControlInv'
  <2>1. /\ pc' = wakeup([pc EXCEPT ![p] = "idle"]) /\ pc[p] = "finish"
        /\ committing' = 0 /\ UNCHANGED <<outstanding, sys, held>>
    BY <1>7, SMTT(60) DEF end_commit
  <2>2. Committers = {p} /\ Active = {} /\ sys = "up"
    BY <2>1 DEF ControlInv, Committers
  <2>3. Active' = Active /\ Committers' = {}
    BY <2>1, <2>2, SMTT(60) DEF TypeOK, Active, Committers, wakeup
  <2>4. \A q \in Procs : pc'[q] \in {"write", "checked", "panic"}
                          <=> pc[q] \in {"write", "checked", "panic"}
    BY <2>1 DEF TypeOK, wakeup
  <2>5. \A q \in Procs : pc'[q] \in {"write", "checked"}
                          <=> pc[q] \in {"write", "checked"}
    BY <2>1 DEF TypeOK, wakeup
  <2>6. outstanding' = Cardinality(Active')
    BY <2>1, <2>3 DEF ControlInv
  <2>7. \A q \in Procs :
          /\ pc'[q] \in {"write", "checked"} => held'[q] \in Blocks
          /\ held'[q] # NoBlock => pc'[q] \in {"write", "checked", "panic"}
    BY <2>1, <2>4, <2>5 DEF ControlInv
  <2>8. committing' # 1 /\ sys' = "up"
    BY <2>1, <2>2, SMTT(60)
  <2>9. QED
    BY <2>3, <2>6, <2>7, <2>8 DEF ControlInv
<1>8. CASE Recover
  <2>1. UNCHANGED <<outstanding, committing, held, pc>> /\ sys # "up"
    BY <1>8 DEF Recover, read_head, recover_install, recover_clear,
                install_trans
  <2>2. Active' = Active /\ Committers' = Committers
    BY <2>1 DEF Active, Committers
  <2>3. QED
    BY <2>1, <2>2 DEF ControlInv
<1>9. CASE Crash
  <2>1. /\ pc' = [q \in Procs |-> "idle"] /\ outstanding' = 0
        /\ committing' = 0 /\ held' = [q \in Procs |-> NoBlock]
    BY <1>9 DEF Crash
  <2>2. Active' = {} /\ Committers' = {}
    BY <2>1 DEF Active, Committers
  <2>3. QED
    BY <2>1, <2>2, FS_EmptySet, SMTT(60) DEF ControlInv
<1>10. CASE UNCHANGED vars
  BY <1>10, SMTT(60) DEF vars, ControlInv, Active, Committers
<1>11. QED
  BY <1>1, <1>2, <1>3, <1>4, <1>5, <1>6, <1>7, <1>8, <1>9, <1>10
  DEF Next, LogWriteStep, CommitStep
-----------------------------------------------------------------------------
(* Log space. *)

\* A fresh image has an empty log.
LEMMA InitSpace == Init => SpaceInv
<1> SUFFICES ASSUME Init PROVE SpaceInv
  OBVIOUS
<1>1. Active = {} /\ Tickets = {}
  BY DEF Init, Active, OpStates, Tickets
<1>2. Cardinality(Tickets) = 0
  BY <1>1, FS_EmptySet
<1>3. 0 * MAXOPBLOCKS = 0
  BY ConstantAssumption, SMTT(60)
<1>4. QED
  BY <1>1, <1>2, <1>3, ConstantAssumption, SMTT(60) DEF Init, SpaceInv

\* What an append adds to the set of logged blocks.
LEMMA LoggedAppend ==
  ASSUME NEW s \in Seq(Blocks), NEW b \in Blocks
  PROVE  /\ Append(s, b) \in Seq(Blocks)
         /\ Len(Append(s, b)) = Len(s) + 1
         /\ Logged(Append(s, b)) = Logged(s) \cup {b}
<1>1. /\ Len(Append(s, b)) = Len(s) + 1 /\ Len(s) \in Nat
      /\ \A i \in 1..Len(s) : Append(s, b)[i] = s[i]
      /\ Append(s, b)[Len(s) + 1] = b
  BY SMTT(60)
<1>2. 1..(Len(s) + 1) = (1..Len(s)) \cup {Len(s) + 1}
  BY <1>1, SMTT(60)
<1>3. Logged(Append(s, b)) = Logged(s) \cup {b}
  BY <1>1, <1>2, SMTT(60) DEF Logged
<1>4. QED
  BY <1>1, <1>3, SMTT(60)

\* A step that changes neither the operations in progress nor what they and
\* the log hold keeps SpaceInv.
LEMMA SameSpace ==
  ASSUME SpaceInv, Active' = Active, UNCHANGED <<lh, outstanding, wrote>>,
         Len(head') <= LOGSIZE,
         \A p \in Procs : pc'[p] \in {"write", "checked"} =>
           held'[p] \in wrote'[p] \/ Cardinality(wrote'[p]) < OpBlocks
  PROVE  SpaceInv'
<1>1. Tickets' = Tickets
  BY DEF Tickets
<1>2. QED
  BY <1>1 DEF SpaceInv

\* With no operation in progress SpaceInv only bounds the log.
LEMMA QuietSpace ==
  ASSUME Active' = {}, outstanding' = 0, Len(lh') <= LOGSIZE,
         Len(lh') \in Nat, Len(head') <= LOGSIZE
  PROVE  SpaceInv'
<1>1. Tickets' = {}
  BY DEF Tickets
<1>2. Cardinality(Tickets') = 0
  BY <1>1, FS_EmptySet
<1>3. \A p \in Procs : pc'[p] \notin {"write", "checked"}
  BY DEF Active, OpStates
<1>4. 0 * MAXOPBLOCKS = 0
  BY ConstantAssumption, SMTT(60)
<1>5. QED
  BY <1>2, <1>3, <1>4, ConstantAssumption, SMTT(60) DEF SpaceInv

\* log_write() spends at most one slot of its operation's reservation.
LEMMA LogWriteSpace ==
  ASSUME TypeOK, ControlInv, SpaceInv, NEW p \in Procs, log_write(p)
  PROVE  SpaceInv'
<1> DEFINE c == Cardinality(wrote[p])
<1>1. p \in Active /\ held[p] \in Blocks /\ pc[p] = "checked"
  BY DEF log_write, ControlInv, Active, OpStates
<1>2. Active' = Active /\ outstanding' = outstanding /\ head' = head
  BY SameSets DEF log_write, TypeOK, PcStates, OpStates, CommitStates, diskvars
<1>3. IsFiniteSet(wrote[p]) /\ c \in Nat /\ c <= OpBlocks
  <2>1. wrote[p] \in SUBSET Blocks
    BY DEF TypeOK
  <2>2. QED
    BY <1>1, <2>1, FS_Subset, FS_CardinalityType, ConstantAssumption
    DEF SpaceInv
<1>4. /\ wrote'[p] = wrote[p] \cup {held[p]}
      /\ \A q \in Procs : q # p => wrote'[q] = wrote[q]
  BY DEF log_write, TypeOK
<1>5. Cardinality(wrote'[p]) = IF held[p] \in wrote[p] THEN c ELSE c + 1
  BY <1>3, <1>4, FS_AddElement
<1>6. Cardinality(wrote'[p]) <= OpBlocks
  BY <1>1, <1>3, <1>5, ConstantAssumption, SMTT(60) DEF SpaceInv
<1>7. Logged(lh) \subseteq Logged(lh') /\ held[p] \in Logged(lh')
  BY <1>1, LoggedAppend, SMTT(60) DEF log_write, TypeOK
<1>8. \A q \in Active' : /\ Cardinality(wrote'[q]) <= OpBlocks
                          /\ wrote'[q] \subseteq Logged(lh')
  BY <1>1, <1>2, <1>4, <1>6, <1>7 DEF SpaceInv, Active
<1>9. \A q \in Procs : pc'[q] \in {"write", "checked"} =>
        held'[q] \in wrote'[q] \/ Cardinality(wrote'[q]) < OpBlocks
  BY <1>4 DEF log_write, TypeOK, SpaceInv
<1>10. /\ IsFiniteSet(Tickets) /\ Cardinality(Tickets) \in Nat
       /\ outstanding \in Nat
  BY TicketBound
<1>11. CASE held[p] \in wrote[p]
  <2>1. Tickets' = Tickets
    BY <1>2, <1>4, <1>5, <1>11 DEF Tickets, Active
  <2>2. lh' = lh
    BY <1>1, <1>11 DEF log_write, SpaceInv
  <2>3. QED
    BY <1>2, <1>8, <1>9, <2>1, <2>2, SMTT(60) DEF SpaceInv
<1>12. CASE held[p] \notin wrote[p]
  <2>1. c + 1 \in 1..OpBlocks /\ Cardinality(wrote'[p]) = c + 1
    BY <1>3, <1>5, <1>6, <1>12, ConstantAssumption, SMTT(60)
  <2>2. Tickets' = Tickets \cup {<<p, c + 1>>}
    <3>1. ASSUME NEW t \in Active \X (1..OpBlocks)
          PROVE  t \in Tickets' <=> t \in Tickets \cup {<<p, c + 1>>}
      <4>1. PICK q \in Active, k \in 1..OpBlocks : t = <<q, k>>
        BY SMTT(60)
      <4>2. /\ t \in Tickets' <=> k <= Cardinality(wrote'[q])
            /\ t \in Tickets <=> k <= Cardinality(wrote[q])
        BY <1>2, <4>1 DEF Tickets
      <4>3. CASE q = p
        <5>1. t \in Tickets' <=> k <= c + 1
          BY <2>1, <4>2, <4>3
        <5>2. k <= c + 1 <=> k <= c \/ k = c + 1
          BY <1>3, ConstantAssumption, SMTT(60)
        <5>3. QED
          BY <4>1, <4>2, <4>3, <5>1, <5>2
      <4>4. CASE q # p
        BY <1>4, <4>1, <4>2, <4>4 DEF Active
      <4>5. QED
        BY <4>3, <4>4
    <3>2. <<p, c + 1>> \in Active \X (1..OpBlocks)
      BY <1>1, <2>1
    <3>3. QED
      BY <1>2, <3>1, <3>2 DEF Tickets
  <2>3. <<p, c + 1>> \notin Tickets
    BY <1>3, SMTT(60) DEF Tickets
  <2>4. Cardinality(Tickets') = Cardinality(Tickets) + 1
    BY <1>10, <2>2, <2>3, FS_AddElement
  <2>5. Len(lh') <= Len(lh) + 1 /\ Len(lh) \in Nat /\ Len(lh') \in Nat
    BY <1>1, LoggedAppend, SMTT(60) DEF log_write, TypeOK
  <2>6. outstanding * MAXOPBLOCKS \in Nat
    BY <1>10, ConstantAssumption, SMTT(60)
  <2>7. Len(lh') + outstanding' * MAXOPBLOCKS
          <= LOGSIZE + Cardinality(Tickets')
    BY <1>2, <1>10, <2>4, <2>5, <2>6, ConstantAssumption, SMTT(60) DEF SpaceInv
  <2>8. QED
    BY <1>2, <1>8, <1>9, <2>7 DEF SpaceInv
<1>13. QED
  BY <1>11, <1>12
\* begin_op() admits an operation only when its reservation fits.
LEMMA BeginOpSpace ==
  ASSUME TypeOK, ControlInv, SpaceInv, NEW p \in Procs, begin_op(p)
  PROVE  SpaceInv'
<1>1. CASE committing = 1 \/ NoSpace
  <2>1. /\ pc' = [pc EXCEPT ![p] = "asleep"] /\ pc[p] \in {"idle", "begin"}
        /\ UNCHANGED <<outstanding, wrote, lh, held, head>>
    BY <1>1 DEF begin_op, diskvars
  <2>2. Active' = Active
    BY <2>1, SameSets DEF PcStates, OpStates, CommitStates
  <2>3. QED
    BY <2>1, <2>2, SameSpace DEF SpaceInv, TypeOK
<1>2. CASE ~(committing = 1 \/ NoSpace)
  <2>1. /\ pc' = [pc EXCEPT ![p] = "op"] /\ pc[p] \in {"idle", "begin"}
        /\ outstanding' = outstanding + 1
        /\ wrote' = [wrote EXCEPT ![p] = {}]
        /\ UNCHANGED <<lh, held, head>>
    BY <1>2 DEF begin_op, diskvars
  <2>2. Active' = Active \cup {p} /\ p \notin Active
    BY <2>1 DEF TypeOK, Active, OpStates
  <2>3. /\ wrote'[p] = {} /\ Cardinality(wrote'[p]) = 0
        /\ \A q \in Active : wrote'[q] = wrote[q]
    BY <2>1, <2>2, FS_EmptySet DEF TypeOK, Active
  <2>4. Tickets' = Tickets
    BY <2>2, <2>3, SMTT(60) DEF Tickets
  <2>5. outstanding \in Nat /\ Cardinality(Tickets) \in Nat
    BY TicketBound
  <2>6. Len(lh) + (outstanding + 1) * MAXOPBLOCKS <= LOGSIZE
    <3>1. (outstanding + 1) * MAXOPBLOCKS \in Nat
      BY <2>5, ConstantAssumption, SMTT(60)
    <3>2. QED
      BY <1>2, <3>1, ConstantAssumption, SMTT(60) DEF NoSpace, TypeOK
  <2>7. Len(lh') + outstanding' * MAXOPBLOCKS
          <= LOGSIZE + Cardinality(Tickets')
    <3>1. (outstanding + 1) * MAXOPBLOCKS \in Nat
      BY <2>5, ConstantAssumption, SMTT(60)
    <3>2. QED
      BY <2>1, <2>4, <2>5, <2>6, <3>1, ConstantAssumption, SMTT(60) DEF TypeOK
  <2>8. \A q \in Active' : /\ Cardinality(wrote'[q]) <= OpBlocks
                            /\ wrote'[q] \subseteq Logged(lh')
    BY <2>1, <2>2, <2>3, ConstantAssumption, SMTT(60) DEF SpaceInv
  <2>9. \A q \in Procs : pc'[q] \in {"write", "checked"} =>
          held'[q] \in wrote'[q] \/ Cardinality(wrote'[q]) < OpBlocks
    BY <2>1, SMTT(60) DEF TypeOK, SpaceInv
  <2>10. QED
    BY <2>1, <2>7, <2>8, <2>9 DEF SpaceInv
<1>3. QED
  BY <1>1, <1>2

\* end_op() gives back a whole reservation, which pays for the tickets of
\* the operation.
LEMMA EndOpSpace ==
  ASSUME TypeOK, ControlInv, SpaceInv, NEW p \in Procs, end_op(p)
  PROVE  SpaceInv'
<1>1. p \in Active /\ committing = 0 /\ pc[p] = "op"
  BY DEF end_op, Active, OpStates, ControlInv, TypeOK
<1>2. /\ outstanding' = outstanding - 1
      /\ UNCHANGED <<lh, head, held, wrote>>
  BY DEF end_op, diskvars, opvars
<1>3. /\ Active' = Active \ {p}
      /\ \A q \in Procs : pc'[q] \in {"write", "checked"}
                           <=> pc[q] \in {"write", "checked"}
  BY <1>1, SMTT(60) DEF end_op, wakeup, TypeOK, Active, OpStates
<1> DEFINE R == {p} \X (1..OpBlocks)
<1>4. IsFiniteSet(R) /\ Cardinality(R) = OpBlocks
  <2>1. IsFiniteSet({p}) /\ Cardinality({p}) = 1
    BY FS_Singleton
  <2>2. IsFiniteSet(1..OpBlocks) /\ Cardinality(1..OpBlocks) = OpBlocks
    BY FS_Interval, ConstantAssumption, SMTT(60)
  <2>3. IsFiniteSet(R) /\ Cardinality(R) = Cardinality({p}) * Cardinality(1..OpBlocks)
    BY <2>1, <2>2, FS_Product
  <2>4. 1 * OpBlocks = OpBlocks
    BY ConstantAssumption, SMTT(60)
  <2>5. QED
    BY <2>1, <2>2, <2>3, <2>4
<1>5. Tickets' = Tickets \ R
  BY <1>2, <1>3 DEF Tickets
<1>6. /\ IsFiniteSet(Tickets) /\ Cardinality(Tickets) \in Nat
      /\ outstanding \in Nat
  BY TicketBound
<1>7. /\ Cardinality(R \cap Tickets) <= OpBlocks
      /\ Cardinality(R \cap Tickets) \in Nat
  BY <1>4, FS_Intersection, FS_CardinalityType
<1>8. /\ Cardinality(Tickets') \in Nat
      /\ Cardinality(Tickets') = Cardinality(Tickets) - Cardinality(R \cap Tickets)
  <2>1. /\ IsFiniteSet(Tickets \ R)
        /\ Cardinality(Tickets \ R)
             = Cardinality(Tickets) - Cardinality(Tickets \cap R)
    BY <1>6, FS_Difference
  <2>2. Tickets \cap R = R \cap Tickets
    OBVIOUS
  <2>3. QED
    BY <1>5, <2>1, <2>2, FS_CardinalityType
<1>9. Cardinality(Tickets') >= Cardinality(Tickets) - OpBlocks
  <2> HIDE DEF R
  <2> QED
    BY <1>6, <1>7, <1>8, ConstantAssumption, SMTT(60)
<1>10. outstanding >= 1
  BY <1>1, <1>6, ActiveFinite, FS_EmptySet, SMTT(60) DEF ControlInv
<1>11. outstanding * MAXOPBLOCKS = outstanding' * MAXOPBLOCKS + MAXOPBLOCKS
  <2>1. outstanding' \in Nat /\ outstanding = outstanding' + 1
    BY <1>2, <1>6, <1>10, SMTT(60)
  <2>2. QED
    BY <2>1, MulFacts, ConstantAssumption
<1>12. outstanding' * MAXOPBLOCKS \in Int /\ Len(lh) \in Nat
  BY <1>2, <1>6, ConstantAssumption, SMTT(60) DEF TypeOK
<1>13. Len(lh') + outstanding' * MAXOPBLOCKS
         <= LOGSIZE + Cardinality(Tickets')
  BY <1>2, <1>6, <1>8, <1>9, <1>11, <1>12, ConstantAssumption, SMTT(60) DEF SpaceInv
<1>14. QED
  BY <1>2, <1>3, <1>13 DEF SpaceInv

\* Each step of log.c keeps SpaceInv.
LEMMA NextSpace ==
  TypeOK /\ ControlInv /\ SpaceInv /\ DataInv /\ [Next]_vars => SpaceInv'
<1> SUFFICES ASSUME TypeOK, ControlInv, SpaceInv, DataInv, [Next]_vars
             PROVE  SpaceInv'
  OBVIOUS
<1> USE DEF PcStates, OpStates, CommitStates, memvars, diskvars, opvars
<1>1. Len(lh) <= LOGSIZE /\ Len(lh) \in Nat
  BY LogFits, SMTT(60) DEF TypeOK
<1>2. ASSUME NEW p \in Procs, NEW b \in Blocks, NEW v \in Values,
             modify(p, b, v)
      PROVE  SpaceInv'
  <2>1. Active' = Active /\ UNCHANGED <<lh, outstanding, wrote, head>>
    BY <1>2, SameSets DEF modify
  <2>2. \A q \in Procs : pc'[q] \in {"write", "checked"} =>
          held'[q] \in wrote'[q] \/ Cardinality(wrote'[q]) < OpBlocks
    BY <1>2, SMTT(60) DEF modify, TypeOK, SpaceInv
  <2>3. QED
    BY <2>1, <2>2, SameSpace DEF SpaceInv
<1>3. ASSUME NEW p \in Procs, log_write_check(p) PROVE SpaceInv'
  <2>1. PICK s \in {"panic", "checked"} : pc' = [pc EXCEPT ![p] = s]
    BY <1>3 DEF log_write_check
  <2>2. /\ Active' = Active
        /\ UNCHANGED <<lh, outstanding, wrote, head, held>>
    BY <1>3, <2>1, SameSets DEF log_write_check
  <2>3. \A q \in Procs : pc'[q] \in {"write", "checked"} =>
          held'[q] \in wrote'[q] \/ Cardinality(wrote'[q]) < OpBlocks
    BY <1>3, <2>1, <2>2 DEF log_write_check, TypeOK, SpaceInv
  <2>4. QED
    BY <2>2, <2>3, SameSpace DEF SpaceInv
<1>4. ASSUME NEW p \in Procs, CommitStep(p) PROVE SpaceInv'
  <2>1. pc[p] \in CommitStates /\ UNCHANGED outstanding
    BY <1>4, SMTT(60) DEF CommitStep, commit, write_log, write_head, install, erase,
                end_commit, install_trans
  <2>2. Active = {} /\ outstanding = 0
    BY <2>1, FS_EmptySet DEF ControlInv, Committers
  <2>3. Active' = {}
    <3>1. CASE end_commit(p)
      BY <2>2, <3>1 DEF end_commit, wakeup, Active, TypeOK
    <3>2. CASE ~end_commit(p)
      <4>1. PICK s \in CommitStates : pc' = [pc EXCEPT ![p] = s]
        BY <1>4, <3>2, SMTT(60) DEF CommitStep, commit, write_log, write_head, install,
                          erase, TypeOK
      <4>2. QED
        BY <2>1, <2>2, <4>1, SameSets
    <3>3. QED
      BY <3>1, <3>2
  <2>4. lh' \in {lh, <<>>} /\ head' \in {head, lh, <<>>}
    BY <1>4 DEF CommitStep, commit, write_log, write_head, install, erase,
                end_commit, install_trans
  <2>5. Len(<<>>) = 0 /\ Len(head) <= LOGSIZE
    BY DEF SpaceInv
  <2>6. QED
    BY <1>1, <2>1, <2>2, <2>3, <2>4, <2>5, QuietSpace, ConstantAssumption, SMTT(60)
<1>5. CASE Recover
  <2>1. /\ UNCHANGED <<outstanding, pc>> /\ sys # "up"
        /\ lh' \in {lh, head, <<>>} /\ head' \in {head, <<>>}
    BY <1>5, SMTT(60) DEF Recover, read_head, recover_install, recover_clear,
                install_trans
  <2>2. Active = {} /\ Active' = {} /\ outstanding' = 0
    <3>1. Active = {} /\ Active' = {}
      BY <2>1 DEF ControlInv, Active
    <3>2. QED
      BY <2>1, <3>1, FS_EmptySet DEF ControlInv
  <2>3. Len(<<>>) = 0 /\ Len(head) <= LOGSIZE /\ Len(head) \in Nat
    BY SMTT(60) DEF SpaceInv, TypeOK
  <2>4. QED
    BY <1>1, <2>1, <2>2, <2>3, QuietSpace, ConstantAssumption, SMTT(60)
<1>6. CASE Crash
  <2>1. /\ pc' = [q \in Procs |-> "idle"] /\ outstanding' = 0 /\ lh' = <<>>
        /\ head' = head
    BY <1>6 DEF Crash
  <2>2. Active' = {}
    BY <2>1 DEF Active
  <2>3. Len(<<>>) = 0 /\ Len(head) <= LOGSIZE
    BY SMTT(60) DEF SpaceInv
  <2>4. QED
    BY <2>1, <2>2, <2>3, QuietSpace, ConstantAssumption, SMTT(60)
<1>7. CASE UNCHANGED vars
  <2>1. Active' = Active /\ UNCHANGED <<lh, outstanding, wrote, head, held, pc>>
    BY <1>7 DEF vars, Active
  <2>2. QED
    BY <2>1, SameSpace DEF SpaceInv
<1>8. QED
  BY <1>2, <1>3, <1>4, <1>5, <1>6, <1>7, BeginOpSpace, LogWriteSpace,
     EndOpSpace
  DEF Next, LogWriteStep

-----------------------------------------------------------------------------
(* Cache, log blocks, header and home blocks. *)

\* A fresh image is clean.
LEMMA InitData == Init => DataInv
  BY SMTT(60) DEF Init, DataInv, Distinct, HeaderInv, CleanInv, RecoveryInv, CommitInv,
         Installed, LogCopied

\* An operation in progress excludes a commit and recovery.
LEMMA ActiveFacts ==
  ASSUME TypeOK, ControlInv, NEW p \in Procs, pc[p] \in OpStates
  PROVE  /\ p \in Active /\ committing = 0 /\ sys = "up" /\ outstanding >= 1
         /\ \A q \in Procs : pc[q] \notin CommitStates
         /\ pc[p] = "op" => held[p] = NoBlock
<1>1. p \in Active
  BY DEF Active
<1>2. committing = 0 /\ Committers = {}
  BY <1>1 DEF ControlInv, TypeOK
<1>3. sys = "up"
  BY DEF ControlInv, OpStates
<1>4. outstanding >= 1
  BY <1>1, ActiveFinite, FS_EmptySet, SMTT(60) DEF ControlInv
<1>5. QED
  BY <1>1, <1>2, <1>3, <1>4 DEF ControlInv, Committers, TypeOK

\* The process in commit() is alone: nobody else is in commit() or in an
\* operation, and nobody holds a buffer.
LEMMA CommitFacts ==
  ASSUME TypeOK, ControlInv, NEW p \in Procs, pc[p] \in CommitStates
  PROVE  /\ sys = "up" /\ committing = 1 /\ outstanding = 0
         /\ \A q \in Procs : q # p => pc[q] \notin CommitStates
         /\ \A q \in Procs : held[q] = NoBlock /\ pc[q] \notin OpStates
<1>1. p \in Committers
  BY DEF Committers
<1>2. committing = 1 /\ Active = {}
  BY <1>1 DEF ControlInv
<1>3. sys = "up"
  BY DEF ControlInv, CommitStates
<1>4. outstanding = 0
  BY <1>2, FS_EmptySet DEF ControlInv
<1>5. \A q \in Procs : pc[q] \notin OpStates
  BY <1>2 DEF Active
<1>6. \A q \in Procs : held[q] = NoBlock
  BY <1>5 DEF ControlInv, OpStates
<1>7. QED
  BY <1>1, <1>2, <1>3, <1>4, <1>5, <1>6 DEF ControlInv, Committers

\* A step that leaves the log, the disk and the cache alone and moves no
\* process into or within commit() keeps DataInv.
LEMMA SameData ==
  ASSUME TypeOK, DataInv, UNCHANGED <<lh, tail, cache, home, logd, head, sys>>,
         held' = held, committing' = committing,
         outstanding' = outstanding \/ outstanding' > 0,
         \A q \in Procs : pc'[q] = pc[q] \/ pc'[q] \notin CommitStates
  PROVE  DataInv'
<1>1. HeaderInv' /\ CleanInv' /\ RecoveryInv'
  BY SMTT(60) DEF DataInv, HeaderInv, CleanInv, RecoveryInv, Installed
<1>2. ASSUME NEW q \in Procs PROVE CommitInv(q)'
  <2>1. CASE pc'[q] = pc[q]
    BY <2>1 DEF DataInv, CommitInv, Installed, LogCopied
  <2>2. CASE pc'[q] \notin CommitStates
    BY <2>2 DEF CommitInv, CommitStates
  <2>3. QED
    BY <2>1, <2>2
<1>3. QED
  BY <1>1, <1>2 DEF DataInv, Distinct

\* Operations keep DataInv.
LEMMA OpData ==
  ASSUME TypeOK, ControlInv, DataInv, NEW p \in Procs,
         \/ begin_op(p) \/ LogWriteStep(p) \/ end_op(p)
         \/ \E b \in Blocks, v \in Values : modify(p, b, v)
  PROVE  DataInv'
<1> USE DEF memvars, diskvars, opvars
<1>1. CASE begin_op(p)
  <2>1. outstanding' = outstanding \/ outstanding' > 0
    BY <1>1, ActiveFinite, SMTT(60) DEF begin_op, ControlInv
  <2>2. \A q \in Procs : pc'[q] = pc[q] \/ pc'[q] \notin CommitStates
    BY <1>1 DEF begin_op, TypeOK, CommitStates
  <2>3. UNCHANGED <<lh, tail, cache, home, logd, head, sys, held, committing>>
    BY <1>1 DEF begin_op
  <2>4. QED
    BY <2>1, <2>2, <2>3, SameData
<1>2. ASSUME NEW b \in Blocks, NEW v \in Values, modify(p, b, v)
      PROVE  DataInv'
  <2>1. /\ pc[p] = "op" /\ pc' = [pc EXCEPT ![p] = "write"]
        /\ cache' = [cache EXCEPT ![b] = v] /\ held' = [held EXCEPT ![p] = b]
        /\ UNCHANGED <<lh, outstanding, committing, tail, home, logd, head, sys>>
    BY <1>2 DEF modify
  <2>2. /\ committing = 0 /\ sys = "up" /\ held[p] = NoBlock
        /\ \A q \in Procs : pc[q] \notin CommitStates
    BY <2>1, ActiveFacts DEF OpStates
  <2>3. \A q \in Procs : pc'[q] \notin CommitStates
    BY <2>1, <2>2 DEF TypeOK, CommitStates
  <2>4. HeaderInv' /\ RecoveryInv'
    BY <2>1, <2>2 DEF DataInv, HeaderInv, RecoveryInv
  <2>5. CleanInv'
    <3>1. SUFFICES ASSUME NEW a \in Blocks, a \notin Logged(lh),
                          \A q \in Procs : held'[q] # a
                   PROVE  cache'[a] = home[a]
      BY <2>1 DEF CleanInv
    <3>2. a # b
      BY <2>1, <3>1 DEF TypeOK
    <3>3. \A q \in Procs : held[q] # a
      BY <2>1, <2>2, <3>1, ConstantAssumption DEF TypeOK
    <3>4. QED
      BY <2>1, <2>2, <3>1, <3>2, <3>3 DEF DataInv, CleanInv, TypeOK
  <2>6. \A q \in Procs : CommitInv(q)'
    BY <2>3 DEF CommitInv, CommitStates
  <2>7. QED
    BY <2>1, <2>4, <2>5, <2>6 DEF DataInv, Distinct
<1>3. CASE log_write_check(p)
  <2>1. UNCHANGED <<lh, tail, cache, home, logd, head, sys, held, committing,
                    outstanding>>
    BY <1>3 DEF log_write_check
  <2>2. \A q \in Procs : pc'[q] = pc[q] \/ pc'[q] \notin CommitStates
    BY <1>3 DEF log_write_check, TypeOK, CommitStates
  <2>3. QED
    BY <2>1, <2>2, SameData
<1>4. CASE log_write(p)
  <2>1. /\ pc[p] = "checked" /\ pc' = [pc EXCEPT ![p] = "op"]
        /\ lh' = IF held[p] \in Logged(lh) THEN lh ELSE Append(lh, held[p])
        /\ held' = [held EXCEPT ![p] = NoBlock]
        /\ UNCHANGED <<outstanding, committing, tail, cache, home, logd, head,
                       sys>>
    BY <1>4 DEF log_write
  <2>2. /\ committing = 0 /\ sys = "up" /\ outstanding >= 1
        /\ \A q \in Procs : pc[q] \notin CommitStates
    BY <2>1, ActiveFacts DEF OpStates
  <2>3. held[p] \in Blocks
    BY <2>1 DEF ControlInv
  <2>4. Logged(lh') = Logged(lh) \cup {held[p]}
    BY <2>1, <2>3, LoggedAppend DEF TypeOK
  <2>5. Distinct(lh')
    <3>1. CASE held[p] \in Logged(lh)
      BY <2>1, <3>1 DEF DataInv
    <3>2. CASE held[p] \notin Logged(lh)
      BY <2>1, <2>3, <3>2, SMTT(60) DEF DataInv, Distinct, Logged, TypeOK
    <3>3. QED
      BY <3>1, <3>2
  <2>6. HeaderInv' /\ RecoveryInv'
    BY <2>1, <2>2, SMTT(60) DEF DataInv, HeaderInv, RecoveryInv, TypeOK
  <2>7. CleanInv'
    <3>1. SUFFICES ASSUME NEW a \in Blocks, a \notin Logged(lh'),
                          \A q \in Procs : held'[q] # a
                   PROVE  cache[a] = home[a]
      BY <2>1 DEF CleanInv
    <3>2. a \notin Logged(lh) /\ a # held[p]
      BY <2>4, <3>1
    <3>3. \A q \in Procs : held[q] # a
      BY <2>1, <3>1, <3>2 DEF TypeOK
    <3>4. QED
      BY <2>2, <3>2, <3>3 DEF DataInv, CleanInv
  <2>8. \A q \in Procs : CommitInv(q)'
    BY <2>1, <2>2 DEF CommitInv, CommitStates, TypeOK
  <2>9. QED
    BY <2>1, <2>5, <2>6, <2>7, <2>8 DEF DataInv, Distinct
<1>5. CASE end_op(p)
  <2>1. /\ pc[p] = "op" /\ outstanding' = outstanding - 1
        /\ UNCHANGED <<lh, tail, cache, home, logd, head, sys, held>>
    BY <1>5 DEF end_op
  <2>2. /\ committing = 0 /\ sys = "up" /\ outstanding >= 1
        /\ \A q \in Procs : pc[q] \notin CommitStates
    BY <2>1, ActiveFacts DEF OpStates
  <2>3. CASE outstanding = 1
    <3>1. pc' = [pc EXCEPT ![p] = "commit"] /\ committing' = 1
      BY <1>5, <2>2, <2>3, SMTT(60) DEF end_op
    <3>2. HeaderInv' /\ RecoveryInv' /\ CleanInv' /\ head' = <<>>
      BY <2>1, <2>2, <3>1, SMTT(60) DEF DataInv, HeaderInv, RecoveryInv, CleanInv
    <3>3. \A q \in Procs : CommitInv(q)'
      BY <2>2, <3>1, <3>2 DEF CommitInv, CommitStates, TypeOK
    <3>4. QED
      BY <2>1, <3>2, <3>3, SMTT(60) DEF DataInv, Distinct
  <2>4. CASE outstanding # 1
    <3>1. /\ pc' = wakeup([pc EXCEPT ![p] = "idle"]) /\ committing' = committing
          /\ outstanding' > 0
      BY <1>5, <2>1, <2>2, <2>4, SMTT(60) DEF end_op, TypeOK
    <3>2. \A q \in Procs : pc'[q] \notin CommitStates
      BY <2>2, <3>1 DEF wakeup, TypeOK, CommitStates
    <3>3. QED
      BY <2>1, <3>1, <3>2, SameData
  <2>5. QED
    BY <2>3, <2>4
<1>6. QED
  BY <1>1, <1>2, <1>3, <1>4, <1>5 DEF LogWriteStep
\* One turn of install_trans() installs one more slot, in commit() and in
\* recovery alike; slots are distinct blocks, so the earlier ones stay.
LEMMA InstallData ==
  ASSUME TypeOK, install_trans, Distinct(lh), Len(lh) <= LOGSIZE,
         Installed(tail)
  PROVE  /\ Installed(tail)' /\ tail' <= Len(lh')
         /\ LogCopied(Len(lh)) => LogCopied(Len(lh))'
         /\ \A b \in Blocks : b \notin Logged(lh) =>
              cache'[b] = cache[b] /\ home'[b] = home[b]
         /\ cache = home => cache' = home'
<1>1. /\ tail + 1 \in 1..Len(lh) /\ Len(lh) \in Nat /\ tail' = tail + 1
      /\ lh' = lh /\ logd' = logd
  BY SMTT(60) DEF install_trans, TypeOK
<1>2. lh[tail + 1] \in Blocks /\ logd[tail + 1] \in Values
  BY <1>1, ConstantAssumption, SMTT(60) DEF TypeOK
<1>3. /\ cache' = [cache EXCEPT ![lh[tail + 1]] = logd[tail + 1]]
      /\ home' = [home EXCEPT ![lh[tail + 1]] = logd[tail + 1]]
  BY DEF install_trans
<1>4. \A i \in 1..Len(lh) : lh[i] \in Blocks
  BY SMTT(60) DEF TypeOK
<1>5. Installed(tail)'
  <2>1. SUFFICES ASSUME NEW i \in 1..(tail + 1)
                 PROVE  home'[lh[i]] = logd[i]
    BY <1>1 DEF Installed
  <2>2. CASE i = tail + 1
    BY <1>2, <1>3, <2>2 DEF TypeOK
  <2>3. CASE i # tail + 1
    <3>1. i \in 1..tail /\ i \in 1..Len(lh)
      BY <1>1, <2>3, SMTT(60) DEF TypeOK
    <3>2. lh[i] # lh[tail + 1]
      BY <1>1, <2>3, <3>1 DEF Distinct
    <3>3. QED
      BY <1>2, <1>3, <1>4, <3>1, <3>2 DEF TypeOK, Installed
  <2>4. QED
    BY <2>2, <2>3
<1>6. ASSUME LogCopied(Len(lh)) PROVE LogCopied(Len(lh))'
  <2>1. SUFFICES ASSUME NEW i \in 1..Len(lh)
                 PROVE  logd[i] = cache'[lh[i]]
    BY <1>1 DEF LogCopied
  <2>2. CASE lh[i] = lh[tail + 1]
    <3>1. i = tail + 1
      BY <1>1, <2>2 DEF Distinct
    <3>2. QED
      BY <1>2, <1>3, <3>1 DEF TypeOK
  <2>3. CASE lh[i] # lh[tail + 1]
    BY <1>3, <1>4, <1>6, <2>3 DEF TypeOK, LogCopied
  <2>4. QED
    BY <2>2, <2>3
<1>7. lh[tail + 1] \in Logged(lh)
  BY <1>1 DEF Logged
<1>8. \A b \in Blocks : b \notin Logged(lh) =>
        cache'[b] = cache[b] /\ home'[b] = home[b]
  BY <1>3, <1>7 DEF TypeOK
<1>9. cache = home => cache' = home'
  BY <1>3
<1>10. QED
  BY <1>1, <1>5, <1>6, <1>8, <1>9, SMTT(60)

\* A step of the committing process that stays in commit() keeps DataInv if
\* it keeps what concerns that process and the clean blocks.
LEMMA CommitOnly ==
  ASSUME TypeOK, ControlInv, NEW p \in Procs, pc[p] \in CommitStates,
         NEW s, pc' = [pc EXCEPT ![p] = s],
         UNCHANGED <<sys, committing, outstanding>>,
         Distinct(lh'), Distinct(head'), CleanInv', CommitInv(p)'
  PROVE  DataInv'
<1>1. /\ sys = "up" /\ committing = 1
      /\ \A q \in Procs : q # p => pc[q] \notin CommitStates
  BY CommitFacts
<1>2. HeaderInv' /\ RecoveryInv'
  BY <1>1, SMTT(60) DEF HeaderInv, RecoveryInv
<1>3. \A q \in Procs : q # p => CommitInv(q)'
  BY <1>1 DEF CommitInv, CommitStates, TypeOK
<1>4. QED
  BY <1>2, <1>3 DEF DataInv, Distinct

\* commit() keeps DataInv.
LEMMA CommitData ==
  ASSUME TypeOK, ControlInv, SpaceInv, DataInv, NEW p \in Procs, CommitStep(p)
  PROVE  DataInv'
<1> USE DEF memvars, diskvars, opvars
<1>1. pc[p] \in CommitStates
  BY DEF CommitStep, commit, write_log, write_head, install, erase, end_commit,
         CommitStates
<1>2. /\ sys = "up" /\ committing = 1 /\ outstanding = 0
      /\ \A q \in Procs : q # p => pc[q] \notin CommitStates
      /\ \A q \in Procs : held[q] = NoBlock
  BY <1>1, CommitFacts
<1>3. /\ Distinct(lh) /\ Distinct(head) /\ CommitInv(p)
      /\ \A b \in Blocks : b \notin Logged(lh) => cache[b] = home[b]
  BY <1>2, ConstantAssumption DEF DataInv, CleanInv
<1>4. Len(lh) \in Nat /\ Len(lh) <= LOGSIZE
  BY LogFits, SMTT(60) DEF TypeOK
<1>5. CASE commit(p)
  <2>1. /\ pc[p] = "commit" /\ tail' = 0 /\ head = <<>>
        /\ UNCHANGED <<lh, outstanding, committing, cache, home, logd, head, sys,
                       held>>
    BY <1>3, <1>5, SMTT(60) DEF commit, CommitInv
  <2>. Distinct(lh') /\ Distinct(head') /\ CleanInv'
    BY <1>3, <2>1, SMTT(60) DEF Distinct, CleanInv
  <2>2. CASE Len(lh) > 0
    <3>1. pc' = [pc EXCEPT ![p] = "write_log"]
      BY <1>5, <2>2 DEF commit
    <3>2. CommitInv(p)'
      BY <1>4, <2>1, <3>1, SMTT(60) DEF CommitInv, TypeOK, LogCopied
    <3>3. QED
      BY <1>1, <2>1, <3>1, <3>2, CommitOnly
  <2>3. CASE ~(Len(lh) > 0)
    <3>1. pc' = [pc EXCEPT ![p] = "finish"]
      BY <1>5, <2>3 DEF commit
    <3>2. lh = <<>>
      BY <1>4, <2>3, SMTT(60) DEF TypeOK
    <3>3. CommitInv(p)'
      BY <2>1, <3>1, <3>2 DEF CommitInv, TypeOK
    <3>4. QED
      BY <1>1, <2>1, <3>1, <3>3, CommitOnly
  <2>4. QED
    BY <2>2, <2>3
<1>6. CASE write_log(p)
  <2>1. /\ pc[p] = "write_log" /\ head = <<>> /\ tail <= Len(lh)
        /\ LogCopied(tail)
        /\ UNCHANGED <<lh, outstanding, committing, cache, home, head, sys, held>>
    BY <1>3, <1>6 DEF write_log, CommitInv
  <2>. Distinct(lh') /\ Distinct(head') /\ CleanInv'
    BY <1>3, <2>1, SMTT(60) DEF Distinct, CleanInv
  <2>2. CASE tail < Len(lh)
    <3>1. /\ logd' = [logd EXCEPT ![tail + 1] = cache[lh[tail + 1]]]
          /\ tail' = tail + 1 /\ pc' = pc
      BY <1>6, <2>2 DEF write_log
    <3>2. pc' = [pc EXCEPT ![p] = "write_log"]
      BY <2>1, <3>1 DEF TypeOK
    <3>3. LogCopied(tail)'
      BY <1>4, <2>1, <2>2, <3>1, ConstantAssumption, SMTT(60) DEF LogCopied, TypeOK
    <3>4. CommitInv(p)'
      BY <1>4, <2>1, <2>2, <3>1, <3>3, SMTT(60) DEF CommitInv, TypeOK
    <3>5. QED
      BY <1>1, <2>1, <3>2, <3>4, CommitOnly
  <2>3. CASE ~(tail < Len(lh))
    <3>1. pc' = [pc EXCEPT ![p] = "write_head"] /\ UNCHANGED <<tail, logd>>
      BY <1>6, <2>3 DEF write_log
    <3>2. tail = Len(lh)
      BY <1>4, <2>1, <2>3, SMTT(60) DEF TypeOK
    <3>3. CommitInv(p)'
      BY <2>1, <3>1, <3>2 DEF CommitInv, TypeOK, LogCopied
    <3>4. QED
      BY <1>1, <2>1, <3>1, <3>3, CommitOnly
  <2>4. QED
    BY <2>2, <2>3
<1>7. CASE write_head(p)
  <2>1. /\ pc[p] = "write_head" /\ pc' = [pc EXCEPT ![p] = "install"]
        /\ head' = lh /\ tail' = 0 /\ LogCopied(Len(lh))
        /\ UNCHANGED <<lh, outstanding, committing, cache, home, logd, sys, held>>
    BY <1>3, <1>7 DEF write_head, CommitInv
  <2>2. CommitInv(p)'
    BY <1>4, <2>1, SMTT(60) DEF CommitInv, TypeOK, LogCopied, Installed
  <2>3. QED
    BY <1>1, <1>3, <2>1, <2>2, CommitOnly DEF Distinct, CleanInv
<1>8. CASE install(p)
  <2>1. /\ pc[p] = "install" /\ lh = head /\ LogCopied(Len(lh))
        /\ tail <= Len(lh) /\ Installed(tail)
    BY <1>3, <1>8 DEF install, CommitInv
  <2>2. CASE install_trans /\ UNCHANGED <<sys, pc>>
    <3>1. /\ pc' = [pc EXCEPT ![p] = "install"]
          /\ UNCHANGED <<lh, head, outstanding, committing, sys, held>>
      BY <2>1, <2>2 DEF install_trans, TypeOK
    <3>2. /\ Installed(tail)' /\ tail' <= Len(lh') /\ LogCopied(Len(lh))'
          /\ \A b \in Blocks : b \notin Logged(lh) =>
               cache'[b] = cache[b] /\ home'[b] = home[b]
      BY <1>3, <1>4, <2>1, <2>2, InstallData
    <3>3. CommitInv(p)'
      BY <2>1, <3>1, <3>2 DEF CommitInv, TypeOK
    <3>4. CleanInv'
      BY <1>3, <3>1, <3>2 DEF CleanInv
    <3>5. QED
      BY <1>1, <1>3, <3>1, <3>3, <3>4, CommitOnly DEF Distinct
  <2>3. CASE tail >= Len(lh) /\ pc' = [pc EXCEPT ![p] = "erase"]
               /\ UNCHANGED <<memvars, cache, diskvars, sys, opvars>>
    <3>1. tail = Len(lh)
      BY <1>4, <2>1, <2>3, SMTT(60) DEF TypeOK
    <3>2. CommitInv(p)'
      BY <2>1, <2>3, <3>1 DEF CommitInv, TypeOK, Installed, LogCopied
    <3>3. QED
      BY <1>1, <1>3, <2>3, <3>2, CommitOnly DEF Distinct, CleanInv
  <2>4. QED
    BY <1>8, <2>2, <2>3 DEF install
<1>9. CASE erase(p)
  <2>1. /\ pc[p] = "erase" /\ pc' = [pc EXCEPT ![p] = "finish"]
        /\ lh' = <<>> /\ head' = <<>>
        /\ LogCopied(Len(lh)) /\ Installed(Len(lh))
        /\ UNCHANGED <<outstanding, committing, tail, cache, home, logd, sys, held>>
    BY <1>3, <1>9 DEF erase, CommitInv
  <2>2. \A b \in Blocks : cache[b] = home[b]
    BY <1>3, <2>1, SMTT(60) DEF LogCopied, Installed, Logged
  <2>3. CommitInv(p)' /\ CleanInv' /\ Distinct(lh') /\ Distinct(head')
    BY <2>1, <2>2, SMTT(60) DEF CommitInv, CleanInv, Distinct, TypeOK
  <2>4. QED
    BY <1>1, <2>1, <2>3, CommitOnly
<1>10. CASE end_commit(p)
  <2>1. /\ pc[p] = "finish" /\ pc' = wakeup([pc EXCEPT ![p] = "idle"])
        /\ lh = <<>> /\ head = <<>>
        /\ UNCHANGED <<lh, outstanding, tail, cache, home, logd, head, sys, held>>
    BY <1>3, <1>10 DEF end_commit, CommitInv
  <2>2. \A q \in Procs : pc'[q] \notin CommitStates
    BY <1>2, <2>1 DEF wakeup, TypeOK, CommitStates
  <2>3. \A q \in Procs : CommitInv(q)'
    BY <2>2 DEF CommitInv, CommitStates
  <2>4. HeaderInv' /\ RecoveryInv' /\ CleanInv'
    BY <1>2, <1>3, <2>1 DEF HeaderInv, RecoveryInv, CleanInv
  <2>5. QED
    BY <1>3, <2>1, <2>3, <2>4, SMTT(60) DEF DataInv, Distinct
<1>11. QED
  BY <1>5, <1>6, <1>7, <1>8, <1>9, <1>10, SMTT(60) DEF CommitStep

\* Recovery keeps DataInv.
LEMMA RecoverData ==
  ASSUME TypeOK, ControlInv, SpaceInv, DataInv, Recover
  PROVE  DataInv'
<1> USE DEF memvars, diskvars, opvars
<1>1. sys # "up" /\ pc' = pc
  BY DEF Recover, read_head, recover_install, recover_clear, install_trans
<1>2. cache = home /\ \A q \in Procs : pc[q] = "idle"
  BY <1>1 DEF DataInv, RecoveryInv, ControlInv
<1>3. \A q \in Procs : CommitInv(q)'
  BY <1>1, <1>2 DEF CommitInv
<1>4. CASE read_head
  <2>1. /\ lh' = head /\ head' = head /\ tail' = 0 /\ sys' = "install"
        /\ UNCHANGED <<cache, home>>
    BY <1>4 DEF read_head
  <2>2. HeaderInv' /\ CleanInv' /\ RecoveryInv'
    BY <1>2, <2>1, SMTT(60) DEF HeaderInv, CleanInv, RecoveryInv, Installed, TypeOK
  <2>3. QED
    BY <1>3, <2>1, <2>2 DEF DataInv, Distinct
<1>5. CASE recover_install
  <2>1. /\ sys = "install" /\ lh = head /\ tail <= Len(lh) /\ Installed(tail)
        /\ Distinct(lh) /\ Len(lh) <= LOGSIZE
    BY <1>5, LogFits DEF recover_install, DataInv, RecoveryInv
  <2>2. CASE install_trans /\ UNCHANGED <<sys, pc>>
    <3>1. UNCHANGED <<lh, head>> /\ sys' = "install"
      BY <2>1, <2>2 DEF install_trans
    <3>2. Installed(tail)' /\ tail' <= Len(lh') /\ cache' = home'
      BY <1>2, <2>1, <2>2, InstallData
    <3>3. HeaderInv' /\ CleanInv' /\ RecoveryInv'
      BY <2>1, <3>1, <3>2 DEF HeaderInv, CleanInv, RecoveryInv
    <3>4. QED
      BY <1>3, <2>1, <3>1, <3>3, SMTT(60) DEF DataInv, Distinct
  <2>3. CASE tail >= Len(lh) /\ sys' = "clear"
               /\ UNCHANGED <<memvars, cache, diskvars, pc, opvars>>
    <3>1. tail = Len(lh)
      BY <2>1, <2>3, SMTT(60) DEF TypeOK
    <3>2. HeaderInv' /\ CleanInv' /\ RecoveryInv'
      BY <1>2, <2>1, <2>3, <3>1 DEF HeaderInv, CleanInv, RecoveryInv, Installed
    <3>3. QED
      BY <1>3, <2>1, <2>3, <3>2, SMTT(60) DEF DataInv, Distinct
  <2>4. QED
    BY <1>5, <2>2, <2>3 DEF recover_install
<1>6. CASE recover_clear
  <2>1. lh' = <<>> /\ head' = <<>> /\ sys' = "up" /\ UNCHANGED <<cache, home>>
    BY <1>6 DEF recover_clear
  <2>2. HeaderInv' /\ CleanInv' /\ RecoveryInv'
    BY <1>2, <2>1 DEF HeaderInv, CleanInv, RecoveryInv
  <2>3. QED
    BY <1>3, <2>1, <2>2, SMTT(60) DEF DataInv, Distinct
<1>7. QED
  BY <1>4, <1>5, <1>6 DEF Recover

\* A crash keeps DataInv, whatever it leaves of a block in transfer.
LEMMA CrashData ==
  ASSUME DataInv, Crash
  PROVE  DataInv'
<1>1. /\ lh' = <<>> /\ head' = head /\ cache' = home' /\ sys' = "boot"
      /\ pc' = [q \in Procs |-> "idle"]
  BY DEF Crash
<1>2. HeaderInv' /\ CleanInv' /\ RecoveryInv'
  BY <1>1 DEF HeaderInv, CleanInv, RecoveryInv
<1>3. \A q \in Procs : CommitInv(q)'
  BY <1>1 DEF CommitInv
<1>4. QED
  BY <1>1, <1>2, <1>3, SMTT(60) DEF DataInv, Distinct
-----------------------------------------------------------------------------
(* Sleeping in begin_op(). *)

\* Nobody goes to sleep, or is left asleep, without someone to wake them.
LEMMA NextSleeper ==
  ASSUME TypeOK, ControlInv, DataInv, SleeperHasWaker, [Next]_vars
  PROVE  SleeperHasWaker'
<1> USE DEF memvars, diskvars, opvars, SleeperHasWaker
<1>1. ASSUME NEW p \in Procs, begin_op(p) PROVE SleeperHasWaker'
  <2>1. outstanding \in Nat
    BY ActiveFinite DEF ControlInv
  <2>2. CASE committing = 1 \/ NoSpace
    <3>1. /\ pc' = [pc EXCEPT ![p] = "asleep"] /\ sys = "up"
          /\ UNCHANGED <<outstanding, committing>>
      BY <1>1, <2>2 DEF begin_op
    <3>2. committing = 1 \/ outstanding > 0
      <4>1. SUFFICES ASSUME committing # 1, outstanding = 0 PROVE FALSE
        BY <2>1, SMTT(60)
      <4>2. lh = <<>>
        BY <3>1, <4>1 DEF DataInv, HeaderInv, TypeOK
      <4>3. (0 + 1) * MAXOPBLOCKS = MAXOPBLOCKS
        BY ConstantAssumption, SMTT(60)
      <4>4. ~NoSpace
        BY <4>1, <4>2, <4>3, ConstantAssumption, SMTT(60) DEF NoSpace
      <4>5. QED
        BY <2>2, <4>1, <4>4
    <3>3. QED
      BY <3>1, <3>2
  <2>3. CASE ~(committing = 1 \/ NoSpace)
    BY <1>1, <2>1, <2>3, SMTT(60) DEF begin_op
  <2>4. QED
    BY <2>2, <2>3
<1>2. ASSUME NEW p \in Procs, NEW b \in Blocks, NEW v \in Values,
             modify(p, b, v)
      PROVE  SleeperHasWaker'
  BY <1>2 DEF modify, TypeOK
<1>3. ASSUME NEW p \in Procs, LogWriteStep(p) PROVE SleeperHasWaker'
  BY <1>3 DEF LogWriteStep, log_write_check, log_write, TypeOK
<1>4. ASSUME NEW p \in Procs, end_op(p) PROVE SleeperHasWaker'
  <2>1. committing = 0
    BY <1>4, ActiveFacts DEF end_op, OpStates
  <2>2. CASE outstanding = 1
    BY <1>4, <2>1, <2>2 DEF end_op
  <2>3. CASE outstanding # 1
    <3>1. pc' = wakeup([pc EXCEPT ![p] = "idle"])
      BY <1>4, <2>1, <2>3, SMTT(60) DEF end_op
    <3>2. QED
      BY <3>1 DEF wakeup, TypeOK
  <2>4. QED
    BY <2>2, <2>3
<1>5. ASSUME NEW p \in Procs, CommitStep(p) PROVE SleeperHasWaker'
  <2>1. CASE end_commit(p)
    BY <2>1 DEF end_commit, wakeup, TypeOK
  <2>2. CASE ~end_commit(p)
    <3>1. /\ UNCHANGED <<outstanding, committing>>
          /\ \A q \in Procs : pc'[q] = "asleep" => pc[q] = "asleep"
      BY <1>5, <2>2 DEF CommitStep, commit, write_log, write_head, install,
                        erase, install_trans, TypeOK
    <3>2. QED
      BY <3>1
  <2>3. QED
    BY <2>1, <2>2
<1>6. CASE Recover
  BY <1>6 DEF Recover, read_head, recover_install, recover_clear, install_trans
<1>7. CASE Crash
  BY <1>7 DEF Crash
<1>8. CASE UNCHANGED vars
  BY <1>8 DEF vars
<1>9. QED
  BY <1>1, <1>2, <1>3, <1>4, <1>5, <1>6, <1>7, <1>8 DEF Next

-----------------------------------------------------------------------------
(* The theorems. *)

\* The inductive invariant holds of every state log.c can reach, whenever the
\* power fails.
THEOREM LogInvariant == Spec => []IInv
<1>1. Init => IInv
  BY InitType, InitControl, InitSpace, InitData
  DEF IInv, SleeperHasWaker, Init
<1>2. IInv /\ [Next]_vars => IInv'
  <2> SUFFICES ASSUME TypeOK, ControlInv, SpaceInv, DataInv, SleeperHasWaker,
                      [Next]_vars
               PROVE  IInv'
    BY DEF IInv
  <2>1. TypeOK' /\ ControlInv' /\ SpaceInv'
    BY NextType, NextControl, NextSpace
  <2>2. CASE UNCHANGED vars
    <3>1. /\ UNCHANGED <<lh, tail, cache, home, logd, head, sys, held,
                         committing, outstanding, pc>>
      BY <2>2 DEF vars, memvars, diskvars, opvars
    <3>2. QED
      BY <3>1, <2>1, NextSleeper, SameData DEF IInv
  <2>3. CASE Next
    <3>1. DataInv'
      BY <2>3, OpData, CommitData, RecoverData, CrashData DEF Next
    <3>2. QED
      BY <2>1, <3>1, NextSleeper DEF IInv
  <2>4. QED
    BY <2>2, <2>3
<1>3. QED
  BY <1>1, <1>2, PTL DEF Spec

\* The fields of struct log, the disk and every process stay within their
\* types: no log slot beyond the header's capacity is ever written.
THEOREM TypeCorrect == Spec => []TypeOK
<1>1. IInv => TypeOK
  BY DEF IInv
<1>2. QED
  BY <1>1, LogInvariant, PTL

\* log_write() and end_op() never panic, for any number of processes, as long
\* as operations write fewer blocks than begin_op() reserves for them.
THEOREM NeverPanics ==
  ASSUME RoomToSpare
  PROVE  Spec => []NoPanic
<1>1. Init => NoPanic
  BY DEF Init, NoPanic
<1>2. IInv /\ NoPanic /\ [Next]_vars => NoPanic'
  <2> SUFFICES ASSUME IInv, NoPanic, [Next]_vars PROVE NoPanic'
    OBVIOUS
  <2> USE DEF IInv, NoPanic, TypeOK
  <2>1. ASSUME NEW p \in Procs, begin_op(p) PROVE NoPanic'
    BY <2>1 DEF begin_op
  <2>2. ASSUME NEW p \in Procs, NEW b \in Blocks, NEW v \in Values,
               modify(p, b, v)
        PROVE  NoPanic'
    BY <2>2 DEF modify
  <2>3. ASSUME NEW p \in Procs, log_write_check(p) PROVE NoPanic'
    <3>1. p \in Active /\ outstanding >= 1
      BY <2>3, ActiveFacts DEF log_write_check, OpStates
    <3>2. Len(lh) + (MAXOPBLOCKS - OpBlocks) <= LOGSIZE
      BY <3>1, LogFits
    <3>3. ~TooBig
      BY <3>2, ConstantAssumption, SMTT(60) DEF TooBig, RoomToSpare
    <3>4. QED
      BY <2>3, <3>1, <3>3, SMTT(60) DEF log_write_check
  <2>4. ASSUME NEW p \in Procs, log_write(p) PROVE NoPanic'
    BY <2>4 DEF log_write
  <2>5. ASSUME NEW p \in Procs, end_op(p) PROVE NoPanic'
    <3>1. committing = 0
      BY <2>5, ActiveFacts DEF end_op, OpStates
    <3>2. QED
      BY <2>5, <3>1, SMTT(60) DEF end_op, wakeup
  <2>6. ASSUME NEW p \in Procs, CommitStep(p) PROVE NoPanic'
    BY <2>6 DEF CommitStep, commit, write_log, write_head, install, erase,
                end_commit, wakeup
  <2>7. CASE Recover
    BY <2>7 DEF Recover, read_head, recover_install, recover_clear
  <2>8. CASE Crash
    BY <2>8 DEF Crash
  <2>9. CASE UNCHANGED vars
    BY <2>9 DEF vars
  <2>10. QED
    BY <2>1, <2>2, <2>3, <2>4, <2>5, <2>6, <2>7, <2>8, <2>9, SMTT(60)
    DEF Next, LogWriteStep
<1>3. QED
  BY <1>1, <1>2, LogInvariant, PTL DEF Spec

\* Every process asleep in begin_op() has an operation or a commit to wait
\* for, whose end calls wakeup(&log).
THEOREM SleepersHaveWakers == Spec => []SleeperHasWaker
<1>1. IInv => SleeperHasWaker
  BY DEF IInv
<1>2. QED
  BY <1>1, LogInvariant, PTL

\* No home block changes on the disk unless the header on the disk lists it.
THEOREM WriteAheadHolds == Spec => WriteAhead
<1> DEFINE A == \A b \in Blocks : home'[b] # home[b] => b \in Logged(head)
<1>1. IInv /\ [Next]_vars => [A]_vars
  <2> SUFFICES ASSUME IInv, Next PROVE A
    OBVIOUS
  <2> USE DEF memvars, diskvars, opvars
  <2>1. TypeOK /\ ControlInv /\ DataInv
    BY DEF IInv
  <2>2. ASSUME lh = head, tail < Len(lh), NEW v,
               home' = [home EXCEPT ![lh[tail + 1]] = v]
        PROVE  A
    <3>1. tail + 1 \in 1..Len(lh)
      BY <2>1, <2>2, SMTT(60) DEF TypeOK
    <3>2. lh[tail + 1] \in Logged(head)
      BY <2>2, <3>1 DEF Logged
    <3>3. QED
      BY <2>1, <2>2, <3>2 DEF TypeOK
  <2>3. ASSUME NEW p \in Procs, install(p) PROVE A
    <3>1. lh = head
      BY <2>1, <2>3 DEF DataInv, CommitInv, install
    <3>2. QED
      BY <2>2, <2>3, <3>1 DEF install, install_trans
  <2>4. CASE Recover
    <3>1. sys = "install" => lh = head
      BY <2>1 DEF DataInv, RecoveryInv
    <3>2. QED
      BY <2>2, <2>4, <3>1 DEF Recover, read_head, recover_install,
                              recover_clear, install_trans
  <2>5. CASE Crash
    <3>1. Installing => lh = head /\ tail < Len(lh)
      BY <2>1 DEF Installing, DataInv, RecoveryInv, CommitInv
    <3>2. QED
      BY <2>2, <2>5, <3>1 DEF Crash
  <2>6. CASE home' = home
    BY <2>6
  <2>7. QED
    BY <2>3, <2>4, <2>5, <2>6
    DEF Next, CommitStep, LogWriteStep, begin_op, modify, log_write_check,
        log_write, end_op, commit, write_log, write_head, erase, end_commit
<1>2. QED
  BY <1>1, LogInvariant, PTL DEF Spec, WriteAhead
-----------------------------------------------------------------------------
(***************************************************************************)
(* The log implements AtomicDisk, for any number of processes and blocks:  *)
(* every step of log.c, every crash and every step of recovery is a step   *)
(* of AtomicDisk or changes nothing it can see.                            *)
(***************************************************************************)

\* The abstract memory image and the abstract state of the processes.
MemBar == IF sys = "up" THEN cache ELSE Recovered
StBar  == [p \in Procs |-> IF pc[p] \in OpStates THEN "op"
                           ELSE IF pc[p] \in CommitStates THEN "sync"
                           ELSE "idle"]

-----------------------------------------------------------------------------
(* What recovery would show. *)

\* Slots are distinct, so each slot is the one recovery takes its block from.
LEMMA SlotUnique ==
  ASSUME NEW s \in Seq(Blocks), Distinct(s), NEW i \in 1..Len(s)
  PROVE  (CHOOSE j \in 1..Len(s) : s[j] = s[i]) = i
  BY DEF Distinct

\* Recovery takes a listed block from its slot and any other from home.
LEMMA RecoveredAt ==
  ASSUME TypeOK, Distinct(head)
  PROVE  /\ \A i \in 1..Len(head) : Recovered[head[i]] = logd[i]
         /\ \A b \in Blocks : b \notin Logged(head) => Recovered[b] = home[b]
<1>1. ASSUME NEW i \in 1..Len(head) PROVE Recovered[head[i]] = logd[i]
  <2>1. head[i] \in Blocks /\ head[i] \in Logged(head)
    BY SMTT(60) DEF TypeOK, Logged
  <2>2. (CHOOSE j \in 1..Len(head) : head[j] = head[i]) = i
    BY SlotUnique DEF TypeOK
  <2>3. QED
    BY <2>1, <2>2 DEF Recovered
<1>2. QED
  BY <1>1 DEF Recovered

\* With a clear header, recovery shows the home blocks.
LEMMA RecoveredClear ==
  ASSUME TypeOK, head = <<>>
  PROVE  Recovered = home
  BY SMTT(60) DEF Recovered, TypeOK, Logged

\* What recovery would show depends on nothing but the disk.
LEMMA RecoveredSame ==
  ASSUME UNCHANGED <<home, logd, head>>
  PROVE  Recovered' = Recovered
  BY SMTT(60) DEF Recovered

\* A home block the header lists, or a log block with the header clear, may
\* change freely: recovery shows the same.
LEMMA RecoveredTorn ==
  ASSUME TypeOK, head' = head, home' \in [Blocks -> Values],
         \/ /\ logd' = logd
            /\ \A b \in Blocks : b \notin Logged(head) => home'[b] = home[b]
         \/ head = <<>> /\ home' = home
  PROVE  Recovered' = Recovered
<1>1. CASE logd' = logd
             /\ \A b \in Blocks : b \notin Logged(head) => home'[b] = home[b]
  BY <1>1, SMTT(60) DEF Recovered
<1>2. CASE head = <<>> /\ home' = home
  BY <1>2, SMTT(60) DEF Recovered, Logged
<1>3. QED
  BY <1>1, <1>2

\* Once every slot is installed recovery has nothing to change.
LEMMA RecoveredInstalled ==
  ASSUME TypeOK, Distinct(head), lh = head, Installed(Len(lh))
  PROVE  Recovered = home
<1>1. ASSUME NEW b \in Blocks PROVE Recovered[b] = home[b]
  <2>1. CASE b \in Logged(head)
    <3>1. PICK i \in 1..Len(head) : head[i] = b
      BY <2>1 DEF Logged
    <3>2. QED
      BY <3>1, RecoveredAt DEF Installed
  <2>2. CASE b \notin Logged(head)
    BY <2>2, RecoveredAt
  <2>3. QED
    BY <2>1, <2>2
<1>2. QED
  BY <1>1 DEF Recovered, TypeOK

-----------------------------------------------------------------------------
(* One lemma per kind of step. *)

\* The abstract state of a process that moves.
LEMMA StMove ==
  ASSUME TypeOK, NEW p \in Procs, NEW s, pc' = [pc EXCEPT ![p] = s]
  PROVE  StBar' = [StBar EXCEPT ![p] =
                     IF s \in OpStates THEN "op"
                     ELSE IF s \in CommitStates THEN "sync" ELSE "idle"]
  BY DEF StBar, TypeOK

\* Waking sleepers is invisible.
LEMMA StWakeup ==
  ASSUME TypeOK, NEW p \in Procs, pc' = wakeup([pc EXCEPT ![p] = "idle"])
  PROVE  StBar' = [StBar EXCEPT ![p] = "idle"]
  BY DEF StBar, TypeOK, wakeup, OpStates, CommitStates

\* A step that moves no process between classes, and changes neither cache
\* nor disk, is invisible.
LEMMA Invisible ==
  ASSUME MemBar' = MemBar, Recovered' = Recovered, StBar' = StBar
  PROVE  UNCHANGED AD!vars
  BY DEF AD!vars, MemBar, StBar

\* begin_op() begins an abstract operation or goes to sleep.
LEMMA RefineBegin ==
  ASSUME IInv, NEW p \in Procs, begin_op(p)
  PROVE  AD!Begin(p) \/ UNCHANGED AD!vars
<1> USE DEF memvars, diskvars, opvars
<1>1. TypeOK /\ ControlInv
  BY DEF IInv
<1>2. Recovered' = Recovered /\ MemBar' = MemBar
  <2>1. UNCHANGED <<cache, home, logd, head, sys>>
    BY DEF begin_op
  <2>2. QED
    BY <2>1, SMTT(60) DEF Recovered, MemBar
<1>3. pc[p] \in {"idle", "begin"} /\ StBar[p] = "idle"
  BY DEF begin_op, StBar, OpStates, CommitStates
<1>4. CASE committing = 1 \/ NoSpace
  <2>1. pc' = [pc EXCEPT ![p] = "asleep"]
    BY <1>4 DEF begin_op
  <2>2. StBar' = StBar
    BY <1>1, <1>3, <2>1, StMove, SMTT(60) DEF StBar, OpStates, CommitStates
  <2>3. QED
    BY <1>2, <2>2, Invisible
<1>5. CASE ~(committing = 1 \/ NoSpace)
  <2>1. pc' = [pc EXCEPT ![p] = "op"]
    BY <1>5 DEF begin_op
  <2>2. StBar' = [StBar EXCEPT ![p] = "op"]
    BY <1>1, <2>1, StMove DEF OpStates
  <2>3. \A q \in Procs : StBar[q] # "sync"
    BY <1>1, <1>5 DEF ControlInv, Committers, StBar
  <2>4. QED
    BY <1>2, <1>3, <2>2, <2>3 DEF AD!Begin, MemBar, StBar
<1>6. QED
  BY <1>4, <1>5

\* Changing a cached block is an abstract write; log_write() is invisible.
LEMMA RefineWrite ==
  ASSUME IInv, NEW p \in Procs
  PROVE  /\ \A b \in Blocks, v \in Values : modify(p, b, v) => AD!Write(p, b, v)
         /\ LogWriteStep(p) => UNCHANGED AD!vars
<1> USE DEF memvars, diskvars, opvars
<1>1. TypeOK /\ ControlInv
  BY DEF IInv
<1>2. ASSUME NEW b \in Blocks, NEW v \in Values, modify(p, b, v)
      PROVE  AD!Write(p, b, v)
  <2>1. /\ pc[p] = "op" /\ pc' = [pc EXCEPT ![p] = "write"]
        /\ cache' = [cache EXCEPT ![b] = v]
        /\ UNCHANGED <<home, logd, head, sys>>
    BY <1>2 DEF modify
  <2>2. sys = "up"
    BY <1>1, <2>1, ActiveFacts DEF OpStates
  <2>3. Recovered' = Recovered /\ MemBar' = [MemBar EXCEPT ![b] = v]
    BY <2>1, <2>2, SMTT(60) DEF Recovered, MemBar
  <2>4. StBar' = StBar /\ StBar[p] = "op"
    BY <1>1, <2>1, StMove, SMTT(60) DEF StBar, OpStates
  <2>5. QED
    BY <2>3, <2>4 DEF AD!Write, MemBar, StBar
<1>3. ASSUME LogWriteStep(p) PROVE UNCHANGED AD!vars
  <2>1. /\ pc[p] \in OpStates /\ UNCHANGED <<cache, home, logd, head, sys>>
        /\ \E s \in OpStates : pc' = [pc EXCEPT ![p] = s]
    BY <1>3 DEF LogWriteStep, log_write_check, log_write, OpStates
  <2>2. Recovered' = Recovered /\ MemBar' = MemBar
    BY <2>1, SMTT(60) DEF Recovered, MemBar
  <2>3. StBar' = StBar
    BY <1>1, <2>1, StMove, SMTT(60) DEF StBar
  <2>4. QED
    BY <2>2, <2>3, Invisible
<1>4. QED
  BY <1>2, <1>3

\* end_op() ends an abstract operation, and waits exactly if it is the last.
LEMMA RefineEnd ==
  ASSUME IInv, NEW p \in Procs, end_op(p)
  PROVE  AD!End(p)
<1> USE DEF memvars, diskvars, opvars
<1>1. TypeOK /\ ControlInv /\ pc[p] = "op"
  BY DEF IInv, end_op
<1>2. /\ p \in Active /\ committing = 0
      /\ IsFiniteSet(Active) /\ outstanding = Cardinality(Active)
  BY <1>1, ActiveFacts, ActiveFinite DEF OpStates, ControlInv
<1>3. Recovered' = Recovered /\ MemBar' = MemBar
  <2>1. UNCHANGED <<cache, home, logd, head, sys>>
    BY DEF end_op
  <2>2. QED
    BY <2>1, SMTT(60) DEF Recovered, MemBar
<1>4. StBar[p] = "op" /\ \A q \in Procs : StBar[q] = "op" <=> q \in Active
  BY <1>1 DEF StBar, Active, OpStates
<1>5. CASE outstanding = 1
  <2>1. PICK x : Active = {x}
    BY <1>2, <1>5, FS_Singleton
  <2>2. ~\E q \in Procs \ {p} : StBar[q] = "op"
    BY <1>2, <1>4, <2>1
  <2>3. StBar' = [StBar EXCEPT ![p] = "sync"]
    <3>1. pc' = [pc EXCEPT ![p] = "commit"]
      BY <1>2, <1>5, SMTT(60) DEF end_op
    <3>2. QED
      BY <1>1, <3>1, StMove DEF OpStates, CommitStates
  <2>4. QED
    BY <1>3, <1>4, <2>2, <2>3 DEF AD!End, MemBar, StBar
<1>6. CASE outstanding # 1
  <2>1. \E q \in Procs \ {p} : StBar[q] = "op"
    <3>1. Active # {p}
      BY <1>2, <1>6, FS_Singleton
    <3>2. PICK q \in Active : q # p
      BY <1>2, <3>1
    <3>3. QED
      BY <1>4, <3>2 DEF Active
  <2>2. StBar' = [StBar EXCEPT ![p] = "idle"]
    <3>1. pc' = wakeup([pc EXCEPT ![p] = "idle"])
      BY <1>2, <1>6, SMTT(60) DEF end_op
    <3>2. QED
      BY <1>1, <3>1, StWakeup
  <2>3. QED
    BY <1>3, <1>4, <2>1, <2>2 DEF AD!End, MemBar, StBar
<1>7. QED
  BY <1>5, <1>6

\* The commit point makes the memory image durable, the end of commit()
\* returns to a durable image, and the other steps of commit() are invisible.
LEMMA RefineCommit ==
  ASSUME IInv, IInv', NEW p \in Procs, CommitStep(p)
  PROVE  AD!Commit(p) \/ AD!Return(p) \/ UNCHANGED AD!vars
<1> USE DEF memvars, diskvars, opvars
<1>1. TypeOK /\ ControlInv /\ DataInv /\ TypeOK' /\ DataInv'
  BY DEF IInv
<1>2. pc[p] \in CommitStates
  BY DEF CommitStep, commit, write_log, write_head, install, erase, end_commit,
         CommitStates
<1>3. /\ sys = "up" /\ StBar[p] = "sync"
      /\ \A q \in Procs : held[q] = NoBlock
  BY <1>1, <1>2, CommitFacts DEF StBar, OpStates, CommitStates
<1>4. /\ Distinct(lh) /\ Distinct(head) /\ CommitInv(p)
      /\ \A b \in Blocks : b \notin Logged(lh) => cache[b] = home[b]
  BY <1>1, <1>3, ConstantAssumption DEF DataInv, CleanInv
<1>5. ASSUME NEW s \in CommitStates, pc' = [pc EXCEPT ![p] = s]
      PROVE  StBar' = StBar
  BY <1>1, <1>3, <1>5, StMove, SMTT(60) DEF StBar, OpStates, CommitStates
<1>6. CASE commit(p)
  <2>1. /\ UNCHANGED <<cache, home, logd, head, sys>>
        /\ \E s \in CommitStates : pc' = [pc EXCEPT ![p] = s]
    BY <1>6 DEF commit, CommitStates
  <2>2. Recovered' = Recovered /\ MemBar' = MemBar
    BY <2>1, SMTT(60) DEF Recovered, MemBar
  <2>3. QED
    BY <1>5, <2>1, <2>2, Invisible
<1>7. CASE write_log(p)
  <2>1. /\ UNCHANGED <<cache, home, head, sys>> /\ head = <<>>
        /\ (\E s \in CommitStates : pc' = [pc EXCEPT ![p] = s]) \/ pc' = pc
    BY <1>4, <1>7 DEF write_log, CommitInv, CommitStates
  <2>2. Recovered' = Recovered
    BY <1>1, <2>1, RecoveredClear, SMTT(60) DEF Recovered, Logged
  <2>3. MemBar' = MemBar
    BY <1>3, <2>1 DEF MemBar
  <2>4. StBar' = StBar
    BY <1>5, <2>1 DEF StBar
  <2>5. QED
    BY <2>2, <2>3, <2>4, Invisible
<1>8. CASE write_head(p)
  <2>1. /\ UNCHANGED <<lh, cache, home, logd, sys>> /\ head' = lh
        /\ pc' = [pc EXCEPT ![p] = "install"] /\ LogCopied(Len(lh))
    BY <1>4, <1>8 DEF write_head, CommitInv
  <2>2. ASSUME NEW b \in Blocks PROVE Recovered'[b] = cache[b]
    <3>1. /\ \A i \in 1..Len(lh) : Recovered'[lh[i]] = logd[i]
          /\ b \notin Logged(lh) => Recovered'[b] = home[b]
      <4>1. \A i \in 1..Len(lh) : (CHOOSE j \in 1..Len(lh) : lh[j] = lh[i]) = i
        BY <1>1, <1>4, SlotUnique DEF TypeOK
      <4>2. \A i \in 1..Len(lh) : lh[i] \in Blocks /\ lh[i] \in Logged(lh)
        BY <1>1, SMTT(60) DEF TypeOK, Logged
      <4>3. Recovered' = [c \in Blocks |->
                             IF c \in Logged(lh)
                               THEN logd[CHOOSE j \in 1..Len(lh) : lh[j] = c]
                               ELSE home[c]]
        BY <2>1, SMTT(60) DEF Recovered
      <4>4. ASSUME NEW i \in 1..Len(lh) PROVE Recovered'[lh[i]] = logd[i]
        BY <4>1, <4>2, <4>3
      <4>5. QED
        BY <4>3, <4>4
    <3>2. CASE b \in Logged(lh)
      <4>1. PICK i \in 1..Len(lh) : lh[i] = b
        BY <3>2 DEF Logged
      <4>2. QED
        BY <2>1, <3>1, <4>1 DEF LogCopied
    <3>3. QED
      BY <1>4, <3>1, <3>2
  <2>3. Recovered' = cache
    BY <1>1, <2>2 DEF Recovered, TypeOK
  <2>4. StBar' = StBar
    BY <1>5, <2>1 DEF CommitStates
  <2>5. MemBar' = MemBar /\ MemBar = cache
    BY <1>3, <2>1 DEF MemBar
  <2>6. QED
    BY <1>3, <2>3, <2>4, <2>5 DEF AD!Commit, MemBar, StBar
<1>9. CASE install(p)
  <2>1. lh = head /\ LogCopied(Len(lh)) /\ tail <= Len(lh)
    BY <1>4, <1>9 DEF install, CommitInv
  <2>2. CASE install_trans /\ UNCHANGED <<sys, pc>>
    <3>1. /\ tail + 1 \in 1..Len(lh) /\ lh[tail + 1] \in Blocks
          /\ cache' = [cache EXCEPT ![lh[tail + 1]] = logd[tail + 1]]
          /\ home' = [home EXCEPT ![lh[tail + 1]] = logd[tail + 1]]
          /\ UNCHANGED <<logd, head, sys, pc>>
      BY <1>1, <2>2, SMTT(60) DEF install_trans, TypeOK
    <3>2. cache' = cache
      BY <1>1, <2>1, <3>1, SMTT(60) DEF LogCopied, TypeOK
    <3>3. lh[tail + 1] \in Logged(head)
      BY <2>1, <3>1 DEF Logged
    <3>4. Recovered' = Recovered
      BY <1>1, <3>1, <3>3, RecoveredTorn, SMTT(60) DEF TypeOK
    <3>5. MemBar' = MemBar /\ StBar' = StBar
      BY <1>3, <3>1, <3>2 DEF MemBar, StBar
    <3>6. QED
      BY <3>4, <3>5, Invisible
  <2>3. CASE ~(install_trans /\ UNCHANGED <<sys, pc>>)
    <3>1. /\ UNCHANGED <<cache, home, logd, head, sys>>
          /\ pc' = [pc EXCEPT ![p] = "erase"]
      BY <1>9, <2>3 DEF install
    <3>2. Recovered' = Recovered /\ MemBar' = MemBar
      BY <3>1, SMTT(60) DEF Recovered, MemBar
    <3>3. StBar' = StBar
      BY <1>5, <3>1 DEF CommitStates
    <3>4. QED
      BY <3>2, <3>3, Invisible
  <2>4. QED
    BY <2>2, <2>3
<1>10. CASE erase(p)
  <2>1. /\ lh = head /\ Installed(Len(lh)) /\ head' = <<>>
        /\ UNCHANGED <<cache, home, sys>> /\ pc' = [pc EXCEPT ![p] = "finish"]
    BY <1>4, <1>10 DEF erase, CommitInv
  <2>2. Recovered = home
    BY <1>1, <1>4, <2>1, RecoveredInstalled, SMTT(60)
  <2>3. Recovered' = home'
    BY <1>1, <2>1, SMTT(60) DEF Recovered, TypeOK, Logged
  <2>4. MemBar' = MemBar /\ StBar' = StBar
    BY <1>3, <1>5, <2>1 DEF MemBar, CommitStates
  <2>5. QED
    BY <2>1, <2>2, <2>3, <2>4, Invisible
<1>11. CASE end_commit(p)
  <2>1. /\ head = <<>> /\ lh = <<>> /\ UNCHANGED <<cache, home, logd, head, sys>>
        /\ pc' = wakeup([pc EXCEPT ![p] = "idle"])
    BY <1>4, <1>11 DEF end_commit, CommitInv
  <2>2. Recovered = home /\ Recovered' = Recovered
    BY <1>1, <2>1, RecoveredClear, RecoveredSame
  <2>3. cache = home
    BY <1>1, <1>4, <2>1, SMTT(60) DEF Logged, TypeOK
  <2>4. MemBar = cache /\ MemBar' = MemBar
    BY <1>3, <2>1 DEF MemBar
  <2>5. StBar' = [StBar EXCEPT ![p] = "idle"]
    BY <1>1, <2>1, StWakeup
  <2>6. QED
    BY <1>3, <2>2, <2>3, <2>4, <2>5 DEF AD!Return, MemBar, StBar
<1>12. QED
  BY <1>6, <1>7, <1>8, <1>9, <1>10, <1>11 DEF CommitStep

\* recover_from_log() is invisible: it makes the home blocks what recovery
\* was going to show.
LEMMA RefineRecover ==
  ASSUME IInv, Recover
  PROVE  UNCHANGED AD!vars
<1> USE DEF memvars, diskvars, opvars
<1>1. TypeOK /\ DataInv /\ StBar' = StBar
  BY DEF IInv, Recover, read_head, recover_install, install_trans, recover_clear,
         StBar
<1>2. CASE read_head
  <2>1. UNCHANGED <<home, logd, head>> /\ sys # "up" /\ sys' # "up"
    BY <1>2 DEF read_head
  <2>2. QED
    BY <1>1, <2>1, RecoveredSame, Invisible DEF MemBar
<1>3. CASE recover_install
  <2>1. /\ lh = head /\ sys # "up" /\ sys' # "up"
        /\ UNCHANGED <<logd, head>>
        /\ \/ home' = home
           \/ /\ tail < Len(lh)
              /\ home' = [home EXCEPT ![lh[tail + 1]] = logd[tail + 1]]
    BY <1>1, <1>3 DEF recover_install, install_trans, DataInv, RecoveryInv
  <2>2. CASE home' = home
    BY <1>1, <2>1, <2>2, RecoveredSame, Invisible DEF MemBar
  <2>3. CASE home' # home
    <3>1. tail + 1 \in 1..Len(lh) /\ tail + 1 \in 1..LOGSIZE
      BY <1>1, <2>1, <2>3, ConstantAssumption, SMTT(60) DEF TypeOK, IInv, SpaceInv
    <3>2. lh[tail + 1] \in Logged(head) /\ logd[tail + 1] \in Values
      BY <1>1, <2>1, <3>1 DEF Logged, TypeOK
    <3>3. Recovered' = Recovered
      BY <1>1, <2>1, <2>3, <3>2, RecoveredTorn DEF TypeOK
    <3>4. QED
      BY <1>1, <2>1, <3>3, Invisible, SMTT(60) DEF MemBar
  <2>4. QED
    BY <2>2, <2>3
<1>4. CASE recover_clear
  <2>1. /\ lh = head /\ Installed(Len(lh)) /\ Distinct(head) /\ cache = home
        /\ head' = <<>> /\ UNCHANGED <<home, cache>> /\ sys # "up" /\ sys' = "up"
    BY <1>1, <1>4 DEF recover_clear, DataInv, RecoveryInv
  <2>2. Recovered = home
    BY <1>1, <2>1, RecoveredInstalled
  <2>3. Recovered' = home
    BY <1>1, <2>1, SMTT(60) DEF Recovered, TypeOK, Logged
  <2>4. MemBar' = MemBar
    BY <2>1, <2>2 DEF MemBar
  <2>5. QED
    BY <1>1, <2>2, <2>3, <2>4, Invisible
<1>5. QED
  BY <1>2, <1>3, <1>4 DEF Recover

\* A crash returns to what recovery would show, whatever block it tears: a
\* home block is listed in the header while it is overwritten, a log block is
\* not.
LEMMA RefineCrash ==
  ASSUME IInv, IInv', Crash
  PROVE  AD!Crash
<1>1. TypeOK /\ TypeOK' /\ ControlInv /\ DataInv
  BY DEF IInv
<1>2. head' = head /\ sys' = "boot" /\ pc' = [p \in Procs |-> "idle"]
  BY DEF Crash
<1>3. Recovered' = Recovered
  <2>1. CASE UNCHANGED <<home, logd>>
    BY <1>2, <2>1, RecoveredSame
  <2>2. CASE /\ Installing /\ UNCHANGED logd
             /\ \E v \in Values : home' = [home EXCEPT ![lh[tail + 1]] = v]
    <3>1. lh = head /\ tail + 1 \in 1..Len(lh)
      BY <1>1, <2>2, SMTT(60) DEF Installing, DataInv, RecoveryInv, CommitInv, TypeOK
    <3>2. lh[tail + 1] \in Logged(head)
      BY <3>1 DEF Logged
    <3>3. \A b \in Blocks : b \notin Logged(head) => home'[b] = home[b]
      BY <1>1, <2>2, <3>2 DEF TypeOK
    <3>4. QED
      BY <1>1, <1>2, <2>2, <3>3, RecoveredTorn, SMTT(60) DEF TypeOK
  <2>3. CASE WritingLog /\ UNCHANGED home
    <3>1. head = <<>>
      BY <1>1, <2>3 DEF WritingLog, DataInv, CommitInv
    <3>2. QED
      BY <1>1, <1>2, <2>3, <3>1, RecoveredTorn DEF TypeOK
  <2>4. QED
    BY <2>1, <2>2, <2>3 DEF Crash
<1>4. StBar' = [p \in Procs |-> "idle"]
  BY <1>2 DEF StBar, OpStates, CommitStates
<1>5. MemBar' = Recovered
  BY <1>2, <1>3 DEF MemBar
<1>6. QED
  BY <1>3, <1>4, <1>5 DEF AD!Crash, MemBar, StBar

-----------------------------------------------------------------------------
\* A file system mkfs made starts with an empty log.
LEMMA RefineInit == Init => AD!Init
<1> SUFFICES ASSUME Init PROVE AD!Init
  OBVIOUS
<1>1. home \in [Blocks -> Values] /\ head = <<>> /\ sys = "boot"
  BY DEF Init
<1>2. Recovered = home /\ MemBar = Recovered
  BY <1>1, SMTT(60) DEF Recovered, MemBar, Logged
<1>3. StBar = [p \in Procs |-> "idle"]
  BY DEF Init, StBar, OpStates, CommitStates
<1>4. QED
  BY <1>1, <1>2, <1>3 DEF AD!Init, MemBar, StBar

\* Every step of the log is a step of the atomic disk or invisible.
LEMMA RefineNext == IInv /\ IInv' /\ [Next]_vars => [AD!Next]_(AD!vars)
<1> SUFFICES ASSUME IInv, IInv', [Next]_vars PROVE AD!Next \/ UNCHANGED AD!vars
  OBVIOUS
<1>1. ASSUME NEW p \in Procs, begin_op(p) \/ LogWriteStep(p) \/ end_op(p)
      PROVE  AD!Next \/ UNCHANGED AD!vars
  BY <1>1, RefineBegin, RefineWrite, RefineEnd DEF AD!Next
<1>2. ASSUME NEW p \in Procs, CommitStep(p)
      PROVE  AD!Next \/ UNCHANGED AD!vars
  BY <1>2, RefineCommit DEF AD!Next
<1>3. ASSUME NEW p \in Procs, NEW b \in Blocks, NEW v \in Values, modify(p, b, v)
      PROVE  AD!Next
  BY <1>3, RefineWrite DEF AD!Next
<1>4. ASSUME Recover PROVE UNCHANGED AD!vars
  BY <1>4, RefineRecover
<1>5. ASSUME Crash PROVE AD!Next
  BY <1>5, RefineCrash DEF AD!Next
<1>6. ASSUME UNCHANGED vars PROVE UNCHANGED AD!vars
  BY <1>6, Invisible, SMTT(60)
     DEF vars, memvars, diskvars, opvars, MemBar, StBar, Recovered
<1>7. QED
  BY <1>1, <1>2, <1>3, <1>4, <1>5, <1>6 DEF Next

\* log.c makes groups of FS operations durable atomically: with any number of
\* processes and blocks, and wherever the power fails, commit() and
\* recover_from_log() behave as one atomic copy of memory to disk.
THEOREM LogRefines == Spec => RefinesAtomicDisk
<1>1. Init => AD!Init
  BY RefineInit
<1>2. IInv /\ IInv' /\ [Next]_vars => [AD!Next]_(AD!vars)
  BY RefineNext
<1>3. Spec => []IInv
  BY LogInvariant
<1>4. QED
  BY <1>1, <1>2, <1>3, PTL DEF Spec, RefinesAtomicDisk, AD!Spec
=============================================================================
