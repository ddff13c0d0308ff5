---------------------------- MODULE FileSysSteps ----------------------------
(***************************************************************************)
(* The inductive invariant of FileSys, what a step has to keep for it to   *)
(* be kept, and the steps on the file table, the steps that end a call     *)
(* and iput().  What the proofs use of finite sets is one hypothesis,      *)
(* SetFacts, which FileSysProofs discharges.                               *)
(***************************************************************************)
EXTENDS FileSys, Integers, TLAPS

USE ZenonT(60), SMTT(60)

Types == {"free", T_DIR, T_FILE, T_DEVICE}

InoZ  == 0..NInodes

FileZ == 0..NFILE

\* Calls that take a path, what sys_link() looks up second, and the labels.
PathCalls == {"open", "chdir", "link", "unlink", "link_dp"} \cup DOMAIN Creates

Putting   == {"iput", "iput_free", "iput_drop"}

HasDp     == {"create", "unlink", "link_dp", "unlink_ip", "unlink_bad", "ialloc",
              "create_new", "link_exists"}

HasIp     == {"namex", "open", "chdir", "link", "unlink_ip", "unlink_dec", "create_new",
              "created", "create_found"}

HasSrc    == {"link_dp", "link_exists", "link_bad"}

Labels    == {"idle", "fileio", "pipe_wf", "pipe_fds", "pipe_bad"}
               \cup Putting \cup HasDp \cup HasIp \cup HasSrc

Local == [pc : Labels, sys : PathCalls \cup {"none"}, path : Seq(Entries),
          new : Seq(Entries \cup {"/"}),
          name : Entries, dp : InoZ, ip : InoZ, src : InoZ, f : InoZ,
          rf : FileZ, wf : FileZ, puts : Seq(Inums), then : Labels]

DirEntries == [Entries -> InoZ]

Dinode == [type : Types, nlink : Int]

Slot   == [ref : Nat, valid : BOOLEAN, type : Types \cup {"none"}, nlink : Int]

File   == [ref : Nat, ip : InoZ]

TypeOK ==
  /\ dinode \in [Inums -> Dinode]
  /\ ents \in [Inums -> DirEntries]
  /\ icache \in [Inums -> Slot]
  /\ lock \in [Inums -> Procs \cup {None}]
  /\ ftable \in [1..NFILE -> File]
  /\ ofile \in [Procs -> [1..NOFILE -> FileZ]]
  /\ cwd \in [Procs -> Inums]
  /\ l \in [Procs -> Local]

\* Where a call is, or will be when its iput() calls are done.
Loc(r) == IF r.pc \in Putting THEN r.then ELSE r.pc

\* Which local variables are set where.
ShapeOf(r) ==
  LET k == Loc(r) IN
  /\ k \notin Putting
  /\ r.dp # 0 <=> k \in HasDp
  /\ r.ip # 0 <=> k \in HasIp
  /\ r.src # 0 <=> k \in HasSrc \/ (k = "namex" /\ r.sys = "link_dp")
  /\ k \in {"ialloc", "fileio"} => r.f # 0
  /\ IF r.pc \in Putting
     THEN Len(r.puts) \in 1..2 /\ k \notin {"unlink_ip", "ialloc", "create_new"}
     ELSE r.puts = <<>>
  /\ k = "namex" => r.sys \in PathCalls /\ r.path # <<>>
  /\ k \in {"create", "ialloc", "create_new", "created", "create_found"} => r.sys \in DOMAIN Creates
  /\ k = "link" \/ (k = "namex" /\ r.sys = "link") => r.new \in NewPaths
  /\ r.rf # 0 <=> k \in {"pipe_wf", "pipe_fds", "pipe_bad"}
  /\ r.wf # 0 => k \in {"pipe_fds", "pipe_bad"}
  /\ k = "pipe_fds" => r.wf # 0

Shape == \A p \in Procs : ShapeOf(l[p])

\* The locks a call has between its steps: on dp, on ip, and in iput().
LocksDp == {"unlink_ip", "unlink_bad", "ialloc", "create_new", "link_exists"}

LocksIp == {"unlink_dec", "created"}

Keeps(r, i) == \/ Loc(r) \in LocksDp /\ r.dp = i
               \/ Loc(r) \in LocksIp /\ r.ip = i

Holds(r, i) == \/ Keeps(r, i)
               \/ r.pc = "iput_free" /\ r.puts[1] = i

LockInv ==
  /\ \A i \in Inums, p \in Procs : lock[i] = p <=> Holds(l[p], i)
  /\ \A p \in Procs : l[p].pc = "iput_free" => ~Keeps(l[p], l[p].puts[1])

\* A struct file that nobody has open is of no inode, nor is one of a new pipe.
FileInv ==
  /\ \A f \in 1..NFILE : ftable[f].ref = 0 => ftable[f].ip = 0
  /\ \A p \in Procs : /\ l[p].rf # 0 => ftable[l[p].rf].ip = 0
                      /\ l[p].wf # 0 => ftable[l[p].wf].ip = 0

\* A valid slot has the inode's type, and the inode is not free.
CacheInv ==
  \A i \in Inums : icache[i].valid =>
    icache[i].type = dinode[i].type /\ dinode[i].type # "free"

\* What a call has checked under ip->lock stays so while it has its reference:
\* dp is a directory, the inode sys_link() links to is none, a locked ip is valid.
Checked ==
  \A p \in Procs :
    /\ l[p].dp # 0 => icache[l[p].dp].valid /\ dinode[l[p].dp].type = T_DIR
    /\ l[p].src # 0 => icache[l[p].src].valid /\ dinode[l[p].src].type # T_DIR
    /\ Loc(l[p]) \in LocksIp => icache[l[p].ip].valid
    /\ l[p].pc = "iput_free" =>
         \A q \in Procs : l[q].dp # l[p].puts[1] /\ l[q].src # l[p].puts[1]

\* Only directories have entries with names.
NamesInv ==
  \A i \in Inums : dinode[i].type # T_DIR => \A x \in Names : ents[i][x] = 0

\* The entry sys_unlink() found stays while it has dp locked.
UnlinkInv ==
  \A p \in Procs : l[p].pc = "unlink_ip" =>
    l[p].name \in Names /\ ents[l[p].dp][l[p].name] = l[p].ip

\* i is in directory d, or create() is about to put it there.
Edge(d, i) ==
  \/ \E x \in Names : ents[d][x] = i
  \/ \E p \in Procs : /\ l[p].dp = d
                      /\ \/ l[p].pc = "ialloc" /\ l[p].f = i
                         \/ l[p].pc = "create_new" /\ l[p].ip = i

\* Names form no circle: in any set of inodes there is one with no entry for
\* another.
Acyclic == \A D \in (SUBSET Inums) \ {{}} : \E d \in D : \A i \in D : ~Edge(d, i)

IInv == /\ TypeOK /\ Shape /\ RefsExact /\ LockInv /\ FileInv /\ CacheInv /\ Checked
        /\ NamesInv /\ UnlinkInv /\ Acyclic

-----------------------------------------------------------------------------
\* Counting.

\* A reference added and dropped.
LEMMA PlusMinus == \A a, m \in Nat : a = a + m - m
  BY SMTT(60)

B(x) == IF x THEN 1 ELSE 0

\* Finite sets, their cardinality and the least element of a set of numbers.
SetFacts ==
  /\ \A S, T : IsFiniteSet(S) /\ T \subseteq S => IsFiniteSet(T)
  /\ \A S, a : IsFiniteSet(S) =>
       /\ Cardinality(S) \in Nat
       /\ Cardinality(S) = Cardinality(S \ {a}) + IF a \in S THEN 1 ELSE 0
  /\ IsFiniteSet(1..NFILE) /\ IsFiniteSet(1..NOFILE) /\ IsFiniteSet(Procs \X (1..NOFILE))
  /\ Cardinality({}) = 0
  /\ \A S : S \subseteq Nat /\ S # {} => First(S) \in S

\* The references to inode i that a call with local variables r has, with c for
\* the current directory of its process.
Mine(r, c, i) ==
  B(c = i) + B(r.dp = i) + B(r.ip = i) + B(r.src = i)
  + B(Len(r.puts) >= 1 /\ r.puts[1] = i) + B(Len(r.puts) >= 2 /\ r.puts[2] = i)

\* A set without one element.
LEMMA Remove ==
  ASSUME SetFacts, NEW S, NEW a, IsFiniteSet(S)
  PROVE /\ IsFiniteSet(S \ {a})
        /\ Cardinality(S) \in Nat /\ Cardinality(S \ {a}) \in Nat
        /\ Cardinality(S) = Cardinality(S \ {a}) + B(a \in S)
<1>1. IsFiniteSet(S \ {a})
  <2>1. S \ {a} \subseteq S
    OBVIOUS
  <2>. QED
    BY <2>1 DEF SetFacts
<1>2. Cardinality(S) \in Nat /\ Cardinality(S \ {a}) \in Nat
  BY <1>1 DEF SetFacts
<1>3. Cardinality(S) = Cardinality(S \ {a}) + IF a \in S THEN 1 ELSE 0
  BY DEF SetFacts
<1>. QED
  BY <1>1, <1>2, <1>3 DEF B

\* A set that changes in one element.
LEMMA Change ==
  ASSUME SetFacts, NEW S, NEW T, NEW a, IsFiniteSet(S), IsFiniteSet(T), S \ {a} = T \ {a}
  PROVE /\ Cardinality(S) \in Nat /\ Cardinality(T) \in Nat
        /\ Cardinality(T) = Cardinality(S) + B(a \in T) - B(a \in S)
<1>1. /\ Cardinality(S) \in Nat /\ Cardinality(S \ {a}) \in Nat
      /\ Cardinality(S) = Cardinality(S \ {a}) + B(a \in S)
  BY Remove
<1>2. /\ Cardinality(T) \in Nat
      /\ Cardinality(T) = Cardinality(S \ {a}) + B(a \in T)
  <2>1. /\ Cardinality(T) \in Nat
        /\ Cardinality(T) = Cardinality(T \ {a}) + B(a \in T)
    BY Remove
  <2>. QED
    BY <2>1
<1>. QED
  BY <1>1, <1>2, SMTT(60) DEF B

\* What a step of p leaves alone of the others.
Frame(p) == \A q \in Procs \ {p} : l'[q] = l[q] /\ cwd'[q] = cwd[q]

InodeRefs == \A i \in Inums : icache[i].ref = Pointers(i)

FileRefs  == \A f \in 1..NFILE : ftable[f].ref = FilePointers(f)

\* The constants; 0 is neither an inode nor a struct file.
LEMMA ConstFacts ==
  /\ NInodes \in Nat /\ NInodes >= 1 /\ NFILE \in Nat /\ NFILE >= 1
  /\ NOFILE \in Nat /\ NOFILE >= 1
  /\ IsFiniteSet(Procs)
  /\ None \notin Procs /\ 0 \notin Inums /\ ROOTINO \in Inums /\ Inums \subseteq InoZ
  /\ InoZ = Inums \cup {0} /\ FileZ = (1..NFILE) \cup {0} /\ 0 \notin 1..NFILE
<1>1. /\ NInodes \in Nat /\ NInodes >= 1 /\ NFILE \in Nat /\ NFILE >= 1
      /\ NOFILE \in Nat /\ NOFILE >= 1 /\ IsFiniteSet(Procs) /\ None \notin Procs
  BY FileSysAssumption, SMTT(60)
<1>. QED
  BY <1>1, SMTT(60) DEF Inums, InoZ, FileZ, ROOTINO

\* Calls that wait for each other's inode locks would be inodes in each other's
\* directories.
LEMMA LocksFollowNames ==
  ASSUME IInv
  PROVE NoLockCycle
<1>1. SUFFICES ASSUME NEW S \in (SUBSET Procs) \ {{}},
                      \A p \in S : l[p].pc \in WillLock /\ lock[Target(p)] \in S
               PROVE FALSE
  BY DEF NoLockCycle
<1>2. TypeOK /\ LockInv /\ Shape /\ UnlinkInv /\ Acyclic
  BY DEF IInv
<1>3. ASSUME NEW p \in S
      PROVE Target(p) \in Inums
  <2>1. l[p] \in Local /\ ShapeOf(l[p]) /\ l[p].pc \in WillLock
    BY <1>1, <1>2 DEF TypeOK, Shape
  <2>2. /\ l[p].dp \in InoZ /\ l[p].ip \in InoZ /\ l[p].src \in InoZ /\ l[p].f \in InoZ
    BY <2>1 DEF Local
  <2>3. Loc(l[p]) = l[p].pc
    BY <2>1 DEF Loc, Putting, WillLock
  <2>4. /\ l[p].pc \in {"unlink", "create", "link_dp"} => l[p].dp # 0
        /\ l[p].pc = "link_bad" => l[p].src # 0
        /\ l[p].pc = "fileio" => l[p].f # 0
        /\ l[p].pc \notin {"unlink", "create", "link_dp", "link_bad", "fileio"} => l[p].ip # 0
    BY <2>1, <2>3 DEF ShapeOf, WillLock, HasDp, HasIp, HasSrc
  <2>5. Target(p) \in InoZ /\ Target(p) # 0
    BY <2>2, <2>4 DEF Target
  <2>. QED
    BY <2>5, ConstFacts
<1>4. ASSUME NEW q \in S, NEW i \in Inums, lock[i] = q
      PROVE /\ l[q].pc \in {"unlink_ip", "create_new"} /\ l[q].dp = i
            /\ Target(q) = l[q].ip
  <2>1. Holds(l[q], i) /\ l[q].pc \in WillLock
    BY <1>1, <1>2, <1>4 DEF LockInv
  <2>2. l[q].pc \in {"unlink_ip", "create_new"} /\ l[q].dp = i
    BY <2>1 DEF Holds, Keeps, Loc, Putting, WillLock, LocksDp, LocksIp
  <2>3. l[q].pc \notin {"unlink", "create", "link_dp", "link_bad", "fileio"}
    BY <2>2
  <2>. QED
    BY <2>2, <2>3 DEF Target
<1>5. PICK D : D = {Target(p) : p \in S}
  OBVIOUS
<1>6. D \in (SUBSET Inums) \ {{}}
  BY <1>1, <1>3, <1>5
<1>7. PICK d \in D : \A i \in D : ~Edge(d, i)
  BY <1>2, <1>6 DEF Acyclic
<1>8. PICK p \in S : d = Target(p)
  BY <1>5, <1>7
<1>9. PICK q \in S : lock[d] = q
  BY <1>1, <1>8
<1>10. d \in Inums
  BY <1>3, <1>8
<1>11. l[q].pc \in {"unlink_ip", "create_new"} /\ l[q].dp = d /\ Target(q) = l[q].ip
  BY <1>4, <1>9, <1>10
<1>12. Edge(d, l[q].ip)
  <2>1. q \in Procs
    BY <1>1
  <2>2. CASE l[q].pc = "unlink_ip"
    BY <1>2, <1>11, <2>1, <2>2 DEF UnlinkInv, Edge
  <2>3. CASE l[q].pc = "create_new"
    BY <1>11, <2>1, <2>3 DEF Edge
  <2>. QED
    BY <1>11, <2>2, <2>3
<1>13. l[q].ip \in D
  BY <1>5, <1>11
<1>. QED
  BY <1>7, <1>12, <1>13

\* The places a pointer to inode i may be in.
InCwd(i)  == {p \in Procs : cwd[p] = i}

InFile(i) == {f \in DOMAIN ftable : ftable[f].ref > 0 /\ ftable[f].ip = i}

InDp(i)   == {p \in Procs : l[p].dp = i}

InIp(i)   == {p \in Procs : l[p].ip = i}

InSrc(i)  == {p \in Procs : l[p].src = i}

InPut1(i) == {p \in Procs : Len(l[p].puts) >= 1 /\ l[p].puts[1] = i}

InPut2(i) == {p \in Procs : Len(l[p].puts) >= 2 /\ l[p].puts[2] = i}

\* The descriptors that refer to struct file g, and the calls that have it as rf
\* or as wf.
Fds(o, g) == {pd \in Procs \X (1..NOFILE) : o[pd[1]][pd[2]] = g}

InRf(g) == {p \in Procs : l[p].rf = g}

InWf(g) == {p \in Procs : l[p].wf = g}

\* The pointers to an inode change by what the process that takes a step, and
\* the struct file it changes, have more of them.
LEMMA PointersStep ==
  ASSUME SetFacts, TypeOK, TypeOK', NEW p \in Procs, Frame(p), NEW f \in 1..NFILE,
         \A g \in 1..NFILE : g # f => ftable'[g] = ftable[g],
         NEW i \in Inums
  PROVE /\ Pointers(i) \in Nat /\ Pointers(i)' \in Nat
        /\ Pointers(i)' = Pointers(i) + Mine(l'[p], cwd'[p], i) - Mine(l[p], cwd[p], i)
             + B(ftable'[f].ref > 0 /\ ftable'[f].ip = i)
             - B(ftable[f].ref > 0 /\ ftable[f].ip = i)
<1>1. DOMAIN ftable = 1..NFILE /\ DOMAIN ftable' = 1..NFILE
  BY DEF TypeOK
<1>2. PICK C, C1 : C = InCwd(i) /\ C1 = InCwd(i)'
  OBVIOUS
<1>3. PICK F, F1 : F = InFile(i) /\ F1 = InFile(i)'
  OBVIOUS
<1>4. PICK D, D1 : D = InDp(i) /\ D1 = InDp(i)'
  OBVIOUS
<1>5. PICK I, I1 : I = InIp(i) /\ I1 = InIp(i)'
  OBVIOUS
<1>6. PICK S, S1 : S = InSrc(i) /\ S1 = InSrc(i)'
  OBVIOUS
<1>7. PICK P, P1 : P = InPut1(i) /\ P1 = InPut1(i)'
  OBVIOUS
<1>8. PICK Q, Q1 : Q = InPut2(i) /\ Q1 = InPut2(i)'
  OBVIOUS
<1>9. /\ C \subseteq Procs /\ D \subseteq Procs /\ I \subseteq Procs
      /\ S \subseteq Procs /\ P \subseteq Procs /\ Q \subseteq Procs
      /\ F \subseteq 1..NFILE /\ F1 \subseteq 1..NFILE
  BY <1>1, <1>2, <1>3, <1>4, <1>5, <1>6, <1>7, <1>8
  DEF InCwd, InDp, InIp, InSrc, InPut1, InPut2, InFile
<1>10. /\ C1 \subseteq Procs /\ D1 \subseteq Procs /\ I1 \subseteq Procs
       /\ S1 \subseteq Procs /\ P1 \subseteq Procs /\ Q1 \subseteq Procs
  BY <1>2, <1>4, <1>5, <1>6, <1>7, <1>8
  DEF InCwd, InDp, InIp, InSrc, InPut1, InPut2
<1>11. /\ IsFiniteSet(C) /\ IsFiniteSet(F) /\ IsFiniteSet(D) /\ IsFiniteSet(I)
       /\ IsFiniteSet(S) /\ IsFiniteSet(P) /\ IsFiniteSet(Q)
       /\ IsFiniteSet(C1) /\ IsFiniteSet(F1) /\ IsFiniteSet(D1) /\ IsFiniteSet(I1)
       /\ IsFiniteSet(S1) /\ IsFiniteSet(P1) /\ IsFiniteSet(Q1)
  BY <1>9, <1>10, ConstFacts DEF SetFacts
<1>12. C \ {p} = C1 \ {p}
  BY <1>2 DEF InCwd, Frame
<1>13. D \ {p} = D1 \ {p}
  BY <1>4 DEF InDp, Frame
<1>14. I \ {p} = I1 \ {p}
  BY <1>5 DEF InIp, Frame
<1>15. S \ {p} = S1 \ {p}
  BY <1>6 DEF InSrc, Frame
<1>16. P \ {p} = P1 \ {p}
  BY <1>7 DEF InPut1, Frame
<1>17. Q \ {p} = Q1 \ {p}
  BY <1>8 DEF InPut2, Frame
<1>18. F \ {f} = F1 \ {f}
  BY <1>1, <1>3 DEF InFile
<1>19. /\ Cardinality(C) \in Nat /\ Cardinality(C1) \in Nat
       /\ Cardinality(C1) = Cardinality(C) + B(p \in C1) - B(p \in C)
  BY <1>11, <1>12, Change
<1>20. /\ Cardinality(D) \in Nat /\ Cardinality(D1) \in Nat
       /\ Cardinality(D1) = Cardinality(D) + B(p \in D1) - B(p \in D)
  BY <1>11, <1>13, Change
<1>21. /\ Cardinality(I) \in Nat /\ Cardinality(I1) \in Nat
       /\ Cardinality(I1) = Cardinality(I) + B(p \in I1) - B(p \in I)
  BY <1>11, <1>14, Change
<1>22. /\ Cardinality(S) \in Nat /\ Cardinality(S1) \in Nat
       /\ Cardinality(S1) = Cardinality(S) + B(p \in S1) - B(p \in S)
  BY <1>11, <1>15, Change
<1>23. /\ Cardinality(P) \in Nat /\ Cardinality(P1) \in Nat
       /\ Cardinality(P1) = Cardinality(P) + B(p \in P1) - B(p \in P)
  BY <1>11, <1>16, Change
<1>24. /\ Cardinality(Q) \in Nat /\ Cardinality(Q1) \in Nat
       /\ Cardinality(Q1) = Cardinality(Q) + B(p \in Q1) - B(p \in Q)
  BY <1>11, <1>17, Change
<1>25. /\ Cardinality(F) \in Nat /\ Cardinality(F1) \in Nat
       /\ Cardinality(F1) = Cardinality(F) + B(f \in F1) - B(f \in F)
  BY <1>11, <1>18, Change
<1>26. Pointers(i) = Cardinality(C) + Cardinality(F) + Cardinality(D) + Cardinality(I)
                     + Cardinality(S) + Cardinality(P) + Cardinality(Q)
  BY <1>2, <1>3, <1>4, <1>5, <1>6, <1>7, <1>8
  DEF Pointers, InCwd, InDp, InIp, InSrc, InPut1, InPut2, InFile
<1>27. Pointers(i)' = Cardinality(C1) + Cardinality(F1) + Cardinality(D1) + Cardinality(I1)
                      + Cardinality(S1) + Cardinality(P1) + Cardinality(Q1)
  BY <1>2, <1>3, <1>4, <1>5, <1>6, <1>7, <1>8
  DEF Pointers, InCwd, InDp, InIp, InSrc, InPut1, InPut2, InFile
<1>28. Mine(l[p], cwd[p], i) = B(p \in C) + B(p \in D) + B(p \in I) + B(p \in S)
                               + B(p \in P) + B(p \in Q)
  BY <1>2, <1>4, <1>5, <1>6, <1>7, <1>8
  DEF Mine, B, InCwd, InDp, InIp, InSrc, InPut1, InPut2
<1>29. Mine(l'[p], cwd'[p], i) = B(p \in C1) + B(p \in D1) + B(p \in I1) + B(p \in S1)
                                 + B(p \in P1) + B(p \in Q1)
  BY <1>2, <1>4, <1>5, <1>6, <1>7, <1>8
  DEF Mine, B, InCwd, InDp, InIp, InSrc, InPut1, InPut2
<1>30. /\ B(f \in F) = B(ftable[f].ref > 0 /\ ftable[f].ip = i)
       /\ B(f \in F1) = B(ftable'[f].ref > 0 /\ ftable'[f].ip = i)
  BY <1>1, <1>3 DEF B, InFile
<1>31. /\ B(p \in C) \in Int /\ B(p \in D) \in Int /\ B(p \in I) \in Int
       /\ B(p \in S) \in Int /\ B(p \in P) \in Int /\ B(p \in Q) \in Int
       /\ B(p \in C1) \in Int /\ B(p \in D1) \in Int /\ B(p \in I1) \in Int
       /\ B(p \in S1) \in Int /\ B(p \in P1) \in Int /\ B(p \in Q1) \in Int
       /\ B(f \in F) \in Int /\ B(f \in F1) \in Int
  BY SMTT(60) DEF B
<1>32. Pointers(i) \in Nat /\ Pointers(i)' \in Nat
  BY <1>19, <1>20, <1>21, <1>22, <1>23, <1>24, <1>25, <1>26, <1>27, SMTT(60)
<1>33. Pointers(i)' = Pointers(i) + Mine(l'[p], cwd'[p], i) - Mine(l[p], cwd[p], i)
                      + B(f \in F1) - B(f \in F)
  BY <1>19, <1>20, <1>21, <1>22, <1>23, <1>24, <1>25, <1>26, <1>27, <1>28, <1>29, <1>31, SMTT(60)
<1>. QED
  BY <1>30, <1>32, <1>33

-----------------------------------------------------------------------------
\* The inode cache.

\* Cache c agrees with the disk on what it has valid.
CacheOK(c) ==
  /\ c \in [Inums -> Slot]
  /\ \A i \in Inums : c[i].valid => c[i].type = dinode[i].type /\ dinode[i].type # "free"

\* ilock() leaves the slot valid.
LEMMA LoadedFacts ==
  ASSUME TypeOK, CacheInv, NEW i \in Inums, CanLock(i)
  PROVE /\ CacheOK(Loaded(icache, i)) /\ Loaded(icache, i)[i].valid
        /\ Loaded(icache, i)[i].type = dinode[i].type /\ dinode[i].type # "free"
        /\ \A j \in Inums : Loaded(icache, i)[j].ref = icache[j].ref
        /\ \A j \in Inums : icache[j].valid => Loaded(icache, i)[j].valid
  BY DEF TypeOK, CacheInv, CacheOK, CanLock, Loaded, Slot, Dinode

\* A change of nlink changes nothing else.
LEMMA SetLinksFacts ==
  ASSUME NEW c, CacheOK(c), NEW i \in Inums, NEW n \in Int
  PROVE /\ CacheOK(SetLinks(c, i, n))
        /\ \A j \in Inums : /\ SetLinks(c, i, n)[j].ref = c[j].ref
                            /\ SetLinks(c, i, n)[j].valid = c[j].valid
                            /\ SetLinks(c, i, n)[j].type = c[j].type
  BY DEF CacheOK, SetLinks, Slot

-----------------------------------------------------------------------------
\* What a step has to keep, for the invariant to be kept.

\* icache.ref follows the references of p.
Counted(p) ==
  \A i \in Inums : icache'[i].ref = icache[i].ref + Mine(l'[p], cwd'[p], i)
                                    - Mine(l[p], cwd[p], i)

\* Slots in use stay valid, inodes in use keep their type.
Stays ==
  /\ \A i \in Inums : icache[i].valid /\ icache[i].ref > 0 /\ icache'[i].ref > 0
                        => icache'[i].valid
  /\ \A i \in Inums : dinode[i].type # "free" => dinode'[i].type = dinode[i].type

\* p takes and gives up locks of its own only, those of the label it is then at.
Locked(p) ==
  /\ \A i \in Inums : \/ lock'[i] = lock[i]
                      \/ lock[i] \in {p, None} /\ lock'[i] \in {p, None}
  /\ \A i \in Inums : lock'[i] = p <=> Holds(l'[p], i)
  /\ l'[p].pc = "iput_free" => /\ ~Keeps(l'[p], l'[p].puts[1])
                               /\ icache'[l'[p].puts[1]].ref = 1

\* What p refers to as dp, src or a locked ip it had before or has just checked.
Looked(p) ==
  /\ \/ l'[p].dp \in {0, l[p].dp}
     \/ /\ lock[l'[p].dp] = None /\ icache'[l'[p].dp].valid
        /\ dinode'[l'[p].dp].type = T_DIR
  /\ \/ l'[p].src \in {0, l[p].src}
     \/ /\ lock[l'[p].src] = None /\ icache'[l'[p].src].valid
        /\ dinode'[l'[p].src].type # T_DIR
  /\ Loc(l'[p]) \in LocksIp => icache'[l'[p].ip].valid

\* ip->ref stays exact when a step changes it by the references its call gains and
\* loses.
LEMMA CountedRefs ==
  ASSUME SetFacts, TypeOK, TypeOK', InodeRefs, NEW p \in Procs, Frame(p), UNCHANGED ftable,
         Counted(p)
  PROVE InodeRefs'
<1>1. 1 \in 1..NFILE /\ \A g \in 1..NFILE : g # 1 => ftable'[g] = ftable[g]
  BY ConstFacts, SMTT(60)
<1>2. SUFFICES ASSUME NEW i \in Inums
               PROVE icache'[i].ref = Pointers(i)'
  BY DEF InodeRefs
<1>3. /\ Pointers(i) \in Nat /\ Pointers(i)' \in Nat
      /\ Pointers(i)' = Pointers(i) + Mine(l'[p], cwd'[p], i) - Mine(l[p], cwd[p], i)
             + B(ftable'[1].ref > 0 /\ ftable'[1].ip = i)
             - B(ftable[1].ref > 0 /\ ftable[1].ip = i)
  BY <1>1, PointersStep
<1>4. Mine(l'[p], cwd'[p], i) \in Int /\ Mine(l[p], cwd[p], i) \in Int
  BY SMTT(60) DEF Mine, B
<1>. QED
  BY <1>3, <1>4, SMTT(60) DEF Counted, InodeRefs, B

\* A step that leaves the file table and the descriptors alone keeps f->ref exact.
LEMMA FilesCalm ==
  ASSUME TypeOK, TypeOK', FileRefs, FileInv, NEW p \in Procs, Frame(p),
         UNCHANGED <<ftable, ofile>>, l'[p].rf = l[p].rf, l'[p].wf = l[p].wf
  PROVE FileRefs' /\ FileInv'
<1>1. \A q \in Procs : l'[q].rf = l[q].rf /\ l'[q].wf = l[q].wf
  BY DEF Frame
<1>2. \A f \in 1..NFILE : FilePointers(f)' = FilePointers(f)
  BY <1>1 DEF FilePointers
<1>. QED
  BY <1>1, <1>2 DEF FileRefs, FileInv

\* RefsExact is about the inode cache and about the file table.
LEMMA RefsSplit == TypeOK => (RefsExact <=> InodeRefs /\ FileRefs)
  BY DEF TypeOK, RefsExact, InodeRefs, FileRefs

\* A step that accounts for the locks of its own process keeps LockInv.
LEMMA LockStep ==
  ASSUME TypeOK, TypeOK', LockInv, NEW p \in Procs, Frame(p), Locked(p)
  PROVE LockInv'
<1>1. ASSUME NEW i \in Inums, NEW q \in Procs
      PROVE (lock[i] = q)' <=> Holds(l'[q], i)
  <2>1. CASE q = p
    BY <2>1 DEF Locked
  <2>2. CASE q # p
    <3>1. l'[q] = l[q] /\ (lock[i] = q <=> Holds(l[q], i))
      BY <2>2 DEF Frame, LockInv
    <3>2. lock'[i] = q <=> lock[i] = q
      BY <2>2, ConstFacts, SMTT(60) DEF Locked
    <3>. QED
      BY <3>1, <3>2
  <2>. QED
    BY <2>1, <2>2
<1>2. ASSUME NEW q \in Procs, l'[q].pc = "iput_free"
      PROVE ~Keeps(l'[q], l'[q].puts[1])
  BY <1>2 DEF Frame, LockInv, Locked
<1>. QED
  BY <1>1, <1>2 DEF LockInv

\* Every reference is counted.
AllCounted ==
  \A p \in Procs, i \in Inums :
    /\ Mine(l[p], cwd[p], i) <= icache[i].ref
    /\ \A q \in Procs : q # p => Mine(l[p], cwd[p], i) + Mine(l[q], cwd[q], i) <= icache[i].ref

\* With exact counts, one call's references to an inode, or two calls' together, are
\* no more than ip->ref.
LEMMA RefsCounted == SetFacts /\ TypeOK /\ RefsExact => AllCounted
\* Two elements of a set are two.
<1>AtLeast.
  ASSUME SetFacts, NEW S, NEW a, NEW b, IsFiniteSet(S), a # b
  PROVE /\ Cardinality(S) \in Nat
        /\ B(a \in S) + B(b \in S) <= Cardinality(S)
        /\ B(a \in S) <= Cardinality(S)
  <2>. USE <1>AtLeast
  <2>1. PICK T : T = S \ {a}
    OBVIOUS
  <2>2. /\ IsFiniteSet(T) /\ Cardinality(S) \in Nat
        /\ Cardinality(S) = Cardinality(T) + B(a \in S)
    BY <2>1, Remove
  <2>3. /\ Cardinality(T) \in Nat /\ Cardinality(T \ {b}) \in Nat
        /\ Cardinality(T) = Cardinality(T \ {b}) + B(b \in T)
    BY <2>2, Remove
  <2>4. B(b \in T) = B(b \in S)
    BY <2>1, SMTT(60)
  <2>. QED
    BY <2>2, <2>3, <2>4, SMTT(60) DEF B

\* The places of pointers to an inode are finite sets.
<1>FinitePlaces.
  ASSUME SetFacts, TypeOK, NEW i
  PROVE /\ IsFiniteSet(InCwd(i)) /\ IsFiniteSet(InFile(i)) /\ IsFiniteSet(InDp(i))
        /\ IsFiniteSet(InIp(i)) /\ IsFiniteSet(InSrc(i)) /\ IsFiniteSet(InPut1(i))
        /\ IsFiniteSet(InPut2(i))
  <2>. USE <1>FinitePlaces
  <2>1. DOMAIN ftable = 1..NFILE
    BY DEF TypeOK
  <2>2. /\ InCwd(i) \subseteq Procs /\ InDp(i) \subseteq Procs /\ InIp(i) \subseteq Procs
        /\ InSrc(i) \subseteq Procs /\ InPut1(i) \subseteq Procs /\ InPut2(i) \subseteq Procs
        /\ InFile(i) \subseteq 1..NFILE
    BY <2>1 DEF InCwd, InDp, InIp, InSrc, InPut1, InPut2, InFile
  <2>. QED
    BY <2>2, ConstFacts DEF SetFacts

\* Two processes that both refer to an inode are two references to it.
<1>PointersAtLeast.
  ASSUME SetFacts, TypeOK, NEW p \in Procs, NEW i \in Inums
  PROVE /\ Pointers(i) \in Nat /\ Mine(l[p], cwd[p], i) \in Nat
        /\ Mine(l[p], cwd[p], i) <= Pointers(i)
        /\ \A q \in Procs \ {p} :
             Mine(l[p], cwd[p], i) + Mine(l[q], cwd[q], i) <= Pointers(i)
  <2>. USE <1>PointersAtLeast
  <2>1. ASSUME NEW q, q # p
        PROVE /\ Pointers(i) \in Nat
              /\ Pointers(i) >= B(p \in InCwd(i)) + B(p \in InDp(i)) + B(p \in InIp(i))
                     + B(p \in InSrc(i)) + B(p \in InPut1(i)) + B(p \in InPut2(i))
                     + (B(q \in InCwd(i)) + B(q \in InDp(i)) + B(q \in InIp(i))
                     + B(q \in InSrc(i)) + B(q \in InPut1(i)) + B(q \in InPut2(i)))
    <3>1. /\ Cardinality(InCwd(i)) \in Nat
          /\ B(p \in InCwd(i)) + B(q \in InCwd(i)) <= Cardinality(InCwd(i))
      BY <2>1, <1>FinitePlaces, <1>AtLeast
    <3>2. /\ Cardinality(InDp(i)) \in Nat
          /\ B(p \in InDp(i)) + B(q \in InDp(i)) <= Cardinality(InDp(i))
      BY <2>1, <1>FinitePlaces, <1>AtLeast
    <3>3. /\ Cardinality(InIp(i)) \in Nat
          /\ B(p \in InIp(i)) + B(q \in InIp(i)) <= Cardinality(InIp(i))
      BY <2>1, <1>FinitePlaces, <1>AtLeast
    <3>4. /\ Cardinality(InSrc(i)) \in Nat
          /\ B(p \in InSrc(i)) + B(q \in InSrc(i)) <= Cardinality(InSrc(i))
      BY <2>1, <1>FinitePlaces, <1>AtLeast
    <3>5. /\ Cardinality(InPut1(i)) \in Nat
          /\ B(p \in InPut1(i)) + B(q \in InPut1(i)) <= Cardinality(InPut1(i))
      BY <2>1, <1>FinitePlaces, <1>AtLeast
    <3>6. /\ Cardinality(InPut2(i)) \in Nat
          /\ B(p \in InPut2(i)) + B(q \in InPut2(i)) <= Cardinality(InPut2(i))
      BY <2>1, <1>FinitePlaces, <1>AtLeast
    <3>7. Cardinality(InFile(i)) \in Nat
      BY <1>FinitePlaces, Remove
    <3>8. Pointers(i) = Cardinality(InCwd(i)) + Cardinality(InFile(i)) + Cardinality(InDp(i))
                        + Cardinality(InIp(i)) + Cardinality(InSrc(i))
                        + Cardinality(InPut1(i)) + Cardinality(InPut2(i))
      BY DEF Pointers, InCwd, InDp, InIp, InSrc, InPut1, InPut2, InFile
    <3>. QED
      BY <3>1, <3>2, <3>3, <3>4, <3>5, <3>6, <3>7, <3>8, SMTT(60) DEF B
  <2>2. \A q \in Procs :
          Mine(l[q], cwd[q], i) = B(q \in InCwd(i)) + B(q \in InDp(i)) + B(q \in InIp(i))
            + B(q \in InSrc(i)) + B(q \in InPut1(i)) + B(q \in InPut2(i))
    BY DEF Mine, B, InCwd, InDp, InIp, InSrc, InPut1, InPut2
  <2>3. \A q : B(q \in InCwd(i)) + B(q \in InDp(i)) + B(q \in InIp(i))
                 + B(q \in InSrc(i)) + B(q \in InPut1(i)) + B(q \in InPut2(i)) \in Nat
    BY SMTT(60) DEF B
  <2>4. Pointers(i) \in Nat /\ Mine(l[p], cwd[p], i) \in Nat
    <3>1. None # p
      BY ConstFacts
    <3>2. Pointers(i) \in Nat
      BY <2>1, <3>1
    <3>. QED
      BY <3>2, <2>2, <2>3
  <2>5. Mine(l[p], cwd[p], i) <= Pointers(i)
    <3>1. /\ None # p
          /\ Pointers(i) >= Mine(l[p], cwd[p], i)
                     + (B(None \in InCwd(i)) + B(None \in InDp(i)) + B(None \in InIp(i))
                     + B(None \in InSrc(i)) + B(None \in InPut1(i)) + B(None \in InPut2(i)))
      BY <2>1, <2>2, ConstFacts
    <3>. QED
      BY <3>1, <2>3, <2>4, SMTT(60)
  <2>6. ASSUME NEW q \in Procs \ {p}
        PROVE Mine(l[p], cwd[p], i) + Mine(l[q], cwd[q], i) <= Pointers(i)
    BY <2>1, <2>2
  <2>. QED
    BY <2>4, <2>5, <2>6
<1>. SUFFICES ASSUME SetFacts, TypeOK, RefsExact
              PROVE AllCounted
  OBVIOUS
<1>1. ASSUME NEW p \in Procs, NEW i \in Inums
      PROVE /\ Mine(l[p], cwd[p], i) <= icache[i].ref
            /\ \A q \in Procs : q # p
                 => Mine(l[p], cwd[p], i) + Mine(l[q], cwd[q], i) <= icache[i].ref
  <2>1. icache[i].ref = Pointers(i)
    BY DEF RefsExact
  <2>. QED
    BY <2>1, <1>PointersAtLeast
<1>. QED
  BY <1>1 DEF AllCounted

\* The same after a step.
LEMMA RefsCountedNext == SetFacts => (TypeOK /\ RefsExact => AllCounted)'
<1>1. SetFacts => SetFacts'
  BY DEF SetFacts, First
<1>. QED
  BY <1>1, RefsCounted, PTL

\* A pointer in a local variable is a reference.
LEMMA Referred ==
  ASSUME NEW r \in Local, NEW c, NEW i
  PROVE /\ Mine(r, c, i) \in Nat
        /\ r.dp = i \/ r.ip = i \/ r.src = i \/ c = i => Mine(r, c, i) >= 1
        /\ Len(r.puts) >= 1 /\ r.puts[1] = i => Mine(r, c, i) >= 1
        /\ Len(r.puts) >= 1 /\ r.puts[1] = i /\ (r.dp = i \/ r.ip = i \/ r.src = i \/ c = i)
             => Mine(r, c, i) >= 2
  BY SMTT(60) DEF Mine, B

\* A step that leaves directories alone and is not about to change one.
LEMMA NamesCalm ==
  ASSUME SetFacts, IInv, TypeOK', NEW p \in Procs, Frame(p), ents' = ents, Stays,
         \A i \in Inums : dinode'[i].type # T_DIR => dinode[i].type # T_DIR,
         l'[p].pc \notin {"unlink_ip", "ialloc", "create_new"}
  PROVE NamesInv' /\ UnlinkInv' /\ Acyclic'
<1>1. NamesInv'
  BY DEF IInv, NamesInv
<1>2. UnlinkInv'
  BY DEF IInv, UnlinkInv, Frame
<1>3. \A d, i \in Inums : Edge(d, i)' => Edge(d, i)
  BY DEF Edge, Frame
<1>4. Acyclic'
  BY <1>3 DEF IInv, Acyclic
<1>. QED
  BY <1>1, <1>2, <1>4

\* The parts of a step.
LEMMA StepInv ==
  ASSUME SetFacts, IInv, TypeOK', NEW p \in Procs, Frame(p), ShapeOf(l'[p]),
         InodeRefs', FileRefs', FileInv', CacheInv', Locked(p), Stays, Looked(p),
         NamesInv', UnlinkInv', Acyclic'
  PROVE IInv'
<1>1. Shape'
  BY DEF IInv, Shape, Frame
<1>2. RefsExact'
  BY DEF TypeOK, RefsExact, InodeRefs, FileRefs
<1>3. LockInv'
  BY LockStep DEF IInv
\* What calls have checked under a lock stays true: their reference keeps the slot
\* valid, and iput_free() has the only reference there is.
<1>4. Checked'
  <2>. USE <1>1, <1>2, <1>3
  <2>1. TypeOK /\ Shape /\ LockInv /\ CacheInv /\ Checked /\ AllCounted /\ AllCounted'
    BY RefsCounted, RefsCountedNext DEF IInv
  <2>2. \A q \in Procs : l[q] \in Local /\ l'[q] \in Local /\ ShapeOf(l'[q]) /\ ShapeOf(l[q])
    BY <2>1 DEF TypeOK, Shape
  <2>3. \A i \in Inums : icache[i].ref \in Nat /\ icache'[i].ref \in Nat
    BY <2>1 DEF TypeOK, Slot
  <2>4. ASSUME NEW q \in Procs, NEW i \in Inums, l[q].dp = i \/ l[q].ip = i \/ l[q].src = i
        PROVE icache[i].ref > 0
    <3>1. Mine(l[q], cwd[q], i) \in Nat /\ Mine(l[q], cwd[q], i) >= 1
      BY <2>2, <2>4, Referred
    <3>2. Mine(l[q], cwd[q], i) <= icache[i].ref
      BY <2>1 DEF AllCounted
    <3>. QED
      BY <3>1, <3>2, <2>3, SMTT(60)
  <2>5. ASSUME NEW q \in Procs, NEW i \in Inums, l'[q].dp = i \/ l'[q].ip = i \/ l'[q].src = i
        PROVE icache'[i].ref > 0
    <3>1. Mine(l'[q], cwd'[q], i) \in Nat /\ Mine(l'[q], cwd'[q], i) >= 1
      BY <2>2, <2>5, Referred
    <3>2. Mine(l'[q], cwd'[q], i) <= icache'[i].ref
      BY <2>1 DEF AllCounted
    <3>. QED
      BY <3>1, <3>2, <2>3, SMTT(60)
  <2>6. \A q \in Procs : /\ l'[q].dp \in Inums \cup {0} /\ l'[q].src \in Inums \cup {0}
                         /\ l'[q].ip \in Inums \cup {0}
    BY <2>2, ConstFacts DEF Local
  <2>7. ASSUME NEW q \in Procs, l'[q].dp # 0
        PROVE icache'[l'[q].dp].valid /\ dinode'[l'[q].dp].type = T_DIR
    <3>1. CASE l'[q].dp = l[q].dp
      <4>1. icache[l[q].dp].valid /\ dinode[l[q].dp].type = T_DIR
        BY <2>1, <2>7, <3>1 DEF Checked
      <4>2. icache[l[q].dp].ref > 0 /\ icache'[l[q].dp].ref > 0 /\ l[q].dp \in Inums
        BY <2>4, <2>5, <2>6, <2>7, <3>1
      <4>. QED
        BY <4>1, <4>2, <3>1 DEF Stays, T_DIR
    <3>2. CASE l'[q].dp # l[q].dp
      BY <3>2, <2>7 DEF Frame, Looked
    <3>. QED
      BY <3>1, <3>2
  <2>8. ASSUME NEW q \in Procs, l'[q].src # 0
        PROVE icache'[l'[q].src].valid /\ dinode'[l'[q].src].type # T_DIR
    <3>1. CASE l'[q].src = l[q].src
      <4>1. icache[l[q].src].valid /\ dinode[l[q].src].type # T_DIR
        BY <2>1, <2>8, <3>1 DEF Checked
      <4>2. icache[l[q].src].ref > 0 /\ icache'[l[q].src].ref > 0 /\ l[q].src \in Inums
        BY <2>4, <2>5, <2>6, <2>8, <3>1
      <4>3. dinode[l[q].src].type # "free"
        BY <2>1, <4>1, <4>2 DEF CacheInv
      <4>. QED
        BY <4>1, <4>2, <4>3, <3>1 DEF Stays
    <3>2. CASE l'[q].src # l[q].src
      BY <3>2, <2>8 DEF Frame, Looked
    <3>. QED
      BY <3>1, <3>2
  <2>9. ASSUME NEW q \in Procs, Loc(l'[q]) \in LocksIp
        PROVE icache'[l'[q].ip].valid
    <3>1. CASE q = p
      BY <3>1, <2>9 DEF Looked
    <3>2. CASE q # p
      <4>1. l'[q] = l[q]
        BY <3>2 DEF Frame
      <4>2. l[q].ip # 0
        BY <2>2, <2>9, <4>1 DEF ShapeOf, LocksIp, HasIp
      <4>3. icache[l[q].ip].valid
        BY <2>1, <2>9, <4>1 DEF Checked
      <4>4. icache[l[q].ip].ref > 0 /\ icache'[l[q].ip].ref > 0 /\ l[q].ip \in Inums
        BY <2>4, <2>5, <2>6, <4>1, <4>2
      <4>. QED
        BY <4>1, <4>3, <4>4 DEF Stays
    <3>. QED
      BY <3>1, <3>2
  <2>10. ASSUME NEW q \in Procs, l'[q].pc = "iput_free", NEW o \in Procs
         PROVE l'[o].dp # l'[q].puts[1] /\ l'[o].src # l'[q].puts[1]
    <3>1. PICK i : i = l'[q].puts[1]
      OBVIOUS
    <3>2. i \in Inums /\ Len(l'[q].puts) >= 1
      <4>1. l'[q] \in Local /\ ShapeOf(l'[q])
        BY <2>2
      <4>2. Len(l'[q].puts) >= 1
        <5>1. l'[q].pc \in Putting
          BY <2>10 DEF Putting
        <5>2. Len(l'[q].puts) \in 1..2
          BY <4>1, <5>1 DEF ShapeOf
        <5>. QED
          BY <5>2, SMTT(60)
      <4>3. l'[q].puts \in Seq(Inums)
        BY <4>1 DEF Local
      <4>4. \A s \in Seq(Inums) : Len(s) >= 1 => s[1] \in Inums
        BY SMTT(60)
      <4>. QED
        BY <3>1, <4>2, <4>3, <4>4
    <3>3. CASE q = p
      <4>1. icache'[i].ref = 1
        BY <2>10, <3>1, <3>3 DEF Locked
      <4>2. Mine(l'[q], cwd'[q], i) >= 1 /\ Mine(l'[q], cwd'[q], i) \in Nat
        BY <2>2, <3>1, <3>2, Referred
      <4>3. Mine(l'[o], cwd'[o], i) \in Nat
        BY <2>2, Referred
      <4>4. CASE o = q
        <5>1. Mine(l'[q], cwd'[q], i) <= icache'[i].ref
          BY <2>1, <3>2 DEF AllCounted
        <5>2. ~(Mine(l'[q], cwd'[q], i) >= 2)
          BY <5>1, <4>1, <4>2, SMTT(60)
        <5>. QED
          BY <5>2, <2>2, <3>1, <3>2, <4>4, Referred
      <4>5. CASE o # q
        <5>1. Mine(l'[q], cwd'[q], i) + Mine(l'[o], cwd'[o], i) <= icache'[i].ref
          BY <2>1, <3>2, <4>5 DEF AllCounted
        <5>2. ~(Mine(l'[o], cwd'[o], i) >= 1)
          BY <5>1, <4>1, <4>2, <4>3, SMTT(60)
        <5>. QED
          BY <5>2, <2>2, <3>1, Referred
      <4>. QED
        BY <4>4, <4>5
    <3>4. CASE q # p
      <4>1. l'[q] = l[q]
        BY <3>4 DEF Frame
      <4>2. l[o].dp # i /\ l[o].src # i
        BY <2>1, <2>10, <3>1, <4>1 DEF Checked
      <4>3. lock[i] = q
        BY <2>1, <2>10, <3>1, <3>2, <4>1, SMTT(60) DEF LockInv, Holds
      <4>. QED
        BY <3>1, <3>2, <4>2, <4>3, ConstFacts, SMTT(60) DEF Frame, Looked
    <3>. QED
      BY <3>3, <3>4
  <2>. QED
    BY <2>7, <2>8, <2>9, <2>10 DEF Checked
<1>. QED
  BY <1>1, <1>2, <1>3, <1>4 DEF IInv

\* A step that changes neither directories nor files.
LEMMA CalmInv ==
  ASSUME SetFacts, IInv, TypeOK', NEW p \in Procs, Frame(p), ShapeOf(l'[p]),
         UNCHANGED <<ents, ftable, ofile>>, l'[p].rf = l[p].rf, l'[p].wf = l[p].wf,
         \A i \in Inums : dinode'[i].type = dinode[i].type, CacheInv',
         Counted(p), Locked(p), Stays, Looked(p),
         l'[p].pc \notin {"unlink_ip", "ialloc", "create_new"}
  PROVE IInv'
<1>1. TypeOK /\ InodeRefs /\ FileRefs /\ FileInv
  BY RefsSplit DEF IInv
<1>2. InodeRefs'
  BY <1>1, CountedRefs
<1>3. FileRefs' /\ FileInv'
  BY <1>1, FilesCalm
<1>4. NamesInv' /\ UnlinkInv' /\ Acyclic'
  BY NamesCalm
<1>. QED
  BY <1>2, <1>3, <1>4, StepInv

-----------------------------------------------------------------------------
\* Local variables.

\* The calls that create, and what ialloc() writes for them.
LEMMA CreatesDomain ==
  /\ DOMAIN Creates = {"mkdir", "mknod", "create"}
  /\ \A s \in DOMAIN Creates : [type |-> Creates[s], nlink |-> 0] \in Dinode
<1>1. DOMAIN Creates = {"mkdir", "mknod", "create"}
  BY DEF Creates
<1>2. \A s \in DOMAIN Creates : Creates[s] \in Types
  BY <1>1, SMTT(60) DEF Creates, Types
<1>3. \A t \in Types : [type |-> t, nlink |-> 0] \in Dinode
  BY SMTT(60) DEF Dinode
<1>. QED
  BY <1>1, <1>2, <1>3

\* A process in user space has no references, no locks and no struct files.
LEMMA IdleFacts ==
  /\ Idle \in Local /\ Idle.pc = "idle" /\ Idle.sys = "none" /\ Idle.dp = 0 /\ Idle.ip = 0
  /\ Idle.src = 0 /\ Idle.rf = 0 /\ Idle.wf = 0 /\ Idle.puts = <<>> /\ Idle.then = "idle"
  /\ ShapeOf(Idle)
<1>1. /\ Idle.pc = "idle" /\ Idle.sys = "none" /\ Idle.dp = 0 /\ Idle.ip = 0
      /\ Idle.src = 0 /\ Idle.rf = 0 /\ Idle.wf = 0 /\ Idle.puts = <<>> /\ Idle.then = "idle"
  BY DEF Idle
<1>2. Idle \in Local
  <2>1. /\ 0 \in InoZ /\ 0 \in FileZ /\ "." \in Entries /\ "idle" \in Labels
        /\ <<>> \in Seq(Entries) /\ <<>> \in Seq(Entries \cup {"/"}) /\ <<>> \in Seq(Inums)
    BY ConstFacts, SMTT(60) DEF Entries, Labels
  <2>. QED
    BY <2>1 DEF Idle, Local
<1>3. ShapeOf(Idle)
  BY <1>1, CreatesDomain DEF ShapeOf, Loc, Putting, HasDp, HasIp, HasSrc
<1>. QED
  BY <1>1, <1>2, <1>3

\* A file system as mkfs leaves it, and processes in user space.
LEMMA InitInv ==
  ASSUME SetFacts, Init
  PROVE IInv
<1>1. PICK t \in Trees : dinode = t.dinode /\ ents = t.ents
  BY DEF Init
<1>2. PICK v : v = Idle
  OBVIOUS
<1>3. /\ v \in Local /\ v.pc = "idle" /\ v.dp = 0 /\ v.ip = 0 /\ v.src = 0 /\ v.rf = 0
      /\ v.wf = 0 /\ v.puts = <<>> /\ ShapeOf(v)
  BY <1>2, IdleFacts
<1>4. l = [p \in Procs |-> v]
  BY <1>2 DEF Init
<1>5. l \in [Procs -> Local] /\ \A p \in Procs : l[p] = v
  BY <1>3, <1>4
<1>6. cwd \in [Procs -> Inums]
  BY FileSysAssumption DEF Init, Inums
<1>7. /\ dinode \in [Inums -> Dinode] /\ ents \in [Inums -> DirEntries]
  <2>1. /\ dinode \in [1..NInodes -> [type : {"free", "dir", "file", "device"}, nlink : Nat]]
        /\ ents \in [1..NInodes -> [Names \cup {".", ".."} -> 0..NInodes]]
    BY <1>1, TreeAssumption
  <2>2. ents \in [Inums -> DirEntries]
    BY <2>1 DEF Inums, DirEntries, Entries, InoZ
  <2>3. [type : {"free", "dir", "file", "device"}, nlink : Nat] \subseteq Dinode
    BY SMTT(60) DEF Dinode, Types, T_DIR, T_FILE, T_DEVICE
  <2>4. dinode \in [Inums -> Dinode]
    BY <2>1, <2>3 DEF Inums
  <2>. QED
    BY <2>2, <2>4
<1>8. \A i \in Inums : Cardinality(InCwd(i)) \in Nat
  <2>1. \A i \in Inums : IsFiniteSet(InCwd(i))
    <3>1. IsFiniteSet(Procs) /\ \A i \in Inums : InCwd(i) \subseteq Procs
      BY ConstFacts DEF InCwd
    <3>. QED
      BY <3>1 DEF SetFacts
  <2>. QED
    BY <2>1 DEF SetFacts
<1>9. /\ icache \in [Inums -> Slot]
      /\ \A i \in Inums : icache[i].ref = Cardinality(InCwd(i)) /\ icache[i].valid = FALSE
  <2>1. icache = [i \in Inums |-> [Unused EXCEPT !.ref = Cardinality(InCwd(i))]]
    BY DEF Init, InCwd
  <2>2. \A n \in Nat : /\ [Unused EXCEPT !.ref = n] \in Slot
                       /\ [Unused EXCEPT !.ref = n].ref = n
                       /\ [Unused EXCEPT !.ref = n].valid = FALSE
    <3>1. Unused \in Slot /\ Unused.valid = FALSE
      BY SMTT(60) DEF Unused, Slot
    <3>2. PICK u : u = Unused
      OBVIOUS
    <3>3. \A n \in Nat : /\ [u EXCEPT !.ref = n] \in Slot
                         /\ [u EXCEPT !.ref = n].ref = n /\ [u EXCEPT !.ref = n].valid = FALSE
      BY <3>1, <3>2 DEF Slot
    <3>. QED
      BY <3>2, <3>3
  <2>3. \A i \in Inums : icache[i] = [Unused EXCEPT !.ref = Cardinality(InCwd(i))]
    BY <2>1
  <2>. QED
    BY <1>8, <2>1, <2>2, <2>3
<1>10. /\ lock \in [Inums -> Procs \cup {None}] /\ \A i \in Inums : lock[i] = None
  BY DEF Init
<1>11. /\ ftable \in [1..NFILE -> File]
       /\ \A f \in 1..NFILE : ftable[f].ref = 0 /\ ftable[f].ip = 0
  BY ConstFacts DEF Init, File
<1>12. /\ ofile \in [Procs -> [1..NOFILE -> FileZ]]
       /\ \A p \in Procs, d \in 1..NOFILE : ofile[p][d] = 0
  BY ConstFacts DEF Init
<1>13. TypeOK
  BY <1>5, <1>6, <1>7, <1>9, <1>10, <1>11, <1>12 DEF TypeOK
<1>14. Shape /\ FileInv
  BY <1>3, <1>5, <1>11 DEF Shape, FileInv
<1>15. Loc(v) = "idle" /\ Loc(v) \notin LocksDp \cup LocksIp /\ \A i \in Inums : ~Holds(v, i)
  <2>1. Loc(v) = "idle"
    BY <1>3 DEF Loc, Putting
  <2>2. Loc(v) \notin LocksDp \cup LocksIp
    BY <2>1 DEF LocksDp, LocksIp
  <2>. QED
    BY <1>3, <2>1, <2>2 DEF Holds, Keeps
<1>16. LockInv
  <2>1. \A p \in Procs : l[p].pc # "iput_free"
    BY <1>3, <1>5
  <2>2. \A p \in Procs : p # None
    BY ConstFacts
  <2>. QED
    BY <1>5, <1>10, <1>15, <2>1, <2>2 DEF LockInv
<1>17. CacheInv
  BY <1>9 DEF CacheInv
<1>18. Checked
  <2>1. \A p \in Procs : /\ l[p].dp = 0 /\ l[p].src = 0 /\ Loc(l[p]) \notin LocksIp
                         /\ l[p].pc # "iput_free"
    BY <1>3, <1>5, <1>15
  <2>. QED
    BY <2>1 DEF Checked
<1>19. NamesInv
  <2>1. \A i \in 1..NInodes : t.dinode[i].type # "dir" => \A x \in Names : t.ents[i][x] = 0
    BY TreeAssumption
  <2>. QED
    BY <1>1, <2>1 DEF NamesInv, Inums, T_DIR
<1>20. UnlinkInv
  BY <1>3, <1>5 DEF UnlinkInv
<1>21. Acyclic
  <2>1. SUFFICES ASSUME NEW D \in (SUBSET Inums) \ {{}}
                 PROVE \E d \in D : \A i \in D : ~Edge(d, i)
    BY DEF Acyclic
  <2>2. PICK d \in D : \A x \in Names : ents[d][x] \notin D
    BY <1>1, TreeAssumption DEF Inums
  <2>3. \A p \in Procs : l[p].pc # "ialloc" /\ l[p].pc # "create_new"
    BY <1>3, <1>5
  <2>. QED
    BY <2>2, <2>3 DEF Edge
<1>22. RefsExact
  <2>1. ASSUME NEW i \in Inums
        PROVE icache[i].ref = Pointers(i)
    <3>1. i # 0 /\ Len(<<>>) = 0 /\ DOMAIN ftable = 1..NFILE
      BY <1>11, ConstFacts
    <3>2. ~(0 >= 1) /\ ~(0 >= 2) /\ ~(0 > 0)
      BY SMTT(60)
    <3>3. InDp(i) = {} /\ InIp(i) = {} /\ InSrc(i) = {}
      BY <1>3, <1>5, <3>1 DEF InDp, InIp, InSrc
    <3>4. InPut1(i) = {} /\ InPut2(i) = {}
      BY <1>3, <1>5, <3>1, <3>2 DEF InPut1, InPut2
    <3>5. InFile(i) = {}
      BY <1>11, <3>1, <3>2 DEF InFile
    <3>6. Pointers(i) = Cardinality(InCwd(i)) + Cardinality(InFile(i)) + Cardinality(InDp(i))
                          + Cardinality(InIp(i)) + Cardinality(InSrc(i))
                          + Cardinality(InPut1(i)) + Cardinality(InPut2(i))
      BY DEF Pointers, InCwd, InFile, InDp, InIp, InSrc, InPut1, InPut2
    <3>7. /\ Cardinality(InDp(i)) = 0 /\ Cardinality(InIp(i)) = 0 /\ Cardinality(InSrc(i)) = 0
          /\ Cardinality(InPut1(i)) = 0 /\ Cardinality(InPut2(i)) = 0
          /\ Cardinality(InFile(i)) = 0
      BY <3>3, <3>4, <3>5 DEF SetFacts
    <3>. QED
      BY <1>8, <1>9, <3>6, <3>7, SMTT(60)
  <2>2. ASSUME NEW f \in 1..NFILE
        PROVE ftable[f].ref = FilePointers(f)
    <3>1. f # 0
      BY ConstFacts
    <3>2. Fds(ofile, f) = {}
      BY <1>12, <3>1 DEF Fds
    <3>3. InRf(f) = {} /\ InWf(f) = {}
      BY <1>3, <1>5, <3>1 DEF InRf, InWf
    <3>4. /\ Cardinality(Fds(ofile, f)) = 0 /\ Cardinality(InRf(f)) = 0
          /\ Cardinality(InWf(f)) = 0
      BY <3>2, <3>3 DEF SetFacts
    <3>5. FilePointers(f) = Cardinality(Fds(ofile, f)) + Cardinality(InRf(f)) + Cardinality(InWf(f))
      BY DEF FilePointers, Fds, InRf, InWf
    <3>. QED
      BY <1>11, <3>4, <3>5, SMTT(60)
  <2>3. DOMAIN ftable = 1..NFILE
    BY <1>11
  <2>. QED
    BY <2>1, <2>2, <2>3 DEF RefsExact
<1>. QED
  BY <1>13, <1>14, <1>16, <1>17, <1>18, <1>19, <1>20, <1>21, <1>22 DEF IInv

\* p goes on with iput() of is, then at k with r.
PutTo(p, is, k, r) ==
  /\ l' \in [Procs -> Local] /\ \A q \in Procs : q # p => l'[q] = l[q]
  /\ l'[p].pc = "iput" /\ l'[p].puts = is /\ l'[p].then = k
  /\ l'[p].dp = r.dp /\ l'[p].ip = r.ip /\ l'[p].src = r.src /\ l'[p].f = r.f
  /\ l'[p].rf = r.rf /\ l'[p].wf = r.wf /\ l'[p].sys = r.sys /\ l'[p].path = r.path
  /\ l'[p].new = r.new /\ l'[p].name = r.name

\* Put() sets the label and the references to drop, and types the rest.
LEMMA PutFacts ==
  ASSUME TypeOK, NEW p \in Procs, NEW r \in Local, NEW is \in Seq(Inums), NEW k \in Labels,
         Put(p, is, k, r)
  PROVE PutTo(p, is, k, r)
<1>1. l' = [l EXCEPT ![p] = [r EXCEPT !.pc = "iput", !.puts = is, !.then = k]]
  BY DEF Put
<1>2. "iput" \in Labels
  BY DEF Labels, Putting
<1>. QED
  BY <1>1, <1>2 DEF TypeOK, Local, PutTo

\* PutAndReturn() leaves nothing but the references to drop.
LEMMA ReturnFacts ==
  ASSUME TypeOK, NEW p \in Procs, NEW is \in Seq(Inums), Len(is) \in 1..2, PutAndReturn(p, is)
  PROVE /\ l' \in [Procs -> Local] /\ \A q \in Procs : q # p => l'[q] = l[q]
        /\ l'[p].pc = "iput" /\ l'[p].puts = is /\ Loc(l'[p]) = "idle" /\ ShapeOf(l'[p])
        /\ l'[p].dp = 0 /\ l'[p].ip = 0 /\ l'[p].src = 0 /\ l'[p].rf = 0 /\ l'[p].wf = 0
        /\ \A i : ~Holds(l'[p], i)
<1>1. Put(p, is, "idle", Idle) /\ "idle" \in Labels
  BY DEF PutAndReturn, Labels
<1>2. /\ l' \in [Procs -> Local] /\ \A q \in Procs : q # p => l'[q] = l[q]
      /\ l'[p].pc = "iput" /\ l'[p].puts = is /\ l'[p].then = "idle"
      /\ l'[p].dp = 0 /\ l'[p].ip = 0 /\ l'[p].src = 0 /\ l'[p].rf = 0 /\ l'[p].wf = 0
  <2>1. PutTo(p, is, "idle", Idle)
    BY <1>1, IdleFacts, PutFacts
  <2>. QED
    BY <2>1, IdleFacts DEF PutTo
<1>3. Loc(l'[p]) = "idle" /\ ShapeOf(l'[p])
  BY <1>2, CreatesDomain DEF ShapeOf, Loc, Putting, HasDp, HasIp, HasSrc
<1>4. \A i : ~Holds(l'[p], i)
  BY <1>2, <1>3 DEF Holds, Keeps, LocksDp, LocksIp
<1>. QED
  BY <1>2, <1>3, <1>4

\* The references of a call that is not in iput().
LEMMA MinePlain ==
  ASSUME NEW r, NEW c, NEW i, r.puts = <<>>
  PROVE Mine(r, c, i) = B(c = i) + B(r.dp = i) + B(r.ip = i) + B(r.src = i)
  BY SMTT(60) DEF Mine, B

\* The references of a call that is about to drop one.
LEMMA MinePut ==
  ASSUME NEW r, NEW c, NEW i, NEW d, r.puts = <<d>>
  PROVE Mine(r, c, i) = B(c = i) + B(r.dp = i) + B(r.ip = i) + B(r.src = i) + B(d = i)
<1>1. Len(r.puts) = 1 /\ r.puts[1] = d
  BY SMTT(60)
<1>. QED
  BY <1>1, SMTT(60) DEF Mine, B

\* Locks kept, taken and given up.
LEMMA LocksKept ==
  ASSUME TypeOK, LockInv, NEW p \in Procs, lock' = lock, l'[p].pc # "iput_free",
         \A i \in Inums : Holds(l'[p], i) <=> Holds(l[p], i)
  PROVE Locked(p)
  BY DEF LockInv, Locked

\* releasesleep() of a lock the process has.
LEMMA LockReleased ==
  ASSUME TypeOK, LockInv, NEW p \in Procs, NEW d \in Inums, Holds(l[p], d),
         lock' = [lock EXCEPT ![d] = None], l'[p].pc # "iput_free",
         \A i \in Inums : Holds(l'[p], i) <=> Holds(l[p], i) /\ i # d
  PROVE Locked(p)
<1>1. \A i \in Inums : lock'[i] = IF i = d THEN None ELSE lock[i]
  BY DEF TypeOK
<1>. QED
  BY <1>1, ConstFacts, SMTT(60) DEF LockInv, Locked

\* The cache and the link counts change, the types of inodes do not.
SameTypes == \A i \in Inums : dinode'[i].type = dinode[i].type

Cached ==
  /\ icache' \in [Inums -> Slot] /\ dinode' \in [Inums -> Dinode] /\ SameTypes
  /\ CacheInv' /\ Stays

\* A well-formed cache, the types as they were, no slot in use invalidated.
LEMMA CachedStep ==
  ASSUME TypeOK, CacheOK(icache'), dinode' \in [Inums -> Dinode], SameTypes,
         \A i \in Inums : icache[i].valid /\ icache[i].ref > 0 /\ icache'[i].ref > 0
                            => icache'[i].valid
  PROVE Cached
  BY DEF CacheOK, CacheInv, Stays, Cached, SameTypes

\* The cache is well-formed in every state of the invariant.
LEMMA InvCacheOK ==
  ASSUME SetFacts, IInv
  PROVE CacheOK(icache) /\ dinode \in [Inums -> Dinode]
  BY DEF IInv, TypeOK, CacheInv, CacheOK

\* The cache as it was.
LEMMA KeptStep ==
  ASSUME SetFacts, IInv, UNCHANGED <<dinode, icache>>
  PROVE Cached /\ \A j \in Inums : icache'[j].ref = icache[j].ref
  BY InvCacheOK, CachedStep DEF IInv, SameTypes

\* ilock() reads the inode, which is not free, into its slot.
LEMMA LoadedStep ==
  ASSUME SetFacts, IInv, NEW i \in Inums, CanLock(i), icache' = Loaded(icache, i), UNCHANGED dinode
  PROVE /\ Cached /\ icache'[i].valid /\ \A j \in Inums : icache'[j].ref = icache[j].ref
        /\ icache'[i].type = dinode[i].type
<1>1. TypeOK /\ CacheInv
  BY DEF IInv
<1>2. /\ CacheOK(icache') /\ icache'[i].valid /\ icache'[i].type = dinode[i].type
      /\ \A j \in Inums : icache'[j].ref = icache[j].ref
      /\ \A j \in Inums : icache[j].valid => icache'[j].valid
  BY <1>1, LoadedFacts
<1>. QED
  BY <1>1, <1>2, InvCacheOK, CachedStep DEF SameTypes

\* What the locks of p are at a label.
Releases(p) ==
  \/ lock' = lock /\ \A i \in Inums : ~Holds(l[p], i)
  \/ \E d \in Inums : /\ lock' = [lock EXCEPT ![d] = None]
                      /\ \A i \in Inums : Holds(l[p], i) <=> i = d

\* A call returns with its last iput(), of d.
LEMMA ReturnInv ==
  ASSUME SetFacts, IInv, NEW p \in Procs, NEW d \in Inums, PutAndReturn(p, <<d>>),
         l[p].rf = 0, l[p].wf = 0, UNCHANGED <<ents, ftable, ofile>>, Cached, Releases(p),
         cwd' \in [Procs -> Inums], \A q \in Procs : q # p => cwd'[q] = cwd[q],
         \A i \in Inums : icache'[i].ref = icache[i].ref + B(cwd'[p] = i) + B(d = i)
                                             - Mine(l[p], cwd[p], i)
  PROVE IInv'
<1>1. TypeOK /\ LockInv
  BY DEF IInv
<1>3. <<d>> \in Seq(Inums) /\ Len(<<d>>) \in 1..2
  BY SMTT(60)
<1>4. /\ l' \in [Procs -> Local] /\ \A q \in Procs : q # p => l'[q] = l[q]
      /\ l'[p].pc = "iput" /\ l'[p].puts = <<d>> /\ Loc(l'[p]) = "idle" /\ ShapeOf(l'[p])
      /\ l'[p].dp = 0 /\ l'[p].ip = 0 /\ l'[p].src = 0 /\ l'[p].rf = 0 /\ l'[p].wf = 0
      /\ \A i : ~Holds(l'[p], i)
  BY <1>1, <1>3, ReturnFacts
<1>5. lock' \in [Inums -> Procs \cup {None}]
  BY <1>1 DEF TypeOK, Releases
<1>6. TypeOK' /\ Frame(p)
  BY <1>1, <1>4, <1>5 DEF TypeOK, Frame, Cached
<1>7. Counted(p)
  <2>1. ASSUME NEW i \in Inums
        PROVE Mine(l'[p], cwd'[p], i) = B(cwd'[p] = i) + B(d = i)
    <3>1. Mine(l'[p], cwd'[p], i) = B(cwd'[p] = i) + B(l'[p].dp = i) + B(l'[p].ip = i)
                                    + B(l'[p].src = i) + B(d = i)
      BY <1>4, MinePut, SMTT(60)
    <3>2. i # 0
      BY ConstFacts
    <3>. QED
      BY <1>4, <3>1, <3>2, SMTT(60) DEF B
  <2>2. \A i \in Inums : icache[i].ref \in Nat /\ Mine(l[p], cwd[p], i) \in Int
    BY <1>1, SMTT(60) DEF TypeOK, Slot, Mine, B
  <2>. QED
    BY <2>1, <2>2, SMTT(60) DEF Counted, B
<1>8. Locked(p)
  <2>1. CASE lock' = lock /\ \A i \in Inums : ~Holds(l[p], i)
    BY <2>1, <1>1, <1>4, LocksKept
  <2>2. ASSUME NEW e \in Inums, lock' = [lock EXCEPT ![e] = None],
               \A i \in Inums : Holds(l[p], i) <=> i = e
        PROVE Locked(p)
    BY <2>2, <1>1, <1>4, LockReleased
  <2>. QED
    BY <2>1, <2>2 DEF Releases
<1>9. Looked(p)
  BY <1>4 DEF Looked, LocksIp
<1>. QED
  BY <1>4, <1>6, <1>7, <1>8, <1>9, CalmInv DEF Cached, SameTypes

\* A step that leaves inodes and the file table alone but for the cache, and the
\* references of p where they are.
LEMMA MoveInv ==
  ASSUME SetFacts, IInv, NEW p \in Procs, l' \in [Procs -> Local],
         \A q \in Procs : q # p => l'[q] = l[q],
         ShapeOf(l'[p]), l'[p].puts = l[p].puts, l'[p].dp = l[p].dp, l'[p].ip = l[p].ip,
         l'[p].src = l[p].src, l'[p].rf = l[p].rf, l'[p].wf = l[p].wf,
         Cached, \A i \in Inums : icache'[i].ref = icache[i].ref,
         lock' \in [Inums -> Procs \cup {None}], Locked(p),
         Loc(l'[p]) \in LocksIp => icache'[l'[p].ip].valid,
         l'[p].pc \notin {"unlink_ip", "ialloc", "create_new"},
         UNCHANGED <<ents, ftable, ofile, cwd>>
  PROVE IInv'
<1>1. TypeOK
  BY DEF IInv
<1>2. TypeOK' /\ Frame(p)
  BY <1>1 DEF TypeOK, Frame, Cached
<1>3. Counted(p)
  <2>1. \A i \in Inums : Mine(l'[p], cwd'[p], i) = Mine(l[p], cwd[p], i)
    BY DEF Mine
  <2>2. \A i \in Inums : Mine(l[p], cwd[p], i) \in Int /\ icache[i].ref \in Nat
    BY <1>1, SMTT(60) DEF Mine, B, TypeOK, Slot
  <2>. QED
    BY <2>1, <2>2, SMTT(60) DEF Counted
<1>4. Looked(p)
  BY DEF Looked
<1>5. /\ CacheInv' /\ Stays /\ \A i \in Inums : dinode'[i].type = dinode[i].type
      /\ UNCHANGED <<ents, ftable, ofile>>
  BY DEF Cached, SameTypes
<1>. QED
  BY <1>2, <1>3, <1>4, <1>5, CalmInv

-----------------------------------------------------------------------------
\* The file table.

\* The references of a call to struct file g.
FileMine(r, g) == B(r.rf = g) + B(r.wf = g)

Ofiles == [Procs -> [1..NOFILE -> FileZ]]

\* One descriptor changes.
Redirected(n, o, p, d, v) == n = [o EXCEPT ![p][d] = v]

\* A step changes f->ref by what its process has more of pointers to f.
FileCounted(p) ==
  \A g \in 1..NFILE :
    ftable'[g].ref = ftable[g].ref + Cardinality(Fds(ofile', g)) - Cardinality(Fds(ofile, g))
                       + FileMine(l'[p], g) - FileMine(l[p], g)

\* The inodes that open files have, when slot f of the table changes.
Refers(f, i) == ftable[f].ref > 0 /\ ftable[f].ip = i

FileChanged(f) ==
  /\ ftable' \in [1..NFILE -> File] /\ ofile' \in Ofiles
  /\ \A g \in 1..NFILE : g # f => ftable'[g] = ftable[g]

\* Where a call has no inode and no lock.
Free(p) ==
  /\ l[p] \in Local /\ l[p].dp = 0 /\ l[p].ip = 0 /\ l[p].src = 0 /\ l[p].puts = <<>>
  /\ Loc(l[p]) = l[p].pc /\ \A i \in Inums : ~Holds(l[p], i)
  /\ \A i \in Inums : Mine(l[p], cwd[p], i) = B(cwd[p] = i)

\* The calls on the file table: sys_dup(), sys_close(), sys_pipe(), and sys_open()
\* with the inode locked.
LEMMA FileTableInv ==
  ASSUME SetFacts, IInv
  PROVE \A p \in Procs :
          (\/ sys_dup(p) \/ sys_close(p) \/ sys_pipe(p) \/ pipe_wf(p) \/ pipe_fds(p)
           \/ pipe_bad(p) \/ sys_open(p))
            => IInv'
\* What the types say of the tables.
<1>TypeFacts.
  /\ lock \in [Inums -> Procs \cup {None}] /\ ofile \in Ofiles /\ DOMAIN ftable = 1..NFILE
  /\ \A i \in Inums : icache[i].ref \in Nat
  /\ \A g \in 1..NFILE : ftable[g].ref \in Nat /\ ftable[g].ip \in InoZ
  /\ \A q \in Procs : l[q].rf \in FileZ /\ l[q].wf \in FileZ /\ DOMAIN ofile[q] = 1..NOFILE
  <2>1. /\ lock \in [Inums -> Procs \cup {None}] /\ ofile \in Ofiles
        /\ ftable \in [1..NFILE -> File] /\ icache \in [Inums -> Slot] /\ l \in [Procs -> Local]
    BY DEF IInv, TypeOK, Ofiles
  <2>2. \A i \in Inums : icache[i].ref \in Nat
    BY <2>1 DEF Slot
  <2>3. \A g \in 1..NFILE : ftable[g].ref \in Nat /\ ftable[g].ip \in InoZ
    BY <2>1 DEF File
  <2>4. \A q \in Procs : l[q].rf \in FileZ /\ l[q].wf \in FileZ
    BY <2>1 DEF Local
  <2>5. \A q \in Procs : DOMAIN ofile[q] = 1..NOFILE
    BY <2>1 DEF Ofiles
  <2>. QED
    BY <2>1, <2>2, <2>3, <2>4, <2>5

\* Sets of descriptors are finite.
<1>FiniteFds.
  ASSUME NEW o, NEW g
  PROVE IsFiniteSet(Fds(o, g))
  <2>. USE <1>FiniteFds
  <2>1. Fds(o, g) \subseteq Procs \X (1..NOFILE)
    BY DEF Fds
  <2>. QED
    BY <2>1 DEF SetFacts

\* Sets of processes are finite.
<1>FiniteProcs.
  ASSUME NEW S, S \subseteq Procs
  PROVE IsFiniteSet(S)
  BY <1>FiniteProcs, ConstFacts DEF SetFacts

\* Writing v over a descriptor moves one pointer from what it held to v.
<1>Descriptors.
  ASSUME NEW o \in Ofiles, NEW p \in Procs, NEW d \in 1..NOFILE, NEW v \in FileZ, NEW g,
         NEW n, Redirected(n, o, p, d, v)
  PROVE /\ n \in Ofiles /\ Cardinality(Fds(o, g)) \in Nat /\ Cardinality(Fds(n, g)) \in Nat
        /\ Cardinality(Fds(n, g)) = Cardinality(Fds(o, g)) + B(v = g) - B(o[p][d] = g)
  <2>. USE <1>Descriptors
  <2>1. n \in Ofiles /\ n[p][d] = v
    BY DEF Ofiles, Redirected
  <2>2. \A a \in Procs, b \in 1..NOFILE : a # p \/ b # d => n[a][b] = o[a][b]
    BY DEF Ofiles, Redirected
  <2>4. IsFiniteSet(Fds(o, g)) /\ IsFiniteSet(Fds(n, g))
    BY <1>FiniteFds
  <2>5. \A pd \in Procs \X (1..NOFILE) : pd # <<p, d>> => n[pd[1]][pd[2]] = o[pd[1]][pd[2]]
    <3>1. SUFFICES ASSUME NEW pd \in Procs \X (1..NOFILE), pd # <<p, d>>
                   PROVE n[pd[1]][pd[2]] = o[pd[1]][pd[2]]
      OBVIOUS
    <3>2. pd[1] \in Procs /\ pd[2] \in 1..NOFILE /\ (pd[1] # p \/ pd[2] # d)
      BY <3>1, SMTT(60)
    <3>. QED
      BY <2>2, <3>2
  <2>6. Fds(o, g) \ {<<p, d>>} = Fds(n, g) \ {<<p, d>>}
    BY <2>5 DEF Fds
  <2>7. /\ <<p, d>> \in Fds(o, g) <=> o[p][d] = g
        /\ <<p, d>> \in Fds(n, g) <=> v = g
    BY <2>1 DEF Fds
  <2>8. /\ Cardinality(Fds(o, g)) \in Nat /\ Cardinality(Fds(n, g)) \in Nat
        /\ Cardinality(Fds(n, g)) = Cardinality(Fds(o, g)) + B(<<p, d>> \in Fds(n, g))
                                      - B(<<p, d>> \in Fds(o, g))
    BY <2>4, <2>6, Change
  <2>9. B(<<p, d>> \in Fds(n, g)) = B(v = g) /\ B(<<p, d>> \in Fds(o, g)) = B(o[p][d] = g)
    BY <2>7 DEF B
  <2>. QED
    BY <2>1, <2>8, <2>9

\* The references to struct file g are at least the ones named.
<1>FilePointersAtLeast.
  ASSUME TypeOK, NEW p \in Procs, NEW g
  PROVE /\ FilePointers(g) \in Nat /\ FileMine(l[p], g) \in Nat
        /\ FileMine(l[p], g) <= FilePointers(g)
        /\ \A d \in 1..NOFILE : ofile[p][d] = g => FilePointers(g) >= 1
  <2>. USE <1>FilePointersAtLeast
  <2>1. FilePointers(g) = Cardinality(Fds(ofile, g)) + Cardinality(InRf(g)) + Cardinality(InWf(g))
    BY DEF FilePointers, Fds, InRf, InWf
  <2>2. InRf(g) \subseteq Procs /\ InWf(g) \subseteq Procs
    BY DEF InRf, InWf
  <2>3. IsFiniteSet(Fds(ofile, g)) /\ IsFiniteSet(InRf(g)) /\ IsFiniteSet(InWf(g))
    BY <2>2, <1>FiniteFds, <1>FiniteProcs
  <2>4. \A S, a : IsFiniteSet(S) => /\ Cardinality(S) \in Nat
                                    /\ B(a \in S) <= Cardinality(S)
    <3>1. SUFFICES ASSUME NEW S, NEW a, IsFiniteSet(S)
                   PROVE Cardinality(S) \in Nat /\ B(a \in S) <= Cardinality(S)
      OBVIOUS
    <3>2. /\ Cardinality(S) \in Nat /\ Cardinality(S \ {a}) \in Nat
          /\ Cardinality(S) = Cardinality(S \ {a}) + B(a \in S)
      BY <3>1, Remove
    <3>. QED
      BY <3>2, SMTT(60) DEF B
  <2>5. /\ Cardinality(Fds(ofile, g)) \in Nat /\ Cardinality(InRf(g)) \in Nat
        /\ Cardinality(InWf(g)) \in Nat
        /\ B(p \in InRf(g)) <= Cardinality(InRf(g)) /\ B(p \in InWf(g)) <= Cardinality(InWf(g))
    BY <2>3, <2>4
  <2>6. B(p \in InRf(g)) = B(l[p].rf = g) /\ B(p \in InWf(g)) = B(l[p].wf = g)
    BY DEF InRf, InWf, B
  <2>7. ASSUME NEW d \in 1..NOFILE, ofile[p][d] = g
        PROVE Cardinality(Fds(ofile, g)) >= 1
    <3>1. <<p, d>> \in Fds(ofile, g)
      BY <2>7 DEF Fds
    <3>2. B(<<p, d>> \in Fds(ofile, g)) <= Cardinality(Fds(ofile, g))
      BY <2>3, <2>4
    <3>3. B(<<p, d>> \in Fds(ofile, g)) = 1
      BY <3>1 DEF B
    <3>. QED
      BY <2>5, <3>2, <3>3
  <2>8. B(l[p].rf = g) \in Nat /\ B(l[p].wf = g) \in Nat
    BY DEF B
  <2>. QED
    BY <2>1, <2>5, <2>6, <2>7, <2>8, SMTT(60) DEF FileMine

\* f->ref stays exact when a step changes it by the pointers gained and lost.
<1>FilesCounted.
  ASSUME TypeOK, FileRefs, NEW p \in Procs, \A q \in Procs : q # p => l'[q] = l[q],
         ofile' \in Ofiles, FileCounted(p)
  PROVE FileRefs'
  <2>. USE <1>FilesCounted
  <2>1. SUFFICES ASSUME NEW g \in 1..NFILE
                 PROVE ftable'[g].ref = FilePointers(g)'
    BY DEF FileRefs
  <2>2. /\ FilePointers(g) = Cardinality(Fds(ofile, g)) + Cardinality(InRf(g)) + Cardinality(InWf(g))
        /\ FilePointers(g)' = Cardinality(Fds(ofile', g)) + Cardinality(InRf(g)')
                                + Cardinality(InWf(g)')
    BY DEF FilePointers, Fds, InRf, InWf
  <2>3. /\ InRf(g) \subseteq Procs /\ InWf(g) \subseteq Procs
        /\ InRf(g)' \subseteq Procs /\ InWf(g)' \subseteq Procs
    BY DEF InRf, InWf
  <2>4. /\ IsFiniteSet(Fds(ofile, g)) /\ IsFiniteSet(Fds(ofile', g))
        /\ IsFiniteSet(InRf(g)) /\ IsFiniteSet(InWf(g))
        /\ IsFiniteSet(InRf(g)') /\ IsFiniteSet(InWf(g)')
    BY <2>3, <1>FiniteFds, <1>FiniteProcs
  <2>5. Cardinality(Fds(ofile, g)) \in Nat /\ Cardinality(Fds(ofile', g)) \in Nat
    BY <2>4, Remove
  <2>6. InRf(g) \ {p} = InRf(g)' \ {p} /\ InWf(g) \ {p} = InWf(g)' \ {p}
    BY DEF InRf, InWf
  <2>7. /\ Cardinality(InRf(g)) \in Nat /\ Cardinality(InRf(g)') \in Nat
        /\ Cardinality(InRf(g)') = Cardinality(InRf(g)) + B(p \in InRf(g)') - B(p \in InRf(g))
    BY <2>4, <2>6, Change
  <2>8. /\ Cardinality(InWf(g)) \in Nat /\ Cardinality(InWf(g)') \in Nat
        /\ Cardinality(InWf(g)') = Cardinality(InWf(g)) + B(p \in InWf(g)') - B(p \in InWf(g))
    BY <2>4, <2>6, Change
  <2>9. /\ B(p \in InRf(g)) = B(l[p].rf = g) /\ B(p \in InWf(g)) = B(l[p].wf = g)
        /\ B(p \in InRf(g)') = B(l'[p].rf = g) /\ B(p \in InWf(g)') = B(l'[p].wf = g)
    BY DEF InRf, InWf, B
  <2>10. ftable[g].ref = FilePointers(g)
    BY DEF FileRefs
  <2>11. ftable'[g].ref = ftable[g].ref + Cardinality(Fds(ofile', g)) - Cardinality(Fds(ofile, g))
                            + (B(l'[p].rf = g) + B(l'[p].wf = g)) - (B(l[p].rf = g) + B(l[p].wf = g))
    BY DEF FileCounted, FileMine
  <2>12. /\ B(l'[p].rf = g) \in Nat /\ B(l'[p].wf = g) \in Nat
         /\ B(l[p].rf = g) \in Nat /\ B(l[p].wf = g) \in Nat
    BY DEF B
  <2>14. /\ Cardinality(InRf(g)') = Cardinality(InRf(g)) + B(l'[p].rf = g) - B(l[p].rf = g)
         /\ Cardinality(InWf(g)') = Cardinality(InWf(g)) + B(l'[p].wf = g) - B(l[p].wf = g)
    BY <2>7, <2>8, <2>9
  <2>15. ftable'[g].ref = Cardinality(Fds(ofile, g)) + Cardinality(InRf(g)) + Cardinality(InWf(g))
                            + Cardinality(Fds(ofile', g)) - Cardinality(Fds(ofile, g))
                            + (B(l'[p].rf = g) + B(l'[p].wf = g)) - (B(l[p].rf = g) + B(l[p].wf = g))
    BY <2>2, <2>10, <2>11
  <2>. QED
    BY <2>2, <2>5, <2>7, <2>8, <2>12, <2>14, <2>15, SMTT(60)

\* A step that changes the file table.
<1>FileStepInv.
  ASSUME NEW p \in Procs, l' \in [Procs -> Local],
         \A q \in Procs : q # p => l'[q] = l[q], ShapeOf(l'[p]), Cached,
         NEW f \in 1..NFILE, FileChanged(f), FileCounted(p), FileInv',
         \A i \in Inums : icache'[i].ref = icache[i].ref + Mine(l'[p], cwd[p], i)
                            - Mine(l[p], cwd[p], i) + B(Refers(f, i)') - B(Refers(f, i)),
         lock' \in [Inums -> Procs \cup {None}], Locked(p), Looked(p),
         l'[p].pc \notin {"unlink_ip", "ialloc", "create_new"}, UNCHANGED <<ents, cwd>>
  PROVE IInv'
  <2>. USE <1>FileStepInv
  <2>1. TypeOK /\ InodeRefs /\ FileRefs
    BY RefsSplit DEF IInv
  <2>2. ents' = ents /\ cwd' = cwd
    OBVIOUS
  <2>3. TypeOK'
    BY <2>1, <2>2 DEF TypeOK, Cached, FileChanged, Ofiles
  <2>4. Frame(p)
    BY <2>2 DEF Frame
  <2>5. InodeRefs'
    <3>1. SUFFICES ASSUME NEW i \in Inums
                   PROVE icache'[i].ref = Pointers(i)'
      BY DEF InodeRefs
    <3>2. \A g \in 1..NFILE : g # f => ftable'[g] = ftable[g]
      BY DEF FileChanged
    <3>3. Pointers(i)' = Pointers(i) + Mine(l'[p], cwd'[p], i) - Mine(l[p], cwd[p], i)
                           + B(ftable'[f].ref > 0 /\ ftable'[f].ip = i)
                           - B(ftable[f].ref > 0 /\ ftable[f].ip = i)
      BY <2>1, <2>3, <2>4, <3>2, PointersStep
    <3>4. icache[i].ref = Pointers(i)
      BY <2>1 DEF InodeRefs
    <3>5. icache'[i].ref = icache[i].ref + Mine(l'[p], cwd[p], i) - Mine(l[p], cwd[p], i)
                             + B(ftable'[f].ref > 0 /\ ftable'[f].ip = i)
                             - B(ftable[f].ref > 0 /\ ftable[f].ip = i)
      BY DEF Refers
    <3>. QED
      BY <2>2, <3>3, <3>4, <3>5
  <2>6. FileRefs'
    <3>1. ofile' \in Ofiles
      BY DEF FileChanged
    <3>. QED
      BY <2>1, <3>1, <1>FilesCounted
  <2>7. NamesInv' /\ UnlinkInv' /\ Acyclic'
    <3>1. Stays /\ \A i \in Inums : dinode'[i].type # T_DIR => dinode[i].type # T_DIR
      BY DEF Cached, SameTypes
    <3>. QED
      BY <2>2, <2>3, <2>4, <3>1, NamesCalm
  <2>8. CacheInv' /\ Stays
    BY DEF Cached
  <2>. QED
    BY <2>3, <2>4, <2>5, <2>6, <2>7, <2>8, StepInv

\* Calls that work on struct files only have no inode and no lock.
<1>FreeFacts.
  ASSUME NEW p \in Procs,
         l[p].pc \in {"idle", "pipe_wf", "pipe_fds", "pipe_bad"}
  PROVE Free(p)
  <2>. USE <1>FreeFacts
  <2>1. l[p] \in Local /\ ShapeOf(l[p])
    BY DEF IInv, TypeOK, Shape
  <2>2. /\ l[p].dp = 0 /\ l[p].ip = 0 /\ l[p].src = 0 /\ l[p].puts = <<>>
        /\ Loc(l[p]) = l[p].pc
    BY <2>1 DEF ShapeOf, Loc, Putting, HasDp, HasIp, HasSrc
  <2>3. \A i \in Inums : ~Holds(l[p], i)
    BY <2>2 DEF Holds, Keeps, LocksDp, LocksIp
  <2>4. \A i \in Inums : Mine(l[p], cwd[p], i) = B(cwd[p] = i)
    BY <2>2, MinePlain, ConstFacts, SMTT(60) DEF B
  <2>. QED
    BY <2>1, <2>2, <2>3, <2>4 DEF Free

\* A step that changes the file table and nothing in the inode cache.
<1>TableInv.
  ASSUME NEW p \in Procs, Free(p), l' \in [Procs -> Local],
         \A q \in Procs : q # p => l'[q] = l[q], ShapeOf(l'[p]),
         l'[p].dp = 0, l'[p].ip = 0, l'[p].src = 0, Loc(l'[p]) \notin LocksDp \cup LocksIp,
         l'[p].pc \notin {"iput_free", "unlink_ip", "ialloc", "create_new"},
         NEW f \in 1..NFILE, FileChanged(f), FileCounted(p), FileInv',
         \A i \in Inums : Mine(l'[p], cwd[p], i) + B(Refers(f, i)')
                            = B(cwd[p] = i) + B(Refers(f, i)),
         UNCHANGED <<dinode, ents, icache, lock, cwd>>
  PROVE IInv'
  <2>. USE <1>TableInv
  <2>1. TypeOK /\ LockInv
    BY DEF IInv
  <2>2. Cached /\ \A i \in Inums : icache'[i].ref = icache[i].ref
    BY KeptStep
  <2>3. Locked(p) /\ lock' \in [Inums -> Procs \cup {None}]
    <3>1. \A i \in Inums : Holds(l'[p], i) <=> Holds(l[p], i)
      BY DEF Holds, Keeps, Free
    <3>2. lock' = lock /\ l'[p].pc # "iput_free" /\ lock' \in [Inums -> Procs \cup {None}]
      BY <1>TypeFacts
    <3>. QED
      BY <2>1, <3>1, <3>2, LocksKept
  <2>4. Looked(p)
    BY DEF Looked
  <2>5. \A i \in Inums : icache'[i].ref = icache[i].ref + Mine(l'[p], cwd[p], i)
                           - Mine(l[p], cwd[p], i) + B(Refers(f, i)') - B(Refers(f, i))
    <3>1. SUFFICES ASSUME NEW i \in Inums
                   PROVE icache'[i].ref = icache[i].ref + Mine(l'[p], cwd[p], i)
                           - Mine(l[p], cwd[p], i) + B(Refers(f, i)') - B(Refers(f, i))
      OBVIOUS
    <3>2. Mine(l'[p], cwd[p], i) \in Nat /\ icache[i].ref \in Nat
      <4>1. l'[p] \in Local
        OBVIOUS
      <4>2. icache[i].ref \in Nat
        BY <1>TypeFacts
      <4>. QED
        BY <4>1, <4>2, Referred
    <3>3. B(Refers(f, i)') \in Nat /\ B(Refers(f, i)) \in Nat /\ B(cwd[p] = i) \in Nat
      BY DEF B
    <3>4. Mine(l[p], cwd[p], i) = B(cwd[p] = i) /\ icache'[i].ref = icache[i].ref
      BY <2>2 DEF Free
    <3>5. Mine(l'[p], cwd[p], i) + B(Refers(f, i)') = B(cwd[p] = i) + B(Refers(f, i))
      OBVIOUS
    <3>. QED
      BY <3>2, <3>3, <3>4, <3>5, SMTT(60)
  <2>6. l'[p].pc \notin {"unlink_ip", "ialloc", "create_new"} /\ UNCHANGED <<ents, cwd>>
    OBVIOUS
  <2>. QED
    BY <2>2, <2>3, <2>4, <2>5, <2>6, <1>FileStepInv

\* A step that empties a struct file, or hands a pipe's to sys_pipe(), keeps what is
\* said of the file table.
<1>FileInvKept.
  ASSUME NEW p \in Procs, l' \in [Procs -> Local],
         \A q \in Procs : q # p => l'[q] = l[q], NEW f \in 1..NFILE, FileChanged(f),
         ftable'[f].ip \in {0, ftable[f].ip}, ftable'[f].ref = 0 => ftable'[f].ip = 0,
         l'[p].rf \in {0, l[p].rf, l[p].wf} \/ (l'[p].rf = f /\ ftable'[f].ip = 0),
         l'[p].wf \in {0, l[p].rf, l[p].wf} \/ (l'[p].wf = f /\ ftable'[f].ip = 0)
  PROVE FileInv'
  <2>. USE <1>FileInvKept
  <2>1. \A g \in 1..NFILE : ftable[g].ip = 0 => ftable'[g].ip = 0
    BY DEF FileChanged
  <2>2. \A g \in 1..NFILE : ftable'[g].ref = 0 => ftable'[g].ip = 0
    BY DEF FileChanged, IInv, FileInv
  <2>3. \A q \in Procs : l[q].rf \in FileZ /\ l[q].wf \in FileZ
    BY <1>TypeFacts
  <2>4. \A q \in Procs : /\ l[q].rf # 0 => ftable'[l[q].rf].ip = 0
                         /\ l[q].wf # 0 => ftable'[l[q].wf].ip = 0
    <3>1. \A q \in Procs : /\ l[q].rf # 0 => l[q].rf \in 1..NFILE /\ ftable[l[q].rf].ip = 0
                           /\ l[q].wf # 0 => l[q].wf \in 1..NFILE /\ ftable[l[q].wf].ip = 0
      BY <2>3, ConstFacts DEF IInv, FileInv
    <3>. QED
      BY <2>1, <3>1
  <2>5. /\ l'[p].rf # 0 => ftable'[l'[p].rf].ip = 0
        /\ l'[p].wf # 0 => ftable'[l'[p].wf].ip = 0
    <3>1. /\ l[p].rf # 0 => ftable'[l[p].rf].ip = 0
          /\ l[p].wf # 0 => ftable'[l[p].wf].ip = 0
      BY <2>4
    <3>2. l'[p].rf # 0 => ftable'[l'[p].rf].ip = 0
      BY <3>1
    <3>3. l'[p].wf # 0 => ftable'[l'[p].wf].ip = 0
      BY <3>1
    <3>. QED
      BY <3>2, <3>3
  <2>6. \A q \in Procs : /\ l'[q].rf # 0 => ftable'[l'[q].rf].ip = 0
                         /\ l'[q].wf # 0 => ftable'[l'[q].wf].ip = 0
    BY <2>4, <2>5
  <2>. QED
    BY <2>2, <2>6 DEF FileInv

\* A step counts the struct files when one descriptor changes, and when none does.
<1>CountedFd.
  ASSUME TypeOK, NEW p \in Procs, NEW d \in 1..NOFILE, NEW v \in FileZ,
         ofile' = [ofile EXCEPT ![p][d] = v],
         \A g \in 1..NFILE : ftable'[g].ref = ftable[g].ref + B(v = g) - B(ofile[p][d] = g)
                                                + FileMine(l'[p], g) - FileMine(l[p], g)
  PROVE FileCounted(p) /\ ofile' \in Ofiles
  <2>. USE <1>CountedFd
  <2>1. ofile \in Ofiles
    BY DEF TypeOK, Ofiles
  <2>3. ofile' \in Ofiles
    BY <2>1 DEF Ofiles
  <2>4. ASSUME NEW g \in 1..NFILE
        PROVE ftable'[g].ref
                = ftable[g].ref + Cardinality(Fds(ofile', g)) - Cardinality(Fds(ofile, g))
                                 + FileMine(l'[p], g) - FileMine(l[p], g)
    <3>1. /\ Cardinality(Fds(ofile, g)) \in Nat /\ Cardinality(Fds(ofile', g)) \in Nat
          /\ Cardinality(Fds(ofile', g)) = Cardinality(Fds(ofile, g)) + B(v = g) - B(ofile[p][d] = g)
      <4>1. Redirected(ofile', ofile, p, d, v)
        BY DEF Redirected
      <4>. QED
        BY <2>1, <4>1, <1>Descriptors, SMTT(60)
    <3>2. ftable'[g].ref = ftable[g].ref + B(v = g) - B(ofile[p][d] = g)
                             + FileMine(l'[p], g) - FileMine(l[p], g)
      OBVIOUS
    <3>3. ftable[g].ref \in Nat
      BY <1>TypeFacts
    <3>4. /\ B(v = g) \in Nat /\ B(ofile[p][d] = g) \in Nat
          /\ FileMine(l'[p], g) \in Nat /\ FileMine(l[p], g) \in Nat
      BY SMTT(60) DEF B, FileMine
    <3>. QED
      BY <3>1, <3>2, <3>3, <3>4, SMTT(60)
  <2>. QED
    BY <2>3, <2>4 DEF FileCounted

\* filealloc() and fileclose() inside sys_pipe() count its own pointers.
<1>CountedCall.
  ASSUME TypeOK, NEW p \in Procs, ofile' = ofile,
         \A g \in 1..NFILE : ftable'[g].ref = ftable[g].ref + FileMine(l'[p], g) - FileMine(l[p], g)
  PROVE FileCounted(p) /\ ofile' \in Ofiles
  <2>. USE <1>CountedCall
  <2>1. ofile' \in Ofiles
    BY DEF TypeOK, Ofiles
  <2>2. ASSUME NEW g \in 1..NFILE
        PROVE ftable'[g].ref
                = ftable[g].ref + Cardinality(Fds(ofile', g)) - Cardinality(Fds(ofile, g))
                                 + FileMine(l'[p], g) - FileMine(l[p], g)
    <3>1. Cardinality(Fds(ofile, g)) \in Nat
      BY <1>FiniteFds, Remove
    <3>2. ftable'[g].ref = ftable[g].ref + FileMine(l'[p], g) - FileMine(l[p], g)
      OBVIOUS
    <3>3. ftable[g].ref \in Nat
      BY <1>TypeFacts
    <3>4. Cardinality(Fds(ofile', g)) = Cardinality(Fds(ofile, g))
      OBVIOUS
    <3>5. FileMine(l'[p], g) \in Nat /\ FileMine(l[p], g) \in Nat
      BY SMTT(60) DEF B, FileMine
    <3>. QED
      BY <3>1, <3>2, <3>3, <3>4, <3>5, SMTT(60)
  <2>. QED
    BY <2>1, <2>2 DEF FileCounted

\* What a descriptor and what rf of sys_pipe() refer to.
<1>OpenFile.
  ASSUME NEW p \in Procs, NEW f,
         f = l[p].rf \/ (\E d \in 1..NOFILE : f = ofile[p][d]), f # 0
  PROVE f \in 1..NFILE /\ ftable[f].ref \in Nat /\ ftable[f].ref >= 1 /\ ftable[f].ip \in InoZ
  <2>. USE <1>OpenFile
  <2>1. TypeOK /\ FileRefs
    BY RefsSplit DEF IInv
  <2>2. f \in FileZ
    <3>1. l[p].rf \in FileZ
      BY <1>TypeFacts
    <3>2. \A d \in 1..NOFILE : ofile[p][d] \in FileZ
      BY <2>1 DEF TypeOK
    <3>. QED
      BY <3>1, <3>2
  <2>3. f \in 1..NFILE
    BY <2>2, ConstFacts
  <2>4. ftable[f].ref \in Nat /\ ftable[f].ip \in InoZ
    BY <1>TypeFacts, <2>3
  <2>5. ftable[f].ref = FilePointers(f)
    BY <2>1, <2>3 DEF FileRefs
  <2>6. CASE f = l[p].rf
    <3>1. FileMine(l[p], f) <= FilePointers(f) /\ FilePointers(f) \in Nat
      BY <2>1, <1>FilePointersAtLeast
    <3>2. FileMine(l[p], f) >= 1 /\ FileMine(l[p], f) \in Nat
      BY <2>6, SMTT(60) DEF FileMine, B
    <3>. QED
      BY <2>3, <2>4, <2>5, <3>1, <3>2, SMTT(60)
  <2>7. CASE \E d \in 1..NOFILE : f = ofile[p][d]
    <3>1. FilePointers(f) >= 1
      BY <2>1, <2>7, <1>FilePointersAtLeast
    <3>. QED
      BY <2>3, <2>4, <2>5, <3>1
  <2>. QED
    BY <2>6, <2>7

\* The free descriptor fdalloc() finds, and the free struct file filealloc() finds.
<1>FirstFd.
  ASSUME TypeOK, NEW p \in Procs, fdalloc(p) # {}
  PROVE First(fdalloc(p)) \in 1..NOFILE /\ ofile[p][First(fdalloc(p))] = 0
  <2>. USE <1>FirstFd
  <2>1. DOMAIN ofile[p] = 1..NOFILE
    BY <1>TypeFacts
  <2>2. fdalloc(p) \subseteq Nat
    BY <2>1, ConstFacts, SMTT(60) DEF fdalloc
  <2>3. First(fdalloc(p)) \in fdalloc(p)
    BY <2>2 DEF SetFacts
  <2>. QED
    BY <2>1, <2>3 DEF fdalloc

\* filealloc() returns a struct file that no call is working on.
<1>FirstFile.
  ASSUME filealloc # {}, NEW f, f = First(filealloc)
  PROVE /\ f \in 1..NFILE /\ ftable[f].ref = 0 /\ ftable[f].ip = 0
        /\ \A q \in Procs : l[q].rf # f /\ l[q].wf # f
  <2>. USE <1>FirstFile
  <2>1. TypeOK /\ FileRefs /\ FileInv
    BY RefsSplit DEF IInv
  <2>2. DOMAIN ftable = 1..NFILE
    BY <1>TypeFacts
  <2>3. filealloc \subseteq Nat
    BY <2>2, ConstFacts, SMTT(60) DEF filealloc
  <2>4. f \in filealloc
    BY <2>3 DEF SetFacts
  <2>5. f \in 1..NFILE /\ ftable[f].ref = 0
    BY <2>2, <2>4 DEF filealloc
  <2>6. FilePointers(f) = 0 /\ ftable[f].ip = 0
    BY <2>1, <2>5 DEF FileRefs, FileInv
  <2>7. ASSUME NEW q \in Procs
        PROVE l[q].rf # f /\ l[q].wf # f
    <3>1. FileMine(l[q], f) <= 0
      BY <2>1, <2>6, <1>FilePointersAtLeast
    <3>. QED
      BY <3>1, SMTT(60) DEF FileMine, B
  <2>. QED
    BY <2>5, <2>6, <2>7

\* fileclose() of a struct file that somebody refers to.
<1>FilecloseFacts.
  ASSUME TypeOK, NEW f \in 1..NFILE, ftable[f].ref >= 1, ftable' = fileclose(f)
  PROVE /\ ftable' \in [1..NFILE -> File] /\ \A g \in 1..NFILE : g # f => ftable'[g] = ftable[g]
        /\ ftable'[f].ref = ftable[f].ref - 1
        /\ ftable'[f].ip = IF ftable[f].ref > 1 THEN ftable[f].ip ELSE 0
  <2>. USE <1>FilecloseFacts
  <2>1. ftable \in [1..NFILE -> File] /\ ftable[f].ref \in Nat /\ ftable[f].ip \in InoZ
    BY DEF TypeOK, File
  <2>2. PICK v : v = IF ftable[f].ref > 1 THEN [ftable[f] EXCEPT !.ref = @ - 1]
                     ELSE [ref |-> 0, ip |-> 0]
    OBVIOUS
  <2>3. ftable' = [ftable EXCEPT ![f] = v]
    BY <2>2 DEF fileclose
  <2>4. /\ v \in File /\ v.ref = ftable[f].ref - 1
        /\ v.ip = IF ftable[f].ref > 1 THEN ftable[f].ip ELSE 0
    BY <2>1, <2>2, ConstFacts, SMTT(60) DEF File
  <2>. QED
    BY <2>1, <2>3, <2>4

\* sys_dup().
<1>SysDupInv.
  ASSUME NEW p \in Procs, sys_dup(p)
  PROVE IInv'
  <2>. USE <1>SysDupInv
  <2>1. TypeOK /\ l[p].pc = "idle" /\ l' = l /\ fdalloc(p) # {}
        /\ UNCHANGED <<dinode, ents, icache, lock, cwd>>
    BY DEF IInv, sys_dup, At, disk
  <2>2. PICK d \in argfd(p) : /\ ofile' = [ofile EXCEPT ![p][First(fdalloc(p))] = ofile[p][d]]
                              /\ ftable' = filedup(ofile[p][d])
    BY DEF sys_dup
  <2>3. PICK f, e : f = ofile[p][d] /\ e = First(fdalloc(p))
    OBVIOUS
  <2>4. d \in 1..NOFILE /\ f # 0
    <3>1. DOMAIN ofile[p] = 1..NOFILE
      BY <1>TypeFacts
    <3>. QED
      BY <2>3, <3>1 DEF argfd
  <2>5. f \in 1..NFILE /\ ftable[f].ref \in Nat /\ ftable[f].ref >= 1 /\ ftable[f].ip \in InoZ
    BY <2>3, <2>4, <1>OpenFile
  <2>6. e \in 1..NOFILE /\ ofile[p][e] = 0
    BY <2>1, <2>3, <1>FirstFd
  <2>7. ftable' = [ftable EXCEPT ![f].ref = @ + 1] /\ ofile' = [ofile EXCEPT ![p][e] = f]
    BY <2>2, <2>3 DEF filedup
  <2>8. /\ ftable' \in [1..NFILE -> File] /\ \A g \in 1..NFILE : g # f => ftable'[g] = ftable[g]
        /\ ftable'[f].ref = ftable[f].ref + 1 /\ ftable'[f].ip = ftable[f].ip
    BY <2>1, <2>5, <2>7, SMTT(60) DEF TypeOK, File
  <2>9. FileCounted(p) /\ ofile' \in Ofiles
    <3>1. f \in FileZ /\ 0 \notin 1..NFILE
      BY <2>5, ConstFacts
    <3>2. \A g \in 1..NFILE : ftable[g].ref \in Nat
      BY <1>TypeFacts
    <3>3. \A g : FileMine(l'[p], g) = FileMine(l[p], g) /\ FileMine(l[p], g) \in Nat
      BY <2>1, SMTT(60) DEF FileMine, B
    <3>4. \A g \in 1..NFILE : ftable'[g].ref = ftable[g].ref + B(f = g) - B(ofile[p][e] = g)
                                                 + FileMine(l'[p], g) - FileMine(l[p], g)
      BY <2>6, <2>8, <3>1, <3>2, <3>3, SMTT(60) DEF B
    <3>. QED
      BY <2>1, <2>6, <2>7, <3>1, <3>4, <1>CountedFd
  <2>10. FileChanged(f)
    BY <2>8, <2>9 DEF FileChanged
  <2>11. l' \in [Procs -> Local] /\ l'[p] = l[p] /\ \A q \in Procs : q # p => l'[q] = l[q]
    BY <2>1 DEF TypeOK
  <2>12. FileInv'
    <3>1. /\ ftable'[f].ip \in {0, ftable[f].ip} /\ ftable'[f].ref # 0
          /\ l'[p].rf \in {0, l[p].rf, l[p].wf} /\ l'[p].wf \in {0, l[p].rf, l[p].wf}
      BY <2>5, <2>8, <2>11, SMTT(60)
    <3>. QED
      BY <2>5, <2>10, <2>11, <3>1, <1>FileInvKept
  <2>13. Free(p)
    BY <2>1, <1>FreeFacts
  <2>14. \A i \in Inums : Mine(l'[p], cwd[p], i) + B(Refers(f, i)') = B(cwd[p] = i) + B(Refers(f, i))
    <3>1. \A i \in Inums : B(Refers(f, i)') = B(Refers(f, i))
      BY <2>5, <2>8, SMTT(60) DEF Refers, B
    <3>. QED
      BY <2>11, <2>13, <3>1 DEF Free
  <2>15. /\ ShapeOf(l'[p]) /\ l'[p].dp = 0 /\ l'[p].ip = 0 /\ l'[p].src = 0
         /\ Loc(l'[p]) \notin LocksDp \cup LocksIp
         /\ l'[p].pc \notin {"iput_free", "unlink_ip", "ialloc", "create_new"}
    <3>1. ShapeOf(l[p])
      BY DEF IInv, Shape
    <3>2. l'[p].pc = "idle" /\ Loc(l'[p]) = "idle"
      BY <2>1, <2>11, <2>13 DEF Free
    <3>3. Loc(l'[p]) \notin LocksDp \cup LocksIp
          /\ l'[p].pc \notin {"iput_free", "unlink_ip", "ialloc", "create_new"}
      BY <3>2 DEF LocksDp, LocksIp
    <3>. QED
      BY <2>11, <2>13, <3>1, <3>3 DEF Free
  <2>. QED
    BY <2>1, <2>5, <2>9, <2>10, <2>11, <2>12, <2>13, <2>14, <2>15, <1>TableInv

\* sys_close().
<1>SysCloseInv.
  ASSUME NEW p \in Procs, sys_close(p)
  PROVE IInv'
  <2>. USE <1>SysCloseInv
  <2>1. TypeOK /\ l[p].pc = "idle" /\ UNCHANGED <<dinode, ents, icache, lock, cwd>>
    BY DEF IInv, sys_close, At, disk
  <2>2. PICK d \in argfd(p) :
          /\ ofile' = [ofile EXCEPT ![p][d] = 0] /\ ftable' = fileclose(ofile[p][d])
          /\ IF ftable[ofile[p][d]].ref > 1 \/ ftable[ofile[p][d]].ip = 0 THEN UNCHANGED l
             ELSE PutAndReturn(p, <<ftable[ofile[p][d]].ip>>)
    BY DEF sys_close
  <2>3. PICK f, i : f = ofile[p][d] /\ i = ftable[f].ip
    OBVIOUS
  <2>4. d \in 1..NOFILE /\ f # 0
    <3>1. DOMAIN ofile[p] = 1..NOFILE
      BY <1>TypeFacts
    <3>. QED
      BY <2>3, <3>1 DEF argfd
  <2>5. f \in 1..NFILE /\ ftable[f].ref \in Nat /\ ftable[f].ref >= 1 /\ i \in InoZ
    BY <2>3, <2>4, <1>OpenFile
  <2>6. /\ ftable' \in [1..NFILE -> File] /\ \A g \in 1..NFILE : g # f => ftable'[g] = ftable[g]
        /\ ftable'[f].ref = ftable[f].ref - 1
        /\ ftable'[f].ip = IF ftable[f].ref > 1 THEN i ELSE 0
    BY <2>1, <2>2, <2>3, <2>5, <1>FilecloseFacts
  <2>7. Free(p) /\ ShapeOf(l[p]) /\ l \in [Procs -> Local] /\ l[p].rf = 0 /\ l[p].wf = 0
    <3>1. Free(p)
      BY <2>1, <1>FreeFacts
    <3>2. ShapeOf(l[p]) /\ l \in [Procs -> Local]
      BY <2>1 DEF IInv, Shape, TypeOK
    <3>3. Loc(l[p]) = "idle"
      BY <2>1, <3>1 DEF Free
    <3>4. l[p].rf = 0 /\ l[p].wf = 0
      BY <3>2, <3>3 DEF ShapeOf
    <3>. QED
      BY <3>1, <3>2, <3>4
  <2>8. \/ (ftable[f].ref > 1 \/ i = 0) /\ l' = l
        \/ ftable[f].ref = 1 /\ i # 0 /\ PutAndReturn(p, <<i>>)
    <3>1. ~(ftable[f].ref > 1) => ftable[f].ref = 1
      BY <2>5, SMTT(60)
    <3>. QED
      BY <2>2, <2>3, <3>1
  <2>9. /\ l' \in [Procs -> Local] /\ \A q \in Procs : q # p => l'[q] = l[q]
        /\ ShapeOf(l'[p]) /\ l'[p].dp = 0 /\ l'[p].ip = 0 /\ l'[p].src = 0
        /\ l'[p].rf = 0 /\ l'[p].wf = 0 /\ Loc(l'[p]) = "idle" /\ l'[p].pc \in {"idle", "iput"}
        /\ \A j \in Inums : Mine(l'[p], cwd[p], j)
             = IF ftable[f].ref = 1 /\ i # 0 THEN B(cwd[p] = j) + B(i = j) ELSE B(cwd[p] = j)
    <3>1. CASE (ftable[f].ref > 1 \/ i = 0) /\ l' = l
      <4>1. ~(ftable[f].ref = 1 /\ i # 0)
        BY <2>5, <3>1, SMTT(60)
      <4>. QED
        BY <2>1, <2>7, <3>1, <4>1 DEF Free
    <3>2. CASE ftable[f].ref = 1 /\ i # 0 /\ PutAndReturn(p, <<i>>)
      <4>1. i \in Inums
        BY <2>5, <3>2, ConstFacts
      <4>2. <<i>> \in Seq(Inums) /\ Len(<<i>>) \in 1..2
        BY <4>1, SMTT(60)
      <4>3. /\ l' \in [Procs -> Local] /\ \A q \in Procs : q # p => l'[q] = l[q]
            /\ l'[p].pc = "iput" /\ l'[p].puts = <<i>> /\ Loc(l'[p]) = "idle" /\ ShapeOf(l'[p])
            /\ l'[p].dp = 0 /\ l'[p].ip = 0 /\ l'[p].src = 0 /\ l'[p].rf = 0 /\ l'[p].wf = 0
        BY <2>1, <3>2, <4>2, ReturnFacts
      <4>4. \A j \in Inums : Mine(l'[p], cwd[p], j) = B(cwd[p] = j) + B(i = j)
        BY <4>3, MinePut, ConstFacts, SMTT(60) DEF B
      <4>. QED
        BY <3>2, <4>3, <4>4
    <3>. QED
      BY <2>8, <3>1, <3>2
  <2>10. FileCounted(p) /\ ofile' \in Ofiles
    <3>1. 0 \in FileZ /\ 0 \notin 1..NFILE
      BY ConstFacts
    <3>2. \A g \in 1..NFILE : ftable[g].ref \in Nat
      BY <1>TypeFacts
    <3>3. \A g \in 1..NFILE : FileMine(l'[p], g) = 0 /\ FileMine(l[p], g) = 0
      BY <2>7, <2>9, <3>1, SMTT(60) DEF FileMine, B
    <3>4. \A g \in 1..NFILE : ftable'[g].ref = ftable[g].ref + B(0 = g) - B(ofile[p][d] = g)
                                                 + FileMine(l'[p], g) - FileMine(l[p], g)
      BY <2>3, <2>6, <3>1, <3>2, <3>3, SMTT(60) DEF B
    <3>. QED
      BY <2>1, <2>2, <2>4, <3>1, <3>4, <1>CountedFd
  <2>11. FileChanged(f)
    BY <2>6, <2>10 DEF FileChanged
  <2>12. FileInv'
    <3>1. /\ ftable'[f].ip \in {0, ftable[f].ip} /\ (ftable'[f].ref = 0 => ftable'[f].ip = 0)
          /\ l'[p].rf \in {0, l[p].rf, l[p].wf} /\ l'[p].wf \in {0, l[p].rf, l[p].wf}
      <4>1. ftable[f].ref - 1 = 0 => ~(ftable[f].ref > 1)
        BY <2>5, SMTT(60)
      <4>. QED
        BY <2>3, <2>6, <2>9, <4>1
    <3>. QED
      BY <2>5, <2>9, <2>11, <3>1, <1>FileInvKept
  <2>13. \A j \in Inums : Mine(l'[p], cwd[p], j) + B(Refers(f, j)') = B(cwd[p] = j) + B(Refers(f, j))
    <3>1. SUFFICES ASSUME NEW j \in Inums
                   PROVE Mine(l'[p], cwd[p], j) + B(Refers(f, j)') = B(cwd[p] = j) + B(Refers(f, j))
      OBVIOUS
    <3>2. j # 0
      BY ConstFacts
    <3>3. Refers(f, j) <=> i = j
      BY <2>3, <2>5, SMTT(60) DEF Refers
    <3>4. Refers(f, j)' <=> ftable[f].ref > 1 /\ i = j
      BY <2>5, <2>6, <3>2, SMTT(60) DEF Refers
    <3>5. Mine(l'[p], cwd[p], j)
            = IF ftable[f].ref = 1 /\ i # 0 THEN B(cwd[p] = j) + B(i = j) ELSE B(cwd[p] = j)
      BY <2>9
    <3>6. B(Refers(f, j)) = B(i = j) /\ B(Refers(f, j)') = B(ftable[f].ref > 1 /\ i = j)
      BY <3>3, <3>4 DEF B
    <3>. QED
      BY <2>5, <3>2, <3>5, <3>6, SMTT(60) DEF B
  <2>14. Loc(l'[p]) \notin LocksDp \cup LocksIp
         /\ l'[p].pc \notin {"iput_free", "unlink_ip", "ialloc", "create_new"}
    BY <2>9 DEF LocksDp, LocksIp
  <2>. QED
    BY <2>1, <2>5, <2>7, <2>9, <2>10, <2>11, <2>12, <2>13, <2>14, <1>TableInv

\* A call that returns to user space.
<1>IdleStep.
  ASSUME TypeOK, NEW p \in Procs, l' = [l EXCEPT ![p] = Idle]
  PROVE /\ l' \in [Procs -> Local] /\ \A q \in Procs : q # p => l'[q] = l[q]
        /\ ShapeOf(l'[p]) /\ l'[p].pc = "idle" /\ Loc(l'[p]) = "idle"
        /\ l'[p].dp = 0 /\ l'[p].ip = 0 /\ l'[p].src = 0 /\ l'[p].puts = <<>>
        /\ l'[p].rf = 0 /\ l'[p].wf = 0
        /\ Loc(l'[p]) \notin LocksDp \cup LocksIp
        /\ l'[p].pc \notin {"iput_free", "unlink_ip", "ialloc", "create_new"}
  <2>. USE <1>IdleStep
  <2>1. PICK v : v = Idle
    OBVIOUS
  <2>2. /\ v \in Local /\ v.pc = "idle" /\ v.dp = 0 /\ v.ip = 0 /\ v.src = 0 /\ v.rf = 0
        /\ v.wf = 0 /\ v.puts = <<>> /\ ShapeOf(v)
    BY <2>1, IdleFacts
  <2>3. Loc(v) = "idle"
    BY <2>2 DEF Loc, Putting
  <2>4. l' \in [Procs -> Local] /\ l'[p] = v /\ \A q \in Procs : q # p => l'[q] = l[q]
    BY <2>1, <2>2 DEF TypeOK
  <2>5. Loc(v) \notin LocksDp \cup LocksIp
        /\ v.pc \notin {"iput_free", "unlink_ip", "ialloc", "create_new"}
    BY <2>2, <2>3 DEF LocksDp, LocksIp
  <2>. QED
    BY <2>2, <2>3, <2>4, <2>5

\* filealloc() for sys_pipe(): the new struct file f is the caller's, as rf or wf.
<1>AllocInv.
  ASSUME NEW p \in Procs, Free(p), filealloc # {}, NEW f, f = First(filealloc),
         l' \in [Procs -> Local], \A q \in Procs : q # p => l'[q] = l[q], ShapeOf(l'[p]),
         l'[p].dp = 0, l'[p].ip = 0, l'[p].src = 0, l'[p].puts = <<>>,
         Loc(l'[p]) = l'[p].pc, l'[p].pc \in {"pipe_wf", "pipe_fds"},
         \/ l[p].rf = 0 /\ l'[p].rf = f /\ l'[p].wf = l[p].wf
         \/ l[p].wf = 0 /\ l'[p].wf = f /\ l'[p].rf = l[p].rf,
         ftable' = [ftable EXCEPT ![f].ref = 1],
         UNCHANGED <<dinode, ents, icache, lock, ofile, cwd>>
  PROVE IInv'
  <2>. USE <1>AllocInv
  <2>1. TypeOK
    BY DEF IInv
  <2>2. f \in 1..NFILE /\ ftable[f].ref = 0 /\ ftable[f].ip = 0 /\ l[p].rf # f /\ l[p].wf # f
    BY <1>FirstFile
  <2>3. /\ ftable' \in [1..NFILE -> File] /\ \A g \in 1..NFILE : g # f => ftable'[g] = ftable[g]
        /\ ftable'[f].ref = 1 /\ ftable'[f].ip = 0
    BY <2>1, <2>2, SMTT(60) DEF TypeOK, File
  <2>4. FileCounted(p) /\ ofile' \in Ofiles
    <3>1. 0 \notin 1..NFILE /\ \A g \in 1..NFILE : ftable[g].ref \in Nat
      BY <1>TypeFacts, ConstFacts
    <3>2. \A g \in 1..NFILE : ftable'[g].ref = ftable[g].ref + B(g = f)
      BY <2>2, <2>3, <3>1, SMTT(60) DEF B
    <3>3. \A g \in 1..NFILE : FileMine(l'[p], g) = FileMine(l[p], g) + B(g = f)
      BY <2>2, <3>1, SMTT(60) DEF FileMine, B
    <3>4. \A g \in 1..NFILE : FileMine(l[p], g) \in Nat /\ B(g = f) \in Nat
      BY SMTT(60) DEF FileMine, B
    <3>5. \A g \in 1..NFILE : ftable'[g].ref = ftable[g].ref + FileMine(l'[p], g) - FileMine(l[p], g)
      BY <3>1, <3>2, <3>3, <3>4, SMTT(60)
    <3>. QED
      BY <2>1, <3>5, <1>CountedCall
  <2>5. FileChanged(f)
    BY <2>3, <2>4 DEF FileChanged
  <2>6. FileInv'
    <3>1. /\ ftable'[f].ip \in {0, ftable[f].ip} /\ ftable'[f].ref # 0
          /\ l'[p].rf \in {0, l[p].rf, l[p].wf} \/ (l'[p].rf = f /\ ftable'[f].ip = 0)
          /\ l'[p].wf \in {0, l[p].rf, l[p].wf} \/ (l'[p].wf = f /\ ftable'[f].ip = 0)
      BY <2>3, SMTT(60)
    <3>. QED
      BY <2>2, <2>5, <3>1, <1>FileInvKept
  <2>7. \A i \in Inums : Mine(l'[p], cwd[p], i) + B(Refers(f, i)') = B(cwd[p] = i) + B(Refers(f, i))
    <3>1. \A i \in Inums : Mine(l'[p], cwd[p], i) = B(cwd[p] = i)
      BY MinePlain, ConstFacts, SMTT(60) DEF B
    <3>2. \A i \in Inums : B(Refers(f, i)') = B(Refers(f, i))
      BY <2>2, <2>3, ConstFacts, SMTT(60) DEF Refers, B
    <3>. QED
      BY <3>1, <3>2
  <2>8. Loc(l'[p]) \notin LocksDp \cup LocksIp
        /\ l'[p].pc \notin {"iput_free", "unlink_ip", "ialloc", "create_new"}
    BY DEF LocksDp, LocksIp
  <2>. QED
    BY <2>2, <2>4, <2>5, <2>6, <2>7, <2>8, <1>TableInv

\* The first struct file of sys_pipe().
<1>SysPipeInv.
  ASSUME NEW p \in Procs, sys_pipe(p)
  PROVE IInv'
  <2>. USE <1>SysPipeInv
  <2>1. /\ TypeOK /\ l[p] \in Local /\ ShapeOf(l[p]) /\ l[p].pc = "idle" /\ filealloc # {}
        /\ UNCHANGED <<dinode, ents, icache, lock, ofile, cwd>>
    BY DEF IInv, TypeOK, Shape, sys_pipe, At, disk
  <2>2. PICK f : f = First(filealloc)
    OBVIOUS
  <2>3. ftable' = [ftable EXCEPT ![f].ref = 1]
        /\ l' = [l EXCEPT ![p].pc = "pipe_wf", ![p].rf = f]
    BY <2>2 DEF sys_pipe
  <2>4. Free(p) /\ f \in 1..NFILE
    <3>1. Free(p)
      BY <2>1, <1>FreeFacts
    <3>. QED
      BY <2>1, <2>2, <3>1, <1>FirstFile
  <2>5. PICK w, v : w = [l[p] EXCEPT !.pc = "pipe_wf"] /\ v = [w EXCEPT !.rf = f]
    OBVIOUS
  <2>6. l' = [l EXCEPT ![p] = v]
    BY <2>1, <2>3, <2>5 DEF TypeOK
  <2>7. /\ v \in Local /\ v.pc = "pipe_wf" /\ v.rf = f /\ v.wf = l[p].wf /\ v.puts = l[p].puts
        /\ v.dp = l[p].dp /\ v.ip = l[p].ip /\ v.src = l[p].src
    <3>1. f \in FileZ /\ "pipe_wf" \in Labels
      BY <2>4, ConstFacts DEF Labels
    <3>2. /\ w \in Local /\ w.pc = "pipe_wf" /\ w.wf = l[p].wf /\ w.puts = l[p].puts
          /\ w.dp = l[p].dp /\ w.ip = l[p].ip /\ w.src = l[p].src
      BY <2>1, <2>5, <3>1 DEF Local
    <3>. QED
      BY <2>5, <3>1, <3>2 DEF Local
  <2>8. /\ v.dp = 0 /\ v.ip = 0 /\ v.src = 0 /\ v.puts = <<>> /\ l[p].rf = 0 /\ l[p].wf = 0
    <3>1. Loc(l[p]) = "idle"
      BY <2>1, <2>4 DEF Free
    <3>2. l[p].rf = 0 /\ l[p].wf = 0
      BY <2>1, <3>1 DEF ShapeOf
    <3>. QED
      BY <2>4, <2>7, <3>2 DEF Free
  <2>9. Loc(v) = "pipe_wf"
    BY <2>7 DEF Loc, Putting
  <2>10. ShapeOf(v)
    <3>1. f # 0
      BY <2>4, ConstFacts
    <3>. QED
      BY <2>7, <2>8, <2>9, <3>1 DEF ShapeOf, Putting, HasDp, HasIp, HasSrc
  <2>11. l' \in [Procs -> Local] /\ l'[p] = v /\ \A q \in Procs : q # p => l'[q] = l[q]
    BY <2>1, <2>6, <2>7 DEF TypeOK
  <2>12. /\ l'[p].dp = 0 /\ l'[p].ip = 0 /\ l'[p].src = 0 /\ l'[p].puts = <<>> /\ ShapeOf(l'[p])
         /\ Loc(l'[p]) = l'[p].pc /\ l'[p].pc \in {"pipe_wf", "pipe_fds"}
         /\ l[p].rf = 0 /\ l'[p].rf = f /\ l'[p].wf = l[p].wf
    BY <2>7, <2>8, <2>9, <2>10, <2>11
  <2>. QED
    BY <2>1, <2>2, <2>3, <2>4, <2>11, <2>12, <1>AllocInv

\* A step inside sys_pipe() that leaves the tables alone.
<1>PipeMoveInv.
  ASSUME NEW p \in Procs, l[p].pc \in {"pipe_wf", "pipe_fds"},
         l' = [l EXCEPT ![p].pc = "pipe_bad"],
         UNCHANGED <<dinode, ents, icache, lock, ftable, ofile, cwd>>
  PROVE IInv'
  <2>. USE <1>PipeMoveInv
  <2>1. TypeOK /\ LockInv /\ l[p] \in Local /\ ShapeOf(l[p])
    BY DEF IInv, TypeOK, Shape
  <2>2. Free(p)
    BY <1>FreeFacts
  <2>3. PICK v : v = [l[p] EXCEPT !.pc = "pipe_bad"]
    OBVIOUS
  <2>4. l' = [l EXCEPT ![p] = v]
    BY <2>1, <2>3 DEF TypeOK, Local
  <2>5. /\ v \in Local /\ v.pc = "pipe_bad" /\ v.rf = l[p].rf /\ v.wf = l[p].wf /\ v.puts = l[p].puts
        /\ v.dp = l[p].dp /\ v.ip = l[p].ip /\ v.src = l[p].src
    BY <2>1, <2>3 DEF Local, Labels
  <2>6. v.dp = 0 /\ v.ip = 0 /\ v.src = 0 /\ v.puts = <<>> /\ Loc(v) = "pipe_bad" /\ v.rf # 0
    <3>1. Loc(l[p]) = l[p].pc
      BY <2>2 DEF Free
    <3>2. l[p].rf # 0
      BY <2>1, <3>1 DEF ShapeOf
    <3>3. Loc(v) = "pipe_bad"
      BY <2>5 DEF Loc, Putting
    <3>. QED
      BY <2>2, <2>5, <3>2, <3>3 DEF Free
  <2>7. ShapeOf(v)
    BY <2>5, <2>6 DEF ShapeOf, Putting, HasDp, HasIp, HasSrc
  <2>8. l' \in [Procs -> Local] /\ l'[p] = v /\ \A q \in Procs : q # p => l'[q] = l[q]
    BY <2>1, <2>4, <2>5 DEF TypeOK
  <2>9. Cached /\ \A i \in Inums : icache'[i].ref = icache[i].ref
    BY KeptStep
  <2>10. Locked(p) /\ lock' \in [Inums -> Procs \cup {None}]
    <3>1. \A i \in Inums : ~Holds(v, i)
      BY <2>5, <2>6 DEF Holds, Keeps, LocksDp, LocksIp
    <3>2. \A i \in Inums : Holds(l'[p], i) <=> Holds(l[p], i)
      BY <2>2, <2>8, <3>1 DEF Free
    <3>3. lock' = lock /\ l'[p].pc # "iput_free" /\ lock' \in [Inums -> Procs \cup {None}]
      BY <2>1, <2>5, <2>8 DEF TypeOK
    <3>. QED
      BY <2>1, <3>2, <3>3, LocksKept
  <2>11. /\ Loc(l'[p]) \notin LocksIp /\ l'[p].pc \notin {"unlink_ip", "ialloc", "create_new"}
    BY <2>5, <2>6, <2>8 DEF LocksIp
  <2>12. /\ ShapeOf(l'[p]) /\ l'[p].puts = l[p].puts /\ l'[p].dp = l[p].dp /\ l'[p].ip = l[p].ip
         /\ l'[p].src = l[p].src /\ l'[p].rf = l[p].rf /\ l'[p].wf = l[p].wf
    BY <2>5, <2>7, <2>8
  <2>. QED
    BY <2>8, <2>9, <2>10, <2>11, <2>12, MoveInv

\* The second struct file of sys_pipe().
<1>PipeWfInv.
  ASSUME NEW p \in Procs, pipe_wf(p)
  PROVE IInv'
  <2>. USE <1>PipeWfInv
  <2>1. /\ TypeOK /\ l[p] \in Local /\ ShapeOf(l[p]) /\ l[p].pc = "pipe_wf"
        /\ UNCHANGED <<dinode, ents, icache, lock, ofile, cwd>>
    BY DEF IInv, TypeOK, Shape, pipe_wf, At, disk
  <2>2. CASE filealloc = {}
    <3>1. l' = [l EXCEPT ![p].pc = "pipe_bad"] /\ ftable' = ftable
      BY <2>2 DEF pipe_wf
    <3>2. l[p].pc \in {"pipe_wf", "pipe_fds"}
      BY <2>1
    <3>. QED
      BY <2>1, <3>1, <3>2, <1>PipeMoveInv
  <2>3. CASE filealloc # {}
    <3>1. PICK f : f = First(filealloc)
      OBVIOUS
    <3>2. ftable' = [ftable EXCEPT ![f].ref = 1]
          /\ l' = [l EXCEPT ![p].pc = "pipe_fds", ![p].wf = f]
      BY <2>3, <3>1 DEF pipe_wf
    <3>3. Free(p)
      BY <2>1, <1>FreeFacts
    <3>4. f \in 1..NFILE
      BY <2>3, <3>1, <1>FirstFile
    <3>5. PICK w, v : w = [l[p] EXCEPT !.pc = "pipe_fds"] /\ v = [w EXCEPT !.wf = f]
      OBVIOUS
    <3>6. l' = [l EXCEPT ![p] = v]
      BY <2>1, <3>2, <3>5 DEF TypeOK
    <3>7. /\ v \in Local /\ v.pc = "pipe_fds" /\ v.wf = f /\ v.rf = l[p].rf /\ v.puts = l[p].puts
          /\ v.dp = l[p].dp /\ v.ip = l[p].ip /\ v.src = l[p].src
      <4>1. f \in FileZ /\ "pipe_fds" \in Labels
        BY <3>4, ConstFacts DEF Labels
      <4>2. /\ w \in Local /\ w.pc = "pipe_fds" /\ w.rf = l[p].rf /\ w.puts = l[p].puts
            /\ w.dp = l[p].dp /\ w.ip = l[p].ip /\ w.src = l[p].src
        BY <2>1, <3>5, <4>1 DEF Local
      <4>. QED
        BY <3>5, <4>1, <4>2 DEF Local
    <3>8. v.dp = 0 /\ v.ip = 0 /\ v.src = 0 /\ v.puts = <<>> /\ l[p].rf # 0 /\ l[p].wf = 0
      <4>1. Loc(l[p]) = "pipe_wf"
        BY <2>1, <3>3 DEF Free
      <4>2. l[p].rf # 0 /\ l[p].wf = 0
        BY <2>1, <4>1 DEF ShapeOf
      <4>. QED
        BY <3>3, <3>7, <4>2 DEF Free
    <3>9. Loc(v) = "pipe_fds"
      BY <3>7 DEF Loc, Putting
    <3>10. ShapeOf(v)
      <4>1. f # 0
        BY <3>4, ConstFacts
      <4>. QED
        BY <3>7, <3>8, <3>9, <4>1 DEF ShapeOf, Putting, HasDp, HasIp, HasSrc
    <3>11. l' \in [Procs -> Local] /\ l'[p] = v /\ \A q \in Procs : q # p => l'[q] = l[q]
      BY <2>1, <3>6, <3>7 DEF TypeOK
    <3>12. /\ l'[p].dp = 0 /\ l'[p].ip = 0 /\ l'[p].src = 0 /\ l'[p].puts = <<>> /\ ShapeOf(l'[p])
           /\ Loc(l'[p]) = l'[p].pc /\ l'[p].pc \in {"pipe_wf", "pipe_fds"}
           /\ l[p].wf = 0 /\ l'[p].wf = f /\ l'[p].rf = l[p].rf
      BY <3>7, <3>8, <3>9, <3>10, <3>11
    <3>. QED
      BY <2>1, <2>3, <3>1, <3>2, <3>3, <3>11, <3>12, <1>AllocInv
  <2>. QED
    BY <2>2, <2>3

\* sys_pipe() installs its two descriptors, or fails.
<1>PipeFdsInv.
  ASSUME NEW p \in Procs, pipe_fds(p)
  PROVE IInv'
  <2>. USE <1>PipeFdsInv
  <2>1. /\ TypeOK /\ FileInv /\ l[p] \in Local /\ ShapeOf(l[p]) /\ l[p].pc = "pipe_fds"
        /\ UNCHANGED <<dinode, ents, icache, lock, ftable, cwd>>
    BY DEF IInv, TypeOK, Shape, pipe_fds, At, disk
  <2>2. CASE l' = [l EXCEPT ![p].pc = "pipe_bad"] /\ ofile' = ofile
    <3>1. l[p].pc \in {"pipe_wf", "pipe_fds"}
      BY <2>1
    <3>. QED
      BY <2>1, <2>2, <3>1, <1>PipeMoveInv
  <2>3. ASSUME Cardinality(fdalloc(p)) >= 2, l' = [l EXCEPT ![p] = Idle],
               NEW d, NEW e, d = First(fdalloc(p)), e = First(fdalloc(p) \ {d}),
               ofile' = [ofile EXCEPT ![p][d] = l[p].rf, ![p][e] = l[p].wf]
        PROVE IInv'
    <3>1. DOMAIN ofile[p] = 1..NOFILE /\ ofile \in Ofiles /\ l[p].rf \in FileZ /\ l[p].wf \in FileZ
      BY <1>TypeFacts
    <3>2. IsFiniteSet(fdalloc(p)) /\ fdalloc(p) \subseteq Nat
      <4>1. fdalloc(p) \subseteq 1..NOFILE
        BY <3>1 DEF fdalloc
      <4>2. 1..NOFILE \subseteq Nat
        BY ConstFacts, SMTT(60)
      <4>. QED
        BY <4>1, <4>2 DEF SetFacts
    <3>3. fdalloc(p) # {} /\ fdalloc(p) \ {d} # {}
      <4>1. Cardinality({}) = 0
        BY DEF SetFacts
      <4>2. /\ Cardinality(fdalloc(p)) \in Nat /\ Cardinality(fdalloc(p) \ {d}) \in Nat
            /\ Cardinality(fdalloc(p)) = Cardinality(fdalloc(p) \ {d}) + B(d \in fdalloc(p))
        BY <3>2, Remove
      <4>3. Cardinality(fdalloc(p) \ {d}) >= 1
        BY <2>3, <4>2, SMTT(60) DEF B
      <4>. QED
        <5>1. \A S : S = {} => Cardinality(S) = 0
          BY <4>1
        <5>2. Cardinality(fdalloc(p)) # 0 /\ Cardinality(fdalloc(p) \ {d}) # 0
          BY <2>3, <4>2, <4>3, SMTT(60)
        <5>. QED
          BY <5>1, <5>2
    <3>4. d \in fdalloc(p) /\ e \in fdalloc(p) /\ e # d
      <4>1. fdalloc(p) \ {d} \subseteq Nat
        BY <3>2
      <4>2. First(fdalloc(p)) \in fdalloc(p) /\ First(fdalloc(p) \ {d}) \in fdalloc(p) \ {d}
        BY <3>2, <3>3, <4>1 DEF SetFacts
      <4>. QED
        BY <2>3, <4>2
    <3>5. d \in 1..NOFILE /\ e \in 1..NOFILE /\ e # d /\ ofile[p][d] = 0 /\ ofile[p][e] = 0
      BY <3>1, <3>4 DEF fdalloc
    <3>6. PICK o : o = [ofile EXCEPT ![p][d] = l[p].rf]
      OBVIOUS
    <3>7. Redirected(o, ofile, p, d, l[p].rf) /\ Redirected(ofile', o, p, e, l[p].wf)
          /\ o[p][e] = 0 /\ o \in Ofiles
      <4>1. o \in Ofiles /\ o[p][e] = 0
        BY <3>1, <3>5, <3>6 DEF Ofiles
      <4>2. ofile' = [o EXCEPT ![p][e] = l[p].wf]
        BY <2>3, <3>1, <3>6 DEF Ofiles
      <4>. QED
        BY <3>6, <4>1, <4>2 DEF Redirected
    <3>8. ofile' \in Ofiles
      BY <3>1, <3>5, <3>7 DEF Redirected, Ofiles
    <3>9. /\ l' \in [Procs -> Local] /\ \A q \in Procs : q # p => l'[q] = l[q]
          /\ ShapeOf(l'[p]) /\ l'[p].pc = "idle" /\ Loc(l'[p]) = "idle"
          /\ l'[p].dp = 0 /\ l'[p].ip = 0 /\ l'[p].src = 0 /\ l'[p].puts = <<>>
          /\ l'[p].rf = 0 /\ l'[p].wf = 0
          /\ Loc(l'[p]) \notin LocksDp \cup LocksIp
          /\ l'[p].pc \notin {"iput_free", "unlink_ip", "ialloc", "create_new"}
      BY <2>1, <2>3, <1>IdleStep
    <3>10. FileCounted(p)
      <4>1. SUFFICES ASSUME NEW g \in 1..NFILE
                     PROVE ftable'[g].ref = ftable[g].ref + Cardinality(Fds(ofile', g))
                              - Cardinality(Fds(ofile, g)) + FileMine(l'[p], g) - FileMine(l[p], g)
        BY DEF FileCounted
      <4>2. /\ Cardinality(Fds(ofile, g)) \in Nat /\ Cardinality(Fds(o, g)) \in Nat
            /\ Cardinality(Fds(o, g))
                 = Cardinality(Fds(ofile, g)) + B(l[p].rf = g) - B(ofile[p][d] = g)
        BY <3>1, <3>5, <3>7, <1>Descriptors, SMTT(60)
      <4>3. /\ Cardinality(Fds(ofile', g)) \in Nat
            /\ Cardinality(Fds(ofile', g)) = Cardinality(Fds(o, g)) + B(l[p].wf = g) - B(o[p][e] = g)
        BY <3>1, <3>5, <3>7, <1>Descriptors, SMTT(60)
      <4>4. g # 0 /\ ftable[g].ref \in Nat /\ ftable'[g].ref = ftable[g].ref
        BY <2>1, ConstFacts DEF TypeOK, File
      <4>5. /\ B(ofile[p][d] = g) = 0 /\ B(o[p][e] = g) = 0 /\ FileMine(l'[p], g) = 0
            /\ FileMine(l[p], g) = B(l[p].rf = g) + B(l[p].wf = g)
        BY <3>5, <3>7, <3>9, <4>4, SMTT(60) DEF FileMine, B
      <4>6. B(l[p].rf = g) \in Nat /\ B(l[p].wf = g) \in Nat
        BY DEF B
      <4>. QED
        BY <4>2, <4>3, <4>4, <4>5, <4>6, SMTT(60)
    <3>11. FileChanged(1) /\ 1 \in 1..NFILE
      BY <2>1, <3>8, ConstFacts, SMTT(60) DEF FileChanged, TypeOK
    <3>12. FileInv'
      <4>1. /\ ftable'[1].ip \in {0, ftable[1].ip} /\ (ftable'[1].ref = 0 => ftable'[1].ip = 0)
            /\ l'[p].rf \in {0, l[p].rf, l[p].wf} /\ l'[p].wf \in {0, l[p].rf, l[p].wf}
        BY <2>1, <3>9, <3>11 DEF FileInv
      <4>. QED
        BY <3>9, <3>11, <4>1, <1>FileInvKept
    <3>13. \A i \in Inums : Mine(l'[p], cwd[p], i) + B(Refers(1, i)')
                               = B(cwd[p] = i) + B(Refers(1, i))
      <4>1. \A i \in Inums : Mine(l'[p], cwd[p], i) = B(cwd[p] = i)
        BY <3>9, MinePlain, ConstFacts, SMTT(60) DEF B
      <4>2. \A i \in Inums : B(Refers(1, i)') = B(Refers(1, i))
        BY <2>1 DEF Refers
      <4>. QED
        BY <4>1, <4>2
    <3>14. Free(p)
      BY <2>1, <1>FreeFacts
    <3>. QED
      BY <2>1, <3>9, <3>10, <3>11, <3>12, <3>13, <3>14, <1>TableInv
  <2>. QED
    BY <2>2, <2>3 DEF pipe_fds

\* The error path of sys_pipe().
<1>PipeBadInv.
  ASSUME NEW p \in Procs, pipe_bad(p)
  PROVE IInv'
  <2>. USE <1>PipeBadInv
  <2>1. /\ TypeOK /\ FileInv /\ l[p] \in Local /\ ShapeOf(l[p]) /\ l[p].pc = "pipe_bad"
        /\ UNCHANGED <<dinode, ents, icache, lock, ofile, cwd>>
    BY DEF IInv, TypeOK, Shape, pipe_bad, At, disk
  <2>2. PICK f : f = l[p].rf
    OBVIOUS
  <2>3. /\ ftable' = fileclose(f)
        /\ l' = [l EXCEPT ![p] = IF l[p].wf = 0 THEN Idle
                                 ELSE [l[p] EXCEPT !.rf = l[p].wf, !.wf = 0]]
    BY <2>2 DEF pipe_bad
  <2>4. Free(p)
    BY <2>1, <1>FreeFacts
  <2>5. f # 0 /\ l[p].wf \in FileZ
    <3>1. Loc(l[p]) = "pipe_bad"
      BY <2>1, <2>4 DEF Free
    <3>. QED
      BY <2>1, <2>2, <3>1 DEF ShapeOf, Local
  <2>6. f \in 1..NFILE /\ ftable[f].ref \in Nat /\ ftable[f].ref >= 1
    BY <2>2, <2>5, <1>OpenFile
  <2>7. ftable[f].ip = 0
    BY <2>1, <2>2, <2>5 DEF FileInv
  <2>8. /\ ftable' \in [1..NFILE -> File] /\ \A g \in 1..NFILE : g # f => ftable'[g] = ftable[g]
        /\ ftable'[f].ref = ftable[f].ref - 1 /\ ftable'[f].ip = 0
    BY <2>1, <2>3, <2>6, <2>7, <1>FilecloseFacts
  <2>9. /\ l' \in [Procs -> Local] /\ \A q \in Procs : q # p => l'[q] = l[q]
        /\ ShapeOf(l'[p]) /\ l'[p].dp = 0 /\ l'[p].ip = 0 /\ l'[p].src = 0 /\ l'[p].puts = <<>>
        /\ l'[p].rf = l[p].wf /\ l'[p].wf = 0
        /\ Loc(l'[p]) \notin LocksDp \cup LocksIp
        /\ l'[p].pc \notin {"iput_free", "unlink_ip", "ialloc", "create_new"}
    <3>1. CASE l[p].wf = 0
      <4>1. l' = [l EXCEPT ![p] = Idle]
        BY <2>3, <3>1
      <4>. QED
        BY <2>1, <3>1, <4>1, <1>IdleStep
    <3>2. CASE l[p].wf # 0
      <4>1. PICK w, v : w = [l[p] EXCEPT !.rf = l[p].wf] /\ v = [w EXCEPT !.wf = 0]
        OBVIOUS
      <4>2. l' = [l EXCEPT ![p] = v]
        BY <2>3, <3>2, <4>1
      <4>3. 0 \in FileZ
        BY ConstFacts
      <4>4. /\ w \in Local /\ w.pc = l[p].pc /\ w.rf = l[p].wf /\ w.puts = l[p].puts
            /\ w.dp = l[p].dp /\ w.ip = l[p].ip /\ w.src = l[p].src
        BY <2>1, <2>5, <4>1 DEF Local
      <4>5. /\ v \in Local /\ v.pc = "pipe_bad" /\ v.rf = l[p].wf /\ v.wf = 0 /\ v.puts = l[p].puts
            /\ v.dp = l[p].dp /\ v.ip = l[p].ip /\ v.src = l[p].src
        BY <2>1, <4>1, <4>3, <4>4 DEF Local
      <4>6. v.dp = 0 /\ v.ip = 0 /\ v.src = 0 /\ v.puts = <<>>
        BY <2>4, <4>5 DEF Free
      <4>7. Loc(v) = "pipe_bad"
        BY <4>5 DEF Loc, Putting
      <4>8. ShapeOf(v)
        BY <3>2, <4>5, <4>6, <4>7 DEF ShapeOf, Putting, HasDp, HasIp, HasSrc
      <4>9. l' \in [Procs -> Local] /\ l'[p] = v /\ \A q \in Procs : q # p => l'[q] = l[q]
        BY <2>1, <4>2, <4>5 DEF TypeOK
      <4>10. Loc(v) \notin LocksDp \cup LocksIp
             /\ v.pc \notin {"iput_free", "unlink_ip", "ialloc", "create_new"}
        BY <4>5, <4>7 DEF LocksDp, LocksIp
      <4>. QED
        BY <4>5, <4>6, <4>8, <4>9, <4>10
    <3>. QED
      BY <3>1, <3>2
  <2>10. FileCounted(p) /\ ofile' \in Ofiles
    <3>1. 0 \notin 1..NFILE /\ \A g \in 1..NFILE : ftable[g].ref \in Nat
      BY <1>TypeFacts, ConstFacts
    <3>2. \A g \in 1..NFILE : ftable'[g].ref = ftable[g].ref - B(f = g)
      BY <2>6, <2>8, <3>1, SMTT(60) DEF B
    <3>3. \A g \in 1..NFILE : FileMine(l'[p], g) = FileMine(l[p], g) - B(f = g)
      BY <2>2, <2>9, <3>1, SMTT(60) DEF FileMine, B
    <3>4. \A g \in 1..NFILE : FileMine(l[p], g) \in Nat /\ B(f = g) \in Nat
      BY SMTT(60) DEF FileMine, B
    <3>5. \A g \in 1..NFILE : ftable'[g].ref = ftable[g].ref + FileMine(l'[p], g) - FileMine(l[p], g)
      BY <3>1, <3>2, <3>3, <3>4, SMTT(60)
    <3>. QED
      BY <2>1, <3>5, <1>CountedCall
  <2>11. FileChanged(f)
    BY <2>8, <2>10 DEF FileChanged
  <2>12. FileInv'
    <3>1. /\ ftable'[f].ip \in {0, ftable[f].ip} /\ (ftable'[f].ref = 0 => ftable'[f].ip = 0)
          /\ l'[p].rf \in {0, l[p].rf, l[p].wf} /\ l'[p].wf \in {0, l[p].rf, l[p].wf}
      BY <2>8, <2>9
    <3>. QED
      BY <2>6, <2>9, <2>11, <3>1, <1>FileInvKept
  <2>13. \A i \in Inums : Mine(l'[p], cwd[p], i) + B(Refers(f, i)') = B(cwd[p] = i) + B(Refers(f, i))
    <3>1. \A i \in Inums : Mine(l'[p], cwd[p], i) = B(cwd[p] = i)
      BY <2>9, MinePlain, ConstFacts, SMTT(60) DEF B
    <3>2. \A i \in Inums : B(Refers(f, i)') = B(Refers(f, i))
      BY <2>7, <2>8, ConstFacts DEF Refers, B
    <3>. QED
      BY <3>1, <3>2
  <2>. QED
    BY <2>1, <2>4, <2>6, <2>9, <2>10, <2>11, <2>12, <2>13, <1>TableInv

\* sys_open() with ip locked: the cache has the inode and the lock goes.
<1>OpenFacts.
  ASSUME NEW p \in Procs, sys_open(p)
  PROVE /\ l[p].ip \in Inums /\ l[p].rf = 0 /\ l[p].wf = 0 /\ Cached /\ Releases(p)
        /\ \A j \in Inums : icache'[j].ref = icache[j].ref
        /\ \A j \in Inums : Mine(l[p], cwd[p], j) = B(cwd[p] = j) + B(l[p].ip = j)
        /\ UNCHANGED <<dinode, ents, cwd>>
  <2>. USE <1>OpenFacts
  <2>1. TypeOK /\ Checked /\ l[p] \in Local /\ ShapeOf(l[p]) /\ UNCHANGED <<dinode, ents, cwd>>
    BY DEF IInv, TypeOK, Shape, sys_open, disk
  <2>2. PICK i : i = l[p].ip
    OBVIOUS
  <2>3. /\ (l[p].pc = "open" /\ CanLock(i)) \/ l[p].pc = "created"
        /\ icache' = Loaded(icache, i) /\ lock' = [lock EXCEPT ![i] = None]
    BY <2>2 DEF sys_open, At
  <2>4. Loc(l[p]) = l[p].pc /\ l[p].pc \in {"open", "created"}
    BY <2>3 DEF Loc, Putting
  <2>5. /\ i \in Inums /\ l[p].dp = 0 /\ l[p].src = 0 /\ l[p].puts = <<>>
        /\ l[p].rf = 0 /\ l[p].wf = 0
    <3>1. i \in InoZ
      BY <2>1, <2>2 DEF Local
    <3>2. /\ i # 0 /\ l[p].dp = 0 /\ l[p].src = 0 /\ l[p].puts = <<>> /\ l[p].rf = 0 /\ l[p].wf = 0
      BY <2>1, <2>2, <2>4 DEF ShapeOf, Putting, HasDp, HasIp, HasSrc
    <3>. QED
      BY <3>1, <3>2, ConstFacts
  <2>6. \A j \in Inums : Mine(l[p], cwd[p], j) = B(cwd[p] = j) + B(i = j)
    BY <2>2, <2>5, MinePlain, ConstFacts, SMTT(60) DEF B
  <2>7. CASE l[p].pc = "open" /\ CanLock(i)
    <3>1. Cached /\ \A j \in Inums : icache'[j].ref = icache[j].ref
      BY <2>1, <2>3, <2>5, <2>7, LoadedStep
    <3>2. \A j \in Inums : ~Holds(l[p], j)
      BY <2>4, <2>7 DEF Holds, Keeps, LocksDp, LocksIp
    <3>3. lock' = lock
      <4>1. lock[i] = None /\ lock \in [Inums -> Procs \cup {None}]
        BY <2>1, <2>7 DEF CanLock, TypeOK
      <4>. QED
        BY <2>3, <4>1
    <3>. QED
      BY <2>1, <2>2, <2>5, <2>6, <3>1, <3>2, <3>3 DEF Releases
  <2>8. CASE l[p].pc = "created"
    <3>1. icache' = icache
      <4>1. icache[i].valid
        BY <2>1, <2>2, <2>4, <2>8 DEF Checked, LocksIp
      <4>. QED
        BY <2>3, <4>1 DEF Loaded
    <3>2. Cached /\ \A j \in Inums : icache'[j].ref = icache[j].ref
      BY <2>1, <3>1, KeptStep
    <3>3. \A j \in Inums : Holds(l[p], j) <=> j = i
      BY <2>2, <2>4, <2>8 DEF Holds, Keeps, LocksDp, LocksIp
    <3>4. Releases(p)
      BY <2>3, <2>5, <3>3 DEF Releases
    <3>. QED
      BY <2>1, <2>2, <2>5, <2>6, <3>2, <3>4
  <2>. QED
    BY <2>3, <2>7, <2>8

\* sys_open() that fails puts ip.
<1>OpenFailsInv.
  ASSUME NEW p \in Procs, sys_open(p), PutAndReturn(p, <<l[p].ip>>),
         ftable' = ftable, ofile' = ofile
  PROVE IInv'
  <2>. USE <1>OpenFailsInv
  <2>1. TypeOK
    BY DEF IInv
  <2>2. /\ l[p].ip \in Inums /\ l[p].rf = 0 /\ l[p].wf = 0 /\ Cached /\ Releases(p)
        /\ \A j \in Inums : icache'[j].ref = icache[j].ref
        /\ \A j \in Inums : Mine(l[p], cwd[p], j) = B(cwd[p] = j) + B(l[p].ip = j)
        /\ UNCHANGED <<dinode, ents, cwd>>
    BY <1>OpenFacts
  <2>3. \A i \in Inums : icache'[i].ref = icache[i].ref + B(cwd'[p] = i) + B(l[p].ip = i)
                                            - Mine(l[p], cwd[p], i)
    <3>1. cwd' = cwd /\ \A i \in Inums : icache[i].ref \in Nat
      BY <2>2, <1>TypeFacts
    <3>. QED
      BY <2>2, <3>1, SMTT(60) DEF B
  <2>4. cwd' \in [Procs -> Inums] /\ \A q \in Procs : q # p => cwd'[q] = cwd[q]
    BY <2>1, <2>2 DEF TypeOK
  <2>. QED
    BY <2>2, <2>3, <2>4, ReturnInv

\* sys_open() that succeeds: the reference moves to the struct file.
<1>OpensInv.
  ASSUME NEW p \in Procs, sys_open(p),
         NEW f \in 1..NFILE, ftable[f].ref = 0, ftable[f].ip = 0,
         \A q \in Procs : l[q].rf # f /\ l[q].wf # f, NEW d \in 1..NOFILE, ofile[p][d] = 0,
         ftable' = [ftable EXCEPT ![f] = [ref |-> 1, ip |-> l[p].ip]],
         ofile' = [ofile EXCEPT ![p][d] = f], l' = [l EXCEPT ![p] = Idle]
  PROVE IInv'
  <2>. USE <1>OpensInv
  <2>1. TypeOK /\ LockInv /\ FileInv
    BY DEF IInv
  <2>2. /\ l[p].ip \in Inums /\ l[p].rf = 0 /\ l[p].wf = 0 /\ Cached /\ Releases(p)
        /\ \A j \in Inums : icache'[j].ref = icache[j].ref
        /\ \A j \in Inums : Mine(l[p], cwd[p], j) = B(cwd[p] = j) + B(l[p].ip = j)
        /\ UNCHANGED <<dinode, ents, cwd>>
    BY <1>OpenFacts
  <2>3. /\ l' \in [Procs -> Local] /\ \A q \in Procs : q # p => l'[q] = l[q]
        /\ ShapeOf(l'[p]) /\ l'[p].pc = "idle" /\ Loc(l'[p]) = "idle"
        /\ l'[p].dp = 0 /\ l'[p].ip = 0 /\ l'[p].src = 0 /\ l'[p].puts = <<>>
        /\ l'[p].rf = 0 /\ l'[p].wf = 0
        /\ Loc(l'[p]) \notin LocksDp \cup LocksIp
        /\ l'[p].pc \notin {"iput_free", "unlink_ip", "ialloc", "create_new"}
    BY <2>1, <1>IdleStep
  <2>4. /\ f \in 1..NFILE /\ ftable[f].ref = 0 /\ ftable[f].ip = 0
        /\ \A q \in Procs : l[q].rf # f /\ l[q].wf # f
    OBVIOUS
  <2>5. d \in 1..NOFILE /\ ofile[p][d] = 0
    OBVIOUS
  <2>6. PICK v : v = [ref |-> 1, ip |-> l[p].ip]
    OBVIOUS
  <2>7. v \in File /\ v.ref = 1 /\ v.ip = l[p].ip /\ l[p].ip # 0
    BY <2>2, <2>6, ConstFacts DEF File
  <2>8. /\ ftable' \in [1..NFILE -> File] /\ \A g \in 1..NFILE : g # f => ftable'[g] = ftable[g]
        /\ ftable'[f] = v
    BY <2>1, <2>4, <2>6, <2>7 DEF TypeOK
  <2>9. FileCounted(p) /\ ofile' \in Ofiles
    <3>1. f \in FileZ /\ 0 \notin 1..NFILE
      BY <2>4, ConstFacts
    <3>2. \A g \in 1..NFILE : ftable[g].ref \in Nat
      BY <1>TypeFacts
    <3>3. \A g \in 1..NFILE : FileMine(l'[p], g) = 0 /\ FileMine(l[p], g) = 0
      BY <2>2, <2>3, <3>1, SMTT(60) DEF FileMine, B
    <3>4. \A g \in 1..NFILE : ftable'[g].ref = ftable[g].ref + B(f = g) - B(ofile[p][d] = g)
                                                 + FileMine(l'[p], g) - FileMine(l[p], g)
      BY <2>4, <2>5, <2>7, <2>8, <3>1, <3>2, <3>3, SMTT(60) DEF B
    <3>. QED
      BY <2>1, <2>5, <3>1, <3>4, <1>CountedFd
  <2>10. FileChanged(f)
    BY <2>8, <2>9 DEF FileChanged
  <2>11. FileInv'
    <3>1. \A g \in 1..NFILE : ftable'[g].ref = 0 => ftable'[g].ip = 0
      BY <2>1, <2>7, <2>8, SMTT(60) DEF FileInv
    <3>2. \A q \in Procs : l[q].rf \in FileZ /\ l[q].wf \in FileZ
      BY <1>TypeFacts
    <3>3. \A q \in Procs : /\ l[q].rf # 0 => ftable'[l[q].rf].ip = 0
                           /\ l[q].wf # 0 => ftable'[l[q].wf].ip = 0
      <4>1. \A q \in Procs : /\ l[q].rf # 0 => l[q].rf \in 1..NFILE /\ l[q].rf # f
                             /\ l[q].wf # 0 => l[q].wf \in 1..NFILE /\ l[q].wf # f
        BY <2>4, <3>2, ConstFacts
      <4>2. \A q \in Procs : /\ l[q].rf # 0 => ftable'[l[q].rf] = ftable[l[q].rf]
                             /\ l[q].wf # 0 => ftable'[l[q].wf] = ftable[l[q].wf]
        BY <2>8, <4>1
      <4>. QED
        BY <2>1, <4>2 DEF FileInv
    <3>4. \A q \in Procs : /\ l'[q].rf # 0 => ftable'[l'[q].rf].ip = 0
                           /\ l'[q].wf # 0 => ftable'[l'[q].wf].ip = 0
      BY <2>3, <3>3
    <3>. QED
      BY <3>1, <3>4 DEF FileInv
  <2>12. \A i \in Inums : icache'[i].ref = icache[i].ref + Mine(l'[p], cwd[p], i)
                              - Mine(l[p], cwd[p], i) + B(Refers(f, i)') - B(Refers(f, i))
    <3>1. \A i \in Inums : Mine(l'[p], cwd[p], i) = B(cwd[p] = i)
      BY <2>3, MinePlain, ConstFacts, SMTT(60) DEF B
    <3>2. \A i \in Inums : B(Refers(f, i)') = B(l[p].ip = i) /\ B(Refers(f, i)) = 0
      BY <2>4, <2>7, <2>8, SMTT(60) DEF Refers, B
    <3>3. \A i \in Inums : icache[i].ref \in Nat
      BY <1>TypeFacts
    <3>4. \A i \in Inums : B(cwd[p] = i) \in Nat /\ B(l[p].ip = i) \in Nat
      BY DEF B
    <3>. QED
      BY <2>2, <3>1, <3>2, <3>3, <3>4, SMTT(60)
  <2>13. Locked(p) /\ lock' \in [Inums -> Procs \cup {None}]
    <3>1. \A i \in Inums : ~Holds(l'[p], i)
      BY <2>3 DEF Holds, Keeps
    <3>2. l'[p].pc # "iput_free" /\ lock \in [Inums -> Procs \cup {None}]
      BY <2>3, <1>TypeFacts
    <3>3. CASE lock' = lock /\ \A i \in Inums : ~Holds(l[p], i)
      BY <2>1, <3>1, <3>2, <3>3, LocksKept
    <3>4. ASSUME NEW e \in Inums, lock' = [lock EXCEPT ![e] = None],
                 \A i \in Inums : Holds(l[p], i) <=> i = e
          PROVE Locked(p) /\ lock' \in [Inums -> Procs \cup {None}]
      <4>1. Holds(l[p], e) /\ \A i \in Inums : Holds(l'[p], i) <=> Holds(l[p], i) /\ i # e
        BY <3>1, <3>4
      <4>2. Locked(p)
        BY <2>1, <3>2, <3>4, <4>1, LockReleased
      <4>. QED
        BY <3>2, <3>4, <4>2
    <3>. QED
      BY <2>2, <3>3, <3>4 DEF Releases
  <2>14. Looked(p) /\ l'[p].pc \notin {"unlink_ip", "ialloc", "create_new"}
    BY <2>3 DEF Looked
  <2>. QED
    BY <2>2, <2>3, <2>4, <2>10, <2>9, <2>11, <2>12, <2>13, <2>14, <1>FileStepInv

\* sys_open() after ilock(ip).
<1>SysOpenInv.
  ASSUME NEW p \in Procs, sys_open(p)
  PROVE IInv'
  <2>. USE <1>SysOpenInv
  <2>1. CASE PutAndReturn(p, <<l[p].ip>>) /\ UNCHANGED files
    <3>1. ftable' = ftable /\ ofile' = ofile
      BY <2>1 DEF files
    <3>. QED
      BY <2>1, <3>1, <1>OpenFailsInv
  <2>2. CASE /\ filealloc # {} /\ fdalloc(p) # {}
             /\ ftable' = [ftable EXCEPT ![First(filealloc)] = [ref |-> 1, ip |-> l[p].ip]]
             /\ ofile' = [ofile EXCEPT ![p][First(fdalloc(p))] = First(filealloc)]
             /\ l' = [l EXCEPT ![p] = Idle]
    <3>1. PICK f, d : f = First(filealloc) /\ d = First(fdalloc(p))
      OBVIOUS
    <3>2. /\ ftable' = [ftable EXCEPT ![f] = [ref |-> 1, ip |-> l[p].ip]]
          /\ ofile' = [ofile EXCEPT ![p][d] = f]
      BY <2>2, <3>1
    <3>3. /\ f \in 1..NFILE /\ ftable[f].ref = 0 /\ ftable[f].ip = 0
          /\ \A q \in Procs : l[q].rf # f /\ l[q].wf # f
      BY <2>2, <3>1, <1>FirstFile
    <3>4. d \in 1..NOFILE /\ ofile[p][d] = 0
      BY <2>2, <3>1, <1>FirstFd DEF IInv
    <3>. QED
      BY <2>2, <3>2, <3>3, <3>4, <1>OpensInv
  <2>. QED
    BY <2>1, <2>2 DEF sys_open
<1>. QED
  BY <1>SysDupInv, <1>SysCloseInv, <1>SysPipeInv, <1>PipeWfInv, <1>PipeFdsInv, <1>PipeBadInv,
     <1>SysOpenInv

-----------------------------------------------------------------------------
\* Steps that end a call, and iput().

\* acquiresleep() of a lock nobody has.
LEMMA LockTaken ==
  ASSUME TypeOK, LockInv, NEW p \in Procs, NEW d \in Inums, lock[d] = None,
         lock' = [lock EXCEPT ![d] = p], l'[p].pc # "iput_free",
         \A i \in Inums : Holds(l'[p], i) <=> Holds(l[p], i) \/ i = d
  PROVE Locked(p)
<1>1. \A i \in Inums : lock'[i] = IF i = d THEN p ELSE lock[i]
  BY DEF TypeOK
<1>. QED
  BY <1>1, ConstFacts, SMTT(60) DEF LockInv, Locked

\* ilock(), a change of the link count of d, iupdate().
LEMMA LoadedLinksStep ==
  ASSUME SetFacts, IInv, NEW i \in Inums, CanLock(i), NEW d \in Inums, NEW n \in Int,
         icache' = SetLinks(Loaded(icache, i), d, n), dinode' = SetLinks(dinode, d, n)
  PROVE /\ Cached /\ icache'[i].valid /\ \A j \in Inums : icache'[j].ref = icache[j].ref
<1>1. TypeOK /\ CacheInv
  BY DEF IInv
<1>2. PICK c : c = Loaded(icache, i)
  OBVIOUS
<1>3. /\ CacheOK(c) /\ c[i].valid
      /\ \A j \in Inums : c[j].ref = icache[j].ref
      /\ \A j \in Inums : icache[j].valid => c[j].valid
  BY <1>1, <1>2, LoadedFacts
<1>4. /\ CacheOK(icache')
      /\ \A j \in Inums : icache'[j].ref = c[j].ref /\ icache'[j].valid = c[j].valid
  BY <1>2, <1>3, SetLinksFacts, SMTT(60)
<1>5. dinode' \in [Inums -> Dinode] /\ SameTypes
  BY <1>1 DEF TypeOK, SetLinks, Dinode, SameTypes
<1>. QED
  BY <1>1, <1>3, <1>4, <1>5, CachedStep

\* A call that refers to one inode only, locked or not, loads it and returns.
LEMMA LoadReturnInv ==
  ASSUME SetFacts, IInv, NEW p \in Procs, NEW d \in Inums, PutAndReturn(p, <<d>>), CanLock(d),
         icache' = Loaded(icache, d), UNCHANGED <<dinode, ents, lock, ftable, ofile, cwd>>,
         l[p].puts = <<>>, l[p].rf = 0, l[p].wf = 0, Loc(l[p]) \notin LocksDp \cup LocksIp,
         l[p].pc \notin Putting,
         \/ l[p].dp = d /\ l[p].ip = 0 /\ l[p].src = 0
         \/ l[p].dp = 0 /\ l[p].ip = d /\ l[p].src = 0
  PROVE IInv'
<1>1. TypeOK
  BY DEF IInv
<1>4. Cached /\ \A j \in Inums : icache'[j].ref = icache[j].ref
  BY LoadedStep
<1>5. \A i \in Inums : icache'[i].ref = icache[i].ref + B(cwd'[p] = i) + B(d = i)
                                          - Mine(l[p], cwd[p], i)
  <2>1. ASSUME NEW i \in Inums
        PROVE Mine(l[p], cwd[p], i) = B(cwd[p] = i) + B(d = i)
    BY MinePlain, ConstFacts, SMTT(60) DEF B
  <2>2. cwd' = cwd /\ \A i \in Inums : icache[i].ref \in Nat
    BY <1>1 DEF TypeOK, Slot
  <2>. QED
    BY <2>1, <2>2, <1>4, SMTT(60) DEF B
<1>6. Releases(p)
  <2>1. l[p].pc # "iput_free"
    BY DEF Putting
  <2>2. \A i \in Inums : ~Holds(l[p], i)
    BY <2>1 DEF Holds, Keeps
  <2>. QED
    BY <2>2 DEF Releases
<1>7. cwd' \in [Procs -> Inums] /\ \A q \in Procs : q # p => cwd'[q] = cwd[q]
  BY <1>1 DEF TypeOK
<1>. QED
  BY <1>4, <1>5, <1>6, <1>7, ReturnInv

\* Steps that end a call by giving back its inodes, or go on with one of them.
LEMMA EndingInv ==
  ASSUME SetFacts, IInv
  PROVE \A p \in Procs :
          (\/ unlink_bad(p) \/ unlink_dec(p) \/ created(p) \/ link_bad(p) \/ sys_chdir(p)
           \/ fileio(p) \/ sys_fileio(p) \/ create_found(p))
            => IInv'
\* unlink_bad: dp is unlocked and put.
<1>UnlinkBadInv.
  ASSUME NEW p \in Procs, unlink_bad(p)
  PROVE IInv'
  <2>. USE <1>UnlinkBadInv
  <2>1. TypeOK /\ l[p] \in Local /\ ShapeOf(l[p]) /\ l[p].pc = "unlink_bad"
    BY DEF IInv, TypeOK, Shape, unlink_bad, At
  <2>2. /\ l[p].dp \in Inums /\ l[p].ip = 0 /\ l[p].src = 0 /\ l[p].puts = <<>>
        /\ l[p].rf = 0 /\ l[p].wf = 0 /\ Loc(l[p]) = "unlink_bad"
    BY <2>1, ConstFacts DEF ShapeOf, Loc, Putting, HasDp, HasIp, HasSrc, Local
  <2>3. /\ PutAndReturn(p, <<l[p].dp>>) /\ lock' = [lock EXCEPT ![l[p].dp] = None]
        /\ UNCHANGED <<dinode, ents, icache, ftable, ofile, cwd>>
    BY DEF unlink_bad, disk, files
  <2>4. Cached /\ \A j \in Inums : icache'[j].ref = icache[j].ref
    BY <2>3, KeptStep
  <2>5. \A i \in Inums : icache'[i].ref = icache[i].ref + B(cwd'[p] = i) + B(l[p].dp = i)
                                            - Mine(l[p], cwd[p], i)
    <3>1. ASSUME NEW i \in Inums
          PROVE Mine(l[p], cwd[p], i) = B(cwd[p] = i) + B(l[p].dp = i)
      BY <2>2, MinePlain, ConstFacts, SMTT(60) DEF B
    <3>2. cwd' = cwd /\ \A i \in Inums : icache[i].ref \in Nat
      BY <2>1, <2>3 DEF TypeOK, Slot
    <3>. QED
      BY <3>1, <3>2, <2>4, SMTT(60) DEF B
  <2>6. Releases(p)
    <3>1. \A i \in Inums : Holds(l[p], i) <=> i = l[p].dp
      BY <2>1, <2>2 DEF Holds, Keeps, LocksDp, LocksIp
    <3>. QED
      BY <3>1, <2>2, <2>3 DEF Releases
  <2>7. cwd' \in [Procs -> Inums] /\ \A q \in Procs : q # p => cwd'[q] = cwd[q]
    BY <2>1, <2>3 DEF TypeOK
  <2>. QED
    BY <2>2, <2>3, <2>4, <2>5, <2>6, <2>7, ReturnInv

\* A change of the link count of an inode that is valid.
<1>LinksStep.
  ASSUME NEW d \in Inums, NEW n \in Int,
         icache' = SetLinks(icache, d, n), dinode' = SetLinks(dinode, d, n)
  PROVE /\ Cached /\ \A j \in Inums : icache'[j].ref = icache[j].ref
  <2>. USE <1>LinksStep
  <2>1. TypeOK /\ CacheOK(icache)
    BY InvCacheOK DEF IInv
  <2>2. /\ CacheOK(icache')
        /\ \A j \in Inums : icache'[j].ref = icache[j].ref /\ icache'[j].valid = icache[j].valid
    BY <2>1, SetLinksFacts
  <2>3. dinode' \in [Inums -> Dinode] /\ SameTypes
    BY <2>1 DEF TypeOK, SetLinks, Dinode, SameTypes
  <2>. QED
    BY <2>1, <2>2, <2>3, CachedStep

\* sys_unlink() counts the link away and puts ip.
<1>UnlinkDecInv.
  ASSUME NEW p \in Procs, unlink_dec(p)
  PROVE IInv'
  <2>. USE <1>UnlinkDecInv
  <2>1. TypeOK /\ l[p] \in Local /\ ShapeOf(l[p]) /\ l[p].pc = "unlink_dec"
    BY DEF IInv, TypeOK, Shape, unlink_dec, At
  <2>2. /\ l[p].ip \in Inums /\ l[p].dp = 0 /\ l[p].src = 0 /\ l[p].puts = <<>>
        /\ l[p].rf = 0 /\ l[p].wf = 0 /\ Loc(l[p]) = "unlink_dec"
    BY <2>1, ConstFacts DEF ShapeOf, Loc, Putting, HasDp, HasIp, HasSrc, Local
  <2>3. /\ PutAndReturn(p, <<l[p].ip>>) /\ lock' = [lock EXCEPT ![l[p].ip] = None]
        /\ icache' = SetLinks(icache, l[p].ip, icache[l[p].ip].nlink - 1)
        /\ dinode' = SetLinks(dinode, l[p].ip, icache[l[p].ip].nlink - 1)
        /\ UNCHANGED <<ents, ftable, ofile, cwd>>
    BY DEF unlink_dec, files
  <2>4. Cached /\ \A j \in Inums : icache'[j].ref = icache[j].ref
    <3>1. icache[l[p].ip].nlink - 1 \in Int
      BY <2>1, <2>2, SMTT(60) DEF TypeOK, Slot
    <3>. QED
      BY <2>2, <2>3, <3>1, <1>LinksStep
  <2>5. \A i \in Inums : icache'[i].ref = icache[i].ref + B(cwd'[p] = i) + B(l[p].ip = i)
                                            - Mine(l[p], cwd[p], i)
    <3>1. ASSUME NEW i \in Inums
          PROVE Mine(l[p], cwd[p], i) = B(cwd[p] = i) + B(l[p].ip = i)
      BY <2>2, MinePlain, ConstFacts, SMTT(60) DEF B
    <3>2. cwd' = cwd /\ \A i \in Inums : icache[i].ref \in Nat
      BY <2>1, <2>3 DEF TypeOK, Slot
    <3>. QED
      BY <3>1, <3>2, <2>4, SMTT(60) DEF B
  <2>6. Releases(p)
    <3>1. \A i \in Inums : Holds(l[p], i) <=> i = l[p].ip
      BY <2>1, <2>2 DEF Holds, Keeps, LocksDp, LocksIp
    <3>. QED
      BY <3>1, <2>2, <2>3 DEF Releases
  <2>7. cwd' \in [Procs -> Inums] /\ \A q \in Procs : q # p => cwd'[q] = cwd[q]
    BY <2>1, <2>3 DEF TypeOK
  <2>. QED
    BY <2>2, <2>3, <2>4, <2>5, <2>6, <2>7, ReturnInv

\* sys_mkdir() and sys_mknod() unlock and put what create() made.
<1>CreatedInv.
  ASSUME NEW p \in Procs, created(p)
  PROVE IInv'
  <2>. USE <1>CreatedInv
  <2>1. TypeOK /\ l[p] \in Local /\ ShapeOf(l[p]) /\ l[p].pc = "created"
    BY DEF IInv, TypeOK, Shape, created, At
  <2>2. /\ l[p].ip \in Inums /\ l[p].dp = 0 /\ l[p].src = 0 /\ l[p].puts = <<>>
        /\ l[p].rf = 0 /\ l[p].wf = 0 /\ Loc(l[p]) = "created"
    BY <2>1, ConstFacts DEF ShapeOf, Loc, Putting, HasDp, HasIp, HasSrc, Local
  <2>3. /\ PutAndReturn(p, <<l[p].ip>>) /\ lock' = [lock EXCEPT ![l[p].ip] = None]
        /\ UNCHANGED <<dinode, ents, icache, ftable, ofile, cwd>>
    BY DEF created, disk, files
  <2>4. Cached /\ \A j \in Inums : icache'[j].ref = icache[j].ref
    BY <2>3, KeptStep
  <2>5. \A i \in Inums : icache'[i].ref = icache[i].ref + B(cwd'[p] = i) + B(l[p].ip = i)
                                            - Mine(l[p], cwd[p], i)
    <3>1. ASSUME NEW i \in Inums
          PROVE Mine(l[p], cwd[p], i) = B(cwd[p] = i) + B(l[p].ip = i)
      BY <2>2, MinePlain, ConstFacts, SMTT(60) DEF B
    <3>2. cwd' = cwd /\ \A i \in Inums : icache[i].ref \in Nat
      BY <2>1, <2>3 DEF TypeOK, Slot
    <3>. QED
      BY <3>1, <3>2, <2>4, SMTT(60) DEF B
  <2>6. Releases(p)
    <3>1. \A i \in Inums : Holds(l[p], i) <=> i = l[p].ip
      BY <2>1, <2>2 DEF Holds, Keeps, LocksDp, LocksIp
    <3>. QED
      BY <3>1, <2>2, <2>3 DEF Releases
  <2>7. cwd' \in [Procs -> Inums] /\ \A q \in Procs : q # p => cwd'[q] = cwd[q]
    BY <2>1, <2>3 DEF TypeOK
  <2>. QED
    BY <2>2, <2>3, <2>4, <2>5, <2>6, <2>7, ReturnInv

\* sys_link() takes the link count back and puts ip.
<1>LinkBadInv.
  ASSUME NEW p \in Procs, link_bad(p)
  PROVE IInv'
  <2>. USE <1>LinkBadInv
  <2>1. TypeOK /\ l[p] \in Local /\ ShapeOf(l[p]) /\ l[p].pc = "link_bad"
    BY DEF IInv, TypeOK, Shape, link_bad, At
  <2>2. /\ l[p].src \in Inums /\ l[p].dp = 0 /\ l[p].ip = 0 /\ l[p].puts = <<>>
        /\ l[p].rf = 0 /\ l[p].wf = 0 /\ Loc(l[p]) = "link_bad"
    BY <2>1, ConstFacts DEF ShapeOf, Loc, Putting, HasDp, HasIp, HasSrc, Local
  <2>3. /\ PutAndReturn(p, <<l[p].src>>) /\ CanLock(l[p].src)
        /\ icache' = SetLinks(Loaded(icache, l[p].src), l[p].src,
                              Loaded(icache, l[p].src)[l[p].src].nlink - 1)
        /\ dinode' = SetLinks(dinode, l[p].src, Loaded(icache, l[p].src)[l[p].src].nlink - 1)
        /\ UNCHANGED <<ents, lock, ftable, ofile, cwd>>
    BY DEF link_bad, files
  <2>4. Cached /\ \A j \in Inums : icache'[j].ref = icache[j].ref
    <3>1. CacheOK(Loaded(icache, l[p].src))
      BY <2>2, <2>3, LoadedFacts DEF IInv
    <3>2. Loaded(icache, l[p].src)[l[p].src].nlink - 1 \in Int
      BY <2>2, <3>1, SMTT(60) DEF CacheOK, Slot
    <3>. QED
      BY <2>2, <2>3, <3>2, LoadedLinksStep
  <2>5. \A i \in Inums : icache'[i].ref = icache[i].ref + B(cwd'[p] = i) + B(l[p].src = i)
                                            - Mine(l[p], cwd[p], i)
    <3>1. ASSUME NEW i \in Inums
          PROVE Mine(l[p], cwd[p], i) = B(cwd[p] = i) + B(l[p].src = i)
      BY <2>2, MinePlain, ConstFacts, SMTT(60) DEF B
    <3>2. cwd' = cwd /\ \A i \in Inums : icache[i].ref \in Nat
      BY <2>1, <2>3 DEF TypeOK, Slot
    <3>. QED
      BY <3>1, <3>2, <2>4, SMTT(60) DEF B
  <2>6. Releases(p)
    <3>1. \A i \in Inums : ~Holds(l[p], i)
      BY <2>1, <2>2 DEF Holds, Keeps, LocksDp, LocksIp
    <3>. QED
      BY <3>1, <2>2, <2>3 DEF Releases
  <2>7. cwd' \in [Procs -> Inums] /\ \A q \in Procs : q # p => cwd'[q] = cwd[q]
    BY <2>1, <2>3 DEF TypeOK
  <2>. QED
    BY <2>2, <2>3, <2>4, <2>5, <2>6, <2>7, ReturnInv

\* sys_chdir() puts the directory it leaves, or what is no directory.
<1>ChdirInv.
  ASSUME NEW p \in Procs, sys_chdir(p)
  PROVE IInv'
  <2>. USE <1>ChdirInv
  <2>1. TypeOK /\ l[p] \in Local /\ ShapeOf(l[p]) /\ l[p].pc = "chdir" /\ cwd[p] \in Inums
    BY DEF IInv, TypeOK, Shape, sys_chdir, At
  <2>2. /\ l[p].ip \in Inums /\ l[p].dp = 0 /\ l[p].src = 0 /\ l[p].puts = <<>>
        /\ l[p].rf = 0 /\ l[p].wf = 0 /\ Loc(l[p]) = "chdir"
    BY <2>1, ConstFacts DEF ShapeOf, Loc, Putting, HasDp, HasIp, HasSrc, Local
  <2>3. /\ CanLock(l[p].ip) /\ icache' = Loaded(icache, l[p].ip)
        /\ UNCHANGED <<dinode, ents, lock, ftable, ofile>>
        /\ \/ PutAndReturn(p, <<l[p].ip>>) /\ cwd' = cwd
           \/ PutAndReturn(p, <<cwd[p]>>) /\ cwd' = [cwd EXCEPT ![p] = l[p].ip]
    BY DEF sys_chdir, disk, files
  <2>4. Cached /\ \A j \in Inums : icache'[j].ref = icache[j].ref
    BY <2>2, <2>3, LoadedStep
  <2>5. \A i \in Inums : /\ Mine(l[p], cwd[p], i) = B(cwd[p] = i) + B(l[p].ip = i)
                         /\ icache[i].ref \in Nat
    <3>1. \A i \in Inums : icache[i].ref \in Nat
      BY <2>1 DEF TypeOK, Slot
    <3>2. ASSUME NEW i \in Inums
          PROVE Mine(l[p], cwd[p], i) = B(cwd[p] = i) + B(l[p].ip = i)
      BY <2>2, MinePlain, ConstFacts, SMTT(60) DEF B
    <3>. QED
      BY <3>1, <3>2
  <2>6. Releases(p)
    <3>1. \A i \in Inums : ~Holds(l[p], i)
      BY <2>1, <2>2 DEF Holds, Keeps, LocksDp, LocksIp
    <3>. QED
      BY <3>1, <2>3 DEF Releases
  <2>7. CASE PutAndReturn(p, <<l[p].ip>>) /\ cwd' = cwd
    <3>1. \A i \in Inums : icache'[i].ref = icache[i].ref + B(cwd'[p] = i) + B(l[p].ip = i)
                                              - Mine(l[p], cwd[p], i)
      BY <2>4, <2>5, <2>7, SMTT(60) DEF B
    <3>2. cwd' \in [Procs -> Inums] /\ \A q \in Procs : q # p => cwd'[q] = cwd[q]
      BY <2>1, <2>7 DEF TypeOK
    <3>. QED
      BY <2>2, <2>3, <2>4, <2>6, <2>7, <3>1, <3>2, ReturnInv
  <2>8. CASE PutAndReturn(p, <<cwd[p]>>) /\ cwd' = [cwd EXCEPT ![p] = l[p].ip]
    <3>1. /\ cwd' \in [Procs -> Inums] /\ \A q \in Procs : q # p => cwd'[q] = cwd[q]
          /\ cwd'[p] = l[p].ip
      BY <2>1, <2>2, <2>8 DEF TypeOK
    <3>2. \A i \in Inums : icache'[i].ref = icache[i].ref + B(cwd'[p] = i) + B(cwd[p] = i)
                                              - Mine(l[p], cwd[p], i)
      BY <2>4, <2>5, <3>1, SMTT(60) DEF B
    <3>. QED
      BY <2>1, <2>2, <2>3, <2>4, <2>6, <2>8, <3>1, <3>2, ReturnInv
  <2>. QED
    BY <2>3, <2>7, <2>8

\* fileread(), filewrite() and filestat() lock the inode and return.
<1>FileioInv.
  ASSUME NEW p \in Procs, fileio(p)
  PROVE IInv'
  <2>. USE <1>FileioInv
  <2>1. TypeOK /\ l[p] \in Local /\ ShapeOf(l[p]) /\ l[p].pc = "fileio" /\ LockInv
    BY DEF IInv, TypeOK, Shape, fileio, At
  <2>2. /\ l[p].f \in Inums /\ l[p].dp = 0 /\ l[p].ip = 0 /\ l[p].src = 0 /\ l[p].puts = <<>>
        /\ l[p].rf = 0 /\ l[p].wf = 0 /\ Loc(l[p]) = "fileio"
    BY <2>1, ConstFacts DEF ShapeOf, Loc, Putting, HasDp, HasIp, HasSrc, Local
  <2>3. /\ CanLock(l[p].f) /\ icache' = Loaded(icache, l[p].f) /\ l' = [l EXCEPT ![p] = Idle]
        /\ UNCHANGED <<dinode, ents, lock, ftable, ofile, cwd>>
    BY DEF fileio, disk, files
  <2>4. Cached /\ \A j \in Inums : icache'[j].ref = icache[j].ref
    BY <2>2, <2>3, LoadedStep
  <2>5. /\ l' \in [Procs -> Local] /\ l'[p] = Idle /\ \A q \in Procs : q # p => l'[q] = l[q]
        /\ lock' \in [Inums -> Procs \cup {None}]
    BY <2>1, <2>3, IdleFacts DEF TypeOK
  <2>6. Locked(p)
    <3>1. \A i \in Inums : ~Holds(l[p], i) /\ ~Holds(Idle, i)
      BY <2>1, <2>2, IdleFacts DEF Holds, Keeps, LocksDp, LocksIp, Loc, Putting
    <3>2. l'[p].pc # "iput_free"
      BY <2>5, IdleFacts
    <3>. QED
      BY <3>1, <3>2, <2>1, <2>3, <2>5, LocksKept
  <2>7. Loc(l'[p]) \notin LocksIp /\ l'[p].pc \notin {"unlink_ip", "ialloc", "create_new"}
    BY <2>5, IdleFacts DEF Loc, Putting, LocksIp
  <2>8. /\ ShapeOf(l'[p]) /\ l'[p].puts = l[p].puts /\ l'[p].dp = l[p].dp /\ l'[p].ip = l[p].ip
        /\ l'[p].src = l[p].src /\ l'[p].rf = l[p].rf /\ l'[p].wf = l[p].wf
        /\ UNCHANGED <<ents, ftable, ofile, cwd>>
    BY <2>2, <2>3, <2>5, IdleFacts
  <2>. QED
    BY <2>4, <2>5, <2>6, <2>7, <2>8, MoveInv

\* A call on a descriptor finds the inode of its struct file.
<1>SysFileioInv.
  ASSUME NEW p \in Procs, sys_fileio(p)
  PROVE IInv'
  <2>. USE <1>SysFileioInv
  <2>1. TypeOK /\ l[p] \in Local /\ ShapeOf(l[p]) /\ l[p].pc = "idle" /\ LockInv
    BY DEF IInv, TypeOK, Shape, sys_fileio, At
  <2>2. /\ l[p].dp = 0 /\ l[p].ip = 0 /\ l[p].src = 0 /\ l[p].puts = <<>>
        /\ l[p].rf = 0 /\ l[p].wf = 0 /\ Loc(l[p]) = "idle"
    BY <2>1, ConstFacts DEF ShapeOf, Loc, Putting, HasDp, HasIp, HasSrc, Local
  <2>3. PICK d \in argfd(p) : /\ ftable[ofile[p][d]].ip # 0
                              /\ l' = [l EXCEPT ![p].pc = "fileio", ![p].f = ftable[ofile[p][d]].ip]
    BY DEF sys_fileio
  <2>4. UNCHANGED <<dinode, ents, icache, lock, ftable, ofile, cwd>>
    BY DEF sys_fileio, disk, files
  <2>5. ftable[ofile[p][d]].ip \in InoZ
    <3>1. d \in 1..NOFILE /\ ofile[p][d] \in 1..NFILE
      BY <2>1, ConstFacts, SMTT(60) DEF argfd, TypeOK
    <3>. QED
      BY <2>1, <3>1 DEF TypeOK, File
  <2>6. /\ l' \in [Procs -> Local] /\ \A q \in Procs : q # p => l'[q] = l[q]
        /\ l'[p].pc = "fileio" /\ l'[p].f = ftable[ofile[p][d]].ip
        /\ l'[p].puts = l[p].puts /\ l'[p].dp = l[p].dp /\ l'[p].ip = l[p].ip
        /\ l'[p].src = l[p].src /\ l'[p].rf = l[p].rf /\ l'[p].wf = l[p].wf
    <3>1. "fileio" \in Labels
      BY DEF Labels
    <3>. QED
      BY <2>1, <2>3, <2>5, <3>1 DEF TypeOK, Local
  <2>7. ShapeOf(l'[p]) /\ Loc(l'[p]) = "fileio"
    BY <2>2, <2>3, <2>6, CreatesDomain DEF ShapeOf, Loc, Putting, HasDp, HasIp, HasSrc
  <2>8. Cached /\ \A j \in Inums : icache'[j].ref = icache[j].ref
    BY <2>4, KeptStep
  <2>9. Locked(p)
    <3>1. \A i \in Inums : ~Holds(l[p], i) /\ ~Holds(l'[p], i)
      BY <2>1, <2>2, <2>6, <2>7 DEF Holds, Keeps, LocksDp, LocksIp
    <3>2. l'[p].pc # "iput_free"
      BY <2>6
    <3>. QED
      BY <3>1, <3>2, <2>1, <2>4, LocksKept
  <2>10. Loc(l'[p]) \notin LocksIp /\ l'[p].pc \notin {"unlink_ip", "ialloc", "create_new"}
    BY <2>6, <2>7 DEF LocksIp
  <2>11. lock' \in [Inums -> Procs \cup {None}] /\ UNCHANGED <<ents, ftable, ofile, cwd>>
    BY <2>1, <2>4 DEF TypeOK
  <2>. QED
    BY <2>6, <2>7, <2>8, <2>9, <2>10, <2>11, MoveInv

\* create() locks an inode that exists: a file stays locked, anything else is put.
<1>CreateFoundInv.
  ASSUME NEW p \in Procs, create_found(p)
  PROVE IInv'
  <2>. USE <1>CreateFoundInv
  <2>1. TypeOK /\ l[p] \in Local /\ ShapeOf(l[p]) /\ l[p].pc = "create_found" /\ LockInv
    BY DEF IInv, TypeOK, Shape, create_found, At
  <2>2. /\ l[p].ip \in Inums /\ l[p].dp = 0 /\ l[p].src = 0 /\ l[p].puts = <<>>
        /\ l[p].rf = 0 /\ l[p].wf = 0 /\ Loc(l[p]) = "create_found" /\ l[p].sys \in DOMAIN Creates
    BY <2>1, ConstFacts DEF ShapeOf, Loc, Putting, HasDp, HasIp, HasSrc, Local
  <2>3. /\ CanLock(l[p].ip) /\ icache' = Loaded(icache, l[p].ip)
        /\ UNCHANGED <<dinode, ents, ftable, ofile, cwd>>
        /\ \/ lock' = [lock EXCEPT ![l[p].ip] = p] /\ l' = [l EXCEPT ![p].pc = "created"]
           \/ PutAndReturn(p, <<l[p].ip>>) /\ UNCHANGED lock
    BY DEF create_found, disk, files
  <2>4. CASE PutAndReturn(p, <<l[p].ip>>) /\ UNCHANGED lock
    <3>1. Loc(l[p]) \notin LocksDp \cup LocksIp /\ l[p].pc \notin Putting
      BY <2>1, <2>2 DEF LocksDp, LocksIp, Putting
    <3>. QED
      BY <2>2, <2>3, <2>4, <3>1, LoadReturnInv
  <2>5. CASE lock' = [lock EXCEPT ![l[p].ip] = p] /\ l' = [l EXCEPT ![p].pc = "created"]
    <3>1. /\ l' \in [Procs -> Local] /\ \A q \in Procs : q # p => l'[q] = l[q]
          /\ l'[p].pc = "created" /\ l'[p].sys = l[p].sys
          /\ l'[p].puts = l[p].puts /\ l'[p].dp = l[p].dp /\ l'[p].ip = l[p].ip
          /\ l'[p].src = l[p].src /\ l'[p].rf = l[p].rf /\ l'[p].wf = l[p].wf
      <4>1. "created" \in Labels
        BY DEF Labels, HasIp
      <4>. QED
        BY <2>1, <2>5, <4>1 DEF TypeOK, Local
    <3>2. ShapeOf(l'[p]) /\ Loc(l'[p]) = "created"
      BY <2>2, <3>1, ConstFacts DEF ShapeOf, Loc, Putting, HasDp, HasIp, HasSrc
    <3>3. Cached /\ icache'[l[p].ip].valid /\ \A j \in Inums : icache'[j].ref = icache[j].ref
      BY <2>2, <2>3, LoadedStep
    <3>4. Locked(p)
      <4>1. \A i \in Inums : ~Holds(l[p], i) /\ (Holds(l'[p], i) <=> i = l[p].ip)
        BY <2>1, <2>2, <3>1, <3>2 DEF Holds, Keeps, LocksDp, LocksIp
      <4>2. l'[p].pc # "iput_free" /\ lock[l[p].ip] = None
        BY <2>3, <3>1 DEF CanLock
      <4>. QED
        BY <4>1, <4>2, <2>1, <2>2, <2>5, LockTaken
    <3>5. l'[p].pc \notin {"unlink_ip", "ialloc", "create_new"}
      BY <3>1
    <3>6. /\ lock' \in [Inums -> Procs \cup {None}] /\ UNCHANGED <<ents, ftable, ofile, cwd>>
      BY <2>1, <2>2, <2>3, <2>5 DEF TypeOK
    <3>. QED
      BY <3>1, <3>2, <3>3, <3>4, <3>5, <3>6, MoveInv
  <2>. QED
    BY <2>3, <2>4, <2>5
<1>. QED
  BY <1>UnlinkBadInv, <1>UnlinkDecInv, <1>CreatedInv, <1>LinkBadInv, <1>ChdirInv,
     <1>FileioInv, <1>SysFileioInv, <1>CreateFoundInv

\* What iput() drops is referred to.
LEMMA PutReferred ==
  ASSUME SetFacts, IInv, NEW p \in Procs, l[p].pc \in Putting
  PROVE /\ l[p].puts[1] \in Inums /\ Head(l[p].puts) = l[p].puts[1] /\ Len(l[p].puts) >= 1
        /\ icache[l[p].puts[1]].ref \in Nat /\ icache[l[p].puts[1]].ref >= 1
<1>1. l[p] \in Local /\ ShapeOf(l[p]) /\ TypeOK /\ AllCounted
  BY RefsCounted DEF IInv, TypeOK, Shape
<1>2. l[p].puts[1] \in Inums /\ Head(l[p].puts) = l[p].puts[1] /\ Len(l[p].puts) >= 1
  <2>1. l[p].puts \in Seq(Inums) /\ Len(l[p].puts) \in 1..2
    BY <1>1 DEF ShapeOf, Local
  <2>. QED
    BY <2>1, SMTT(60)
<1>3. Mine(l[p], cwd[p], l[p].puts[1]) \in Nat /\ Mine(l[p], cwd[p], l[p].puts[1]) >= 1
  BY <1>1, <1>2, Referred
<1>4. Mine(l[p], cwd[p], l[p].puts[1]) <= icache[l[p].puts[1]].ref
  BY <1>1, <1>2 DEF AllCounted
<1>5. icache[l[p].puts[1]].ref \in Nat
  BY <1>1, <1>2 DEF TypeOK, Slot
<1>. QED
  BY <1>2, <1>3, <1>4, <1>5, SMTT(60)

\* What iput() is about to free, its last reference gone, nobody has locked: whoever
\* has a lock has a reference.
LEMMA IputFindsNoLock ==
  ASSUME SetFacts, IInv
  PROVE IputWontBlock
<1>1. SUFFICES ASSUME NEW p \in Procs, l[p].pc = "iput", LastUse(Head(l[p].puts)),
                      lock[Head(l[p].puts)] # None
               PROVE FALSE
  BY DEF IputWontBlock
<1>2. TypeOK /\ LockInv /\ AllCounted
  BY RefsCounted DEF IInv
<1>3. PICK i : i = l[p].puts[1]
  OBVIOUS
<1>4. i \in Inums /\ Head(l[p].puts) = i /\ Len(l[p].puts) >= 1
  <2>1. l[p].pc \in Putting
    BY <1>1 DEF Putting
  <2>. QED
    BY <1>3, <2>1, PutReferred
<1>5. icache[i].ref = 1 /\ lock[i] # None
  BY <1>1, <1>4 DEF LastUse
<1>6. PICK q \in Procs : lock[i] = q
  BY <1>2, <1>4, <1>5 DEF TypeOK
<1>7. l[p] \in Local /\ l[q] \in Local /\ Holds(l[q], i)
  BY <1>2, <1>4, <1>6 DEF TypeOK, LockInv
<1>8. Mine(l[p], cwd[p], i) \in Nat /\ Mine(l[p], cwd[p], i) >= 1
  BY <1>3, <1>4, <1>7, Referred
<1>9. CASE q = p
  <2>1. Keeps(l[p], i)
    BY <1>1, <1>7, <1>9 DEF Holds
  <2>2. l[p].dp = i \/ l[p].ip = i
    BY <2>1 DEF Keeps
  <2>3. Mine(l[p], cwd[p], i) >= 2
    BY <1>3, <1>4, <2>2, SMTT(60) DEF Mine, B
  <2>4. Mine(l[p], cwd[p], i) <= icache[i].ref
    BY <1>2, <1>4 DEF AllCounted
  <2>. QED
    BY <1>5, <1>8, <2>3, <2>4, SMTT(60)
<1>10. CASE q # p
  <2>1. Mine(l[q], cwd[q], i) \in Nat /\ Mine(l[q], cwd[q], i) >= 1
    <3>1. l[q].pc = "iput_free" /\ l[q].puts[1] = i => Len(l[q].puts) >= 1
      <4>1. l[q].pc = "iput_free" => l[q].pc \in Putting
        BY DEF Putting
      <4>. QED
        BY <4>1, PutReferred
    <3>2. l[q].dp = i \/ l[q].ip = i \/ (Len(l[q].puts) >= 1 /\ l[q].puts[1] = i)
      BY <1>7, <3>1 DEF Holds, Keeps
    <3>. QED
      BY <1>7, <3>2, Referred
  <2>2. Mine(l[p], cwd[p], i) + Mine(l[q], cwd[q], i) <= icache[i].ref
    BY <1>2, <1>4, <1>10 DEF AllCounted
  <2>. QED
    BY <1>5, <1>8, <2>1, <2>2, SMTT(60)
<1>. QED
  BY <1>9, <1>10

\* The steps of iput().
LEMMA PutInv ==
  ASSUME SetFacts, IInv
  PROVE \A p \in Procs :
          (iput_drop(p) \/ iput(p) \/ iput_free(p))
            => IInv'
\* iput() takes a reference away, and a slot still in use keeps what it holds.
<1>DropFacts.
  ASSUME NEW c, CacheOK(c), NEW i \in Inums, c[i].ref >= 1
  PROVE /\ CacheOK(Drop(c, i))
        /\ \A j \in Inums : Drop(c, i)[j].ref = c[j].ref - B(j = i)
        /\ \A j \in Inums : c[j].valid /\ Drop(c, i)[j].ref > 0 => Drop(c, i)[j].valid
  BY <1>DropFacts, SMTT(60) DEF CacheOK, Drop, B, Slot, Unused

\* iput() takes one reference away; the last one empties the slot.
<1>DropStep.
  ASSUME NEW i \in Inums, icache[i].ref >= 1, icache' = Drop(icache, i),
         UNCHANGED dinode
  PROVE Cached /\ \A j \in Inums : icache'[j].ref = icache[j].ref - B(j = i)
  <2>. USE <1>DropStep
  <2>1. TypeOK /\ CacheOK(icache)
    BY InvCacheOK DEF IInv
  <2>2. /\ CacheOK(icache')
        /\ \A j \in Inums : icache'[j].ref = icache[j].ref - B(j = i)
        /\ \A j \in Inums : icache[j].valid /\ icache'[j].ref > 0 => icache'[j].valid
    BY <2>1, <1>DropFacts, SMTT(60)
  <2>. QED
    BY <2>1, <2>2, InvCacheOK, CachedStep DEF SameTypes

\* After iput() a call has the rest of its references and locks, and goes on.
<1>AfterPutFacts.
  ASSUME NEW r \in Local, ShapeOf(r), r.pc \in Putting
  PROVE /\ AfterPut(r) \in Local /\ ShapeOf(AfterPut(r))
        /\ AfterPut(r).rf = r.rf /\ AfterPut(r).wf = r.wf /\ AfterPut(r).dp = r.dp
        /\ AfterPut(r).ip = r.ip /\ AfterPut(r).src = r.src /\ Loc(AfterPut(r)) = Loc(r)
        /\ AfterPut(r).pc \notin {"iput_free", "iput_drop", "unlink_ip", "ialloc", "create_new"}
        /\ \A c, i : Mine(AfterPut(r), c, i) = Mine(r, c, i) - B(r.puts[1] = i)
        /\ r.puts[1] \in Inums /\ Head(r.puts) = r.puts[1] /\ Len(r.puts) >= 1
  <2>. USE <1>AfterPutFacts
  <2>1. /\ r.puts \in Seq(Inums) /\ Len(r.puts) \in 1..2 /\ r.then \in Labels /\ r.then \notin Putting
        /\ r.then \notin {"unlink_ip", "ialloc", "create_new"} /\ Loc(r) = r.then
    BY DEF ShapeOf, Loc, Local
  <2>2. r.puts[1] \in Inums /\ Head(r.puts) = r.puts[1] /\ Len(r.puts) >= 1
    BY <2>1, SMTT(60)
  <2>3. CASE Len(r.puts) = 2
    <3>1. PICK e : e = AfterPut(r)
      OBVIOUS
    <3>2. PICK t : t = Tail(r.puts)
      OBVIOUS
    <3>3. t \in Seq(Inums) /\ Len(t) = 1 /\ t[1] = r.puts[2]
      BY <2>1, <2>3, <3>2, SMTT(60)
    <3>4. e = [r EXCEPT !.pc = "iput", !.puts = t]
      BY <2>3, <3>1, <3>2, SMTT(60) DEF AfterPut
    <3>5. "iput" \in Labels /\ "iput" \in Putting
      BY DEF Labels, Putting
    <3>6. e \in Local /\ e.pc = "iput" /\ e.puts = t
      BY <3>3, <3>4, <3>5 DEF Local
    <3>7. /\ e.rf = r.rf /\ e.wf = r.wf /\ e.dp = r.dp /\ e.ip = r.ip /\ e.src = r.src
          /\ e.then = r.then /\ e.f = r.f /\ e.sys = r.sys /\ e.path = r.path /\ e.new = r.new
      BY <3>4 DEF Local
    <3>8. Loc(e) = Loc(r)
      BY <2>1, <3>5, <3>6, <3>7 DEF Loc
    <3>9. ShapeOf(e)
      BY <3>3, <3>5, <3>6, <3>7, <3>8, SMTT(60) DEF ShapeOf
    <3>10. \A c, i : Mine(e, c, i) = Mine(r, c, i) - B(r.puts[1] = i)
      <4>1. t = <<r.puts[2]>>
        BY <3>3, SMTT(60)
      <4>2. ASSUME NEW c, NEW i
            PROVE /\ Mine(e, c, i) = B(c = i) + B(e.dp = i) + B(e.ip = i) + B(e.src = i)
                                      + B(r.puts[2] = i)
                  /\ Mine(r, c, i) = B(c = i) + B(r.dp = i) + B(r.ip = i) + B(r.src = i)
                                      + B(r.puts[1] = i) + B(r.puts[2] = i)
        <5>1. Mine(e, c, i) = B(c = i) + B(e.dp = i) + B(e.ip = i) + B(e.src = i)
                              + B(r.puts[2] = i)
          <6>1. e.puts = <<r.puts[2]>>
            BY <3>6, <4>1
          <6>. QED
            BY <6>1, MinePut, SMTT(60)
        <5>. QED
          BY <5>1, <2>3, SMTT(60) DEF Mine, B
      <4>. QED
        BY <4>2, <3>7, SMTT(60) DEF B
    <3>. QED
      BY <2>2, <3>1, <3>6, <3>7, <3>8, <3>9, <3>10, SMTT(60)
  <2>4. CASE Len(r.puts) = 1
    <3>1. PICK e : e = AfterPut(r)
      OBVIOUS
    <3>2. e = [r EXCEPT !.pc = r.then, !.puts = <<>>, !.then = "idle"]
      BY <2>4, <3>1, SMTT(60) DEF AfterPut
    <3>3. "idle" \in Labels /\ <<>> \in Seq(Inums)
      BY SMTT(60) DEF Labels
    <3>4. e \in Local /\ e.pc = r.then /\ e.puts = <<>>
      BY <2>1, <3>2, <3>3 DEF Local
    <3>5. /\ e.rf = r.rf /\ e.wf = r.wf /\ e.dp = r.dp /\ e.ip = r.ip /\ e.src = r.src
          /\ e.f = r.f /\ e.sys = r.sys /\ e.path = r.path /\ e.new = r.new
      BY <3>2 DEF Local
    <3>6. Loc(e) = Loc(r)
      BY <2>1, <3>4 DEF Loc
    <3>7. ShapeOf(e)
      BY <2>1, <3>4, <3>5, <3>6 DEF ShapeOf
    <3>8. \A c, i : Mine(e, c, i) = Mine(r, c, i) - B(r.puts[1] = i)
      BY <2>1, <2>4, <3>4, <3>5, SMTT(60) DEF Mine, B
    <3>9. e.pc \notin {"iput_free", "iput_drop", "unlink_ip", "ialloc", "create_new"}
      BY <2>1, <3>4 DEF Putting
    <3>. QED
      BY <2>2, <3>1, <3>4, <3>5, <3>6, <3>7, <3>8, <3>9, SMTT(60)
  <2>. QED
    BY <2>1, <2>3, <2>4, SMTT(60)

\* iput() and its last part: a reference less.
<1>DropInv.
  ASSUME NEW p \in Procs, l[p].pc \in {"iput", "iput_drop"},
         icache' = Drop(icache, Head(l[p].puts)), l' = [l EXCEPT ![p] = AfterPut(@)],
         UNCHANGED <<dinode, ents, lock, ftable, ofile, cwd>>
  PROVE IInv'
  <2>. USE <1>DropInv
  <2>1. /\ l[p] \in Local /\ ShapeOf(l[p]) /\ TypeOK /\ LockInv /\ Checked /\ l[p].pc \in Putting
    BY DEF IInv, TypeOK, Shape, Putting
  <2>2. PICK e : e = AfterPut(l[p])
    OBVIOUS
  <2>3. /\ e \in Local /\ ShapeOf(e) /\ e.rf = l[p].rf /\ e.wf = l[p].wf /\ e.dp = l[p].dp
        /\ e.ip = l[p].ip /\ e.src = l[p].src /\ Loc(e) = Loc(l[p])
        /\ e.pc \notin {"iput_free", "iput_drop", "unlink_ip", "ialloc", "create_new"}
        /\ \A c, i : Mine(e, c, i) = Mine(l[p], c, i) - B(l[p].puts[1] = i)
    <3>1. /\ AfterPut(l[p]) \in Local /\ ShapeOf(AfterPut(l[p]))
          /\ AfterPut(l[p]).rf = l[p].rf /\ AfterPut(l[p]).wf = l[p].wf
          /\ AfterPut(l[p]).dp = l[p].dp /\ AfterPut(l[p]).ip = l[p].ip
          /\ AfterPut(l[p]).src = l[p].src /\ Loc(AfterPut(l[p])) = Loc(l[p])
          /\ AfterPut(l[p]).pc
               \notin {"iput_free", "iput_drop", "unlink_ip", "ialloc", "create_new"}
      BY <2>1, <1>AfterPutFacts
    <3>2. \A c, i : Mine(AfterPut(l[p]), c, i) = Mine(l[p], c, i) - B(l[p].puts[1] = i)
      BY <2>1, <1>AfterPutFacts
    <3>. QED
      BY <2>2, <3>1, <3>2, SMTT(60)
  <2>4. /\ l[p].puts[1] \in Inums /\ Head(l[p].puts) = l[p].puts[1]
        /\ icache[l[p].puts[1]].ref >= 1
    BY <2>1, PutReferred
  <2>5. Cached /\ \A j \in Inums : icache'[j].ref = icache[j].ref - B(j = l[p].puts[1])
    BY <2>4, <1>DropStep
  <2>6. /\ l' \in [Procs -> Local] /\ l'[p] = e /\ \A q \in Procs : q # p => l'[q] = l[q]
    BY <2>1, <2>2, <2>3 DEF TypeOK
  <2>7. TypeOK' /\ Frame(p)
    BY <2>1, <2>5, <2>6 DEF TypeOK, Frame, Cached
  <2>8. Counted(p)
    <3>1. \A i \in Inums : icache[i].ref \in Nat /\ Mine(l[p], cwd[p], i) \in Int
      BY <2>1, SMTT(60) DEF TypeOK, Slot, Mine, B
    <3>. QED
      BY <2>3, <2>5, <2>6, <3>1, SMTT(60) DEF Counted, B
  <2>9. Locked(p)
    <3>1. \A i \in Inums : Holds(l'[p], i) <=> Holds(l[p], i)
      BY <2>3, <2>6 DEF Holds, Keeps
    <3>2. l'[p].pc # "iput_free"
      BY <2>3, <2>6
    <3>. QED
      BY <3>1, <3>2, <2>1, LocksKept
  <2>10. Looked(p)
    <3>1. ASSUME Loc(l[p]) \in LocksIp
          PROVE icache'[l[p].ip].valid
      <4>1. icache[l[p].ip].valid /\ l[p].ip \in Inums /\ l[p].ip # 0
        BY <2>1, <3>1, ConstFacts DEF Checked, ShapeOf, LocksIp, HasIp, Local
      <4>2. /\ Mine(e, cwd[p], l[p].ip) \in Nat /\ Mine(e, cwd[p], l[p].ip) >= 1
            /\ Mine(l[p], cwd[p], l[p].ip) \in Nat
        BY <2>1, <2>3, Referred
      <4>3. AllCounted
        BY <2>1, RefsCounted DEF IInv
      <4>4. Mine(l[p], cwd[p], l[p].ip) <= icache[l[p].ip].ref
        BY <2>1, <4>1, <4>3 DEF AllCounted
      <4>5. icache[l[p].ip].ref \in Nat /\ icache'[l[p].ip].ref \in Nat
        BY <2>1, <2>7, <4>1 DEF TypeOK, Slot
      <4>6. icache[l[p].ip].ref > 0 /\ icache'[l[p].ip].ref > 0
        <5>1. /\ Mine(e, cwd[p], l[p].ip) = Mine(l[p], cwd[p], l[p].ip) - B(l[p].puts[1] = l[p].ip)
              /\ icache'[l[p].ip].ref = icache[l[p].ip].ref - B(l[p].ip = l[p].puts[1])
          <6>1. \A c, i : Mine(e, c, i) = Mine(l[p], c, i) - B(l[p].puts[1] = i)
            BY <2>3
          <6>2. \A j \in Inums : icache'[j].ref = icache[j].ref - B(j = l[p].puts[1])
            BY <2>5
          <6>3. Mine(e, cwd[p], l[p].ip) = Mine(l[p], cwd[p], l[p].ip) - B(l[p].puts[1] = l[p].ip)
            BY <6>1
          <6>4. icache'[l[p].ip].ref = icache[l[p].ip].ref - B(l[p].ip = l[p].puts[1])
            BY <4>1, <6>2
          <6>. QED
            BY <6>3, <6>4
        <5>2. B(l[p].puts[1] = l[p].ip) = B(l[p].ip = l[p].puts[1])
                /\ B(l[p].ip = l[p].puts[1]) \in Nat
          BY DEF B
        <5>3. \A a, b, m, o \in Nat, r \in Nat : a = b - o /\ m = r - o /\ a >= 1
                /\ b <= r => r > 0 /\ m > 0
          BY SMTT(60)
        <5>. QED
          BY <4>2, <4>4, <4>5, <5>1, <5>2, <5>3
      <4>. QED
        BY <4>1, <4>6, <2>5 DEF Cached, Stays
    <3>. QED
      BY <3>1, <2>3, <2>6 DEF Looked
  <2>11. /\ CacheInv' /\ Stays /\ \A i \in Inums : dinode'[i].type = dinode[i].type
         /\ UNCHANGED <<ents, ftable, ofile>>
    BY <2>5 DEF Cached, SameTypes
  <2>12. /\ ShapeOf(l'[p]) /\ l'[p].rf = l[p].rf /\ l'[p].wf = l[p].wf
         /\ l'[p].pc \notin {"unlink_ip", "ialloc", "create_new"}
    BY <2>3, <2>6
  <2>. QED
    BY <2>7, <2>8, <2>9, <2>10, <2>11, <2>12, CalmInv

\* iput() of an inode that stays.
<1>IputDropInv.
  ASSUME NEW p \in Procs, iput_drop(p)
  PROVE IInv'
  <2>. USE <1>IputDropInv
  <2>1. /\ l[p].pc \in {"iput", "iput_drop"}
        /\ icache' = Drop(icache, Head(l[p].puts)) /\ l' = [l EXCEPT ![p] = AfterPut(@)]
        /\ UNCHANGED <<dinode, ents, lock, ftable, ofile, cwd>>
    BY DEF iput_drop, At, disk, files
  <2>. QED
    BY <2>1, <1>DropInv

\* iput() drops a reference or takes ip->lock to free the inode.
<1>IputInv.
  ASSUME NEW p \in Procs, iput(p)
  PROVE IInv'
  <2>. USE <1>IputInv
  <2>1. PICK i : i = Head(l[p].puts)
    OBVIOUS
  <2>2. l[p].pc = "iput" /\ UNCHANGED <<dinode, ents, ftable, ofile, cwd>>
    BY DEF iput, At, disk, files
  <2>3. CASE /\ icache' = Drop(icache, Head(l[p].puts))
             /\ l' = [l EXCEPT ![p] = AfterPut(@)] /\ UNCHANGED lock
    <3>1. l[p].pc \in {"iput", "iput_drop"}
      BY <2>2
    <3>. QED
      BY <2>2, <2>3, <3>1, <1>DropInv
  <2>4. CASE /\ LastUse(i) /\ lock[i] = None /\ lock' = [lock EXCEPT ![i] = p]
             /\ l' = [l EXCEPT ![p].pc = "iput_free"] /\ UNCHANGED icache
    <3>1. /\ TypeOK /\ l[p] \in Local /\ ShapeOf(l[p]) /\ LockInv /\ l[p].pc \in Putting
          /\ Checked
      BY <2>2 DEF IInv, TypeOK, Shape, Putting
    <3>2. i \in Inums /\ i = l[p].puts[1]
      BY <2>1, <3>1, PutReferred
    <3>3. /\ l' \in [Procs -> Local] /\ \A q \in Procs : q # p => l'[q] = l[q]
          /\ l'[p].pc = "iput_free" /\ l'[p].puts = l[p].puts /\ l'[p].dp = l[p].dp
          /\ l'[p].ip = l[p].ip /\ l'[p].src = l[p].src /\ l'[p].rf = l[p].rf
          /\ l'[p].wf = l[p].wf
      <4>1. "iput_free" \in Labels
        BY DEF Labels, Putting
      <4>. QED
        BY <2>4, <3>1, <4>1 DEF TypeOK, Local
    <3>4. /\ l'[p].then = l[p].then /\ l'[p].f = l[p].f /\ l'[p].sys = l[p].sys
          /\ l'[p].path = l[p].path /\ l'[p].new = l[p].new
      BY <2>4, <3>1 DEF TypeOK, Local
    <3>5. Loc(l'[p]) = Loc(l[p]) /\ l'[p].pc \in Putting
      BY <3>1, <3>3, <3>4 DEF Loc, Putting
    <3>6. ShapeOf(l'[p])
      BY <3>1, <3>3, <3>4, <3>5 DEF ShapeOf
    <3>7. Cached /\ \A j \in Inums : icache'[j].ref = icache[j].ref
      BY <2>2, <2>4, KeptStep
    <3>8. ~Keeps(l[p], i)
      BY <2>4, <3>1, <3>2, ConstFacts, SMTT(60) DEF LockInv, Holds
    <3>9. \A j : Keeps(l'[p], j) <=> Keeps(l[p], j)
      BY <3>3, <3>5 DEF Keeps
    <3>10. \A j \in Inums : (Holds(l[p], j) <=> Keeps(l[p], j))
                            /\ (Holds(l'[p], j) <=> Keeps(l[p], j) \/ j = i)
      BY <2>2, <3>2, <3>3, <3>9 DEF Holds
    <3>11. Locked(p)
      <4>1. icache'[l'[p].puts[1]].ref = 1 /\ ~Keeps(l'[p], l'[p].puts[1])
        BY <2>4, <3>2, <3>3, <3>8, <3>9, SMTT(60) DEF LastUse
      <4>2. \A j \in Inums : lock'[j] = IF j = i THEN p ELSE lock[j]
        BY <2>4, <3>1, <3>2 DEF TypeOK
      <4>3. \A j \in Inums : lock[j] = p <=> Keeps(l[p], j)
        BY <3>1, <3>10 DEF LockInv
      <4>. QED
        BY <2>4, <4>1, <4>2, <4>3, <3>10, SMTT(60) DEF Locked
    <3>12. Loc(l'[p]) \in LocksIp => icache'[l'[p].ip].valid
      BY <2>4, <3>1, <3>3, <3>5 DEF Checked
    <3>13. l'[p].pc \notin {"unlink_ip", "ialloc", "create_new"}
      BY <3>3
    <3>14. lock' \in [Inums -> Procs \cup {None}] /\ UNCHANGED <<ents, ftable, ofile, cwd>>
      BY <2>2, <2>4, <3>1, <3>2 DEF TypeOK
    <3>. QED
      BY <3>3, <3>6, <3>7, <3>11, <3>12, <3>13, <3>14, MoveInv
  <2>. QED
    BY <2>1, <2>3, <2>4 DEF iput

\* iput() frees the inode: nobody else refers to it, and whoever has locked a
\* directory or checked an inode has another one.
<1>IputFreeInv.
  ASSUME NEW p \in Procs, iput_free(p)
  PROVE IInv'
  <2>. USE <1>IputFreeInv
  <2>1. /\ TypeOK /\ l[p] \in Local /\ ShapeOf(l[p]) /\ LockInv /\ l[p].pc = "iput_free"
        /\ Checked /\ CacheInv /\ l[p].pc \in Putting
    BY DEF IInv, TypeOK, Shape, Putting, iput_free, At
  <2>2. PICK i : i = l[p].puts[1]
    OBVIOUS
  <2>3. i \in Inums /\ i = Head(l[p].puts)
    BY <2>1, <2>2, PutReferred
  <2>4. /\ ents' = [ents EXCEPT ![i] = NoEntries] /\ dinode' = [dinode EXCEPT ![i].type = "free"]
        /\ icache' = [icache EXCEPT ![i].type = "free", ![i].valid = FALSE]
        /\ lock' = [lock EXCEPT ![i] = None] /\ l' = [l EXCEPT ![p].pc = "iput_drop"]
        /\ UNCHANGED <<ftable, ofile, cwd>>
    BY <2>3 DEF iput_free, files
  <2>5. /\ l' \in [Procs -> Local] /\ \A q \in Procs : q # p => l'[q] = l[q]
        /\ l'[p].pc = "iput_drop" /\ l'[p].puts = l[p].puts /\ l'[p].dp = l[p].dp
        /\ l'[p].ip = l[p].ip /\ l'[p].src = l[p].src /\ l'[p].rf = l[p].rf
        /\ l'[p].wf = l[p].wf
    <3>1. "iput_drop" \in Labels
      BY DEF Labels, Putting
    <3>. QED
      BY <2>1, <2>4, <3>1 DEF TypeOK, Local
  <2>6. /\ l'[p].then = l[p].then /\ l'[p].f = l[p].f /\ l'[p].sys = l[p].sys
        /\ l'[p].path = l[p].path /\ l'[p].new = l[p].new
    BY <2>1, <2>4 DEF TypeOK, Local
  <2>7. Loc(l'[p]) = Loc(l[p]) /\ l'[p].pc \in Putting
    BY <2>1, <2>5, <2>6 DEF Loc, Putting
  <2>8. ShapeOf(l'[p])
    BY <2>1, <2>5, <2>6, <2>7 DEF ShapeOf
  <2>9. /\ \A j \in Inums : j # i => icache'[j] = icache[j] /\ dinode'[j] = dinode[j]
                                     /\ ents'[j] = ents[j]
        /\ icache'[i].valid = FALSE /\ dinode'[i].type = "free" /\ icache'[i].ref = icache[i].ref
        /\ ents'[i] = NoEntries /\ lock'[i] = None
    BY <2>1, <2>3, <2>4, SMTT(60) DEF TypeOK, Slot, Dinode
  <2>10. TypeOK' /\ Frame(p)
    <3>1. icache' \in [Inums -> Slot]
      <4>1. "free" \in Types \cup {"none"} /\ FALSE \in BOOLEAN
        BY DEF Types
      <4>2. icache \in [Inums -> Slot] /\ icache[i] \in Slot
        BY <2>1, <2>3 DEF TypeOK
      <4>3. PICK v : v = [icache[i] EXCEPT !.type = "free"]
        OBVIOUS
      <4>4. v \in Slot
        BY <4>1, <4>2, <4>3 DEF Slot
      <4>5. PICK w : w = [v EXCEPT !.valid = FALSE]
        OBVIOUS
      <4>6. w \in Slot
        BY <4>1, <4>4, <4>5 DEF Slot
      <4>7. icache' = [icache EXCEPT ![i] = w]
        BY <2>3, <2>4, <4>2, <4>3, <4>5
      <4>. QED
        BY <2>3, <4>2, <4>6, <4>7
    <3>2. dinode' \in [Inums -> Dinode]
      <4>1. "free" \in Types /\ dinode \in [Inums -> Dinode]
        BY <2>1 DEF Types, TypeOK
      <4>2. PICK v : v = [dinode[i] EXCEPT !.type = "free"]
        OBVIOUS
      <4>3. v \in Dinode
        BY <2>3, <4>1, <4>2 DEF Dinode
      <4>4. dinode' = [dinode EXCEPT ![i] = v]
        BY <2>4, <4>2
      <4>. QED
        BY <2>3, <4>1, <4>3, <4>4
    <3>3. NoEntries \in DirEntries
      BY ConstFacts DEF NoEntries, DirEntries
    <3>4. ents' \in [Inums -> DirEntries] /\ lock' \in [Inums -> Procs \cup {None}]
      BY <2>1, <2>3, <2>4, <3>3 DEF TypeOK
    <3>. QED
      BY <2>1, <2>4, <2>5, <3>1, <3>2, <3>4 DEF TypeOK, Frame
  <2>11. Shape'
    BY <2>5, <2>8 DEF IInv, Shape
  <2>12. RefsExact' /\ FileInv'
    <3>1. InodeRefs /\ FileRefs /\ FileInv
      BY <2>1, RefsSplit DEF IInv
    <3>2. Counted(p)
      <4>1. \A j \in Inums : Mine(l'[p], cwd'[p], j) = Mine(l[p], cwd[p], j)
        BY <2>4, <2>5 DEF Mine
      <4>2. \A j \in Inums : Mine(l[p], cwd[p], j) \in Nat
        BY <2>1, Referred
      <4>3. \A j \in Inums : icache[j].ref \in Nat /\ icache'[j].ref = icache[j].ref
        BY <2>1, <2>9 DEF TypeOK, Slot
      <4>. QED
        BY <4>1, <4>2, <4>3, SMTT(60) DEF Counted
    <3>3. InodeRefs'
      BY <2>1, <2>4, <2>10, <3>1, <3>2, CountedRefs
    <3>4. FileRefs' /\ FileInv'
      BY <2>1, <2>4, <2>5, <2>10, <3>1, FilesCalm
    <3>. QED
      BY <2>10, <3>3, <3>4 DEF TypeOK, RefsExact, InodeRefs, FileRefs
  <2>13. ~Keeps(l[p], i) /\ lock[i] = p
    BY <2>1, <2>2, <2>3 DEF LockInv, Holds
  <2>14. LockInv'
    <3>1. \A j : Keeps(l'[p], j) <=> Keeps(l[p], j)
      BY <2>5, <2>7 DEF Keeps
    <3>2. \A j \in Inums : Holds(l'[p], j) <=> Holds(l[p], j) /\ j # i
      BY <2>1, <2>2, <2>5, <2>13, <3>1 DEF Holds
    <3>3. Holds(l[p], i) /\ l'[p].pc # "iput_free"
      BY <2>1, <2>2, <2>5 DEF Holds
    <3>4. Locked(p)
      BY <2>1, <2>3, <2>4, <3>2, <3>3, LockReleased
    <3>. QED
      BY <2>1, <2>10, <3>4, LockStep
  <2>15. CacheInv'
    BY <2>1, <2>9 DEF CacheInv
  <2>16. \A q \in Procs : /\ l'[q].dp = l[q].dp /\ l'[q].src = l[q].src /\ l'[q].ip = l[q].ip
                          /\ Loc(l'[q]) = Loc(l[q]) /\ l[q].dp # i /\ l[q].src # i
                          /\ l[q].dp \in Inums \cup {0} /\ l[q].src \in Inums \cup {0}
    <3>1. \A q \in Procs : l[q].dp # i /\ l[q].src # i
      BY <2>1, <2>2 DEF Checked
    <3>2. \A q \in Procs : l[q].dp \in Inums \cup {0} /\ l[q].src \in Inums \cup {0}
      BY <2>1, ConstFacts DEF TypeOK, Local
    <3>. QED
      BY <2>5, <2>7, <3>1, <3>2
  <2>17. Checked'
    <3>1. ASSUME NEW q \in Procs, l'[q].dp # 0
          PROVE icache'[l'[q].dp].valid /\ dinode'[l'[q].dp].type = T_DIR
      BY <2>1, <2>9, <2>16, <3>1, SMTT(60) DEF Checked
    <3>2. ASSUME NEW q \in Procs, l'[q].src # 0
          PROVE icache'[l'[q].src].valid /\ dinode'[l'[q].src].type # T_DIR
      BY <2>1, <2>9, <2>16, <3>2, SMTT(60) DEF Checked
    <3>3. ASSUME NEW q \in Procs, Loc(l'[q]) \in LocksIp
          PROVE icache'[l'[q].ip].valid
      <4>1. Loc(l[q]) \in LocksIp /\ l'[q].ip = l[q].ip
        BY <2>16, <3>3
      <4>2. l[q].ip \in Inums
        <5>1. ShapeOf(l[q]) /\ l[q] \in Local
          BY <2>1 DEF IInv, Shape, TypeOK
        <5>. QED
          BY <4>1, <5>1, ConstFacts DEF ShapeOf, LocksIp, HasIp, Local
      <4>3. Keeps(l[q], l[q].ip) /\ lock[l[q].ip] = q
        BY <2>1, <4>1, <4>2 DEF Keeps, Holds, LockInv
      <4>4. l[q].ip # i
        BY <4>3, <2>13
      <4>. QED
        BY <2>1, <2>9, <4>1, <4>2, <4>4 DEF Checked
    <3>4. ASSUME NEW q \in Procs, l'[q].pc = "iput_free", NEW o \in Procs
          PROVE l'[o].dp # l'[q].puts[1] /\ l'[o].src # l'[q].puts[1]
      <4>1. l'[q] = l[q]
        BY <2>5, <3>4
      <4>2. l[o].dp # l[q].puts[1] /\ l[o].src # l[q].puts[1]
        BY <2>1, <3>4, <4>1 DEF Checked
      <4>. QED
        BY <4>1, <4>2, <2>16
    <3>. QED
      BY <3>1, <3>2, <3>3, <3>4 DEF Checked
  <2>18. NamesInv'
    <3>1. \A x \in Names : ents'[i][x] = 0
      BY <2>9 DEF NoEntries, Entries
    <3>. QED
      BY <2>9, <3>1 DEF IInv, NamesInv
  <2>19. UnlinkInv'
    <3>1. ASSUME NEW q \in Procs, l'[q].pc = "unlink_ip"
          PROVE l'[q].name \in Names /\ ents'[l'[q].dp][l'[q].name] = l'[q].ip
      <4>1. l'[q] = l[q]
        BY <2>5, <3>1
      <4>2. l[q].name \in Names /\ ents[l[q].dp][l[q].name] = l[q].ip
        BY <3>1, <4>1 DEF IInv, UnlinkInv
      <4>3. l[q].dp \in Inums
        <5>1. ShapeOf(l[q])
          BY DEF IInv, Shape
        <5>2. l[q].dp # 0
          BY <5>1, <3>1, <4>1 DEF ShapeOf, HasDp, Loc, Putting
        <5>. QED
          BY <2>16, <5>2
      <4>. QED
        BY <2>9, <2>16, <4>1, <4>2, <4>3
    <3>. QED
      BY <3>1 DEF UnlinkInv
  <2>20. Acyclic'
    <3>1. ASSUME NEW d \in Inums, NEW e \in Inums, Edge(d, e)'
          PROVE Edge(d, e)
      <4>1. CASE \E x \in Names : ents'[d][x] = e
        <5>1. PICK x \in Names : ents'[d][x] = e
          BY <4>1
        <5>2. d # i
          BY <5>1, <2>9, ConstFacts DEF NoEntries, Entries
        <5>. QED
          BY <5>1, <5>2, <2>9 DEF Edge
      <4>2. CASE \E q \in Procs : /\ l'[q].dp = d
                                  /\ \/ l'[q].pc = "ialloc" /\ l'[q].f = e
                                     \/ l'[q].pc = "create_new" /\ l'[q].ip = e
        BY <2>5, <4>2 DEF Edge
      <4>. QED
        BY <3>1, <4>1, <4>2 DEF Edge
    <3>. QED
      BY <3>1 DEF IInv, Acyclic
  <2>. QED
    BY <2>10, <2>11, <2>12, <2>14, <2>15, <2>17, <2>18, <2>19, <2>20 DEF IInv
<1>. QED
  BY <1>IputDropInv, <1>IputInv, <1>IputFreeInv

=============================================================================
