--------------------------- MODULE FileSysProofs ---------------------------
(***************************************************************************)
(* Theorems about the inode layer, for any number of processes, inodes and *)
(* struct files and any names and paths.  The calls that look up a path and*)
(* the steps on two inodes at once keep the invariant of FileSysSteps, as  *)
(* the steps there do; so it holds in every state, and what it says of     *)
(* references and of the holders of locks gives the theorems.              *)
(***************************************************************************)
EXTENDS FileSysSteps

\* Which prover is tried first, and how long, where a step does not say.
USE ZenonT(60), SMTT(60)

\* The invariant says nothing of panic and of the number of calls.
LEMMA StutterInv ==
  ASSUME SetFacts, IInv, UNCHANGED <<dinode, ents, icache, lock, ftable, ofile, cwd, l>>
  PROVE IInv'
<1>1. TypeOK' /\ Shape'
  BY DEF IInv, TypeOK, Shape
<1>2. RefsExact'
  BY DEF IInv, RefsExact, Pointers, FilePointers
<1>3. LockInv' /\ FileInv' /\ CacheInv'
  BY DEF IInv, LockInv, FileInv, CacheInv
<1>4. Checked' /\ NamesInv' /\ UnlinkInv'
  BY DEF IInv, Checked, NamesInv, UnlinkInv
<1>5. Acyclic'
  <2>1. \A d, i \in Inums : Edge(d, i)' <=> Edge(d, i)
    BY DEF Edge
  <2>. QED
    BY <2>1 DEF IInv, Acyclic
<1>. QED
  BY <1>1, <1>2, <1>3, <1>4, <1>5 DEF IInv

\* panic() changes none of the variables that the invariant is about.
LEMMA IlockPanicInv ==
  ASSUME SetFacts, IInv, NEW p \in Procs, ilock_panic(p)
  PROVE IInv'
  BY StutterInv DEF ilock_panic

\* iget() adds a reference, and a slot in use keeps what it holds.
LEMMA IgetFacts ==
  ASSUME NEW c, CacheOK(c), NEW i \in Inums
  PROVE /\ CacheOK(iget(c, i))
        /\ \A j \in Inums : iget(c, i)[j].ref = c[j].ref + B(j = i)
        /\ \A j \in Inums : c[j].valid /\ c[j].ref > 0 => iget(c, i)[j].valid
<1>1. CASE c[i].ref > 0
  BY <1>1, SMTT(60) DEF CacheOK, iget, B, Slot
<1>2. CASE ~(c[i].ref > 0)
  <2>1. PICK u : u = [Unused EXCEPT !.ref = 1]
    OBVIOUS
  <2>3. u \in Slot /\ u.ref = 1 /\ u.valid = FALSE
    <3>1. PICK v : v = Unused
      OBVIOUS
    <3>2. v \in Slot /\ v.valid = FALSE
      BY <3>1, SMTT(60) DEF Slot, Unused
    <3>. QED
      BY <2>1, <3>1, <3>2 DEF Slot
  <2>4. iget(c, i) = [c EXCEPT ![i] = u]
    BY <1>2, <2>1 DEF iget
  <2>2. c[i].ref = 0
    BY <1>2, SMTT(60) DEF CacheOK, Slot
  <2>. QED
    BY <2>2, <2>3, <2>4, SMTT(60) DEF CacheOK, B, Slot
<1>. QED
  BY <1>1, <1>2

\* iget() and idup() add one reference.
LEMMA IgetStep ==
  ASSUME SetFacts, IInv, NEW i \in Inums, icache' = iget(icache, i), UNCHANGED dinode
  PROVE Cached /\ \A j \in Inums : icache'[j].ref = icache[j].ref + B(j = i)
<1>1. TypeOK /\ CacheOK(icache)
  BY InvCacheOK DEF IInv
<1>2. /\ CacheOK(icache')
      /\ \A j \in Inums : icache'[j].ref = icache[j].ref + B(j = i)
      /\ \A j \in Inums : icache[j].valid /\ icache[j].ref > 0 => icache'[j].valid
  BY <1>1, IgetFacts, SMTT(60)
<1>. QED
  BY <1>1, <1>2, InvCacheOK, CachedStep DEF SameTypes

\* ilock() of a directory, then iget() of an entry.
LEMMA LoadedIgetStep ==
  ASSUME SetFacts, IInv, NEW d \in Inums, CanLock(d), NEW i \in Inums,
         icache' = iget(Loaded(icache, d), i), UNCHANGED dinode
  PROVE /\ Cached /\ \A j \in Inums : icache'[j].ref = icache[j].ref + B(j = i)
        /\ icache[d].ref > 0 => icache'[d].valid
<1>1. TypeOK /\ CacheInv
  BY DEF IInv
<1>2. PICK c : c = Loaded(icache, d)
  OBVIOUS
<1>3. /\ CacheOK(c) /\ c[d].valid
      /\ \A j \in Inums : c[j].ref = icache[j].ref
      /\ \A j \in Inums : icache[j].valid => c[j].valid
  BY <1>1, <1>2, LoadedFacts
<1>4. /\ CacheOK(icache')
      /\ \A j \in Inums : icache'[j].ref = c[j].ref + B(j = i)
      /\ \A j \in Inums : c[j].valid /\ c[j].ref > 0 => icache'[j].valid
  BY <1>2, <1>3, IgetFacts, SMTT(60)
<1>. QED
  BY <1>1, <1>3, <1>4, InvCacheOK, CachedStep DEF SameTypes

\* A step that changes neither names nor struct files nor directories.
LEMMA GoInv ==
  ASSUME SetFacts, IInv, NEW p \in Procs, l' \in [Procs -> Local],
         \A q \in Procs : q # p => l'[q] = l[q],
         ShapeOf(l'[p]), l'[p].rf = l[p].rf, l'[p].wf = l[p].wf, Cached,
         \A i \in Inums : icache'[i].ref = icache[i].ref + Mine(l'[p], cwd[p], i)
                                             - Mine(l[p], cwd[p], i),
         lock' \in [Inums -> Procs \cup {None}], Locked(p), Looked(p),
         l'[p].pc \notin {"unlink_ip", "ialloc", "create_new"},
         UNCHANGED <<ents, ftable, ofile, cwd>>
  PROVE IInv'
<1>1. TypeOK
  BY DEF IInv
<1>2. TypeOK' /\ Frame(p)
  BY <1>1 DEF TypeOK, Frame, Cached
<1>3. Counted(p)
  BY DEF Counted
<1>4. /\ CacheInv' /\ Stays /\ \A i \in Inums : dinode'[i].type = dinode[i].type
      /\ UNCHANGED <<ents, ftable, ofile>>
  BY DEF Cached, SameTypes
<1>. QED
  BY <1>2, <1>3, <1>4, CalmInv

\* e are the local variables r of a call that enters namex() with a path.
LookedUp(p, path, r, e) ==
  /\ e \in Local /\ ShapeOf(e) /\ Start(p, path) \in Inums
  /\ e.dp = 0 /\ e.src = r.src /\ e.rf = 0 /\ e.wf = 0
  /\ e.pc \in {"namex", "iput", "open", "chdir", "link"}
  /\ Loc(e) \notin LocksDp \cup LocksIp
  /\ \A c, i \in Inums : Mine(e, c, i) = B(c = i) + B(r.src = i) + B(Start(p, path) = i)

\* A call is made; the steps of sys_link() between its two look-ups and after dirlink() fails.
LEMMA CallInv ==
  ASSUME SetFacts, IInv
  PROVE \A p \in Procs :
          (syscall(p) \/ sys_link(p) \/ link_exists(p))
            => IInv'
\* What a call refers to is in the cache.
<1>InUse.
  ASSUME NEW p \in Procs, NEW i \in Inums,
         l[p].dp = i \/ l[p].ip = i \/ l[p].src = i
  PROVE icache[i].ref \in Nat /\ icache[i].ref > 0
  <2>. USE <1>InUse
  <2>1. TypeOK /\ l[p] \in Local /\ AllCounted
    BY RefsCounted DEF IInv, TypeOK
  <2>2. Mine(l[p], cwd[p], i) \in Nat /\ Mine(l[p], cwd[p], i) >= 1
    BY <2>1, Referred
  <2>3. Mine(l[p], cwd[p], i) <= icache[i].ref
    BY <2>1 DEF AllCounted
  <2>4. icache[i].ref \in Nat
    BY <2>1 DEF TypeOK, Slot
  <2>. QED
    BY <2>2, <2>3, <2>4, SMTT(60)

\* The names of a path.
<1>PathFacts.
  ASSUME NEW path \in Paths \cup NewPaths
  PROVE Elems(path) \in Seq(Entries) /\ path \in Seq(Entries \cup {"/"})
  <2>. USE <1>PathFacts
  <2>1. /\ path # <<>> /\ path \in Seq(Names \cup {".", "..", "/"})
        /\ Tail(path) \in Seq(Names \cup {".", ".."})
    BY PathAssumption
  <2>2. /\ path \in Seq(Entries \cup {"/"}) /\ Tail(path) \in Seq(Entries)
    <3>1. Entries \cup {"/"} = Names \cup {".", "..", "/"}
      BY DEF Entries
    <3>. QED
      BY <2>1, <3>1 DEF Entries
  <2>3. ASSUME Head(path) # "/"
        PROVE path \in Seq(Entries)
    <3>1. path[1] \in Entries /\ Len(path) \in Nat /\ Len(path) >= 1
      BY <2>1, <2>2, <2>3, SMTT(60)
    <3>2. ASSUME NEW n \in 1..Len(path), n # 1
          PROVE path[n] \in Entries
      <4>1. n - 1 \in 1..Len(Tail(path)) /\ Tail(path)[n - 1] = path[n]
        BY <2>2, <3>1, <3>2, SMTT(60)
      <4>2. Tail(path)[n - 1] \in Entries
        BY <2>2, <4>1, SMTT(60)
      <4>. QED
        BY <4>1, <4>2
    <3>3. \A n \in 1..Len(path) : path[n] \in Entries
      BY <3>1, <3>2
    <3>4. path = [n \in 1..Len(path) |-> path[n]]
      BY <2>2, SMTT(60)
    <3>. QED
      BY <3>1, <3>3, <3>4, SMTT(60)
  <2>. QED
    BY <2>2, <2>3 DEF Elems

\* A call entering namex() has a reference to the inode where it starts.
<1>LookupFacts.
  ASSUME TypeOK, NEW p \in Procs, NEW s \in PathCalls, NEW path \in Paths \cup NewPaths,
         NEW r \in Local, r.pc = "idle", r.dp = 0, r.ip = 0, r.rf = 0, r.wf = 0, r.puts = <<>>,
         s = "link_dp" <=> r.src # 0, s = "link" => r.new \in NewPaths,
         NEW e, e = Lookup(p, s, path, r)
  PROVE LookedUp(p, path, r, e)
  <2>. USE <1>LookupFacts
  <2>1. PICK i : i = Start(p, path)
    OBVIOUS
  <2>2. i \in Inums /\ i \in InoZ /\ i # 0 /\ Elems(path) \in Seq(Entries)
    BY <2>1, ConstFacts, <1>PathFacts, SMTT(60) DEF Start, TypeOK
  <2>3. CASE Elems(path) # <<>>
    <3>1. e = [r EXCEPT !.pc = "namex", !.sys = s, !.path = Elems(path), !.ip = i]
      BY <2>1, <2>3 DEF Lookup
    <3>2. "namex" \in Labels /\ s \in PathCalls \cup {"none"}
      BY DEF Labels, HasIp
    <3>3. /\ e \in Local /\ e.pc = "namex" /\ e.dp = 0 /\ e.ip = i /\ e.src = r.src /\ e.rf = 0
          /\ e.wf = 0 /\ e.puts = <<>> /\ e.sys = s /\ e.path = Elems(path) /\ e.new = r.new
      BY <2>2, <3>1, <3>2 DEF Local
    <3>4. Loc(e) = "namex"
      BY <3>3 DEF Loc, Putting
    <3>5. ShapeOf(e)
      BY <2>2, <2>3, <3>3, <3>4 DEF ShapeOf, Putting, HasDp, HasIp, HasSrc
    <3>6. Loc(e) \notin LocksDp \cup LocksIp
      BY <3>4 DEF LocksDp, LocksIp
    <3>7. \A c, j \in Inums : Mine(e, c, j) = B(c = j) + B(r.src = j) + B(i = j)
      BY <3>3, MinePlain, ConstFacts, SMTT(60) DEF B
    <3>. QED
      BY <2>1, <2>2, <3>3, <3>5, <3>6, <3>7, SMTT(60) DEF LookedUp
  <2>4. CASE Elems(path) = <<>> /\ ~WantsParent(s)
    <3>1. e = [r EXCEPT !.pc = Resume(s), !.sys = s, !.ip = i]
      BY <2>1, <2>4 DEF Lookup
    <3>2. s \in {"open", "chdir", "link"} /\ Resume(s) = s
      BY <2>4 DEF WantsParent, PathCalls, Resume
    <3>3. s \in Labels /\ s \in PathCalls \cup {"none"}
      BY <3>2 DEF Labels, HasIp
    <3>4. /\ e \in Local /\ e.pc = s /\ e.dp = 0 /\ e.ip = i /\ e.src = r.src /\ e.rf = 0
          /\ e.wf = 0 /\ e.puts = <<>> /\ e.sys = s /\ e.new = r.new
      <4>1. e = [r EXCEPT !.pc = s, !.sys = s, !.ip = i]
        BY <3>1, <3>2
      <4>. QED
        BY <2>2, <3>3, <4>1 DEF Local
    <3>5. Loc(e) = s
      BY <3>2, <3>4 DEF Loc, Putting
    <3>6. ShapeOf(e)
      BY <2>2, <3>2, <3>4, <3>5 DEF ShapeOf, Putting, HasDp, HasIp, HasSrc
    <3>7. Loc(e) \notin LocksDp \cup LocksIp
      BY <3>2, <3>5 DEF LocksDp, LocksIp
    <3>8. \A c, j \in Inums : Mine(e, c, j) = B(c = j) + B(r.src = j) + B(i = j)
      BY <3>4, MinePlain, ConstFacts, SMTT(60) DEF B
    <3>. QED
      BY <2>1, <2>2, <3>2, <3>4, <3>6, <3>7, <3>8, SMTT(60) DEF LookedUp
  <2>5. CASE Elems(path) = <<>> /\ WantsParent(s)
    <3>1. PICK k : k = IF s = "link_dp" THEN "link_bad" ELSE "idle"
      OBVIOUS
    <3>2. e = [r EXCEPT !.pc = "iput", !.puts = <<i>>, !.then = k]
      BY <2>1, <2>5, <3>1 DEF Lookup
    <3>3. k \in Labels /\ "iput" \in Labels /\ <<i>> \in Seq(Inums) /\ k \notin Putting
      BY <2>2, <3>1, SMTT(60) DEF Labels, Putting, HasSrc
    <3>4. /\ e \in Local /\ e.pc = "iput" /\ e.then = k /\ e.dp = 0 /\ e.ip = 0 /\ e.src = r.src
          /\ e.rf = 0 /\ e.wf = 0 /\ e.puts = <<i>>
      BY <3>2, <3>3 DEF Local
    <3>5. Loc(e) = k /\ e.pc \in Putting /\ Len(e.puts) \in 1..2
      BY <3>4, SMTT(60) DEF Loc, Putting
    <3>6. ShapeOf(e)
      BY <3>1, <3>4, <3>5 DEF ShapeOf, Putting, HasDp, HasIp, HasSrc
    <3>7. Loc(e) \notin LocksDp \cup LocksIp
      BY <3>1, <3>5 DEF LocksDp, LocksIp
    <3>8. \A c, j \in Inums : Mine(e, c, j) = B(c = j) + B(r.src = j) + B(i = j)
      BY <3>4, MinePut, ConstFacts, SMTT(60) DEF B
    <3>. QED
      BY <2>1, <2>2, <3>4, <3>6, <3>7, <3>8, SMTT(60) DEF LookedUp
  <2>. QED
    BY <2>3, <2>4, <2>5

\* A call takes a path: namei() or nameiparent() starts.
<1>SyscallInv.
  ASSUME NEW p \in Procs, syscall(p)
  PROVE IInv'
  <2>. USE <1>SyscallInv
  <2>1. TypeOK /\ l[p] \in Local /\ ShapeOf(l[p]) /\ l[p].pc = "idle" /\ LockInv
    BY DEF IInv, TypeOK, Shape, syscall, At
  <2>2. /\ l[p].dp = 0 /\ l[p].ip = 0 /\ l[p].src = 0 /\ l[p].puts = <<>>
        /\ l[p].rf = 0 /\ l[p].wf = 0 /\ Loc(l[p]) = "idle"
    BY <2>1, ConstFacts DEF ShapeOf, Loc, Putting, HasDp, HasIp, HasSrc, Local
  <2>3. PICK s \in Calls \ {"fileio", "close", "dup", "pipe"}, path \in Paths :
          \E new \in IF s = "link" THEN NewPaths ELSE {<<>>} :
            /\ icache' = iget(icache, Start(p, path))
            /\ l' = [l EXCEPT ![p] = Lookup(p, s, path, [Idle EXCEPT !.new = new])]
    BY DEF syscall
  <2>4. PICK new \in IF s = "link" THEN NewPaths ELSE {<<>>} :
            /\ icache' = iget(icache, Start(p, path))
            /\ l' = [l EXCEPT ![p] = Lookup(p, s, path, [Idle EXCEPT !.new = new])]
    BY <2>3
  <2>5. UNCHANGED <<dinode, ents, lock, ftable, ofile, cwd>>
    BY DEF syscall, disk, files
  <2>6. s \in PathCalls /\ s # "link_dp"
    BY FileSysAssumption, CreatesDomain DEF PathCalls
  <2>7. new \in Seq(Entries \cup {"/"}) /\ (s = "link" => new \in NewPaths)
    <3>1. CASE s = "link"
      <4>1. new \in NewPaths /\ new \in Paths \cup NewPaths
        BY <3>1
      <4>. QED
        BY <4>1, <1>PathFacts
    <3>2. CASE s # "link"
      <4>1. new = <<>>
        BY <3>2
      <4>. QED
        BY <3>2, <4>1, SMTT(60)
    <3>. QED
      BY <3>1, <3>2
  <2>8. PICK r : r = [Idle EXCEPT !.new = new]
    OBVIOUS
  <2>9. /\ r \in Local /\ r.pc = "idle" /\ r.dp = 0 /\ r.ip = 0 /\ r.src = 0 /\ r.rf = 0
        /\ r.wf = 0 /\ r.puts = <<>> /\ r.new = new
    <3>1. PICK v : v = Idle
      OBVIOUS
    <3>2. /\ v \in Local /\ v.pc = "idle" /\ v.dp = 0 /\ v.ip = 0 /\ v.src = 0 /\ v.rf = 0
          /\ v.wf = 0 /\ v.puts = <<>>
      BY <3>1, IdleFacts
    <3>3. r = [v EXCEPT !.new = new]
      BY <2>8, <3>1
    <3>. QED
      BY <2>7, <3>2, <3>3 DEF Local
  <2>10. PICK e : e = Lookup(p, s, path, r)
    OBVIOUS
  <2>11. path \in Paths \cup NewPaths /\ (s = "link_dp" <=> r.src # 0)
         /\ (s = "link" => r.new \in NewPaths)
    BY <2>6, <2>7, <2>9
  <2>12. /\ e \in Local /\ ShapeOf(e) /\ Start(p, path) \in Inums
         /\ e.dp = 0 /\ e.src = r.src /\ e.rf = 0 /\ e.wf = 0
         /\ e.pc \in {"namex", "iput", "open", "chdir", "link"}
         /\ Loc(e) \notin LocksDp \cup LocksIp
         /\ \A c, i \in Inums : Mine(e, c, i) = B(c = i) + B(r.src = i) + B(Start(p, path) = i)
    <3>1. LookedUp(p, path, r, e)
      BY <2>1, <2>6, <2>9, <2>10, <2>11, <1>LookupFacts
    <3>. QED
      BY <3>1 DEF LookedUp
  <2>13. l' \in [Procs -> Local] /\ l'[p] = e /\ \A q \in Procs : q # p => l'[q] = l[q]
    BY <2>1, <2>4, <2>8, <2>10, <2>12, SMTT(60) DEF TypeOK
  <2>14. Cached /\ \A j \in Inums : icache'[j].ref = icache[j].ref + B(j = Start(p, path))
    BY <2>4, <2>5, <2>12, IgetStep
  <2>15. \A i \in Inums : icache'[i].ref = icache[i].ref + Mine(l'[p], cwd[p], i)
                                             - Mine(l[p], cwd[p], i)
    <3>1. cwd[p] \in Inums /\ \A i \in Inums : icache[i].ref \in Nat
      BY <2>1 DEF TypeOK, Slot
    <3>2. \A i \in Inums : Mine(l[p], cwd[p], i) = B(cwd[p] = i)
      BY <2>2, MinePlain, ConstFacts, SMTT(60) DEF B
    <3>3. \A i \in Inums : Mine(l'[p], cwd[p], i) = B(cwd[p] = i) + B(i = Start(p, path))
      <4>1. \A i \in Inums : Mine(e, cwd[p], i) = B(cwd[p] = i) + B(r.src = i) + B(Start(p, path) = i)
        BY <2>12, <3>1
      <4>. QED
        BY <2>9, <2>13, <4>1, ConstFacts, SMTT(60) DEF B
    <3>. QED
      BY <2>14, <3>1, <3>2, <3>3, SMTT(60) DEF B
  <2>16. Locked(p)
    <3>1. \A i \in Inums : Holds(l'[p], i) <=> Holds(l[p], i)
      BY <2>1, <2>2, <2>12, <2>13 DEF Holds, Keeps, LocksDp, LocksIp
    <3>2. l'[p].pc # "iput_free"
      BY <2>12, <2>13
    <3>. QED
      BY <2>1, <2>5, <3>1, <3>2, LocksKept
  <2>17. Looked(p)
    BY <2>9, <2>12, <2>13 DEF Looked
  <2>18. /\ lock' \in [Inums -> Procs \cup {None}] /\ UNCHANGED <<ents, ftable, ofile, cwd>>
         /\ l'[p].pc \notin {"unlink_ip", "ialloc", "create_new"}
         /\ l'[p].rf = l[p].rf /\ l'[p].wf = l[p].wf /\ ShapeOf(l'[p])
    BY <2>1, <2>2, <2>5, <2>12, <2>13 DEF TypeOK
  <2>. QED
    BY <2>13, <2>14, <2>15, <2>16, <2>17, <2>18, GoInv

\* ilock(), a change of the link count, iupdate(), and iget() of another inode.
<1>LinksIgetStep.
  ASSUME NEW i \in Inums, CanLock(i), NEW n \in Int, NEW d \in Inums,
         icache' = iget(SetLinks(Loaded(icache, i), i, n), d), dinode' = SetLinks(dinode, i, n)
  PROVE /\ Cached /\ \A j \in Inums : icache'[j].ref = icache[j].ref + B(j = d)
        /\ icache[i].ref > 0 => icache'[i].valid
  <2>. USE <1>LinksIgetStep
  <2>1. TypeOK /\ CacheInv
    BY DEF IInv
  <2>2. PICK c : c = Loaded(icache, i)
    OBVIOUS
  <2>3. /\ CacheOK(c) /\ c[i].valid
        /\ \A j \in Inums : c[j].ref = icache[j].ref
        /\ \A j \in Inums : icache[j].valid => c[j].valid
    BY <2>1, <2>2, LoadedFacts
  <2>4. PICK m : m = SetLinks(c, i, n)
    OBVIOUS
  <2>5. CacheOK(m) /\ \A j \in Inums : m[j].ref = c[j].ref /\ m[j].valid = c[j].valid
    BY <2>3, <2>4, SetLinksFacts, SMTT(60)
  <2>6. /\ CacheOK(icache')
        /\ \A j \in Inums : icache'[j].ref = m[j].ref + B(j = d)
        /\ \A j \in Inums : m[j].valid /\ m[j].ref > 0 => icache'[j].valid
    BY <2>2, <2>4, <2>5, IgetFacts, SMTT(60)
  <2>7. dinode' \in [Inums -> Dinode] /\ SameTypes
    BY <2>1 DEF TypeOK, SetLinks, Dinode, SameTypes
  <2>. QED
    BY <2>1, <2>3, <2>5, <2>6, <2>7, CachedStep, SMTT(60)

\* sys_link() keeps the inode it links to, which is no directory, and looks for
\* the directory of the new name.
<1>SysLinkInv.
  ASSUME NEW p \in Procs, sys_link(p)
  PROVE IInv'
  <2>. USE <1>SysLinkInv
  <2>1. TypeOK /\ l[p] \in Local /\ ShapeOf(l[p]) /\ l[p].pc = "link" /\ LockInv /\ CacheInv
    BY DEF IInv, TypeOK, Shape, sys_link, At
  <2>2. /\ l[p].dp = 0 /\ l[p].ip \in Inums /\ l[p].src = 0 /\ l[p].puts = <<>>
        /\ l[p].rf = 0 /\ l[p].wf = 0 /\ Loc(l[p]) = "link" /\ l[p].new \in NewPaths
    BY <2>1, ConstFacts DEF ShapeOf, Loc, Putting, HasDp, HasIp, HasSrc, Local
  <2>3. PICK i : i = l[p].ip
    OBVIOUS
  <2>4. PICK n, t : n = Loaded(icache, i)[i].nlink + 1 /\ t = Loaded(icache, i)[i].type
    OBVIOUS
  <2>5. /\ CanLock(i) /\ UNCHANGED <<ents, lock, ftable, ofile, cwd>>
        /\ \/ /\ icache' = Loaded(icache, i) /\ PutAndReturn(p, <<i>>) /\ UNCHANGED dinode
           \/ /\ t # T_DIR /\ dinode' = SetLinks(dinode, i, n)
              /\ icache' = iget(SetLinks(Loaded(icache, i), i, n), Start(p, l[p].new))
              /\ l' = [l EXCEPT ![p] = Lookup(p, "link_dp", l[p].new, [Idle EXCEPT !.src = i])]
    BY <2>3, <2>4 DEF sys_link, files
  <2>6. CASE icache' = Loaded(icache, i) /\ PutAndReturn(p, <<i>>) /\ UNCHANGED dinode
    <3>1. Loc(l[p]) \notin LocksDp \cup LocksIp /\ l[p].pc \notin Putting
      BY <2>1, <2>2 DEF LocksDp, LocksIp, Putting
    <3>. QED
      BY <2>2, <2>3, <2>5, <2>6, <3>1, LoadReturnInv
  <2>7. CASE /\ t # T_DIR /\ dinode' = SetLinks(dinode, i, n)
             /\ icache' = iget(SetLinks(Loaded(icache, i), i, n), Start(p, l[p].new))
             /\ l' = [l EXCEPT ![p] = Lookup(p, "link_dp", l[p].new, [Idle EXCEPT !.src = i])]
    <3>1. i \in Inums /\ i \in InoZ /\ i # 0
      BY <2>2, <2>3, ConstFacts
    <3>2. n \in Int /\ t = dinode[i].type
      <4>1. /\ CacheOK(Loaded(icache, i)) /\ Loaded(icache, i)[i].type = dinode[i].type
        BY <2>1, <2>5, <3>1, LoadedFacts
      <4>. QED
        BY <2>4, <3>1, <4>1, SMTT(60) DEF CacheOK, Slot
    <3>3. PICK r : r = [Idle EXCEPT !.src = i]
      OBVIOUS
    <3>4. /\ r \in Local /\ r.pc = "idle" /\ r.dp = 0 /\ r.ip = 0 /\ r.src = i /\ r.rf = 0
          /\ r.wf = 0 /\ r.puts = <<>>
      <4>1. PICK v : v = Idle
        OBVIOUS
      <4>2. /\ v \in Local /\ v.pc = "idle" /\ v.dp = 0 /\ v.ip = 0 /\ v.src = 0 /\ v.rf = 0
            /\ v.wf = 0 /\ v.puts = <<>>
        BY <4>1, IdleFacts
      <4>3. r = [v EXCEPT !.src = i]
        BY <3>3, <4>1
      <4>. QED
        BY <3>1, <4>2, <4>3 DEF Local
    <3>5. PICK s : s = "link_dp"
      OBVIOUS
    <3>6. PICK e : e = Lookup(p, s, l[p].new, r)
      OBVIOUS
    <3>7. /\ l[p].new \in Paths \cup NewPaths /\ (s = "link_dp" <=> r.src # 0)
          /\ (s = "link" => r.new \in NewPaths) /\ s \in PathCalls
      BY <2>2, <3>1, <3>4, <3>5 DEF PathCalls
    <3>8. LookedUp(p, l[p].new, r, e)
      BY <2>1, <3>4, <3>6, <3>7, <1>LookupFacts
    <3>9. /\ e \in Local /\ ShapeOf(e) /\ Start(p, l[p].new) \in Inums
          /\ e.dp = 0 /\ e.src = r.src /\ e.rf = 0 /\ e.wf = 0
          /\ e.pc \in {"namex", "iput", "open", "chdir", "link"}
          /\ Loc(e) \notin LocksDp \cup LocksIp
          /\ \A c, j \in Inums :
               Mine(e, c, j) = B(c = j) + B(r.src = j) + B(Start(p, l[p].new) = j)
      BY <3>8 DEF LookedUp
    <3>10. l' \in [Procs -> Local] /\ l'[p] = e /\ \A q \in Procs : q # p => l'[q] = l[q]
      BY <2>1, <2>7, <3>3, <3>5, <3>6, <3>9, SMTT(60) DEF TypeOK
    <3>11. /\ Cached /\ \A j \in Inums : icache'[j].ref = icache[j].ref + B(j = Start(p, l[p].new))
           /\ icache[i].ref > 0 => icache'[i].valid
      BY <2>5, <2>7, <3>1, <3>2, <3>9, <1>LinksIgetStep
    <3>12. \A j \in Inums : icache'[j].ref = icache[j].ref + Mine(l'[p], cwd[p], j)
                                               - Mine(l[p], cwd[p], j)
      <4>1. cwd[p] \in Inums /\ \A j \in Inums : icache[j].ref \in Nat
        BY <2>1 DEF TypeOK, Slot
      <4>2. \A j \in Inums : Mine(l[p], cwd[p], j) = B(cwd[p] = j) + B(i = j)
        BY <2>2, <2>3, MinePlain, ConstFacts, SMTT(60) DEF B
      <4>3. \A j \in Inums : Mine(e, cwd[p], j) = B(cwd[p] = j) + B(r.src = j)
                                                    + B(Start(p, l[p].new) = j)
        BY <3>9, <4>1
      <4>4. \A j \in Inums : Mine(l'[p], cwd[p], j) = B(cwd[p] = j) + B(i = j)
                                                        + B(j = Start(p, l[p].new))
        BY <3>4, <3>10, <4>3 DEF B
      <4>. QED
        BY <3>11, <4>1, <4>2, <4>4, SMTT(60) DEF B
    <3>13. Locked(p)
      <4>1. \A j \in Inums : Holds(l'[p], j) <=> Holds(l[p], j)
        BY <2>1, <2>2, <3>9, <3>10 DEF Holds, Keeps, LocksDp, LocksIp
      <4>2. l'[p].pc # "iput_free" /\ lock' = lock
        BY <2>5, <3>9, <3>10
      <4>. QED
        BY <2>1, <4>1, <4>2, LocksKept
    <3>14. Looked(p)
      <4>1. icache[i].ref > 0
        BY <2>3, <3>1, <1>InUse
      <4>2. lock[i] = None /\ icache'[i].valid /\ dinode'[i].type # T_DIR
        BY <2>5, <2>7, <3>1, <3>2, <3>11, <4>1 DEF CanLock, Cached, SameTypes
      <4>. QED
        BY <3>4, <3>9, <3>10, <4>2 DEF Looked
    <3>15. /\ lock' \in [Inums -> Procs \cup {None}] /\ UNCHANGED <<ents, ftable, ofile, cwd>>
           /\ l'[p].pc \notin {"unlink_ip", "ialloc", "create_new"}
           /\ l'[p].rf = l[p].rf /\ l'[p].wf = l[p].wf /\ ShapeOf(l'[p])
      BY <2>1, <2>2, <2>5, <3>9, <3>10 DEF TypeOK
    <3>. QED
      BY <3>10, <3>11, <3>12, <3>13, <3>14, <3>15, GoInv
  <2>. QED
    BY <2>5, <2>6, <2>7

\* sys_link() of a name that is taken puts the directory.
<1>LinkExistsInv.
  ASSUME NEW p \in Procs, link_exists(p)
  PROVE IInv'
  <2>. USE <1>LinkExistsInv
  <2>1. TypeOK /\ l[p] \in Local /\ ShapeOf(l[p]) /\ l[p].pc = "link_exists" /\ LockInv
    BY DEF IInv, TypeOK, Shape, link_exists, At
  <2>2. /\ l[p].dp \in Inums /\ l[p].ip = 0 /\ l[p].src # 0 /\ l[p].puts = <<>>
        /\ l[p].rf = 0 /\ l[p].wf = 0 /\ Loc(l[p]) = "link_exists"
    BY <2>1, ConstFacts DEF ShapeOf, Loc, Putting, HasDp, HasIp, HasSrc, Local
  <2>3. PICK d, r : d = l[p].dp /\ r = [l[p] EXCEPT !.dp = 0]
    OBVIOUS
  <2>4. /\ lock' = [lock EXCEPT ![d] = None] /\ Put(p, <<d>>, "link_bad", r)
        /\ UNCHANGED <<dinode, ents, icache, ftable, ofile, cwd>>
    BY <2>3 DEF link_exists, disk, files
  <2>5. r \in Local /\ r.dp = 0 /\ r.ip = 0 /\ r.src = l[p].src /\ r.rf = 0 /\ r.wf = 0
    BY <2>1, <2>2, <2>3, ConstFacts DEF Local
  <2>6. "link_bad" \in Labels /\ <<d>> \in Seq(Inums) /\ Len(<<d>>) \in 1..2
    BY <2>2, <2>3, SMTT(60) DEF Labels, HasSrc
  <2>7. /\ l' \in [Procs -> Local] /\ \A q \in Procs : q # p => l'[q] = l[q]
        /\ l'[p].pc = "iput" /\ l'[p].puts = <<d>> /\ l'[p].then = "link_bad"
        /\ l'[p].dp = 0 /\ l'[p].ip = 0 /\ l'[p].src = l[p].src /\ l'[p].rf = 0 /\ l'[p].wf = 0
    <3>1. PutTo(p, <<d>>, "link_bad", r)
      BY <2>1, <2>4, <2>5, <2>6, PutFacts
    <3>. QED
      BY <2>5, <3>1 DEF PutTo
  <2>8. ShapeOf(l'[p]) /\ Loc(l'[p]) = "link_bad"
    BY <2>2, <2>6, <2>7 DEF ShapeOf, Loc, Putting, HasDp, HasIp, HasSrc
  <2>9. Cached /\ \A j \in Inums : icache'[j].ref = icache[j].ref
    BY <2>4, KeptStep
  <2>10. \A j \in Inums : icache'[j].ref = icache[j].ref + Mine(l'[p], cwd[p], j)
                                             - Mine(l[p], cwd[p], j)
    <3>1. \A j \in Inums : Mine(l[p], cwd[p], j) = B(cwd[p] = j) + B(l[p].src = j) + B(d = j)
      BY <2>2, <2>3, MinePlain, ConstFacts, SMTT(60) DEF B
    <3>2. \A j \in Inums : Mine(l'[p], cwd[p], j) = B(cwd[p] = j) + B(l[p].src = j) + B(d = j)
      BY <2>7, MinePut, ConstFacts, SMTT(60) DEF B
    <3>3. \A j \in Inums : icache[j].ref \in Nat
      BY <2>1 DEF TypeOK, Slot
    <3>. QED
      BY <2>9, <3>1, <3>2, <3>3, SMTT(60) DEF B
  <2>11. Locked(p)
    <3>1. \A j \in Inums : Holds(l'[p], j) <=> Holds(l[p], j) /\ j # d
      BY <2>1, <2>2, <2>3, <2>7, <2>8 DEF Holds, Keeps, LocksDp, LocksIp
    <3>2. Holds(l[p], d) /\ d \in Inums /\ l'[p].pc # "iput_free"
      BY <2>2, <2>3, <2>7 DEF Holds, Keeps, LocksDp
    <3>. QED
      BY <2>1, <2>4, <3>1, <3>2, LockReleased
  <2>12. Looked(p)
    BY <2>7, <2>8 DEF Looked, LocksIp
  <2>13. /\ lock' \in [Inums -> Procs \cup {None}] /\ UNCHANGED <<ents, ftable, ofile, cwd>>
         /\ l'[p].pc \notin {"unlink_ip", "ialloc", "create_new"}
         /\ l'[p].rf = l[p].rf /\ l'[p].wf = l[p].wf
    BY <2>1, <2>2, <2>3, <2>4, <2>7 DEF TypeOK
  <2>. QED
    BY <2>7, <2>8, <2>9, <2>10, <2>11, <2>12, <2>13, GoInv
<1>. QED
  BY <1>SyscallInv, <1>SysLinkInv, <1>LinkExistsInv

\* nameiparent() has found the directory, i.
ToParent(p, i) ==
  l' = [l EXCEPT ![p].pc = Resume(l[p].sys), ![p].dp = i, ![p].ip = 0,
                 ![p].name = Head(l[p].path), ![p].path = <<>>]

\* namex() goes from directory i to its entry n.
Forward(p, i, n) ==
  /\ icache' = iget(Loaded(icache, i), n)
  /\ Put(p, <<i>>, IF Len(l[p].path) = 1 THEN Resume(l[p].sys) ELSE "namex",
         [l[p] EXCEPT !.ip = n, !.path = Tail(l[p].path)])

\* namex() goes one step along a path.
LEMMA LookupInv ==
  ASSUME SetFacts, IInv
  PROVE \A p \in Procs :
          namex(p) => IInv'
\* What is left of a path that is not empty.
<1>TailFacts.
  ASSUME NEW S, NEW s \in Seq(S), s # <<>>
  PROVE Tail(s) \in Seq(S) /\ (Len(s) # 1 => Tail(s) # <<>>)
  <2>. USE <1>TailFacts
  <2>1. Tail(s) \in Seq(S)
    BY SMTT(60)
  <2>2. Len(s) \in Nat /\ Len(s) # 0
    BY SMTT(60)
  <2>3. Len(Tail(s)) = Len(s) - 1
    BY SMTT(60)
  <2>4. Len(<<>>) = 0
    OBVIOUS
  <2>5. ASSUME Len(s) # 1
        PROVE Tail(s) # <<>>
    <3>1. SUFFICES ASSUME Tail(s) = <<>>
                   PROVE FALSE
      OBVIOUS
    <3>2. Len(Tail(s)) = 0
      BY <3>1, <2>4, Zenon
    <3>3. \A n \in Nat : 0 = n - 1 => n = 1
      BY SMTT(60)
    <3>. QED
      BY <2>2, <2>3, <2>5, <3>2, <3>3, Zenon
  <2>. QED
    BY <2>1, <2>5, Zenon

\* What namex() starts a round with.
<1>NamexFacts.
  ASSUME NEW p \in Procs, l[p].pc = "namex"
  PROVE /\ l[p] \in Local /\ l[p].dp = 0 /\ l[p].ip \in Inums /\ l[p].puts = <<>>
        /\ l[p].rf = 0 /\ l[p].wf = 0 /\ Loc(l[p]) = "namex" /\ l[p].sys \in PathCalls
        /\ l[p].path \in Seq(Entries) /\ l[p].path # <<>>
        /\ l[p].src # 0 <=> l[p].sys = "link_dp"
        /\ l[p].sys = "link" => l[p].new \in NewPaths
        /\ \A i \in Inums : ~Holds(l[p], i)
        /\ \A i \in Inums : Mine(l[p], cwd[p], i)
                              = B(cwd[p] = i) + B(l[p].ip = i) + B(l[p].src = i)
  <2>. USE <1>NamexFacts
  <2>1. l[p] \in Local /\ ShapeOf(l[p])
    BY DEF IInv, TypeOK, Shape
  <2>2. /\ l[p].dp = 0 /\ l[p].ip \in Inums /\ l[p].puts = <<>>
        /\ l[p].rf = 0 /\ l[p].wf = 0 /\ Loc(l[p]) = "namex" /\ l[p].sys \in PathCalls
        /\ l[p].path \in Seq(Entries) /\ l[p].path # <<>>
        /\ l[p].src # 0 <=> l[p].sys = "link_dp"
        /\ l[p].sys = "link" => l[p].new \in NewPaths
    BY <2>1, ConstFacts DEF ShapeOf, Loc, Putting, HasDp, HasIp, HasSrc, Local
  <2>3. \A i \in Inums : ~Holds(l[p], i)
    BY <2>2 DEF Holds, Keeps, LocksDp, LocksIp
  <2>4. \A i \in Inums : Mine(l[p], cwd[p], i)
                                = B(cwd[p] = i) + B(l[p].ip = i) + B(l[p].src = i)
    BY <2>2, MinePlain, ConstFacts, SMTT(60) DEF B
  <2>. QED
    BY <2>1, <2>2, <2>3, <2>4

\* namex() stops at what is no directory, or has no such name.
<1>NamexFailsInv.
  ASSUME NEW p \in Procs, l[p].pc = "namex", NEW i \in Inums, i = l[p].ip,
         CanLock(i),
         icache' = Loaded(icache, i), NamexFails(p, i),
         UNCHANGED <<dinode, ents, lock, ftable, ofile, cwd>>
  PROVE IInv'
  <2>. USE <1>NamexFailsInv
  <2>1. TypeOK /\ LockInv
    BY DEF IInv
  <2>2. /\ l[p] \in Local /\ l[p].dp = 0 /\ l[p].ip \in Inums /\ l[p].puts = <<>>
        /\ l[p].rf = 0 /\ l[p].wf = 0 /\ Loc(l[p]) = "namex"
        /\ l[p].src # 0 <=> l[p].sys = "link_dp"
        /\ \A j \in Inums : ~Holds(l[p], j)
        /\ \A j \in Inums : Mine(l[p], cwd[p], j)
                              = B(cwd[p] = j) + B(l[p].ip = j) + B(l[p].src = j)
    BY <1>NamexFacts
  <2>3. CASE l[p].sys # "link_dp"
    <3>1. Loc(l[p]) \notin LocksDp \cup LocksIp /\ l[p].pc \notin Putting /\ l[p].src = 0
      BY <2>2, <2>3 DEF LocksDp, LocksIp, Putting
    <3>2. PutAndReturn(p, <<i>>)
      BY <2>3 DEF NamexFails
    <3>. QED
      BY <2>2, <3>1, <3>2, LoadReturnInv
  <2>4. CASE l[p].sys = "link_dp"
    <3>1. PICK r : r = [l[p] EXCEPT !.ip = 0]
      OBVIOUS
    <3>2. Put(p, <<i>>, "link_bad", r)
      BY <2>4, <3>1 DEF NamexFails
    <3>3. r \in Local /\ r.dp = 0 /\ r.ip = 0 /\ r.src = l[p].src /\ r.rf = 0 /\ r.wf = 0
      BY <2>2, <3>1, ConstFacts DEF Local
    <3>4. "link_bad" \in Labels /\ <<i>> \in Seq(Inums) /\ Len(<<i>>) \in 1..2
      BY SMTT(60) DEF Labels, HasSrc
    <3>5. PutTo(p, <<i>>, "link_bad", r)
      BY <2>1, <3>2, <3>3, <3>4, PutFacts
    <3>6. /\ l' \in [Procs -> Local] /\ \A q \in Procs : q # p => l'[q] = l[q]
          /\ l'[p].pc = "iput" /\ l'[p].puts = <<i>> /\ l'[p].then = "link_bad"
          /\ l'[p].dp = 0 /\ l'[p].ip = 0 /\ l'[p].src = l[p].src /\ l'[p].rf = 0 /\ l'[p].wf = 0
      BY <3>3, <3>5 DEF PutTo
    <3>7. ShapeOf(l'[p]) /\ Loc(l'[p]) = "link_bad"
      BY <2>2, <2>4, <3>4, <3>6 DEF ShapeOf, Loc, Putting, HasDp, HasIp, HasSrc
    <3>8. Cached /\ \A j \in Inums : icache'[j].ref = icache[j].ref
      BY LoadedStep
    <3>9. \A j \in Inums : icache'[j].ref = icache[j].ref + Mine(l'[p], cwd[p], j)
                                              - Mine(l[p], cwd[p], j)
      <4>0. l'[p].puts = <<i>> /\ l'[p].dp = 0 /\ l'[p].ip = 0 /\ l'[p].src = l[p].src
        BY <3>6
      <4>1. \A j \in Inums : Mine(l'[p], cwd[p], j) = B(cwd[p] = j) + B(l[p].src = j) + B(i = j)
        BY <4>0, MinePut, ConstFacts, SMTT(60) DEF B
      <4>2. \A j \in Inums : icache[j].ref \in Nat
        BY <2>1 DEF TypeOK, Slot
      <4>3. \A j \in Inums : Mine(l[p], cwd[p], j) = B(cwd[p] = j) + B(l[p].src = j) + B(i = j)
        BY <2>2, SMTT(60) DEF B
      <4>. QED
        BY <3>8, <4>1, <4>2, <4>3, SMTT(60) DEF B
    <3>10. Locked(p)
      <4>1. \A j \in Inums : Holds(l'[p], j) <=> Holds(l[p], j)
        BY <2>2, <3>6, <3>7 DEF Holds, Keeps, LocksDp, LocksIp
      <4>2. l'[p].pc # "iput_free"
        BY <3>6
      <4>. QED
        BY <2>1, <4>1, <4>2, LocksKept
    <3>11. Looked(p)
      BY <3>6, <3>7 DEF Looked, LocksIp
    <3>12. /\ lock' \in [Inums -> Procs \cup {None}] /\ UNCHANGED <<ents, ftable, ofile, cwd>>
           /\ l'[p].pc \notin {"unlink_ip", "ialloc", "create_new"}
           /\ l'[p].rf = l[p].rf /\ l'[p].wf = l[p].wf
      BY <2>1, <2>2, <3>6 DEF TypeOK
    <3>. QED
      BY <3>6, <3>7, <3>8, <3>9, <3>10, <3>11, <3>12, GoInv
  <2>. QED
    BY <2>3, <2>4

\* A call that has found the parent directory.
<1>ParentShape.
  ASSUME NEW e, NEW k \in {"unlink", "create", "link_dp"}, e.pc = k, e.dp # 0, e.ip = 0,
         e.rf = 0, e.wf = 0, e.puts = <<>>, e.src # 0 <=> k = "link_dp",
         k = "create" => e.sys \in DOMAIN Creates
  PROVE ShapeOf(e)
  <2>. USE <1>ParentShape
  <2>1. Loc(e) = k
    BY DEF Loc, Putting
  <2>2. k \in HasDp /\ k \notin HasIp /\ (k \in HasSrc <=> k = "link_dp") /\ k \notin Putting
    BY DEF HasDp, HasIp, HasSrc, Putting
  <2>3. k \notin {"ialloc", "fileio", "namex", "link", "pipe_wf", "pipe_fds", "pipe_bad"}
        /\ (k \in {"create", "ialloc", "create_new", "created", "create_found"} <=> k = "create")
    OBVIOUS
  <2>. QED
    BY <2>1, <2>2, <2>3 DEF ShapeOf

\* namex() for nameiparent() stops at the parent, with the last name.
<1>NamexParentInv.
  ASSUME NEW p \in Procs, l[p].pc = "namex", NEW i \in Inums, i = l[p].ip,
         CanLock(i),
         icache' = Loaded(icache, i), Loaded(icache, i)[i].type = T_DIR, WantsParent(l[p].sys),
         ToParent(p, i),
         UNCHANGED <<dinode, ents, lock, ftable, ofile, cwd>>
  PROVE IInv'
  <2>. USE <1>NamexParentInv
  <2>1. TypeOK /\ LockInv
    BY DEF IInv
  <2>2. /\ l[p] \in Local /\ l[p].dp = 0 /\ l[p].ip \in Inums /\ l[p].puts = <<>>
        /\ l[p].rf = 0 /\ l[p].wf = 0 /\ Loc(l[p]) = "namex" /\ l[p].sys \in PathCalls
        /\ l[p].path \in Seq(Entries) /\ l[p].path # <<>>
        /\ l[p].src # 0 <=> l[p].sys = "link_dp"
        /\ \A j \in Inums : ~Holds(l[p], j)
        /\ \A j \in Inums : Mine(l[p], cwd[p], j)
                              = B(cwd[p] = j) + B(l[p].ip = j) + B(l[p].src = j)
    BY <1>NamexFacts
  <2>3. PICK k, x : k = Resume(l[p].sys) /\ x = Head(l[p].path)
    OBVIOUS
  <2>4. k \in {"unlink", "create", "link_dp"} /\ x \in Entries /\ k \in Labels
        /\ (k = "link_dp" <=> l[p].sys = "link_dp") /\ (k = "create" => l[p].sys \in DOMAIN Creates)
    <3>1. x \in Entries
      BY <2>2, <2>3, SMTT(60)
    <3>2. k \in {"unlink", "create", "link_dp"}
      BY <2>2, <2>3, CreatesDomain DEF Resume, WantsParent
    <3>3. /\ k = "link_dp" <=> l[p].sys = "link_dp"
          /\ k = "create" => l[p].sys \in DOMAIN Creates
      BY <2>2, <2>3, CreatesDomain DEF Resume, WantsParent
    <3>. QED
      BY <3>1, <3>2, <3>3 DEF Labels, HasDp
  <2>5. PICK e : /\ e \in Local /\ e.pc = k /\ e.dp = i /\ e.ip = 0 /\ e.src = l[p].src /\ e.rf = 0
                 /\ e.wf = 0 /\ e.puts = <<>> /\ e.sys = l[p].sys /\ l' = [l EXCEPT ![p] = e]
    <3>1. i \in InoZ /\ 0 \in InoZ /\ <<>> \in Seq(Entries)
      BY ConstFacts, SMTT(60)
    <3>2. PICK e : e = [l[p] EXCEPT !.pc = k, !.dp = i, !.ip = 0, !.name = x, !.path = <<>>]
      OBVIOUS
    <3>3. /\ e \in Local /\ e.pc = k /\ e.dp = i /\ e.ip = 0 /\ e.src = l[p].src /\ e.rf = 0
          /\ e.wf = 0 /\ e.puts = <<>> /\ e.sys = l[p].sys
      BY <2>2, <2>4, <3>1, <3>2 DEF Local
    <3>4. l' = [l EXCEPT ![p] = e]
      BY <2>1, <2>3, <3>2 DEF TypeOK, ToParent
    <3>. QED
      BY <3>3, <3>4
  <2>6. l' \in [Procs -> Local] /\ l'[p] = e /\ \A q \in Procs : q # p => l'[q] = l[q]
    BY <2>1, <2>5 DEF TypeOK
  <2>7. ShapeOf(l'[p]) /\ Loc(l'[p]) = k
    <3>1. Loc(e) = k
      BY <2>4, <2>5 DEF Loc, Putting
    <3>. QED
      <4>1. /\ e.pc = k /\ e.dp # 0 /\ e.ip = 0 /\ e.rf = 0 /\ e.wf = 0 /\ e.puts = <<>>
            /\ e.src # 0 <=> k = "link_dp"
            /\ k = "create" => e.sys \in DOMAIN Creates
        BY <2>2, <2>4, <2>5, ConstFacts
      <4>2. ShapeOf(e)
        BY <2>4, <4>1, <1>ParentShape
      <4>. QED
        BY <2>6, <3>1, <4>2
  <2>8. /\ Cached /\ icache'[i].valid /\ \A j \in Inums : icache'[j].ref = icache[j].ref
        /\ icache'[i].type = dinode[i].type
    BY LoadedStep
  <2>9. \A j \in Inums : icache'[j].ref = icache[j].ref + Mine(l'[p], cwd[p], j)
                                            - Mine(l[p], cwd[p], j)
    <3>0. l'[p].puts = <<>> /\ l'[p].dp = i /\ l'[p].ip = 0 /\ l'[p].src = l[p].src
      BY <2>5, <2>6
    <3>1. \A j \in Inums : Mine(l'[p], cwd[p], j) = B(cwd[p] = j) + B(i = j) + B(l[p].src = j)
      BY <3>0, MinePlain, ConstFacts, SMTT(60) DEF B
    <3>2. \A j \in Inums : icache[j].ref \in Nat
      BY <2>1 DEF TypeOK, Slot
    <3>3. \A j \in Inums : Mine(l[p], cwd[p], j) = B(cwd[p] = j) + B(i = j) + B(l[p].src = j)
      BY <2>2
    <3>4. \A j \in Inums : Mine(l[p], cwd[p], j) \in Int
      BY <3>3, SMTT(60) DEF B
    <3>5. \A j \in Inums : icache'[j].ref = icache[j].ref
            /\ Mine(l'[p], cwd[p], j) = Mine(l[p], cwd[p], j)
      <4>. TAKE j \in Inums
      <4>1. icache'[j].ref = icache[j].ref
        BY <2>8
      <4>2. Mine(l'[p], cwd[p], j) = B(cwd[p] = j) + B(i = j) + B(l[p].src = j)
        BY <3>1
      <4>3. Mine(l[p], cwd[p], j) = B(cwd[p] = j) + B(i = j) + B(l[p].src = j)
        BY <3>3
      <4>. QED
        BY <4>1, <4>2, <4>3
    <3>6. \A a, b \in Int : a = a + b - b
      BY SMTT(60)
    <3>7. \A a \in Nat : a \in Int
      BY SMTT(60)
    <3>. QED
      BY <3>2, <3>4, <3>5, <3>6, <3>7
  <2>10. Locked(p)
    <3>1. \A j \in Inums : Holds(l'[p], j) <=> Holds(l[p], j)
      BY <2>2, <2>4, <2>5, <2>6, <2>7 DEF Holds, Keeps, LocksDp, LocksIp
    <3>2. l'[p].pc # "iput_free"
      BY <2>4, <2>5, <2>6
    <3>. QED
      BY <2>1, <3>1, <3>2, LocksKept
  <2>11. Looked(p)
    <3>1. lock[i] = None /\ icache'[i].valid /\ dinode'[i].type = T_DIR
      BY <2>8 DEF CanLock
    <3>. QED
      BY <2>4, <2>5, <2>6, <2>7, <3>1 DEF Looked, LocksIp
  <2>12. /\ lock' \in [Inums -> Procs \cup {None}] /\ UNCHANGED <<ents, ftable, ofile, cwd>>
         /\ l'[p].pc \notin {"unlink_ip", "ialloc", "create_new"}
         /\ l'[p].rf = l[p].rf /\ l'[p].wf = l[p].wf
    BY <2>1, <2>2, <2>4, <2>5, <2>6 DEF TypeOK
  <2>. QED
    BY <2>6, <2>7, <2>8, <2>9, <2>10, <2>11, <2>12, GoInv

\* namex() goes on with the entry it found.
<1>NamexForwardInv.
  ASSUME NEW p \in Procs, l[p].pc = "namex", NEW i \in Inums, i = l[p].ip,
         CanLock(i),
         NEW n \in Inums, Forward(p, i, n), ~(WantsParent(l[p].sys) /\ Len(l[p].path) = 1),
         UNCHANGED <<dinode, ents, lock, ftable, ofile, cwd>>
  PROVE IInv'
  <2>. USE <1>NamexForwardInv
  <2>1. TypeOK /\ LockInv
    BY DEF IInv
  <2>2. /\ l[p] \in Local /\ l[p].dp = 0 /\ l[p].puts = <<>>
        /\ l[p].rf = 0 /\ l[p].wf = 0 /\ Loc(l[p]) = "namex" /\ l[p].sys \in PathCalls
        /\ l[p].path \in Seq(Entries) /\ l[p].path # <<>>
        /\ l[p].src # 0 <=> l[p].sys = "link_dp"
        /\ l[p].sys = "link" => l[p].new \in NewPaths
        /\ \A j \in Inums : ~Holds(l[p], j)
        /\ \A j \in Inums : Mine(l[p], cwd[p], j)
                              = B(cwd[p] = j) + B(l[p].ip = j) + B(l[p].src = j)
    BY <1>NamexFacts
  <2>3. PICK k, r : /\ k = IF Len(l[p].path) = 1 THEN Resume(l[p].sys) ELSE "namex"
                    /\ r = [l[p] EXCEPT !.ip = n, !.path = Tail(l[p].path)]
    OBVIOUS
  <2>4. Put(p, <<i>>, k, r) /\ icache' = iget(Loaded(icache, i), n)
    BY <2>3 DEF Forward
  <2>5. /\ Tail(l[p].path) \in Seq(Entries)
        /\ Len(l[p].path) # 1 => Tail(l[p].path) # <<>>
    BY <2>2, <1>TailFacts
  <2>6. /\ r \in Local /\ r.dp = 0 /\ r.ip = n /\ r.src = l[p].src /\ r.rf = 0 /\ r.wf = 0
        /\ r.sys = l[p].sys /\ r.new = l[p].new /\ r.path = Tail(l[p].path)
    <3>1. n \in InoZ
      BY ConstFacts
    <3>. QED
      BY <2>2, <2>3, <2>5, <3>1 DEF Local
  <2>7. /\ k \in {"namex", "open", "chdir", "link"}
        /\ k = "namex" => Tail(l[p].path) # <<>>
        /\ k # "namex" => l[p].sys = k
    <3>1. CASE Len(l[p].path) = 1
      <4>1. l[p].sys \in {"open", "chdir", "link"} /\ k = l[p].sys
        BY <2>2, <2>3, <3>1 DEF WantsParent, PathCalls, Resume
      <4>. QED
        BY <4>1
    <3>2. CASE Len(l[p].path) # 1
      BY <2>3, <2>5, <3>2
    <3>. QED
      BY <3>1, <3>2
  <2>8. k \in Labels /\ <<i>> \in Seq(Inums) /\ Len(<<i>>) \in 1..2
    BY <2>7, SMTT(60) DEF Labels, HasIp
  <2>9. PutTo(p, <<i>>, k, r)
    BY <2>1, <2>4, <2>6, <2>8, PutFacts
  <2>10. /\ l' \in [Procs -> Local] /\ \A q \in Procs : q # p => l'[q] = l[q]
         /\ l'[p].pc = "iput" /\ l'[p].puts = <<i>> /\ l'[p].then = k
         /\ l'[p].dp = 0 /\ l'[p].ip = n /\ l'[p].src = l[p].src /\ l'[p].rf = 0 /\ l'[p].wf = 0
         /\ l'[p].sys = l[p].sys /\ l'[p].new = l[p].new /\ l'[p].path = Tail(l[p].path)
    BY <2>6, <2>9 DEF PutTo
  <2>11. ShapeOf(l'[p]) /\ Loc(l'[p]) = k
    <3>1. Loc(l'[p]) = k /\ l'[p].pc \in Putting
      BY <2>10 DEF Loc, Putting
    <3>. QED
      BY <2>2, <2>7, <2>8, <2>10, <3>1, ConstFacts DEF ShapeOf, Putting, HasDp, HasIp, HasSrc
  <2>12. Cached /\ \A j \in Inums : icache'[j].ref = icache[j].ref + B(j = n)
    BY <2>4, LoadedIgetStep
  <2>13. \A j \in Inums : icache'[j].ref = icache[j].ref + Mine(l'[p], cwd[p], j)
                                             - Mine(l[p], cwd[p], j)
    <3>1. \A j \in Inums : Mine(l'[p], cwd[p], j)
                             = B(cwd[p] = j) + B(l[p].src = j) + B(i = j) + B(j = n)
      BY <2>10, MinePut, ConstFacts, SMTT(60) DEF B
    <3>2. \A j \in Inums : icache[j].ref \in Nat
      BY <2>1 DEF TypeOK, Slot
    <3>3. \A j \in Inums : Mine(l[p], cwd[p], j) = B(cwd[p] = j) + B(l[p].src = j) + B(i = j)
      BY <2>2, SMTT(60) DEF B
    <3>. QED
      BY <2>12, <3>1, <3>2, <3>3, SMTT(60) DEF B
  <2>14. Locked(p)
    <3>1. \A j \in Inums : Holds(l'[p], j) <=> Holds(l[p], j)
      BY <2>2, <2>7, <2>10, <2>11 DEF Holds, Keeps, LocksDp, LocksIp
    <3>2. l'[p].pc # "iput_free"
      BY <2>10
    <3>. QED
      BY <2>1, <3>1, <3>2, LocksKept
  <2>15. Looked(p)
    BY <2>7, <2>10, <2>11 DEF Looked, LocksIp
  <2>16. /\ lock' \in [Inums -> Procs \cup {None}] /\ UNCHANGED <<ents, ftable, ofile, cwd>>
         /\ l'[p].pc \notin {"unlink_ip", "ialloc", "create_new"}
         /\ l'[p].rf = l[p].rf /\ l'[p].wf = l[p].wf
    BY <2>1, <2>2, <2>10 DEF TypeOK
  <2>. QED
    BY <2>10, <2>11, <2>12, <2>13, <2>14, <2>15, <2>16, GoInv

\* One round of namex().
<1>NamexInv.
  ASSUME NEW p \in Procs, namex(p)
  PROVE IInv'
  <2>. USE <1>NamexInv
  <2>1. PICK i, n : i = l[p].ip /\ n = ents[i][Head(l[p].path)]
    OBVIOUS
  <2>2. /\ l[p].pc = "namex" /\ CanLock(i) /\ UNCHANGED <<dinode, ents, lock, ftable, ofile, cwd>>
    BY <2>1 DEF namex, At, disk, files
  <2>3. \/ icache' = Loaded(icache, i) /\ NamexFails(p, i)
        \/ /\ icache' = Loaded(icache, i) /\ Loaded(icache, i)[i].type = T_DIR
           /\ WantsParent(l[p].sys) /\ ToParent(p, i)
        \/ /\ n # 0 /\ ~(WantsParent(l[p].sys) /\ Len(l[p].path) = 1) /\ Forward(p, i, n)
    BY <2>1 DEF namex, ToParent, Forward, dirlookup
  <2>4. /\ l[p].ip \in Inums /\ l[p].path \in Seq(Entries) /\ l[p].path # <<>>
    BY <2>2, <1>NamexFacts
  <2>5. i \in Inums /\ n \in InoZ
    <3>1. Head(l[p].path) \in Entries
      BY <2>4, SMTT(60)
    <3>. QED
      BY <2>1, <2>4, <3>1 DEF IInv, TypeOK, DirEntries
  <2>6. CASE icache' = Loaded(icache, i) /\ NamexFails(p, i)
    BY <2>1, <2>2, <2>5, <2>6, <1>NamexFailsInv
  <2>7. CASE /\ icache' = Loaded(icache, i) /\ Loaded(icache, i)[i].type = T_DIR
             /\ WantsParent(l[p].sys) /\ ToParent(p, i)
    BY <2>1, <2>2, <2>5, <2>7, <1>NamexParentInv
  <2>8. CASE n # 0 /\ ~(WantsParent(l[p].sys) /\ Len(l[p].path) = 1) /\ Forward(p, i, n)
    <3>1. n \in Inums
      BY <2>5, <2>8, ConstFacts
    <3>. QED
      BY <2>1, <2>2, <2>5, <2>8, <3>1, <1>NamexForwardInv
  <2>. QED
    BY <2>3, <2>6, <2>7, <2>8
<1>. QED
  BY <1>NamexInv

-----------------------------------------------------------------------------
\* Steps that change directories.

\* A step that may change directory entries, the type of a free inode and the locks,
\* with what it owes for each conjunct of the invariant.
LEMMA EntryInv ==
  ASSUME SetFacts, IInv, NEW p \in Procs, l' \in [Procs -> Local],
         \A q \in Procs : q # p => l'[q] = l[q],
         ShapeOf(l'[p]), l'[p].rf = l[p].rf, l'[p].wf = l[p].wf,
         icache' \in [Inums -> Slot], dinode' \in [Inums -> Dinode],
         ents' \in [Inums -> DirEntries], CacheInv', Stays,
         \A i \in Inums : icache'[i].ref = icache[i].ref + Mine(l'[p], cwd[p], i)
                                             - Mine(l[p], cwd[p], i),
         lock' \in [Inums -> Procs \cup {None}], Locked(p), Looked(p),
         NamesInv', UnlinkInv', Acyclic', UNCHANGED <<ftable, ofile, cwd>>
  PROVE IInv'
<1>1. TypeOK /\ InodeRefs /\ FileRefs /\ FileInv
  BY RefsSplit DEF IInv
<1>2. TypeOK' /\ Frame(p)
  BY <1>1 DEF TypeOK, Frame
<1>3. Counted(p) /\ UNCHANGED ftable /\ UNCHANGED <<ftable, ofile>>
  BY DEF Counted
<1>4. InodeRefs'
  BY <1>1, <1>2, <1>3, CountedRefs
<1>5. FileRefs' /\ FileInv'
  BY <1>1, <1>2, <1>3, FilesCalm
<1>. QED
  BY <1>2, <1>4, <1>5, StepInv

\* sys_unlink() locks the directory, and takes a reference to what it will remove.
LEMMA SysUnlinkInv ==
  ASSUME SetFacts, IInv, NEW p \in Procs, sys_unlink(p)
  PROVE IInv'
<1>1. TypeOK /\ l[p] \in Local /\ ShapeOf(l[p]) /\ l[p].pc = "unlink" /\ LockInv
  BY DEF IInv, TypeOK, Shape, sys_unlink, At
<1>2. /\ l[p].dp \in Inums /\ l[p].ip = 0 /\ l[p].src = 0 /\ l[p].puts = <<>>
      /\ l[p].rf = 0 /\ l[p].wf = 0 /\ Loc(l[p]) = "unlink" /\ l[p].name \in Entries
  BY <1>1, ConstFacts DEF ShapeOf, Loc, Putting, HasDp, HasIp, HasSrc, Local
<1>3. PICK d, i : d = l[p].dp /\ i = ents[d][l[p].name]
  OBVIOUS
<1>4. /\ CanLock(d) /\ UNCHANGED <<dinode, ents, ftable, ofile, cwd>>
      /\ \/ icache' = Loaded(icache, d) /\ PutAndReturn(p, <<d>>) /\ UNCHANGED lock
         \/ /\ l[p].name \notin {".", ".."} /\ i # 0
            /\ icache' = iget(Loaded(icache, d), i) /\ lock' = [lock EXCEPT ![d] = p]
            /\ l' = [l EXCEPT ![p].pc = "unlink_ip", ![p].ip = i]
  BY <1>3 DEF sys_unlink, disk, files, dirlookup, MayUnlink
<1>5. CASE icache' = Loaded(icache, d) /\ PutAndReturn(p, <<d>>) /\ UNCHANGED lock
  <2>1. Loc(l[p]) \notin LocksDp \cup LocksIp /\ l[p].pc \notin Putting
    BY <1>1, <1>2 DEF LocksDp, LocksIp, Putting
  <2>. QED
    BY <1>2, <1>3, <1>4, <1>5, <2>1, LoadReturnInv
<1>6. CASE /\ l[p].name \notin {".", ".."} /\ i # 0
           /\ icache' = iget(Loaded(icache, d), i) /\ lock' = [lock EXCEPT ![d] = p]
           /\ l' = [l EXCEPT ![p].pc = "unlink_ip", ![p].ip = i]
  <2>1. d \in Inums /\ i \in Inums /\ l[p].name \in Names
    BY <1>1, <1>2, <1>3, <1>6, ConstFacts, SMTT(60) DEF TypeOK, DirEntries, Entries
  <2>2. /\ l' \in [Procs -> Local] /\ \A q \in Procs : q # p => l'[q] = l[q]
        /\ l'[p].pc = "unlink_ip" /\ l'[p].ip = i /\ l'[p].dp = d /\ l'[p].src = 0
        /\ l'[p].rf = 0 /\ l'[p].wf = 0 /\ l'[p].puts = <<>> /\ l'[p].name = l[p].name
    <3>1. "unlink_ip" \in Labels /\ i \in InoZ
      BY <2>1, ConstFacts DEF Labels, HasDp
    <3>. QED
      BY <1>1, <1>2, <1>3, <1>6, <3>1 DEF TypeOK, Local
  <2>3. ShapeOf(l'[p]) /\ Loc(l'[p]) = "unlink_ip"
    BY <2>1, <2>2, ConstFacts DEF ShapeOf, Loc, Putting, HasDp, HasIp, HasSrc
  <2>4. Cached /\ \A j \in Inums : icache'[j].ref = icache[j].ref + B(j = i)
    <3>1. CanLock(d) /\ icache' = iget(Loaded(icache, d), i) /\ UNCHANGED dinode
      BY <1>4, <1>6
    <3>. QED
      BY <2>1, <3>1, LoadedIgetStep
  <2>5. \A j \in Inums : icache'[j].ref = icache[j].ref + Mine(l'[p], cwd[p], j)
                                            - Mine(l[p], cwd[p], j)
    <3>1. \A j \in Inums : Mine(l[p], cwd[p], j) = B(cwd[p] = j) + B(d = j)
      BY <1>2, <1>3, MinePlain, ConstFacts, SMTT(60) DEF B
    <3>2. \A j \in Inums : Mine(l'[p], cwd[p], j) = B(cwd[p] = j) + B(d = j) + B(j = i)
      BY <2>2, MinePlain, ConstFacts, SMTT(60) DEF B
    <3>3. \A j \in Inums : icache[j].ref \in Nat
      BY <1>1 DEF TypeOK, Slot
    <3>. QED
      BY <2>4, <3>1, <3>2, <3>3, SMTT(60) DEF B
  <2>6. Locked(p)
    <3>1. \A j \in Inums : ~Holds(l[p], j) /\ (Holds(l'[p], j) <=> j = d)
      BY <1>1, <1>2, <2>2, <2>3 DEF Holds, Keeps, LocksDp, LocksIp
    <3>2. l'[p].pc # "iput_free" /\ lock[d] = None
      BY <1>4, <2>2 DEF CanLock
    <3>. QED
      BY <1>1, <1>6, <2>1, <3>1, <3>2, LockTaken
  <2>7. Looked(p)
    BY <1>3, <2>2, <2>3 DEF Looked, LocksIp
  <2>8. NamesInv' /\ UnlinkInv' /\ Acyclic'
    <3>1. NamesInv'
      BY <1>4 DEF IInv, NamesInv
    <3>2. UnlinkInv'
      BY <1>3, <1>4, <2>1, <2>2 DEF IInv, UnlinkInv
    <3>3. \A a, b \in Inums : Edge(a, b)' => Edge(a, b)
      BY <1>4, <2>2 DEF Edge
    <3>. QED
      BY <3>1, <3>2, <3>3 DEF IInv, Acyclic
  <2>9. /\ icache' \in [Inums -> Slot] /\ dinode' \in [Inums -> Dinode] /\ CacheInv' /\ Stays
        /\ ents' \in [Inums -> DirEntries] /\ lock' \in [Inums -> Procs \cup {None}]
        /\ l'[p].rf = l[p].rf /\ l'[p].wf = l[p].wf /\ UNCHANGED <<ftable, ofile, cwd>>
    BY <1>1, <1>2, <1>4, <1>6, <2>1, <2>2, <2>4 DEF TypeOK, Cached
  <2>. QED
    BY <2>2, <2>3, <2>5, <2>6, <2>7, <2>8, <2>9, EntryInv
<1>. QED
  BY <1>4, <1>5, <1>6

\* The entries of directory d change in one name; nobody is removing from it.
LEMMA UnlinkKept ==
  ASSUME SetFacts, IInv, NEW p \in Procs, NEW d \in Inums, \A q \in Procs : q # p => l'[q] = l[q],
         lock[d] \in {p, None}, l'[p].pc # "unlink_ip",
         \A j \in Inums, x \in Names : j # d => ents'[j][x] = ents[j][x]
  PROVE UnlinkInv'
<1>1. SUFFICES ASSUME NEW q \in Procs, l'[q].pc = "unlink_ip"
               PROVE l'[q].name \in Names /\ ents'[l'[q].dp][l'[q].name] = l'[q].ip
  BY DEF UnlinkInv
<1>2. q # p /\ l'[q] = l[q] /\ l[q].pc = "unlink_ip"
  BY <1>1
<1>3. l[q].name \in Names /\ ents[l[q].dp][l[q].name] = l[q].ip
  BY <1>2 DEF IInv, UnlinkInv
<1>4. l[q].dp \in Inums /\ Loc(l[q]) = "unlink_ip"
  <2>1. l[q] \in Local /\ ShapeOf(l[q])
    BY DEF IInv, TypeOK, Shape
  <2>. QED
    BY <1>2, <2>1, ConstFacts DEF ShapeOf, Loc, Putting, HasDp, Local
<1>5. lock[l[q].dp] = q
  BY <1>4, SMTT(60) DEF IInv, LockInv, Holds, Keeps, LocksDp
<1>6. l[q].dp # d
  BY <1>2, <1>5, ConstFacts
<1>. QED
  BY <1>2, <1>3, <1>4, <1>6

\* A new edge to an inode that has none closes no circle.
LEMMA AcyclicAdd ==
  ASSUME Acyclic, NEW d \in Inums, NEW e \in Inums, d # e,
         \A i, j \in Inums : Edge(i, j)' => Edge(i, j) \/ (i = d /\ j = e),
         \A j \in Inums : ~Edge(e, j)
  PROVE Acyclic'
<1>1. SUFFICES ASSUME NEW D \in (SUBSET Inums) \ {{}}
               PROVE \E i \in D : \A j \in D : ~Edge(i, j)'
  BY DEF Acyclic
<1>2. PICK i \in D : \A j \in D : ~Edge(i, j)
  BY DEF Acyclic
<1>3. D \subseteq Inums
  OBVIOUS
<1>4. CASE e \in D
  <2>1. \A j \in D : ~Edge(e, j)'
    BY <1>3
  <2>. QED
    BY <1>4, <2>1
<1>5. CASE e \notin D
  <2>1. \A j \in D : ~Edge(i, j)'
    BY <1>2, <1>3, <1>5
  <2>. QED
    BY <2>1
<1>. QED
  BY <1>4, <1>5

\* The lock moves from directory d to i.
Moves(p, d, i) == lock' = [lock EXCEPT ![d] = None, ![i] = p]

HoldsMove(p, d, i) ==
  \A j \in Inums : (Holds(l[p], j) <=> j = d) /\ (Holds(l'[p], j) <=> j = i)

\* Where sys_unlink() and create() have dp locked and are about to lock ip.
Both(p) ==
  /\ l[p] \in Local /\ l[p].dp \in Inums /\ l[p].ip \in Inums /\ l[p].src = 0
  /\ l[p].puts = <<>> /\ l[p].rf = 0 /\ l[p].wf = 0 /\ Loc(l[p]) = l[p].pc
  /\ lock[l[p].dp] = p /\ icache[l[p].dp].valid /\ dinode[l[p].dp].type = T_DIR
  /\ \A j \in Inums : Holds(l[p], j) <=> j = l[p].dp
  /\ \A j \in Inums : Mine(l[p], cwd[p], j) = B(cwd[p] = j) + B(l[p].dp = j) + B(l[p].ip = j)

\* They change directory d, where create() adds i, and go on with i locked instead.
Rewritten(p, d, i) ==
  /\ \A j \in Inums, x \in Names : j # d => ents'[j][x] = ents[j][x]
  /\ \A x \in Names : \/ ents'[d][x] \in {0, ents[d][x]}
                      \/ l[p].pc = "create_new" /\ ents'[d][x] = i

\* sys_unlink() of a directory that is not empty.
UnlinkRefused(p, i) ==
  /\ icache' = Loaded(icache, i) /\ UNCHANGED <<dinode, ents, lock>>
  /\ Put(p, <<i>>, "unlink_bad", [l[p] EXCEPT !.ip = 0])

\* sys_unlink() with both locked.
Unlinked(p, d, i, n) ==
  /\ ents' = [ents EXCEPT ![d][l[p].name] = 0]
  /\ dinode' = SetLinks(dinode, d, n) /\ icache' = SetLinks(Loaded(icache, i), d, n)
  /\ Moves(p, d, i) /\ Put(p, <<d>>, "unlink_dec", [l[p] EXCEPT !.dp = 0])

\* create() with both locked.
CreatedNew(p, d, i, n, e) ==
  /\ icache' = SetLinks(SetLinks(Loaded(icache, i), i, 1), d, n)
  /\ dinode' = SetLinks(SetLinks(dinode, i, 1), d, n)
  /\ ents' = dirlink([ents EXCEPT ![i] = e], d, l[p].name, i)
  /\ Moves(p, d, i) /\ Put(p, <<d>>, "created", [l[p] EXCEPT !.dp = 0])

\* sys_unlink() and create() with two inodes.
LEMMA TwoInodesInv ==
  ASSUME SetFacts, IInv
  PROVE \A p \in Procs :
          (unlink_ip(p) \/ create_new(p))
            => IInv'
\* iunlock() of d and a lock on i that nobody has: the holder is where it should be.
<1>LockMoved.
  ASSUME TypeOK, LockInv, NEW p \in Procs, NEW d \in Inums, NEW i \in Inums, Holds(l[p], d),
         lock[i] = None, Moves(p, d, i), l'[p].pc # "iput_free",
         HoldsMove(p, d, i)
  PROVE Locked(p) /\ d # i /\ lock' \in [Inums -> Procs \cup {None}]
  <2>. USE <1>LockMoved
  <2>1. lock[d] = p /\ d # i
    BY ConstFacts DEF LockInv, HoldsMove
  <2>2. \A j \in Inums : lock'[j] = IF j = i THEN p ELSE IF j = d THEN None ELSE lock[j]
    BY <2>1 DEF TypeOK, Moves
  <2>3. \A j \in Inums : lock[j] = p <=> j = d
    BY DEF LockInv, HoldsMove
  <2>4. lock' \in [Inums -> Procs \cup {None}]
    BY DEF TypeOK, Moves
  <2>. QED
    BY <2>1, <2>2, <2>3, <2>4, ConstFacts DEF Locked, HoldsMove

\* What sys_unlink() and create() have before they lock their second inode.
<1>BothFacts.
  ASSUME NEW p \in Procs, l[p].pc \in {"unlink_ip", "create_new"}
  PROVE Both(p)
  <2>. USE <1>BothFacts
  <2>1. l[p] \in Local /\ ShapeOf(l[p])
    BY DEF IInv, TypeOK, Shape
  <2>2. /\ l[p].dp \in Inums /\ l[p].ip \in Inums /\ l[p].src = 0 /\ l[p].puts = <<>>
        /\ l[p].rf = 0 /\ l[p].wf = 0 /\ Loc(l[p]) = l[p].pc
    BY <2>1, ConstFacts DEF ShapeOf, Loc, Putting, HasDp, HasIp, HasSrc, Local
  <2>3. \A j \in Inums : Holds(l[p], j) <=> j = l[p].dp
    BY <2>2 DEF Holds, Keeps, LocksDp, LocksIp
  <2>4. lock[l[p].dp] = p
    BY <2>2, <2>3, SMTT(60) DEF IInv, LockInv
  <2>5. icache[l[p].dp].valid /\ dinode[l[p].dp].type = T_DIR
    BY <2>2, ConstFacts DEF IInv, Checked
  <2>6. \A j \in Inums : Mine(l[p], cwd[p], j) = B(cwd[p] = j) + B(l[p].dp = j) + B(l[p].ip = j)
    <3>1. \A j \in Inums : /\ Mine(l[p], cwd[p], j) = B(cwd[p] = j) + B(l[p].dp = j) + B(l[p].ip = j)
                                                        + B(l[p].src = j)
                           /\ B(l[p].src = j) = 0
      BY <2>2, MinePlain, ConstFacts, SMTT(60) DEF B
    <3>. QED
      BY <3>1, SMTT(60) DEF B
  <2>. QED
    BY <2>1, <2>2, <2>3, <2>4, <2>5, <2>6 DEF Both

\* The step of sys_unlink() and of create() that works on both inodes: it leaves dp
\* to iput() and keeps the lock on ip.
<1>MovesInv.
  ASSUME NEW p \in Procs, Both(p), l[p].pc \in {"unlink_ip", "create_new"},
         NEW d \in Inums, NEW i \in Inums, d = l[p].dp, i = l[p].ip, lock[i] = None,
         Moves(p, d, i),
         NEW k \in {"unlink_dec", "created"}, k = "created" => l[p].sys \in DOMAIN Creates,
         Put(p, <<d>>, k, [l[p] EXCEPT !.dp = 0]),
         Cached, icache'[i].valid, \A j \in Inums : icache'[j].ref = icache[j].ref,
         ents' \in [Inums -> DirEntries], Rewritten(p, d, i),
         UNCHANGED <<ftable, ofile, cwd>>
  PROVE IInv'
  <2>. USE <1>MovesInv
  <2>1. TypeOK /\ LockInv
    BY DEF IInv
  <2>2. PutTo(p, <<d>>, k, [l[p] EXCEPT !.dp = 0])
    <3>1. [l[p] EXCEPT !.dp = 0] \in Local /\ k \in Labels /\ <<d>> \in Seq(Inums)
      <4>1. 0 \in InoZ /\ <<d>> \in Seq(Inums)
        BY ConstFacts, SMTT(60)
      <4>2. k \in Labels
        BY DEF Labels, HasIp
      <4>. QED
        BY <4>1, <4>2 DEF Both, Local
    <3>. QED
      BY <2>1, <3>1, PutFacts
  <2>3. /\ l' \in [Procs -> Local] /\ \A q \in Procs : q # p => l'[q] = l[q]
        /\ l'[p].pc = "iput" /\ l'[p].puts = <<d>> /\ l'[p].then = k
    BY <2>2 DEF PutTo
  <2>4. /\ l'[p].dp = 0 /\ l'[p].ip = i /\ l'[p].src = 0 /\ l'[p].rf = 0 /\ l'[p].wf = 0
        /\ l'[p].sys = l[p].sys
    BY <2>2 DEF PutTo, Both, Local
  <2>5. Loc(l'[p]) = k
    BY <2>3 DEF Loc, Putting
  <2>6. ShapeOf(l'[p])
    <3>1. Len(l'[p].puts) = 1 /\ i # 0
      BY <2>3, ConstFacts
    <3>. QED
      BY <2>3, <2>4, <2>5, <3>1, SMTT(60) DEF ShapeOf, Putting, HasDp, HasIp, HasSrc
  <2>7. \A j \in Inums : icache'[j].ref = icache[j].ref + Mine(l'[p], cwd[p], j)
                                            - Mine(l[p], cwd[p], j)
    <3>1. \A j \in Inums : Mine(l[p], cwd[p], j) = B(cwd[p] = j) + B(d = j) + B(i = j)
      BY DEF Both
    <3>2. \A j \in Inums : Mine(l'[p], cwd[p], j) = B(cwd[p] = j) + B(d = j) + B(i = j)
      <4>1. \A j \in Inums : Mine(l'[p], cwd[p], j) = B(cwd[p] = j) + B(l'[p].dp = j)
                                + B(l'[p].ip = j) + B(l'[p].src = j) + B(d = j)
        BY <2>3, MinePut, SMTT(60)
      <4>2. \A j \in Inums : /\ B(l'[p].dp = j) = 0 /\ B(l'[p].ip = j) = B(i = j)
                             /\ B(l'[p].src = j) = 0
        BY <2>4, ConstFacts DEF B
      <4>. QED
        BY <4>1, <4>2, SMTT(60) DEF B
    <3>3. \A j \in Inums : icache[j].ref \in Nat
      BY <2>1 DEF TypeOK, Slot
    <3>. QED
      BY <3>1, <3>2, <3>3, SMTT(60) DEF B
  <2>8. Locked(p) /\ lock' \in [Inums -> Procs \cup {None}] /\ d # i
    <3>1. HoldsMove(p, d, i)
      <4>1. \A j \in Inums : Holds(l[p], j) <=> j = d
        BY DEF Both
      <4>2. \A j \in Inums : Holds(l'[p], j) <=> j = i
        BY <2>3, <2>4, <2>5 DEF Holds, Keeps, LocksDp, LocksIp
      <4>. QED
        BY <4>1, <4>2 DEF HoldsMove
    <3>2. l'[p].pc # "iput_free" /\ Holds(l[p], d)
      BY <2>3, <3>1 DEF HoldsMove
    <3>. QED
      BY <2>1, <3>1, <3>2, <1>LockMoved
  <2>9. Looked(p)
    BY <2>4 DEF Looked
  <2>10. NamesInv'
    <3>1. \A j \in Inums : dinode'[j].type # T_DIR => dinode[j].type # T_DIR /\ j # d
      BY SMTT(60) DEF Cached, SameTypes, Both
    <3>. QED
      <4>1. NamesInv
        BY DEF IInv
      <4>. QED
        BY <3>1, <4>1, SMTT(60) DEF NamesInv, Rewritten
  <2>11. UnlinkInv'
    <3>1. lock[d] \in {p, None} /\ l'[p].pc # "unlink_ip"
      BY <2>3 DEF Both
    <3>. QED
      BY <2>3, <3>1, UnlinkKept DEF Rewritten
  <2>12. Acyclic'
    <3>1. ASSUME NEW a \in Inums, NEW b \in Inums, Edge(a, b)'
          PROVE Edge(a, b)
      <4>1. CASE \E x \in Names : ents'[a][x] = b
        <5>1. PICK x \in Names : ents'[a][x] = b
          BY <4>1
        <5>2. b # 0
          BY ConstFacts
        <5>3. CASE ents[a][x] = b
          BY <5>3 DEF Edge
        <5>4. CASE ents[a][x] # b
          <6>1. a = d /\ l[p].pc = "create_new" /\ b = i
            BY <5>1, <5>2, <5>4 DEF Rewritten
          <6>. QED
            BY <6>1 DEF Edge
        <5>. QED
          BY <5>3, <5>4
      <4>2. CASE \E q \in Procs : /\ l'[q].dp = a
                                  /\ \/ l'[q].pc = "ialloc" /\ l'[q].f = b
                                     \/ l'[q].pc = "create_new" /\ l'[q].ip = b
        <5>1. PICK q \in Procs : /\ l'[q].dp = a
                                 /\ \/ l'[q].pc = "ialloc" /\ l'[q].f = b
                                    \/ l'[q].pc = "create_new" /\ l'[q].ip = b
          BY <4>2
        <5>2. q # p
          BY <2>3, <5>1
        <5>3. l'[q] = l[q]
          BY <2>3, <5>2
        <5>. QED
          BY <5>1, <5>3 DEF Edge
      <4>. QED
        BY <3>1, <4>1, <4>2 DEF Edge
    <3>. QED
      BY <3>1 DEF IInv, Acyclic
  <2>13. /\ icache' \in [Inums -> Slot] /\ dinode' \in [Inums -> Dinode] /\ CacheInv' /\ Stays
         /\ l'[p].rf = l[p].rf /\ l'[p].wf = l[p].wf
    BY <2>4 DEF Cached, Both
  <2>. QED
    BY <2>3, <2>6, <2>7, <2>8, <2>9, <2>10, <2>11, <2>12, <2>13, EntryInv

\* sys_unlink() goes on to unlink_bad: ip is put and dp stays locked.
<1>UnlinkRefusedInv.
  ASSUME NEW p \in Procs, l[p].pc = "unlink_ip", Both(p),
         NEW d \in Inums, NEW i \in Inums, d = l[p].dp, i = l[p].ip, CanLock(i),
         UnlinkRefused(p, i), UNCHANGED <<ftable, ofile, cwd>>
  PROVE IInv'
  <2>. USE <1>UnlinkRefusedInv
  <2>1. TypeOK /\ LockInv
    BY DEF IInv
  <2>2. PutTo(p, <<i>>, "unlink_bad", [l[p] EXCEPT !.ip = 0])
    <3>1. [l[p] EXCEPT !.ip = 0] \in Local
      BY ConstFacts DEF Both, Local
    <3>2. "unlink_bad" \in Labels /\ <<i>> \in Seq(Inums)
      BY SMTT(60) DEF Labels, HasDp
    <3>. QED
      BY <2>1, <3>1, <3>2, PutFacts DEF UnlinkRefused
  <2>3. /\ l' \in [Procs -> Local] /\ \A q \in Procs : q # p => l'[q] = l[q]
        /\ l'[p].pc = "iput" /\ l'[p].puts = <<i>> /\ l'[p].then = "unlink_bad"
    BY <2>2 DEF PutTo
  <2>4. l'[p].dp = d /\ l'[p].ip = 0 /\ l'[p].src = 0 /\ l'[p].rf = 0 /\ l'[p].wf = 0
    BY <2>2 DEF PutTo, Both, Local
  <2>5. Loc(l'[p]) = "unlink_bad"
    BY <2>3 DEF Loc, Putting
  <2>6. ShapeOf(l'[p])
    <3>1. Len(l'[p].puts) = 1 /\ d # 0
      BY <2>3, ConstFacts
    <3>. QED
      BY <2>3, <2>4, <2>5, <3>1, SMTT(60) DEF ShapeOf, Putting, HasDp, HasIp, HasSrc
  <2>7. Cached /\ \A j \in Inums : icache'[j].ref = icache[j].ref
    BY LoadedStep DEF UnlinkRefused
  <2>8. \A j \in Inums : icache'[j].ref = icache[j].ref + Mine(l'[p], cwd[p], j)
                                            - Mine(l[p], cwd[p], j)
    <3>1. \A j \in Inums : Mine(l[p], cwd[p], j) = B(cwd[p] = j) + B(d = j) + B(i = j)
      BY DEF Both
    <3>2. \A j \in Inums : Mine(l'[p], cwd[p], j) = B(cwd[p] = j) + B(d = j) + B(i = j)
      <4>1. \A j \in Inums : Mine(l'[p], cwd[p], j) = B(cwd[p] = j) + B(l'[p].dp = j)
                                + B(l'[p].ip = j) + B(l'[p].src = j) + B(i = j)
        BY <2>3, MinePut, SMTT(60)
      <4>2. \A j \in Inums : /\ B(l'[p].dp = j) = B(d = j) /\ B(l'[p].ip = j) = 0
                             /\ B(l'[p].src = j) = 0
        BY <2>4, ConstFacts DEF B
      <4>. QED
        BY <4>1, <4>2, SMTT(60) DEF B
    <3>3. \A j \in Inums : icache[j].ref \in Nat
      BY <2>1 DEF TypeOK, Slot
    <3>. QED
      BY <2>7, <3>1, <3>2, <3>3, SMTT(60) DEF B
  <2>9. Locked(p)
    <3>1. \A j \in Inums : Holds(l'[p], j) <=> Holds(l[p], j)
      BY <2>3, <2>4, <2>5, SMTT(60) DEF Holds, Keeps, LocksDp, LocksIp, Both
    <3>2. lock' = lock /\ l'[p].pc # "iput_free"
      BY <2>3 DEF UnlinkRefused
    <3>. QED
      BY <2>1, <3>1, <3>2, LocksKept
  <2>10. Looked(p)
    BY <2>4, <2>5 DEF Looked, LocksIp
  <2>11. /\ lock' \in [Inums -> Procs \cup {None}] /\ UNCHANGED <<ents, ftable, ofile, cwd>>
         /\ l'[p].rf = l[p].rf /\ l'[p].wf = l[p].wf
         /\ l'[p].pc \notin {"unlink_ip", "ialloc", "create_new"}
    BY <2>1, <2>3, <2>4 DEF TypeOK, UnlinkRefused, Both
  <2>. QED
    BY <2>3, <2>6, <2>7, <2>8, <2>9, <2>10, <2>11, GoInv

\* sys_unlink() with ip locked, whether it removes the entry or not.
<1>UnlinkIpInv.
  ASSUME NEW p \in Procs, unlink_ip(p)
  PROVE IInv'
  <2>. USE <1>UnlinkIpInv
  <2>1. PICK d, i : d = l[p].dp /\ i = l[p].ip
    OBVIOUS
  <2>2. PICK n : n = IF Loaded(icache, i)[i].type = T_DIR THEN Loaded(icache, i)[d].nlink - 1
                     ELSE Loaded(icache, i)[d].nlink
    OBVIOUS
  <2>3. l[p].pc = "unlink_ip" /\ CanLock(i) /\ UNCHANGED <<ftable, ofile, cwd>>
    BY <2>1 DEF unlink_ip, At, files
  <2>4. \/ UNCHANGED <<dinode, ents, icache, lock, l>>
        \/ UnlinkRefused(p, i)
        \/ Unlinked(p, d, i, n)
    BY <2>1, <2>2 DEF unlink_ip, UnlinkRefused, Unlinked, Moves, disk
  <2>5. Both(p)
    BY <2>3, <1>BothFacts
  <2>6. d \in Inums /\ i \in Inums /\ TypeOK /\ CacheInv
    BY <2>1, <2>5 DEF Both, IInv
  <2>7. CASE UNCHANGED <<dinode, ents, icache, lock, l>>
    BY <2>3, <2>7, StutterInv
  <2>8. CASE UnlinkRefused(p, i)
    BY <2>1, <2>3, <2>5, <2>6, <2>8, <1>UnlinkRefusedInv
  <2>9. CASE Unlinked(p, d, i, n)
    <3>1. n \in Int
      <4>1. CacheOK(Loaded(icache, i))
        BY <2>3, <2>6, LoadedFacts
      <4>2. Loaded(icache, i)[d].nlink \in Int
        BY <2>6, <4>1 DEF CacheOK, Slot
      <4>. QED
        BY <2>2, <4>2, SMTT(60)
    <3>2. /\ dinode' = SetLinks(dinode, d, n) /\ icache' = SetLinks(Loaded(icache, i), d, n)
      BY <2>9 DEF Unlinked
    <3>3. Cached /\ icache'[i].valid /\ \A j \in Inums : icache'[j].ref = icache[j].ref
      BY <2>3, <2>6, <3>1, <3>2, LoadedLinksStep
    <3>4. ents' \in [Inums -> DirEntries] /\ Rewritten(p, d, i)
      <4>1. ents' = [ents EXCEPT ![d] = [ents[d] EXCEPT ![l[p].name] = 0]]
        BY <2>9 DEF Unlinked
      <4>2. ents[d] \in [Entries -> InoZ] /\ 0 \in InoZ /\ ents \in [Inums -> DirEntries]
        BY <2>6, ConstFacts DEF TypeOK, DirEntries
      <4>3. PICK e : e = [ents[d] EXCEPT ![l[p].name] = 0]
        OBVIOUS
      <4>4. e \in DirEntries
        BY <4>2, <4>3 DEF DirEntries
      <4>5. \A x \in Names : e[x] \in {0, ents[d][x]}
        BY <4>2, <4>3 DEF Entries
      <4>6. ents' \in [Inums -> DirEntries] /\ ents'[d] = e
            /\ \A j \in Inums : j # d => ents'[j] = ents[j]
        BY <2>6, <4>1, <4>2, <4>3, <4>4
      <4>. QED
        BY <4>5, <4>6 DEF Rewritten
    <3>5. lock[i] = None /\ Moves(p, d, i) /\ Put(p, <<d>>, "unlink_dec", [l[p] EXCEPT !.dp = 0])
      BY <2>3, <2>9 DEF Unlinked, CanLock
    <3>6. /\ l[p].pc \in {"unlink_ip", "create_new"} /\ "unlink_dec" \in {"unlink_dec", "created"}
          /\ "unlink_dec" = "created" => l[p].sys \in DOMAIN Creates
      BY <2>3
    <3>. QED
      BY <2>1, <2>3, <2>5, <2>6, <3>3, <3>4, <3>5, <3>6, <1>MovesInv
  <2>. QED
    BY <2>4, <2>7, <2>8, <2>9

\* create() with both locked: the cache and the link counts.
<1>LinksTwiceStep.
  ASSUME NEW i \in Inums, CanLock(i), NEW d \in Inums, NEW n \in Int,
         icache' = SetLinks(SetLinks(Loaded(icache, i), i, 1), d, n),
         dinode' = SetLinks(SetLinks(dinode, i, 1), d, n)
  PROVE /\ Cached /\ icache'[i].valid /\ \A j \in Inums : icache'[j].ref = icache[j].ref
  <2>. USE <1>LinksTwiceStep
  <2>1. TypeOK /\ CacheInv
    BY DEF IInv
  <2>2. PICK c : c = Loaded(icache, i)
    OBVIOUS
  <2>3. /\ CacheOK(c) /\ c[i].valid /\ \A j \in Inums : c[j].ref = icache[j].ref
        /\ \A j \in Inums : icache[j].valid => c[j].valid
    BY <2>1, <2>2, LoadedFacts
  <2>4. PICK e : e = SetLinks(c, i, 1)
    OBVIOUS
  <2>5. /\ CacheOK(e) /\ \A j \in Inums : e[j].ref = c[j].ref /\ e[j].valid = c[j].valid
    <3>1. 1 \in Int
      BY SMTT(60)
    <3>. QED
      BY <2>3, <2>4, <3>1, SetLinksFacts, SMTT(60)
  <2>6. icache' = SetLinks(e, d, n)
    BY <2>2, <2>4
  <2>7. /\ CacheOK(icache')
        /\ \A j \in Inums : icache'[j].ref = e[j].ref /\ icache'[j].valid = e[j].valid
    BY <2>5, <2>6, SetLinksFacts, SMTT(60)
  <2>8. dinode' \in [Inums -> Dinode] /\ SameTypes
    <3>1. PICK m : m = SetLinks(dinode, i, 1)
      OBVIOUS
    <3>2. m \in [Inums -> Dinode] /\ \A j \in Inums : m[j].type = dinode[j].type
      BY <2>1, <3>1, SMTT(60) DEF TypeOK, SetLinks, Dinode
    <3>3. dinode' = SetLinks(m, d, n)
      BY <3>1
    <3>4. dinode' \in [Inums -> Dinode] /\ \A j \in Inums : dinode'[j].type = m[j].type
      BY <3>2, <3>3, SMTT(60) DEF SetLinks, Dinode
    <3>. QED
      BY <3>2, <3>4 DEF SameTypes
  <2>9. /\ \A j \in Inums : icache'[j].ref = icache[j].ref
        /\ \A j \in Inums : icache[j].valid => icache'[j].valid
        /\ icache'[i].valid
    BY <2>3, <2>5, <2>7
  <2>. QED
    BY <2>1, <2>7, <2>8, <2>9, CachedStep

\* create() fills in the new inode and its entry.
<1>CreateNewInv.
  ASSUME NEW p \in Procs, create_new(p)
  PROVE IInv'
  <2>. USE <1>CreateNewInv
  <2>1. PICK d, i : d = l[p].dp /\ i = l[p].ip
    OBVIOUS
  <2>2. PICK n : n = IF Creates[l[p].sys] = T_DIR THEN Loaded(icache, i)[d].nlink + 1
                     ELSE Loaded(icache, i)[d].nlink
    OBVIOUS
  <2>3. PICK e : e = IF Creates[l[p].sys] = T_DIR
                     THEN [ents[i] EXCEPT !["."] = i, ![".."] = d] ELSE ents[i]
    OBVIOUS
  <2>4. l[p].pc = "create_new" /\ CanLock(i) /\ UNCHANGED <<ftable, ofile, cwd>>
    BY <2>1 DEF create_new, At, files
  <2>5. CreatedNew(p, d, i, n, e)
    BY <2>1, <2>2, <2>3 DEF create_new, CreatedNew, Moves
  <2>6. Both(p)
    BY <2>4, <1>BothFacts
  <2>7. d \in Inums /\ i \in Inums /\ TypeOK /\ CacheInv /\ LockInv
    BY <2>1, <2>6 DEF Both, IInv
  <2>8. l[p].sys \in DOMAIN Creates
    <3>1. ShapeOf(l[p]) /\ Loc(l[p]) = "create_new"
      BY <2>4, <2>6 DEF IInv, Shape, Both
    <3>. QED
      BY <3>1 DEF ShapeOf
  <2>9. n \in Int
    <3>1. CacheOK(Loaded(icache, i))
      BY <2>4, <2>7, LoadedFacts
    <3>2. Loaded(icache, i)[d].nlink \in Int
      BY <2>7, <3>1 DEF CacheOK, Slot
    <3>. QED
      BY <2>2, <3>2, SMTT(60)
  <2>10. Cached /\ icache'[i].valid /\ \A j \in Inums : icache'[j].ref = icache[j].ref
    <3>1. /\ icache' = SetLinks(SetLinks(Loaded(icache, i), i, 1), d, n)
          /\ dinode' = SetLinks(SetLinks(dinode, i, 1), d, n)
      BY <2>5 DEF CreatedNew
    <3>. QED
      BY <2>4, <2>7, <2>9, <3>1, <1>LinksTwiceStep
  <2>11. lock[i] = None /\ lock[d] = p /\ d # i
    BY <2>1, <2>4, <2>6, ConstFacts, SMTT(60) DEF CanLock, Both
  <2>12. e \in DirEntries /\ \A x \in Names : e[x] = ents[i][x]
    <3>1. ents[i] \in [Entries -> InoZ] /\ i \in InoZ /\ d \in InoZ
      BY <2>7, ConstFacts DEF TypeOK, DirEntries
    <3>2. \A x \in Names : x # "." /\ x # ".."
      BY FileSysAssumption
    <3>3. PICK e1 : e1 = [ents[i] EXCEPT !["."] = i]
      OBVIOUS
    <3>4. e1 \in [Entries -> InoZ] /\ \A x \in Names : e1[x] = ents[i][x]
      BY <3>1, <3>2, <3>3 DEF Entries
    <3>5. PICK e2 : e2 = [e1 EXCEPT ![".."] = d]
      OBVIOUS
    <3>6. e2 \in [Entries -> InoZ] /\ \A x \in Names : e2[x] = e1[x]
      BY <3>1, <3>2, <3>4, <3>5 DEF Entries
    <3>7. e = IF Creates[l[p].sys] = T_DIR THEN e2 ELSE ents[i]
      BY <2>3, <3>3, <3>5
    <3>. QED
      BY <3>1, <3>4, <3>6, <3>7 DEF DirEntries
  <2>13. ents' \in [Inums -> DirEntries] /\ Rewritten(p, d, i)
    <3>1. PICK m : m = [ents EXCEPT ![i] = e]
      OBVIOUS
    <3>2. m \in [Inums -> DirEntries] /\ m[d] = ents[d] /\ m[i] = e
          /\ \A j \in Inums : j # i => m[j] = ents[j]
      BY <2>7, <2>11, <2>12, <3>1 DEF TypeOK
    <3>3. ents' = [m EXCEPT ![d] = [m[d] EXCEPT ![l[p].name] = i]]
      BY <2>5, <3>1 DEF CreatedNew, dirlink
    <3>4. PICK t : t = [ents[d] EXCEPT ![l[p].name] = i]
      OBVIOUS
    <3>5. ents[d] \in [Entries -> InoZ] /\ i \in InoZ
      BY <2>7, ConstFacts DEF TypeOK, DirEntries
    <3>6. t \in DirEntries
      BY <3>4, <3>5 DEF DirEntries
    <3>7. \A x \in Names : t[x] \in {i, ents[d][x]}
      BY <3>4, <3>5 DEF Entries
    <3>8. ents' \in [Inums -> DirEntries] /\ ents'[d] = t /\ \A j \in Inums : j # d => ents'[j] = m[j]
      BY <2>7, <3>2, <3>3, <3>4, <3>6
    <3>9. \A j \in Inums, x \in Names : j # d => ents'[j][x] = ents[j][x]
      BY <2>12, <3>2, <3>8
    <3>. QED
      BY <2>4, <3>7, <3>8, <3>9 DEF Rewritten
  <2>14. /\ Moves(p, d, i) /\ Put(p, <<d>>, "created", [l[p] EXCEPT !.dp = 0])
         /\ l[p].pc \in {"unlink_ip", "create_new"} /\ "created" \in {"unlink_dec", "created"}
         /\ "created" = "created" => l[p].sys \in DOMAIN Creates
    BY <2>4, <2>5, <2>8 DEF CreatedNew
  <2>. QED
    BY <2>1, <2>4, <2>6, <2>7, <2>10, <2>11, <2>13, <2>14, <1>MovesInv
<1>. QED
  BY <1>UnlinkIpInv, <1>CreateNewInv

\* Where create() and sys_link() have found the directory and not locked it yet.
Parent(p) ==
  /\ l[p] \in Local /\ l[p].dp \in Inums /\ l[p].ip = 0 /\ l[p].puts = <<>>
  /\ l[p].rf = 0 /\ l[p].wf = 0 /\ Loc(l[p]) = l[p].pc /\ l[p].name \in Entries
  /\ l[p].pc = "create" => l[p].src = 0 /\ l[p].sys \in DOMAIN Creates
  /\ l[p].pc = "link_dp" => l[p].src \in Inums
  /\ icache[l[p].dp].valid /\ dinode[l[p].dp].type = T_DIR
  /\ \A j \in Inums : ~Holds(l[p], j)
  /\ \A j \in Inums : Mine(l[p], cwd[p], j) = B(cwd[p] = j) + B(l[p].dp = j) + B(l[p].src = j)

\* create() of a name that exists.
Exists(p, d, i) ==
  /\ icache' = iget(Loaded(icache, d), i) /\ UNCHANGED <<dinode, ents, lock>>
  /\ Put(p, <<d>>, "create_found", [l[p] EXCEPT !.dp = 0, !.ip = i])

\* create() of a new name: ialloc() marks the free inode j.
Allocates(p, d, j) ==
  /\ dinode' = [dinode EXCEPT ![j] = [type |-> Creates[l[p].sys], nlink |-> 0]]
  /\ icache' = Loaded(icache, d) /\ ents' = ents
  /\ lock' = [lock EXCEPT ![d] = p]
  /\ l' = [l EXCEPT ![p].pc = "ialloc", ![p].f = j]

\* sys_link() of a name that exists.
LinkFound(p, d, i) ==
  /\ icache' = iget(Loaded(icache, d), i) /\ lock' = [lock EXCEPT ![d] = p]
  /\ Put(p, <<i>>, "link_exists", l[p]) /\ UNCHANGED <<dinode, ents>>

\* sys_link() of a new name.
Linked(p, d) ==
  /\ icache' = Loaded(icache, d) /\ ents' = dirlink(ents, d, l[p].name, l[p].src)
  /\ PutAndReturn(p, <<d, l[p].src>>) /\ UNCHANGED <<dinode, lock>>

\* create() and sys_link() in the directory that gets the name.
LEMMA ParentInv ==
  ASSUME SetFacts, IInv
  PROVE \A p \in Procs :
          (create(p) \/ ialloc(p) \/ link_dp(p))
            => IInv'
\* What create() and sys_link() have before they lock the parent directory.
<1>ParentFacts.
  ASSUME NEW p \in Procs, l[p].pc \in {"create", "link_dp"}
  PROVE Parent(p)
  <2>. USE <1>ParentFacts
  <2>1. l[p] \in Local /\ ShapeOf(l[p])
    BY DEF IInv, TypeOK, Shape
  <2>2. /\ l[p].dp \in Inums /\ l[p].ip = 0 /\ l[p].puts = <<>> /\ l[p].name \in Entries
        /\ l[p].rf = 0 /\ l[p].wf = 0 /\ Loc(l[p]) = l[p].pc
    BY <2>1, ConstFacts DEF ShapeOf, Loc, Putting, HasDp, HasIp, HasSrc, Local
  <2>3. /\ l[p].pc = "create" => l[p].src = 0 /\ l[p].sys \in DOMAIN Creates
        /\ l[p].pc = "link_dp" => l[p].src \in Inums
    BY <2>1, <2>2, ConstFacts DEF ShapeOf, HasSrc, Local
  <2>4. \A j \in Inums : ~Holds(l[p], j)
    BY <2>2 DEF Holds, Keeps, LocksDp, LocksIp
  <2>5. icache[l[p].dp].valid /\ dinode[l[p].dp].type = T_DIR
    BY <2>2, ConstFacts DEF IInv, Checked
  <2>6. \A j \in Inums : Mine(l[p], cwd[p], j) = B(cwd[p] = j) + B(l[p].dp = j) + B(l[p].src = j)
    <3>1. \A j \in Inums : /\ Mine(l[p], cwd[p], j) = B(cwd[p] = j) + B(l[p].dp = j) + B(l[p].ip = j)
                                                        + B(l[p].src = j)
                           /\ B(l[p].ip = j) = 0
      BY <2>2, MinePlain, ConstFacts, SMTT(60) DEF B
    <3>. QED
      BY <3>1, SMTT(60) DEF B
  <2>. QED
    BY <2>1, <2>2, <2>3, <2>4, <2>5, <2>6 DEF Parent

\* create() finds the name and takes a reference to its inode.
<1>ExistsInv.
  ASSUME NEW p \in Procs, l[p].pc = "create", Parent(p),
         NEW d \in Inums, NEW i \in Inums, d = l[p].dp, CanLock(d),
         Exists(p, d, i), UNCHANGED <<ftable, ofile, cwd>>
  PROVE IInv'
  <2>. USE <1>ExistsInv
  <2>1. TypeOK /\ LockInv
    BY DEF IInv
  <2>2. PutTo(p, <<d>>, "create_found", [l[p] EXCEPT !.dp = 0, !.ip = i])
    <3>1. [l[p] EXCEPT !.dp = 0, !.ip = i] \in Local
      <4>1. 0 \in InoZ /\ i \in InoZ
        BY ConstFacts
      <4>. QED
        BY <4>1 DEF Parent, Local
    <3>2. "create_found" \in Labels /\ <<d>> \in Seq(Inums)
      BY SMTT(60) DEF Labels, HasIp
    <3>. QED
      BY <2>1, <3>1, <3>2, PutFacts DEF Exists
  <2>3. /\ l' \in [Procs -> Local] /\ \A q \in Procs : q # p => l'[q] = l[q]
        /\ l'[p].pc = "iput" /\ l'[p].puts = <<d>> /\ l'[p].then = "create_found"
    BY <2>2 DEF PutTo
  <2>4. /\ l'[p].dp = 0 /\ l'[p].ip = i /\ l'[p].src = 0 /\ l'[p].rf = 0 /\ l'[p].wf = 0
        /\ l'[p].sys \in DOMAIN Creates
    BY <2>2 DEF PutTo, Parent, Local
  <2>5. Loc(l'[p]) = "create_found"
    BY <2>3 DEF Loc, Putting
  <2>6. ShapeOf(l'[p])
    <3>1. Len(l'[p].puts) = 1 /\ i # 0
      BY <2>3, ConstFacts
    <3>. QED
      BY <2>3, <2>4, <2>5, <3>1, SMTT(60) DEF ShapeOf, Putting, HasDp, HasIp, HasSrc
  <2>7. Cached /\ \A j \in Inums : icache'[j].ref = icache[j].ref + B(j = i)
    <3>1. icache' = iget(Loaded(icache, d), i) /\ UNCHANGED dinode
      BY DEF Exists
    <3>. QED
      BY <3>1, LoadedIgetStep
  <2>8. \A j \in Inums : icache'[j].ref = icache[j].ref + Mine(l'[p], cwd[p], j)
                                            - Mine(l[p], cwd[p], j)
    <3>1. \A j \in Inums : Mine(l[p], cwd[p], j) = B(cwd[p] = j) + B(d = j)
      <4>1. \A j \in Inums : Mine(l[p], cwd[p], j) = B(cwd[p] = j) + B(d = j) + B(l[p].src = j)
        BY DEF Parent
      <4>2. \A j \in Inums : B(l[p].src = j) = 0
        BY ConstFacts DEF Parent, B
      <4>. QED
        BY <4>1, <4>2, SMTT(60) DEF B
    <3>2. \A j \in Inums : Mine(l'[p], cwd[p], j) = B(cwd[p] = j) + B(d = j) + B(i = j)
      BY <2>3, <2>4, MinePut, ConstFacts, SMTT(60) DEF B
    <3>3. \A j \in Inums : icache[j].ref \in Nat
      BY <2>1 DEF TypeOK, Slot
    <3>. QED
      BY <2>7, <3>1, <3>2, <3>3, SMTT(60) DEF B
  <2>9. Locked(p)
    <3>1. \A j \in Inums : Holds(l'[p], j) <=> Holds(l[p], j)
      BY <2>3, <2>4, <2>5 DEF Holds, Keeps, LocksDp, LocksIp, Parent
    <3>2. lock' = lock /\ l'[p].pc # "iput_free"
      BY <2>3 DEF Exists
    <3>. QED
      BY <2>1, <3>1, <3>2, LocksKept
  <2>10. Looked(p)
    BY <2>4, <2>5 DEF Looked, LocksIp
  <2>11. /\ lock' \in [Inums -> Procs \cup {None}] /\ UNCHANGED <<ents, ftable, ofile, cwd>>
         /\ l'[p].rf = l[p].rf /\ l'[p].wf = l[p].wf
         /\ l'[p].pc \notin {"unlink_ip", "ialloc", "create_new"}
    BY <2>1, <2>3, <2>4 DEF TypeOK, Exists, Parent
  <2>. QED
    BY <2>3, <2>6, <2>7, <2>8, <2>9, <2>10, <2>11, GoInv

\* create() does not find the name: the free inode gets its type, dp stays locked.
<1>AllocatesInv.
  ASSUME NEW p \in Procs, l[p].pc = "create", Parent(p),
         NEW d \in Inums, NEW j \in Inums, d = l[p].dp, CanLock(d), dinode[j].type = "free",
         Allocates(p, d, j), UNCHANGED <<ftable, ofile, cwd>>
  PROVE IInv'
  <2>. USE <1>AllocatesInv
  <2>1. TypeOK /\ LockInv /\ CacheInv
    BY DEF IInv
  <2>2. /\ l' \in [Procs -> Local] /\ \A q \in Procs : q # p => l'[q] = l[q]
        /\ l'[p].pc = "ialloc" /\ l'[p].f = j /\ l'[p].dp = d /\ l'[p].ip = 0 /\ l'[p].src = 0
        /\ l'[p].rf = 0 /\ l'[p].wf = 0 /\ l'[p].puts = <<>> /\ l'[p].sys = l[p].sys
    <3>1. "ialloc" \in Labels /\ j \in InoZ
      BY ConstFacts DEF Labels, HasDp
    <3>2. l \in [Procs -> Local] /\ l' = [l EXCEPT ![p].pc = "ialloc", ![p].f = j]
      BY <2>1 DEF TypeOK, Allocates
    <3>3. l' \in [Procs -> Local] /\ \A q \in Procs : q # p => l'[q] = l[q]
      BY <3>1, <3>2 DEF Local
    <3>. QED
      BY <3>2, <3>3 DEF Local, Parent
  <2>3. Loc(l'[p]) = "ialloc" /\ ShapeOf(l'[p])
    <3>1. d # 0 /\ j # 0 /\ l[p].sys \in DOMAIN Creates
      BY ConstFacts DEF Parent
    <3>2. Loc(l'[p]) = "ialloc"
      BY <2>2 DEF Loc, Putting
    <3>. QED
      BY <2>2, <3>1, <3>2 DEF ShapeOf, Putting, HasDp, HasIp, HasSrc
  <2>4. d # j
    BY DEF Parent, T_DIR
  <2>5. /\ dinode' \in [Inums -> Dinode]
        /\ \A i \in Inums : i # j => dinode'[i] = dinode[i]
    <3>1. [type |-> Creates[l[p].sys], nlink |-> 0] \in Dinode
      BY CreatesDomain DEF Parent
    <3>2. dinode \in [Inums -> Dinode]
      BY <2>1 DEF TypeOK
    <3>. QED
      BY <3>1, <3>2 DEF Allocates
  <2>6. /\ CacheOK(icache') /\ \A i \in Inums : icache'[i].ref = icache[i].ref
        /\ \A i \in Inums : icache[i].valid => icache'[i].valid
    BY <2>1, LoadedFacts DEF Allocates
  <2>7. icache' \in [Inums -> Slot] /\ CacheInv' /\ Stays
    <3>1. icache' \in [Inums -> Slot]
      BY <2>6 DEF CacheOK
    <3>2. \A i \in Inums : icache'[i].valid =>
            icache'[i].type = dinode[i].type /\ dinode[i].type # "free" /\ i # j
      BY <2>6 DEF CacheOK
    <3>3. CacheInv'
      BY <2>5, <3>2 DEF CacheInv
    <3>4. \A i \in Inums : dinode[i].type # "free" => dinode'[i].type = dinode[i].type
      BY <2>5
    <3>. QED
      BY <2>6, <3>1, <3>3, <3>4 DEF Stays
  <2>8. \A i \in Inums : icache'[i].ref = icache[i].ref + Mine(l'[p], cwd[p], i)
                                            - Mine(l[p], cwd[p], i)
    <3>1. l[p].ip = 0 /\ l[p].src = 0 /\ l[p].puts = <<>>
      BY DEF Parent
    <3>2. \A i \in Inums : Mine(l'[p], cwd[p], i) = Mine(l[p], cwd[p], i)
      BY <2>2, <3>1 DEF Mine
    <3>3. \A i \in Inums : icache[i].ref \in Nat /\ Mine(l[p], cwd[p], i) \in Nat
      <4>1. \A i \in Inums : icache[i].ref \in Nat
        BY <2>1 DEF TypeOK, Slot
      <4>2. l[p] \in Local
        BY DEF Parent
      <4>. QED
        BY <4>1, <4>2, Referred
    <3>. QED
      BY <2>6, <3>2, <3>3, PlusMinus
  <2>9. Locked(p) /\ lock' \in [Inums -> Procs \cup {None}]
    <3>1. \A i \in Inums : Holds(l'[p], i) <=> Holds(l[p], i) \/ i = d
      BY <2>2, <2>3 DEF Holds, Keeps, LocksDp, LocksIp, Parent
    <3>2. lock' = [lock EXCEPT ![d] = p] /\ l'[p].pc # "iput_free" /\ lock[d] = None
      BY <2>2 DEF Allocates, CanLock
    <3>3. lock' \in [Inums -> Procs \cup {None}]
      BY <2>1, <3>2 DEF TypeOK
    <3>. QED
      BY <2>1, <3>1, <3>2, <3>3, LockTaken
  <2>10. Looked(p)
    BY <2>2, <2>3 DEF Looked, LocksIp
  <2>11. NamesInv'
    <3>1. ents' = ents /\ T_DIR # "free"
      BY DEF Allocates, T_DIR
    <3>2. \A i \in Inums : dinode'[i].type # T_DIR => dinode[i].type # T_DIR
      BY <2>5, <3>1
    <3>. QED
      BY <3>1, <3>2 DEF IInv, NamesInv
  <2>12. UnlinkInv'
    <3>1. lock[d] \in {p, None} /\ l'[p].pc # "unlink_ip" /\ ents' = ents
      BY <2>2 DEF CanLock, Allocates
    <3>. QED
      BY <2>2, <3>1, UnlinkKept
  <2>13. Acyclic'
    <3>1. ASSUME NEW b \in Inums, Edge(j, b)
          PROVE FALSE
      <4>1. \A x \in Names : ents[j][x] # b
        BY ConstFacts DEF IInv, NamesInv, T_DIR
      <4>2. \A q \in Procs : l[q].dp # j
        <5>1. T_DIR # "free" /\ j # 0
          BY ConstFacts DEF T_DIR
        <5>. QED
          BY <5>1 DEF IInv, Checked
      <4>. QED
        BY <3>1, <4>1, <4>2 DEF Edge
    <3>2. ASSUME NEW a \in Inums, NEW b \in Inums, Edge(a, b)'
          PROVE Edge(a, b) \/ (a = d /\ b = j)
      <4>1. ents' = ents
        BY DEF Allocates
      <4>2. CASE \E x \in Names : ents'[a][x] = b
        BY <4>1, <4>2 DEF Edge
      <4>3. CASE \E q \in Procs : /\ l'[q].dp = a
                                  /\ \/ l'[q].pc = "ialloc" /\ l'[q].f = b
                                     \/ l'[q].pc = "create_new" /\ l'[q].ip = b
        <5>1. PICK q \in Procs : /\ l'[q].dp = a
                                 /\ \/ l'[q].pc = "ialloc" /\ l'[q].f = b
                                    \/ l'[q].pc = "create_new" /\ l'[q].ip = b
          BY <4>3
        <5>2. CASE q = p
          BY <2>2, <5>1, <5>2
        <5>3. CASE q # p
          <6>1. l'[q] = l[q]
            BY <2>2, <5>3
          <6>. QED
            BY <5>1, <6>1 DEF Edge
        <5>. QED
          BY <5>2, <5>3
      <4>. QED
        BY <3>2, <4>2, <4>3 DEF Edge
    <3>3. Acyclic
      BY DEF IInv
    <3>. QED
      BY <2>4, <3>1, <3>2, <3>3, AcyclicAdd
  <2>14. ents' \in [Inums -> DirEntries] /\ l'[p].rf = l[p].rf /\ l'[p].wf = l[p].wf
    BY <2>1, <2>2 DEF TypeOK, Allocates, Parent
  <2>. QED
    BY <2>2, <2>3, <2>5, <2>7, <2>8, <2>9, <2>10, <2>11, <2>12, <2>13, <2>14, EntryInv

\* create() with dp locked.
<1>CreateInv.
  ASSUME NEW p \in Procs, create(p)
  PROVE IInv'
  <2>. USE <1>CreateInv
  <2>1. PICK d, i, j : /\ d = l[p].dp /\ i = ents[d][l[p].name]
                       /\ j = First({m \in Inums : dinode[m].type = "free"})
    OBVIOUS
  <2>2. l[p].pc = "create" /\ CanLock(d) /\ UNCHANGED <<ftable, ofile, cwd>>
    BY <2>1 DEF create, At, files
  <2>3. \/ i # 0 /\ Exists(p, d, i)
        \/ UNCHANGED <<dinode, ents, icache, lock, l>>
        \/ {m \in Inums : dinode[m].type = "free"} # {} /\ Allocates(p, d, j)
    BY <2>1 DEF create, Exists, Allocates, disk, dirlookup
  <2>4. Parent(p)
    BY <2>2, <1>ParentFacts
  <2>5. d \in Inums /\ i \in InoZ
    <3>1. d \in Inums /\ l[p].name \in Entries
      BY <2>1, <2>4 DEF Parent
    <3>. QED
      BY <2>1, <3>1 DEF IInv, TypeOK, DirEntries
  <2>6. CASE i # 0 /\ Exists(p, d, i)
    <3>1. i \in Inums
      BY <2>5, <2>6, ConstFacts
    <3>. QED
      BY <2>1, <2>2, <2>4, <2>5, <2>6, <3>1, <1>ExistsInv
  <2>7. CASE UNCHANGED <<dinode, ents, icache, lock, l>>
    BY <2>2, <2>7, StutterInv
  <2>8. CASE {m \in Inums : dinode[m].type = "free"} # {} /\ Allocates(p, d, j)
    <3>1. PICK F : F = {m \in Inums : dinode[m].type = "free"}
      OBVIOUS
    <3>2. F # {} /\ F \subseteq Nat
      BY <2>8, <3>1, SMTT(60) DEF Inums
    <3>3. j \in F
      BY <2>1, <3>1, <3>2 DEF SetFacts
    <3>4. j \in Inums /\ dinode[j].type = "free"
      BY <3>1, <3>3
    <3>. QED
      BY <2>1, <2>2, <2>4, <2>5, <2>8, <3>4, <1>AllocatesInv
  <2>. QED
    BY <2>3, <2>6, <2>7, <2>8

\* ialloc(): iget() of the inode create() marked.
<1>IallocInv.
  ASSUME NEW p \in Procs, ialloc(p)
  PROVE IInv'
  <2>. USE <1>IallocInv
  <2>1. TypeOK /\ LockInv /\ l[p] \in Local /\ ShapeOf(l[p]) /\ l[p].pc = "ialloc"
    BY DEF IInv, TypeOK, Shape, ialloc, At
  <2>2. PICK j, d : j = l[p].f /\ d = l[p].dp
    OBVIOUS
  <2>3. /\ j \in Inums /\ d \in Inums /\ l[p].ip = 0 /\ l[p].src = 0 /\ l[p].puts = <<>>
        /\ l[p].rf = 0 /\ l[p].wf = 0 /\ Loc(l[p]) = "ialloc" /\ l[p].sys \in DOMAIN Creates
    BY <2>1, <2>2, ConstFacts DEF ShapeOf, Loc, Putting, HasDp, HasIp, HasSrc, Local
  <2>4. /\ icache' = iget(icache, j) /\ UNCHANGED <<dinode, ents, lock, ftable, ofile, cwd>>
        /\ l' = [l EXCEPT ![p].pc = "create_new", ![p].ip = j, ![p].f = 0]
    BY <2>2 DEF ialloc, disk, files
  <2>5. /\ l' \in [Procs -> Local] /\ \A q \in Procs : q # p => l'[q] = l[q]
        /\ l'[p].pc = "create_new" /\ l'[p].ip = j /\ l'[p].dp = d /\ l'[p].src = 0
        /\ l'[p].rf = 0 /\ l'[p].wf = 0 /\ l'[p].puts = <<>> /\ l'[p].sys = l[p].sys
    <3>1. "create_new" \in Labels /\ j \in InoZ /\ 0 \in InoZ
      BY <2>3, ConstFacts DEF Labels, HasDp
    <3>2. l \in [Procs -> Local]
      BY <2>1 DEF TypeOK
    <3>3. PICK e : e = [l[p] EXCEPT !.pc = "create_new", !.ip = j, !.f = 0]
      OBVIOUS
    <3>4. e \in Local
      BY <2>1, <3>1, <3>3 DEF Local
    <3>5. /\ e.pc = "create_new" /\ e.ip = j /\ e.dp = d /\ e.src = 0 /\ e.rf = 0 /\ e.wf = 0
          /\ e.puts = <<>> /\ e.sys = l[p].sys
      BY <2>1, <2>2, <2>3, <3>3 DEF Local
    <3>6. l' = [l EXCEPT ![p] = e]
      BY <2>4, <3>3
    <3>. QED
      BY <3>2, <3>4, <3>5, <3>6
  <2>6. Loc(l'[p]) = "create_new" /\ ShapeOf(l'[p])
    <3>1. d # 0 /\ j # 0
      BY <2>3, ConstFacts
    <3>2. Loc(l'[p]) = "create_new"
      BY <2>5 DEF Loc, Putting
    <3>. QED
      BY <2>3, <2>5, <3>1, <3>2 DEF ShapeOf, Putting, HasDp, HasIp, HasSrc
  <2>7. Cached /\ \A i \in Inums : icache'[i].ref = icache[i].ref + B(i = j)
    BY <2>3, <2>4, IgetStep
  <2>8. \A i \in Inums : icache'[i].ref = icache[i].ref + Mine(l'[p], cwd[p], i)
                                            - Mine(l[p], cwd[p], i)
    <3>1. \A i \in Inums : Mine(l[p], cwd[p], i) = B(cwd[p] = i) + B(d = i)
      BY <2>2, <2>3, MinePlain, ConstFacts, SMTT(60) DEF B
    <3>2. \A i \in Inums : Mine(l'[p], cwd[p], i) = B(cwd[p] = i) + B(d = i) + B(i = j)
      BY <2>5, MinePlain, ConstFacts, SMTT(60) DEF B
    <3>3. \A i \in Inums : icache[i].ref \in Nat
      BY <2>1 DEF TypeOK, Slot
    <3>. QED
      BY <2>7, <3>1, <3>2, <3>3, SMTT(60) DEF B
  <2>9. Locked(p) /\ lock' \in [Inums -> Procs \cup {None}]
    <3>1. \A i \in Inums : Holds(l'[p], i) <=> Holds(l[p], i)
      BY <2>1, <2>2, <2>3, <2>5, <2>6 DEF Holds, Keeps, LocksDp, LocksIp
    <3>2. lock' = lock /\ l'[p].pc # "iput_free" /\ lock' \in [Inums -> Procs \cup {None}]
      BY <2>1, <2>4, <2>5 DEF TypeOK
    <3>. QED
      BY <2>1, <3>1, <3>2, LocksKept
  <2>10. Looked(p)
    BY <2>2, <2>5, <2>6 DEF Looked, LocksIp
  <2>11. NamesInv'
    BY <2>4 DEF IInv, NamesInv
  <2>12. UnlinkInv'
    <3>1. lock[d] = p
      <4>1. Holds(l[p], d)
        BY <2>2, <2>3 DEF Holds, Keeps, LocksDp
      <4>. QED
        BY <2>1, <2>3, <4>1 DEF LockInv
    <3>2. lock[d] \in {p, None} /\ l'[p].pc # "unlink_ip" /\ ents' = ents
      BY <2>4, <2>5, <3>1
    <3>. QED
      BY <2>3, <2>5, <3>2, UnlinkKept
  <2>13. Acyclic'
    <3>1. ASSUME NEW a \in Inums, NEW b \in Inums, Edge(a, b)'
          PROVE Edge(a, b)
      <4>1. CASE \E x \in Names : ents'[a][x] = b
        BY <2>4, <4>1 DEF Edge
      <4>2. CASE \E q \in Procs : /\ l'[q].dp = a
                                  /\ \/ l'[q].pc = "ialloc" /\ l'[q].f = b
                                     \/ l'[q].pc = "create_new" /\ l'[q].ip = b
        <5>1. PICK q \in Procs : /\ l'[q].dp = a
                                 /\ \/ l'[q].pc = "ialloc" /\ l'[q].f = b
                                    \/ l'[q].pc = "create_new" /\ l'[q].ip = b
          BY <4>2
        <5>2. CASE q = p
          <6>1. a = l[p].dp /\ b = l[p].f
            BY <2>2, <2>5, <5>1, <5>2
          <6>. QED
            BY <2>1, <6>1 DEF Edge
        <5>3. CASE q # p
          <6>1. l'[q] = l[q]
            BY <2>5, <5>3
          <6>. QED
            BY <5>1, <6>1 DEF Edge
        <5>. QED
          BY <5>2, <5>3
      <4>. QED
        BY <3>1, <4>1, <4>2 DEF Edge
    <3>. QED
      BY <3>1 DEF IInv, Acyclic
  <2>14. /\ ents' \in [Inums -> DirEntries] /\ l'[p].rf = l[p].rf /\ l'[p].wf = l[p].wf
         /\ icache' \in [Inums -> Slot] /\ dinode' \in [Inums -> Dinode] /\ CacheInv' /\ Stays
    BY <2>1, <2>3, <2>4, <2>5, <2>7 DEF TypeOK, Cached
  <2>. QED
    BY <2>4, <2>5, <2>6, <2>8, <2>9, <2>10, <2>11, <2>12, <2>13, <2>14, EntryInv

\* sys_link() finds the name: dirlink() puts that inode and fails.
<1>LinkFoundInv.
  ASSUME NEW p \in Procs, l[p].pc = "link_dp", Parent(p),
         NEW d \in Inums, NEW i \in Inums, d = l[p].dp, CanLock(d),
         LinkFound(p, d, i), UNCHANGED <<ftable, ofile, cwd>>
  PROVE IInv'
  <2>. USE <1>LinkFoundInv
  <2>1. TypeOK /\ LockInv
    BY DEF IInv
  <2>2. PutTo(p, <<i>>, "link_exists", l[p])
    <3>1. "link_exists" \in Labels /\ <<i>> \in Seq(Inums)
      BY SMTT(60) DEF Labels, HasDp
    <3>2. l[p] \in Local
      BY DEF Parent
    <3>. QED
      BY <2>1, <3>1, <3>2, PutFacts DEF LinkFound
  <2>3. /\ l' \in [Procs -> Local] /\ \A q \in Procs : q # p => l'[q] = l[q]
        /\ l'[p].pc = "iput" /\ l'[p].puts = <<i>> /\ l'[p].then = "link_exists"
    BY <2>2 DEF PutTo
  <2>4. /\ l'[p].dp = d /\ l'[p].ip = 0 /\ l'[p].src = l[p].src /\ l'[p].rf = 0 /\ l'[p].wf = 0
        /\ l[p].src \in Inums
    BY <2>2 DEF PutTo, Parent
  <2>5. Loc(l'[p]) = "link_exists"
    BY <2>3 DEF Loc, Putting
  <2>6. ShapeOf(l'[p])
    <3>1. Len(l'[p].puts) = 1 /\ d # 0 /\ l'[p].src # 0
      BY <2>3, <2>4, ConstFacts
    <3>. QED
      BY <2>3, <2>4, <2>5, <3>1, SMTT(60) DEF ShapeOf, Putting, HasDp, HasIp, HasSrc
  <2>7. Cached /\ \A j \in Inums : icache'[j].ref = icache[j].ref + B(j = i)
    <3>1. icache' = iget(Loaded(icache, d), i) /\ UNCHANGED dinode
      BY DEF LinkFound
    <3>. QED
      BY <3>1, LoadedIgetStep
  <2>8. \A j \in Inums : icache'[j].ref = icache[j].ref + Mine(l'[p], cwd[p], j)
                                            - Mine(l[p], cwd[p], j)
    <3>1. \A j \in Inums : Mine(l[p], cwd[p], j) = B(cwd[p] = j) + B(d = j) + B(l[p].src = j)
      BY DEF Parent
    <3>2. \A j \in Inums : Mine(l'[p], cwd[p], j)
                             = B(cwd[p] = j) + B(d = j) + B(l[p].src = j) + B(i = j)
      BY <2>3, <2>4, MinePut, ConstFacts, SMTT(60) DEF B
    <3>3. \A j \in Inums : icache[j].ref \in Nat
      BY <2>1 DEF TypeOK, Slot
    <3>. QED
      BY <2>7, <3>1, <3>2, <3>3, SMTT(60) DEF B
  <2>9. Locked(p) /\ lock' \in [Inums -> Procs \cup {None}]
    <3>1. \A j \in Inums : Holds(l'[p], j) <=> Holds(l[p], j) \/ j = d
      BY <2>3, <2>4, <2>5 DEF Holds, Keeps, LocksDp, LocksIp, Parent
    <3>2. lock' = [lock EXCEPT ![d] = p] /\ l'[p].pc # "iput_free" /\ lock[d] = None
      BY <2>3 DEF LinkFound, CanLock
    <3>3. lock' \in [Inums -> Procs \cup {None}]
      BY <2>1, <3>2 DEF TypeOK
    <3>. QED
      BY <2>1, <3>1, <3>2, <3>3, LockTaken
  <2>10. Looked(p)
    BY <2>4, <2>5 DEF Looked, LocksIp
  <2>11. /\ UNCHANGED <<ents, ftable, ofile, cwd>>
         /\ l'[p].rf = l[p].rf /\ l'[p].wf = l[p].wf
         /\ l'[p].pc \notin {"unlink_ip", "ialloc", "create_new"}
    BY <2>3, <2>4 DEF LinkFound, Parent
  <2>. QED
    BY <2>3, <2>6, <2>7, <2>8, <2>9, <2>10, <2>11, GoInv

\* sys_link() writes the entry and puts both inodes.
<1>LinkedInv.
  ASSUME NEW p \in Procs, l[p].pc = "link_dp", Parent(p),
         NEW d \in Inums, d = l[p].dp, CanLock(d), Linked(p, d), UNCHANGED <<ftable, ofile, cwd>>
  PROVE IInv'
  <2>. USE <1>LinkedInv
  <2>1. TypeOK /\ LockInv
    BY DEF IInv
  <2>2. PICK j : j = l[p].src
    OBVIOUS
  <2>3. j \in Inums /\ j # 0 /\ dinode[d].type = T_DIR
    BY <2>2, ConstFacts DEF Parent
  <2>4. dinode[j].type # T_DIR /\ d # j
    <3>1. dinode[j].type # T_DIR
      BY <2>2, <2>3 DEF IInv, Checked
    <3>. QED
      BY <2>3, <3>1
  <2>5. /\ l' \in [Procs -> Local] /\ \A q \in Procs : q # p => l'[q] = l[q]
        /\ l'[p].pc = "iput" /\ l'[p].puts = <<d, j>> /\ Loc(l'[p]) = "idle" /\ ShapeOf(l'[p])
        /\ l'[p].dp = 0 /\ l'[p].ip = 0 /\ l'[p].src = 0 /\ l'[p].rf = 0 /\ l'[p].wf = 0
        /\ \A i : ~Holds(l'[p], i)
    <3>1. <<d, j>> \in Seq(Inums) /\ Len(<<d, j>>) \in 1..2
      BY <2>3, SMTT(60)
    <3>2. PutAndReturn(p, <<d, j>>)
      BY <2>2 DEF Linked
    <3>. QED
      BY <2>1, <3>1, <3>2, ReturnFacts
  <2>6. Cached /\ \A i \in Inums : icache'[i].ref = icache[i].ref
    <3>1. icache' = Loaded(icache, d) /\ UNCHANGED dinode
      BY DEF Linked
    <3>. QED
      BY <3>1, LoadedStep
  <2>7. \A i \in Inums : icache'[i].ref = icache[i].ref + Mine(l'[p], cwd[p], i)
                                            - Mine(l[p], cwd[p], i)
    <3>1. \A i \in Inums : Mine(l[p], cwd[p], i) = B(cwd[p] = i) + B(d = i) + B(j = i)
      BY <2>2 DEF Parent
    <3>2. \A i \in Inums : Mine(l'[p], cwd[p], i) = B(cwd[p] = i) + B(d = i) + B(j = i)
      <4>1. Len(l'[p].puts) = 2 /\ l'[p].puts[1] = d /\ l'[p].puts[2] = j
        BY <2>5, SMTT(60)
      <4>2. \A i \in Inums : /\ B(l'[p].dp = i) = 0 /\ B(l'[p].ip = i) = 0 /\ B(l'[p].src = i) = 0
                             /\ B(Len(l'[p].puts) >= 1 /\ l'[p].puts[1] = i) = B(d = i)
                             /\ B(Len(l'[p].puts) >= 2 /\ l'[p].puts[2] = i) = B(j = i)
        BY <2>5, <4>1, ConstFacts, SMTT(60) DEF B
      <4>3. \A i \in Inums : B(cwd[p] = i) \in Nat /\ B(d = i) \in Nat /\ B(j = i) \in Nat
        BY DEF B
      <4>4. \A i \in Inums : Mine(l'[p], cwd[p], i) = B(cwd[p] = i) + 0 + 0 + 0 + B(d = i) + B(j = i)
        BY <4>2 DEF Mine
      <4>. QED
        BY <4>3, <4>4, SMTT(60)
    <3>3. \A i \in Inums : icache[i].ref \in Nat
      BY <2>1 DEF TypeOK, Slot
    <3>. QED
      BY <2>6, <3>1, <3>2, <3>3, SMTT(60) DEF B
  <2>8. Locked(p) /\ lock' \in [Inums -> Procs \cup {None}]
    <3>1. \A i \in Inums : Holds(l'[p], i) <=> Holds(l[p], i)
      BY <2>5 DEF Parent
    <3>2. lock' = lock /\ l'[p].pc # "iput_free" /\ lock' \in [Inums -> Procs \cup {None}]
      BY <2>1, <2>5 DEF TypeOK, Linked
    <3>. QED
      BY <2>1, <3>1, <3>2, LocksKept
  <2>9. Looked(p)
    BY <2>5 DEF Looked, LocksIp
  <2>10. /\ ents' \in [Inums -> DirEntries] /\ \A i \in Inums : i # d => ents'[i] = ents[i]
         /\ \A x \in Names : ents'[d][x] \in {j, ents[d][x]}
    <3>1. ents' = [ents EXCEPT ![d] = [ents[d] EXCEPT ![l[p].name] = j]]
      BY <2>2 DEF Linked, dirlink
    <3>2. ents[d] \in [Entries -> InoZ] /\ j \in InoZ /\ ents \in [Inums -> DirEntries]
      BY <2>1, <2>3, ConstFacts DEF TypeOK, DirEntries
    <3>3. PICK t : t = [ents[d] EXCEPT ![l[p].name] = j]
      OBVIOUS
    <3>4. t \in DirEntries
      BY <3>2, <3>3 DEF DirEntries
    <3>5. \A x \in Names : t[x] \in {j, ents[d][x]}
      BY <3>2, <3>3 DEF Entries
    <3>6. ents' \in [Inums -> DirEntries] /\ ents'[d] = t
          /\ \A i \in Inums : i # d => ents'[i] = ents[i]
      BY <3>1, <3>2, <3>3, <3>4
    <3>. QED
      BY <3>5, <3>6
  <2>11. NamesInv'
    <3>1. \A i \in Inums : dinode'[i].type # T_DIR => dinode[i].type # T_DIR /\ i # d
      BY <2>3, <2>6 DEF Cached, SameTypes
    <3>. QED
      BY <2>10, <3>1, SMTT(60) DEF IInv, NamesInv
  <2>12. UnlinkInv'
    <3>1. lock[d] \in {p, None} /\ l'[p].pc # "unlink_ip"
      BY <2>5 DEF CanLock
    <3>2. \A i \in Inums, x \in Names : i # d => ents'[i][x] = ents[i][x]
      BY <2>10
    <3>. QED
      BY <2>5, <3>1, <3>2, UnlinkKept
  <2>13. Acyclic'
    <3>1. ASSUME NEW b \in Inums, Edge(j, b)
          PROVE FALSE
      <4>1. \A x \in Names : ents[j][x] # b
        BY <2>3, <2>4, ConstFacts DEF IInv, NamesInv
      <4>2. \A q \in Procs : l[q].dp # j
        BY <2>3, <2>4 DEF IInv, Checked
      <4>. QED
        BY <3>1, <4>1, <4>2 DEF Edge
    <3>2. ASSUME NEW a \in Inums, NEW b \in Inums, Edge(a, b)'
          PROVE Edge(a, b) \/ (a = d /\ b = j)
      <4>1. CASE \E x \in Names : ents'[a][x] = b
        <5>1. PICK x \in Names : ents'[a][x] = b
          BY <4>1
        <5>2. CASE ents[a][x] = b
          BY <5>2 DEF Edge
        <5>3. CASE ents[a][x] # b
          BY <2>10, <5>1, <5>3
        <5>. QED
          BY <5>2, <5>3
      <4>2. CASE \E q \in Procs : /\ l'[q].dp = a
                                  /\ \/ l'[q].pc = "ialloc" /\ l'[q].f = b
                                     \/ l'[q].pc = "create_new" /\ l'[q].ip = b
        <5>1. PICK q \in Procs : /\ l'[q].dp = a
                                 /\ \/ l'[q].pc = "ialloc" /\ l'[q].f = b
                                    \/ l'[q].pc = "create_new" /\ l'[q].ip = b
          BY <4>2
        <5>2. q # p
          BY <2>5, <5>1
        <5>3. l'[q] = l[q]
          BY <2>5, <5>2
        <5>. QED
          BY <5>1, <5>3 DEF Edge
      <4>. QED
        BY <3>2, <4>1, <4>2 DEF Edge
    <3>3. Acyclic
      BY DEF IInv
    <3>. QED
      BY <2>3, <2>4, <3>1, <3>2, <3>3, AcyclicAdd
  <2>14. /\ l'[p].rf = l[p].rf /\ l'[p].wf = l[p].wf
         /\ icache' \in [Inums -> Slot] /\ dinode' \in [Inums -> Dinode] /\ CacheInv' /\ Stays
    BY <2>5, <2>6 DEF Cached, Parent
  <2>. QED
    BY <2>5, <2>7, <2>8, <2>9, <2>10, <2>11, <2>12, <2>13, <2>14, EntryInv

\* sys_link() with dp locked.
<1>LinkDpInv.
  ASSUME NEW p \in Procs, link_dp(p)
  PROVE IInv'
  <2>. USE <1>LinkDpInv
  <2>1. PICK d, i : d = l[p].dp /\ i = ents[d][l[p].name]
    OBVIOUS
  <2>2. l[p].pc = "link_dp" /\ CanLock(d) /\ UNCHANGED <<ftable, ofile, cwd>>
    BY <2>1 DEF link_dp, At, files
  <2>3. (i # 0 /\ LinkFound(p, d, i)) \/ Linked(p, d)
    BY <2>1 DEF link_dp, LinkFound, Linked, dirlookup
  <2>4. Parent(p)
    BY <2>2, <1>ParentFacts
  <2>5. d \in Inums /\ i \in InoZ
    <3>1. d \in Inums /\ l[p].name \in Entries
      BY <2>1, <2>4 DEF Parent
    <3>. QED
      BY <2>1, <3>1 DEF IInv, TypeOK, DirEntries
  <2>6. CASE i # 0 /\ LinkFound(p, d, i)
    <3>1. i \in Inums
      BY <2>5, <2>6, ConstFacts
    <3>. QED
      BY <2>1, <2>2, <2>4, <2>5, <2>6, <3>1, <1>LinkFoundInv
  <2>7. CASE Linked(p, d)
    BY <2>1, <2>2, <2>4, <2>5, <2>7, <1>LinkedInv
  <2>. QED
    BY <2>3, <2>6, <2>7
<1>. QED
  BY <1>CreateInv, <1>IallocInv, <1>LinkDpInv

-----------------------------------------------------------------------------
\* One step per action of FileSys.
LEMMA NextInv ==
  ASSUME SetFacts, IInv, [Next]_vars
  PROVE IInv'
<1>1. CASE UNCHANGED vars
  <2>1. UNCHANGED <<dinode, ents, icache, lock, ftable, ofile, cwd, l>>
    BY <1>1 DEF vars
  <2>. QED
    BY <2>1, StutterInv
<1>2. CASE Rest
  <2>1. UNCHANGED <<dinode, ents, icache, lock, ftable, ofile, cwd, l>>
    BY <1>2 DEF vars, Rest
  <2>. QED
    BY <2>1, StutterInv
<1>3. ASSUME NEW p \in Procs, syscall(p) PROVE IInv'
  BY <1>3, CallInv
<1>4. ASSUME NEW p \in Procs, sys_dup(p) PROVE IInv'
  BY <1>4, FileTableInv
<1>5. ASSUME NEW p \in Procs, sys_close(p) PROVE IInv'
  BY <1>5, FileTableInv
<1>6. ASSUME NEW p \in Procs, sys_fileio(p) PROVE IInv'
  BY <1>6, EndingInv
<1>7. ASSUME NEW p \in Procs, fileio(p) PROVE IInv'
  BY <1>7, EndingInv
<1>8. ASSUME NEW p \in Procs, sys_pipe(p) PROVE IInv'
  BY <1>8, FileTableInv
<1>9. ASSUME NEW p \in Procs, pipe_wf(p) PROVE IInv'
  BY <1>9, FileTableInv
<1>10. ASSUME NEW p \in Procs, pipe_fds(p) PROVE IInv'
  BY <1>10, FileTableInv
<1>11. ASSUME NEW p \in Procs, pipe_bad(p) PROVE IInv'
  BY <1>11, FileTableInv
<1>12. ASSUME NEW p \in Procs, namex(p) PROVE IInv'
  BY <1>12, LookupInv
<1>13. ASSUME NEW p \in Procs, ilock_panic(p) PROVE IInv'
  BY <1>13, IlockPanicInv
<1>14. ASSUME NEW p \in Procs, iput(p) PROVE IInv'
  BY <1>14, PutInv
<1>15. ASSUME NEW p \in Procs, iput_free(p) PROVE IInv'
  BY <1>15, PutInv
<1>16. ASSUME NEW p \in Procs, iput_drop(p) PROVE IInv'
  BY <1>16, PutInv
<1>17. ASSUME NEW p \in Procs, sys_unlink(p) PROVE IInv'
  BY <1>17, SysUnlinkInv
<1>18. ASSUME NEW p \in Procs, unlink_ip(p) PROVE IInv'
  BY <1>18, TwoInodesInv
<1>19. ASSUME NEW p \in Procs, unlink_bad(p) PROVE IInv'
  BY <1>19, EndingInv
<1>20. ASSUME NEW p \in Procs, unlink_dec(p) PROVE IInv'
  BY <1>20, EndingInv
<1>21. ASSUME NEW p \in Procs, create(p) PROVE IInv'
  BY <1>21, ParentInv
<1>22. ASSUME NEW p \in Procs, ialloc(p) PROVE IInv'
  BY <1>22, ParentInv
<1>23. ASSUME NEW p \in Procs, create_new(p) PROVE IInv'
  BY <1>23, TwoInodesInv
<1>24. ASSUME NEW p \in Procs, create_found(p) PROVE IInv'
  BY <1>24, EndingInv
<1>25. ASSUME NEW p \in Procs, created(p) PROVE IInv'
  BY <1>25, EndingInv
<1>26. ASSUME NEW p \in Procs, sys_open(p) PROVE IInv'
  BY <1>26, FileTableInv
<1>27. ASSUME NEW p \in Procs, sys_chdir(p) PROVE IInv'
  BY <1>27, EndingInv
<1>28. ASSUME NEW p \in Procs, sys_link(p) PROVE IInv'
  BY <1>28, CallInv
<1>29. ASSUME NEW p \in Procs, link_dp(p) PROVE IInv'
  BY <1>29, ParentInv
<1>30. ASSUME NEW p \in Procs, link_exists(p) PROVE IInv'
  BY <1>30, CallInv
<1>31. ASSUME NEW p \in Procs, link_bad(p) PROVE IInv'
  BY <1>31, EndingInv
<1>. QED
  BY <1>1, <1>2, <1>3, <1>4, <1>5, <1>6, <1>7, <1>8, <1>9, <1>10, <1>11, <1>12, <1>13, <1>14,
     <1>15, <1>16, <1>17, <1>18, <1>19, <1>20, <1>21, <1>22, <1>23, <1>24, <1>25, <1>26,
     <1>27, <1>28, <1>29, <1>30, <1>31 DEF Next

-----------------------------------------------------------------------------
\* What the steps use of finite sets, from the theorems of the library.
INSTANCE FiniteSetTheorems

\* A set of natural numbers has a least element.
LEMMA FirstIn ==
  ASSUME NEW S, S \subseteq Nat, S # {}
  PROVE First(S) \in S
<1>1. PICK x \in S : \A y \in S : ~(<<y, x>> \in OpToRel(<, Nat))
  BY NatLessThanWellFounded, WFMin
<1>2. ASSUME NEW y \in Nat, NEW z \in Nat, y < z
      PROVE <<y, z>> \in OpToRel(<, Nat)
  BY <1>2 DEF OpToRel
<1>3. ASSUME NEW y \in S
      PROVE x <= y
  <2>1. x \in Nat /\ y \in Nat /\ ~(y < x)
    BY <1>1, <1>2
  <2>. QED
    BY <2>1, SMTT(60)
<1>. QED
  BY <1>3 DEF First

\* What the steps use of finite sets holds.
LEMMA SetFactsHold == SetFacts
<1>1. \A S, T : IsFiniteSet(S) /\ T \subseteq S => IsFiniteSet(T)
  BY FS_Subset
<1>2. ASSUME NEW S, NEW a, IsFiniteSet(S)
      PROVE /\ Cardinality(S) \in Nat
            /\ Cardinality(S) = Cardinality(S \ {a}) + IF a \in S THEN 1 ELSE 0
  <2>1. Cardinality(S) \in Nat
    BY <1>2, FS_CardinalityType
  <2>2. Cardinality(S \ {a}) = IF a \in S THEN Cardinality(S) - 1 ELSE Cardinality(S)
    BY <1>2, FS_RemoveElement
  <2>. QED
    BY <2>1, <2>2, SMTT(60)
<1>3. IsFiniteSet(1..NFILE) /\ IsFiniteSet(1..NOFILE)
  <2>1. 1 \in Int /\ NFILE \in Int /\ NOFILE \in Int
    BY ConstFacts, SMTT(60)
  <2>. QED
    BY <2>1, FS_Interval
<1>4. IsFiniteSet(Procs \X (1..NOFILE))
  BY <1>3, ConstFacts, FS_Product
<1>5. Cardinality({}) = 0
  BY FS_EmptySet
<1>6. \A S : S \subseteq Nat /\ S # {} => First(S) \in S
  BY FirstIn
<1>. QED
  BY <1>1, <1>2, <1>3, <1>4, <1>5, <1>6 DEF SetFacts

-----------------------------------------------------------------------------
\* Theorems.

\* The invariant of the inode layer and the calls of sysfile.c on it: types, which
\* local variables are set at which point, exact reference counts, who holds which
\* lock, what a call has checked under a lock, and directories without circles.
THEOREM FileSysInvariant == Spec => []IInv
<1>1. Init => IInv
  BY InitInv, SetFactsHold
<1>2. IInv /\ [Next]_vars => IInv'
  BY NextInv, SetFactsHold
<1>. QED
  BY <1>1, <1>2, PTL DEF Spec

\* ip->ref and f->ref count exactly the pointers to an inode and to a struct file,
\* on every path through every call (fs.c iget() and iput(), file.c filedup() and
\* fileclose()).
THEOREM ReferencesAreCounted == Spec => []RefsExact
<1>1. IInv => RefsExact
  BY DEF IInv
<1>. QED
  BY <1>1, FileSysInvariant, PTL

\* The acquiresleep() that iput() calls with icache.lock held never blocks.
THEOREM IputNeverBlocks == Spec => []IputWontBlock
<1>1. IInv => IputWontBlock
  BY SetFactsHold, IputFindsNoLock
<1>. QED
  BY <1>1, FileSysInvariant, PTL

\* No set of calls waits for each other's inode locks: a call that waits with a lock
\* held is in sys_unlink() or create(), waits for an entry of the directory it has
\* locked, and names form no circle.
THEOREM InodeLocksNoCycle == Spec => []NoLockCycle
<1>1. IInv => NoLockCycle
  BY LocksFollowNames
<1>. QED
  BY <1>1, FileSysInvariant, PTL

=============================================================================
