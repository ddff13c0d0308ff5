--------------------------------- MODULE Vm ---------------------------------
(***************************************************************************)
(* Physical pages, page tables and user memory: kalloc.c, vm.c, the memory *)
(* side of fork(), growproc() and freeproc() in proc.c, exec.c, sys_exec().*)
(*                                                                         *)
(* A page table belongs to one process; processes meet in the free list,   *)
(* so a step is one kalloc(), or a run of kfree() calls.  job[p] is where  *)
(* process p is in a call that allocates, tbl[p].new the page table the    *)
(* call builds, if it builds one.  Addresses and sizes of tables count     *)
(* pages; sz counts bytes.  A page holds one value.                        *)
(***************************************************************************)
EXTENDS Integers, Sequences, FiniteSets, FiniteSetsExt

CONSTANTS Procs, None,
          NFrames,      \* physical pages
          PGSIZE,       \* bytes in a page
          Fanout,       \* entries in a page-table page
          UintMod,      \* 2^32, the modulus of a uint: more than any size
          Uint64Mod,    \* 2^64
          WORD,         \* sizeof(uint64)
          Deltas,       \* arguments of sbrk()
          Programs,     \* ELF files: sequences of segments
          NArgs,        \* numbers of arguments of exec()
          Ranges,       \* ranges of pages user memory is accessed in
          MaxCalls      \* bound: number of calls in a behaviour

MAXVA      == Fanout * Fanout * Fanout
TRAMPOLINE == MAXVA - 1
TRAPFRAME  == MAXVA - 2
Frames     == 1..NFrames
Trampoline == NFrames + 1                \* the kernel's trampoline page

VmAssumption ==
  /\ {NFrames, PGSIZE, UintMod, Uint64Mod, WORD} \subseteq Nat \ {0} /\ Fanout \in Nat /\ Fanout > 1
  /\ NFrames < TRAPFRAME        \* memory runs out before addresses do
  /\ Deltas \subseteq Int /\ NArgs \subseteq Nat /\ MaxCalls \in Nat /\ None \notin Procs

VARIABLES free,    \* the free list, as a set
          mem,     \* contents of physical pages
          tbl,     \* page tables: cur, of the process, and new, being built
          tf,      \* trapframe page of a process, 0 if the slot is unused
          sz,      \* p->sz
          job,     \* the call in progress
          got,     \* what the last copyin() got, up to the page that stopped it
          ncalls, panic

vars == <<free, mem, tbl, tf, sz, job, got, ncalls, panic>>

\* Page-table pages: the root, and the pages of lower levels that cover a va.
Key(level, va) == <<level, IF level = 0 THEN va \div Fanout ELSE va \div (Fanout * Fanout)>>
Root == <<2, 0>>
Keys == {Root} \cup {Key(l, va) : l \in 0..1, va \in 0..MAXVA-1}
Vas  == 0..MAXVA-1
User == 0..TRAPFRAME-1

NoPte   == [pa |-> 0, u |-> FALSE]
NoTable == [tab |-> [k \in Keys |-> 0], pte |-> [va \in Vas |-> NoPte]]

NoJob == [op |-> "none", pc |-> "none", on |-> "new",
          va |-> 0, last |-> 0,      \* the page being mapped; where the loop ends
          pa |-> 0,                  \* what is to be mapped there
          sz |-> 0,                  \* size of the memory built so far
          np |-> None, tf |-> 0,     \* fork: the child and its trapframe page
          f |-> <<>>, seg |-> 0,     \* exec: the program and the segment
          argv |-> {}, argc |-> 0, fits |-> FALSE]

PGROUNDUP(n) == (n + PGSIZE - 1) \div PGSIZE      \* in pages
Junk == 1                                         \* what kfree() fills a page with
Args == 2                                         \* a stack page with arguments

\* userinit(): one process, with one page; kinit() freed the other pages.
Init ==
  \E p \in Procs :
    LET table == [tab |-> [k \in Keys |->
                    CASE k = Root -> 1
                      [] k = Key(1, TRAMPOLINE) -> 2
                      [] k = Key(0, TRAMPOLINE) -> 3
                      [] k = Key(1, 0) /\ k # Key(1, TRAMPOLINE) -> 4
                      [] k = Key(0, 0) -> 5
                      [] OTHER -> 0],
                  pte |-> [va \in Vas |->
                    CASE va = 0 -> [pa |-> 6, u |-> TRUE]
                      [] va = TRAPFRAME -> [pa |-> 7, u |-> FALSE]
                      [] va = TRAMPOLINE -> [pa |-> Trampoline, u |-> FALSE]
                      [] OTHER -> NoPte]]
    IN /\ free = Frames \ 1..7
       /\ mem = [f \in Frames |-> IF f <= 7 THEN 0 ELSE Junk]
       /\ tbl = [q \in Procs |-> [cur |-> IF q = p THEN table ELSE NoTable, new |-> NoTable]]
       /\ tf = [q \in Procs |-> IF q = p THEN 7 ELSE 0]
       /\ sz = [q \in Procs |-> IF q = p THEN PGSIZE ELSE 0]
       /\ job = [q \in Procs |-> NoJob]
       /\ got = <<>> /\ ncalls = 0 /\ panic = "none"

-----------------------------------------------------------------------------
(* Steps of a call in progress.                                             *)

At(p, pc) == panic = "none" /\ job[p].pc = pc
Goto(p, pc) == job' = [job EXCEPT ![p].pc = pc]
Stop(why) == panic' = why /\ UNCHANGED <<free, mem, tbl, tf, sz, job, got, ncalls>>
Keep == UNCHANGED <<got, ncalls, panic>>

\* kalloc(): the page it returns, when there is one.
kalloc == CHOOSE f \in free : TRUE

\* The page is taken from the free list and filled with v.
Take(v) == free' = free \ {kalloc} /\ mem' = [mem EXCEPT ![kalloc] = v]

\* kfree() of the pages fs.
kfree(fs) == /\ free' = free \cup fs
             /\ mem' = [f \in Frames |-> IF f \in fs THEN Junk ELSE mem[f]]

\* allocproc() of a fork(): the trapframe page.
alloc_trapframe(p) ==
  /\ At(p, "trapframe")
  /\ IF free = {} THEN Goto(p, "fail") /\ UNCHANGED <<free, mem>>
     ELSE Take(0) /\ job' = [job EXCEPT ![p].tf = kalloc, ![p].pc = "root"]
  /\ UNCHANGED <<tbl, tf, sz>> /\ Keep

\* uvmcreate() in proc_pagetable(), which then maps the trampoline.
uvmcreate(p) ==
  /\ At(p, "root")
  /\ IF free = {} THEN Goto(p, "fail") /\ UNCHANGED <<free, mem, tbl>>
     ELSE /\ Take(0)
          /\ tbl' = [tbl EXCEPT ![p].new.tab[Root] = kalloc]
          /\ job' = [job EXCEPT ![p].pc = "walk", ![p].va = TRAMPOLINE, ![p].pa = Trampoline]
  /\ UNCHANGED <<tf, sz>> /\ Keep

\* The next page-table page that walk() has to make for va.
Missing(p) ==
  LET j == job[p] IN {l \in 0..1 : tbl[p][j.on].tab[Key(l, j.va)] = 0}

\* The page the job is about to map is one it allocated: it maps user memory.
Held(p) == IF job[p].va \in User /\ job[p].pc = "walk" THEN {job[p].pa} ELSE {}

\* Mutant: when mappages() fails the page that was to be mapped is not freed.
walk_M1(p) ==
  LET j == job[p]
      k == Key(Max(Missing(p)), j.va)
  IN /\ At(p, "walk") /\ Missing(p) # {}
     /\ IF free = {} THEN Goto(p, "fail") /\ UNCHANGED <<free, mem, tbl>>
        ELSE Take(0) /\ tbl' = [tbl EXCEPT ![p][j.on].tab[k] = kalloc] /\ UNCHANGED job
     /\ UNCHANGED <<tf, sz>> /\ Keep

\* walk() with alloc makes the page-table pages of va, from the top.  When there
\* is no page, mappages() fails, and its caller frees the page it was to map.
walk(p) ==
  LET j == job[p]
      k == Key(Max(Missing(p)), j.va)
  IN /\ At(p, "walk") /\ Missing(p) # {}
     /\ IF free = {} THEN kfree(Held(p)) /\ Goto(p, "fail") /\ UNCHANGED tbl
        ELSE Take(0) /\ tbl' = [tbl EXCEPT ![p][j.on].tab[k] = kalloc] /\ UNCHANGED job
     /\ UNCHANGED <<tf, sz>> /\ Keep

\* mappages() sets the entry.  After the trampoline comes the trapframe, after
\* that the memory, page by page.
mappages(p) ==
  LET j == job[p]
      trapframe == IF j.op = "fork" THEN j.tf ELSE tf[p]
      u == j.va \in User /\ (j.op = "fork" => tbl[p].cur.pte[j.va].u)
  IN /\ At(p, "walk") /\ Missing(p) = {}
     /\ IF tbl[p][j.on].pte[j.va] # NoPte THEN Stop("remap")
        ELSE /\ tbl' = [tbl EXCEPT ![p][j.on].pte[j.va] = [pa |-> j.pa, u |-> u]]
             /\ job' = [job EXCEPT ![p] =
                  CASE j.va = TRAMPOLINE -> [j EXCEPT !.va = TRAPFRAME, !.pa = trapframe]
                    [] j.va = TRAPFRAME -> [j EXCEPT !.va = 0, !.pc =
                                              IF j.op = "fork" THEN "page" ELSE "segment"]
                    [] OTHER -> [j EXCEPT !.va = @ + 1, !.pc = "page"]]
             /\ UNCHANGED <<free, mem, tf, sz>> /\ Keep

\* The job j about to run uvmalloc() from size a to size b.
uvmalloc(j, a, b) == [j EXCEPT !.pc = "page", !.va = PGROUNDUP(a), !.last = PGROUNDUP(b)]

\* Mutant: uvmcopy() does not copy the page.
alloc_page_M1(p) ==
  LET j == job[p] IN
  /\ At(p, "page") /\ j.va < j.last
  /\ IF free = {} THEN Goto(p, "fail") /\ UNCHANGED <<free, mem>>
     ELSE Take(0) /\ job' = [job EXCEPT ![p].pa = kalloc, ![p].pc = "walk"]
  /\ UNCHANGED <<tbl, tf, sz>> /\ Keep

\* The loop of uvmalloc() and of uvmcopy() allocates the next page; uvmcopy()
\* fills it from the parent's page.
alloc_page(p) ==
  LET j == job[p]
      old == tbl[p].cur.pte[j.va]
  IN /\ At(p, "page") /\ j.va < j.last
     /\ IF j.op = "fork" /\ old = NoPte THEN Stop("uvmcopy: page not present")
        ELSE /\ IF free = {} THEN Goto(p, "fail") /\ UNCHANGED <<free, mem>>
                ELSE /\ Take(IF j.op = "fork" THEN mem[old.pa] ELSE 0)
                     /\ job' = [job EXCEPT ![p].pa = kalloc, ![p].pc = "walk"]
             /\ UNCHANGED <<tbl, tf, sz>> /\ Keep

\* The table with the pages V unmapped, and the physical pages of V.
Unmap(t, V) == [t EXCEPT !.pte = [va \in Vas |-> IF va \in V THEN NoPte ELSE @[va]]]
PagesOf(t, V) == {t.pte[va].pa : va \in V}
TablePages(t) == {t.tab[k] : k \in Keys} \ {0}

\* What proc_freepagetable(t, n) frees, and whether it panics.
FreedBy(t, n) == PagesOf(t, 0..n-1) \cup TablePages(t)
BadFree(t, n) == \/ \E va \in (0..n-1) \cup {TRAMPOLINE, TRAPFRAME} : t.pte[va] = NoPte
                 \/ \E va \in n..TRAPFRAME-1 : t.pte[va] # NoPte

\* Mutant: uvmalloc() leaves the pages it added when it fails.
Undone_M1(p) ==
  LET j == job[p] IN
  IF j.va \notin User \/ j.op = "grow" THEN {} ELSE 0..PGROUNDUP(j.sz)-1

\* The user pages a failing call unmaps: those the loop added and, unless the
\* memory is the process's own, those below.
Undone(p) ==
  LET j == job[p] IN
  IF j.va \notin User THEN {}
  ELSE IF j.op = "grow" THEN PGROUNDUP(sz[p])..j.va-1
  ELSE 0..Max({j.va, PGROUNDUP(j.sz)})-1

\* The error paths of uvmalloc(), proc_pagetable(), uvmcopy(), allocproc(),
\* fork(), exec() and sys_exec(): what the call allocated is freed, but for the
\* page-table pages of a process that keeps its page table.
fail(p) ==
  LET j == job[p]
      t == tbl[p][j.on]
      V == Undone(p)
  IN /\ At(p, "fail")
     /\ IF \/ \E va \in V : t.pte[va] = NoPte
           \/ j.on = "new" /\ \E va \in User \ V : t.pte[va] # NoPte
        THEN Stop("freewalk: leaf")
        ELSE /\ kfree(PagesOf(t, V) \cup j.argv \cup ({j.tf} \ {0})
                      \cup (IF j.on = "new" THEN TablePages(t) ELSE {}))
             /\ tbl' = [tbl EXCEPT ![p][j.on] = IF j.on = "new" THEN NoTable ELSE Unmap(t, V)]
             /\ job' = [job EXCEPT ![p] = NoJob]
             /\ UNCHANGED <<tf, sz>> /\ Keep

-----------------------------------------------------------------------------
(* System calls.                                                            *)

Calls(p) == /\ panic = "none" /\ tf[p] # 0 /\ job[p] = NoJob
            /\ ncalls < MaxCalls /\ ncalls' = ncalls + 1

\* sys_sbrk() and growproc() with n > 0: uvmalloc() in the process's table.
grow(p, n) ==
  /\ Calls(p) /\ n > 0
  /\ job' = [job EXCEPT ![p] = uvmalloc(
               [NoJob EXCEPT !.op = "grow", !.on = "cur", !.sz = sz[p] + n], sz[p], sz[p] + n)]
  /\ UNCHANGED <<free, mem, tbl, tf, sz, got, panic>>

\* uvmdealloc(): the size it returns; it never grows.
uvmdealloc(oldsz, newsz) == IF newsz >= oldsz THEN oldsz ELSE newsz

\* growproc() with n < 0: sizes are unsigned, so that a size below zero is a
\* large one, which uvmdealloc() takes for no change.
shrink(p, n) ==
  LET to == uvmdealloc(sz[p], (sz[p] + n) % UintMod)
      V == PGROUNDUP(to)..PGROUNDUP(sz[p])-1
      t == tbl[p].cur
  IN /\ Calls(p) /\ n < 0
     /\ IF \E va \in V : t.pte[va] = NoPte
        THEN panic' = "uvmunmap: not mapped" /\ UNCHANGED <<free, mem, tbl, sz>>
        ELSE /\ kfree(PagesOf(t, V))
             /\ tbl' = [tbl EXCEPT ![p].cur = Unmap(t, V)]
             /\ sz' = [sz EXCEPT ![p] = to]
             /\ UNCHANGED panic
     /\ UNCHANGED <<tf, job, got>>

grow_done(p) ==
  /\ At(p, "page") /\ job[p].op = "grow" /\ job[p].va >= job[p].last
  /\ sz' = [sz EXCEPT ![p] = job[p].sz]
  /\ job' = [job EXCEPT ![p] = NoJob]
  /\ UNCHANGED <<free, mem, tbl, tf>> /\ Keep

\* fork() holds the lock of the free slot np until it returns.
fork(p, np) ==
  /\ Calls(p) /\ tf[np] = 0 /\ \A q \in Procs : job[q].np # np
  /\ job' = [job EXCEPT ![p] = [NoJob EXCEPT !.op = "fork", !.pc = "trapframe", !.np = np,
               !.va = TRAMPOLINE, !.last = PGROUNDUP(sz[p])]]
  /\ UNCHANGED <<free, mem, tbl, tf, sz, got, panic>>

fork_done(p) ==
  LET j == job[p] IN
  /\ At(p, "page") /\ j.op = "fork" /\ j.va >= j.last
  /\ tbl' = [tbl EXCEPT ![j.np].cur = tbl[p].new, ![p].new = NoTable]
  /\ tf' = [tf EXCEPT ![j.np] = j.tf]
  /\ sz' = [sz EXCEPT ![j.np] = sz[p]]
  /\ job' = [job EXCEPT ![p] = NoJob]
  /\ UNCHANGED <<free, mem>> /\ Keep

\* exit() of p and its parent's wait(): freeproc().
wait(p) ==
  LET t == tbl[p].cur IN
  /\ Calls(p)
  /\ IF BadFree(t, PGROUNDUP(sz[p]))
     THEN panic' = "freeproc" /\ UNCHANGED <<free, mem, tbl, tf, sz>>
     ELSE /\ kfree(FreedBy(t, PGROUNDUP(sz[p])) \cup {tf[p]})
          /\ tbl' = [tbl EXCEPT ![p].cur = NoTable]
          /\ tf' = [tf EXCEPT ![p] = 0]
          /\ sz' = [sz EXCEPT ![p] = 0]
          /\ UNCHANGED panic
  /\ UNCHANGED <<job, got>>

sys_exec(p, f, argc, fits) ==
  /\ Calls(p)
  /\ job' = [job EXCEPT ![p] = [NoJob EXCEPT !.op = "exec", !.pc = "argv", !.va = TRAMPOLINE,
               !.f = f, !.seg = 1, !.argc = argc, !.fits = fits]]
  /\ UNCHANGED <<free, mem, tbl, tf, sz, got, panic>>

\* sys_exec()'s loop: a page for each argument; then exec().  fetchaddr() or
\* fetchstr() of an argument may fail.
alloc_argv(p) ==
  LET j == job[p] IN
  /\ At(p, "argv")
  /\ IF Cardinality(j.argv) = j.argc
     THEN Goto(p, "header") /\ UNCHANGED <<free, mem>>
     ELSE IF free = {} THEN Goto(p, "fail") /\ UNCHANGED <<free, mem>>
     ELSE /\ Take(0)
          /\ \E pc \in {"argv", "fail"} :
               job' = [job EXCEPT ![p].argv = @ \cup {kalloc}, ![p].pc = pc]
  /\ UNCHANGED <<tbl, tf, sz>> /\ Keep

\* exec() finds the file and its ELF header, or fails before it has a page table.
exec_header(p) ==
  /\ At(p, "header")
  /\ \E pc \in {"root", "fail"} : Goto(p, pc)
  /\ UNCHANGED <<free, mem, tbl, tf, sz>> /\ Keep

\* exec() comes to a segment, or past the last one to the stack, and calls
\* uvmalloc().
segment(p) ==
  LET j == job[p]
      s == j.f[j.seg]
      base == PGROUNDUP(j.sz)
      end == (s.vaddr + s.memsz) % Uint64Mod
  IN /\ At(p, "segment")
     /\ IF j.seg > Len(j.f)
        THEN job' = [job EXCEPT ![p] = uvmalloc(j, base * PGSIZE, (base + 2) * PGSIZE)]
        ELSE IF s.memsz < s.filesz \/ end < s.vaddr \/ (end = 0 /\ j.sz = 0)
        THEN Goto(p, "fail")
        ELSE job' = [job EXCEPT ![p] = uvmalloc(j, j.sz, end)]
     /\ UNCHANGED <<free, mem, tbl, tf, sz>> /\ Keep

\* loadseg() into the pages of a segment, which take the value of the segment.
loadseg(p) ==
  LET j == job[p]
      s == j.f[j.seg]
      t == tbl[p].new
      nsz == Max({j.sz, s.vaddr + s.memsz})
      V == s.vaddr \div PGSIZE .. PGROUNDUP(s.vaddr + s.filesz) - 1
  IN /\ At(p, "page") /\ j.op = "exec" /\ j.va >= j.last /\ j.seg <= Len(j.f)
     /\ IF s.vaddr % PGSIZE # 0 \/ s.short
        THEN job' = [job EXCEPT ![p].sz = nsz, ![p].pc = "fail"] /\ UNCHANGED mem /\ Keep
        ELSE IF \E va \in V : ~t.pte[va].u
        THEN /\ panic' = "loadseg: address should exist"
             /\ UNCHANGED <<job, mem, got, ncalls>>
        ELSE /\ mem' = [f \in Frames |-> IF f \in PagesOf(t, V) THEN 10 + j.seg ELSE mem[f]]
             /\ job' = [job EXCEPT ![p].sz = nsz, ![p].seg = @ + 1, ![p].pc = "segment"]
             /\ Keep
     /\ UNCHANGED <<free, tbl, tf, sz>>

\* The end of exec(): the guard page, the arguments if they fit, and the new
\* page table in place of the old one, which is freed.
exec_commit(p) ==
  LET j == job[p]
      t == tbl[p].new
      old == tbl[p].cur
      freed == FreedBy(old, PGROUNDUP(sz[p])) \cup j.argv
      stack == t.pte[j.last - 1].pa
  IN /\ At(p, "page") /\ j.op = "exec" /\ j.va >= j.last /\ j.seg > Len(j.f)
     /\ IF ~j.fits
        THEN /\ job' = [job EXCEPT ![p].sz = j.last * PGSIZE, ![p].pc = "fail"]
             /\ UNCHANGED <<free, mem, tbl, sz>> /\ Keep
        ELSE IF BadFree(old, PGROUNDUP(sz[p]))
        THEN panic' = "freewalk: leaf" /\ UNCHANGED <<free, mem, tbl, sz, job, got, ncalls>>
        ELSE /\ free' = free \cup freed
             /\ mem' = [f \in Frames |-> IF f = stack THEN Args
                                         ELSE IF f \in freed THEN Junk ELSE mem[f]]
             /\ tbl' = [tbl EXCEPT ![p].cur = [t EXCEPT !.pte[j.last - 2].u = FALSE],
                                   ![p].new = NoTable]
             /\ sz' = [sz EXCEPT ![p] = j.last * PGSIZE]
             /\ job' = [job EXCEPT ![p] = NoJob]
             /\ Keep
     /\ UNCHANGED tf

-----------------------------------------------------------------------------
(* Access to user memory.                                                   *)

walkaddr(p, va) == LET e == tbl[p].cur.pte[va] IN IF e.u THEN e.pa ELSE 0

\* The pages a loop over a..b gets to before walkaddr() returns 0.
Reached(p, a, b) == {va \in a..b : \A v \in a..va : walkaddr(p, v) # 0}

\* copyout() to pages a..b, and a store of the process, which is to one page.
copyout(p, a, b) ==
  LET pas == {walkaddr(p, va) : va \in Reached(p, a, b)} IN
  /\ Calls(p)
  /\ mem' = [f \in Frames |-> IF f \in pas THEN 20 + ncalls ELSE mem[f]]
  /\ UNCHANGED <<free, tbl, tf, sz, job, got, panic>>

\* The string at page a, which is followed over pages a..b: it ends in a page of
\* zeroes.  Without one in the pages reached copyinstr() fails.
copyinstr(p, a, b) ==
  LET nul == {va \in Reached(p, a, b) : mem[walkaddr(p, va)] = 0} IN
  /\ Calls(p)
  /\ got' = IF nul = {} THEN <<>> ELSE [k \in 1..Min(nul) - a + 1 |-> mem[walkaddr(p, a + k - 1)]]
  /\ UNCHANGED <<free, mem, tbl, tf, sz, job, panic>>

\* fetchaddr() of the first word of page a: all of it below p->sz, and copied in.
fetchaddr(p, a) ==
  /\ Calls(p)
  /\ got' = IF a * PGSIZE >= sz[p] \/ a * PGSIZE + WORD > sz[p] \/ Reached(p, a, a) = {}
            THEN <<>> ELSE <<mem[walkaddr(p, a)]>>
  /\ UNCHANGED <<free, mem, tbl, tf, sz, job, panic>>

copyin(p, a, b) ==
  /\ Calls(p)
  /\ got' = [k \in 1..Cardinality(Reached(p, a, b)) |-> mem[walkaddr(p, a + k - 1)]]
  /\ UNCHANGED <<free, mem, tbl, tf, sz, job, panic>>

Rest == /\ \/ panic # "none"
           \/ \A p \in Procs : job[p] = NoJob /\ (tf[p] = 0 \/ ncalls = MaxCalls)
        /\ UNCHANGED vars

Next == Rest \/ \E p \in Procs :
  \/ alloc_trapframe(p) \/ uvmcreate(p) \/ walk(p) \/ mappages(p) \/ alloc_page(p)
  \/ grow_done(p) \/ fork_done(p) \/ fail(p)
  \/ alloc_argv(p) \/ exec_header(p) \/ segment(p) \/ loadseg(p) \/ exec_commit(p) \/ wait(p)
  \/ \E n \in Deltas : grow(p, n) \/ shrink(p, n)
  \/ \E np \in Procs : fork(p, np)
  \/ \E f \in Programs, argc \in NArgs, fits \in BOOLEAN : sys_exec(p, f, argc, fits)
  \/ \E r \in Ranges : copyout(p, r[1], r[2]) \/ copyin(p, r[1], r[2])
                         \/ copyinstr(p, r[1], r[2]) \/ \E a \in r[1]..r[2] : fetchaddr(p, a)

Spec == Init /\ [][Next]_vars

-----------------------------------------------------------------------------
(* Properties.                                                              *)

\* The uses of physical pages: by page tables, as user memory, as trapframes,
\* and by a call in progress.
Uses ==
  UNION {
    UNION {{<<p, on, "table", k, tbl[p][on].tab[k]>> : k \in {k \in Keys : tbl[p][on].tab[k] # 0}}
             \cup {<<p, on, "page", va, tbl[p][on].pte[va].pa>> :
                     va \in {va \in User : tbl[p][on].pte[va] # NoPte}} : on \in {"cur", "new"}}
      \cup {<<p, "trapframe", f>> : f \in {tf[p], job[p].tf} \ {0}}
      \cup {<<p, "argv", f>> : f \in job[p].argv}
      \cup {<<p, "held", f>> : f \in Held(p)} : p \in Procs}

\* At every step, every physical page is free or has exactly one use: a call
\* that runs out of memory at any of its allocations frees all it took and
\* nothing else (uvmalloc's and uvmcopy's error paths, exec.c "bad:").
FramesOwnedOnce ==
  /\ \A x, y \in Uses : x[Len(x)] = y[Len(y)] => x = y
  /\ {x[Len(x)] : x \in Uses} = Frames \ free

\* None of the panics of vm.c and exec.c is reached: no page is mapped twice,
\* unmapped when it is not there, or left behind in a table that is freed.
NoPanic == panic = "none"

\* The address space of a program: its segments, then the guard page and the
\* page with the arguments.
Image(f) ==
  LET pages == Max({PGROUNDUP(f[i].vaddr + f[i].memsz) : i \in DOMAIN f})
      Covers(i, k) == k > f[i].vaddr \div PGSIZE /\ k <= PGROUNDUP(f[i].vaddr + f[i].filesz)
      Value(k) == IF \E i \in DOMAIN f : Covers(i, k)
                  THEN 10 + Max({i \in DOMAIN f : Covers(i, k)}) ELSE 0
  IN [k \in 1..pages |-> [v |-> Value(k), u |-> TRUE]]
       \o <<[v |-> 0, u |-> FALSE], [v |-> Args, u |-> TRUE]>>

\* The programs exec() can load.
Loads(f) == \A s \in {f[i] : i \in DOMAIN f} :
  s.filesz <= s.memsz /\ s.vaddr + s.memsz < Uint64Mod /\ s.vaddr % PGSIZE = 0 /\ ~s.short

\* What the processes see of their memory.
Space == [p \in Procs |->
  IF tf[p] = 0 THEN <<[v |-> 0, u |-> FALSE]>>
  ELSE [k \in 1..PGROUNDUP(sz[p]) |->
          LET e == tbl[p].cur.pte[k - 1] IN [v |-> mem[e.pa], u |-> e.u]]]

\* Memory behaves as pages of each process's own: fork() copies them, exec()
\* replaces them by a program that can be loaded, exec() and sbrk() that fail leave
\* them alone, and no process's stores, nor copyout() for it, reach another's pages
\* or a page that was freed; copyin(), copyinstr() and fetchaddr() read what the
\* process's own pages hold.
AS == INSTANCE AddressSpace WITH space <- Space,
        Values <- 20..19+MaxCalls, Images <- {Image(f) : f \in {g \in Programs : Loads(g)}}
RefinesAddressSpace == AS!Spec
=============================================================================
