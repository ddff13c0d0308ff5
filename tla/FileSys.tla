------------------------------ MODULE FileSys ------------------------------
(***************************************************************************)
(* The inode cache, directories, path names and the file system calls of   *)
(* kernel/fs.c, kernel/file.c and kernel/sysfile.c.                        *)
(*                                                                         *)
(* Every step is what a process does between two points where it may have  *)
(* to wait: it locks an inode, works under that lock and either releases   *)
(* it or keeps it for the next step.  icache.lock and ftable.lock are      *)
(* spin-locks held within a step.  Blocks, offsets and sizes are the       *)
(* subject of FileData; here a directory is a function from names to inode *)
(* numbers (0 where it has no entry) and a path a sequence of names, the   *)
(* first of them "/" when it is absolute.  Transactions group the writes   *)
(* of whole calls (Log), so the disk of this module is the logged disk.    *)
(***************************************************************************)
EXTENDS Naturals, Sequences, FiniteSets

CONSTANTS Procs, None,
          Names,      \* names a directory entry may have, "." and ".." apart
          Paths,      \* paths passed to system calls
          NewPaths,   \* second paths passed to link()
          Calls,      \* system calls the processes make
          Trees,      \* file systems that may be on the disk at first
          Homes,      \* directories the processes may be in at first
          NInodes,    \* sb.ninodes - 1: inode numbers are 1..NInodes
          NFILE, NOFILE,
          MaxCalls    \* bound: number of system calls in a behaviour

ASSUME FileSysAssumption ==
  /\ NInodes \in Nat \ {0} /\ NFILE \in Nat \ {0} /\ NOFILE \in Nat \ {0}
  /\ IsFiniteSet(Procs) /\ None \notin Procs /\ MaxCalls \in Nat
  /\ Names \cap {".", "..", "/"} = {} /\ Homes \subseteq 1..NInodes
  /\ Calls \subseteq {"open", "chdir", "link", "unlink", "mkdir", "mknod", "create",
                      "fileio", "close", "dup", "pipe"}

\* Paths are not empty, and "/" is at most their start.
ASSUME PathAssumption ==
  \A s \in Paths \cup NewPaths :
    /\ s # <<>> /\ s \in Seq(Names \cup {".", "..", "/"})
    /\ Tail(s) \in Seq(Names \cup {".", ".."})

\* A file system as mkfs or earlier calls leave it: only directories have names
\* in them, and following names never leads back.
ASSUME TreeAssumption ==
  \A t \in Trees :
    /\ t.dinode \in [1..NInodes -> [type : {"free", "dir", "file", "device"}, nlink : Nat]]
    /\ t.ents \in [1..NInodes -> [Names \cup {".", ".."} -> 0..NInodes]]
    /\ \A i \in 1..NInodes : t.dinode[i].type # "dir" => \A x \in Names : t.ents[i][x] = 0
    /\ \A D \in (SUBSET (1..NInodes)) \ {{}} :
         \E d \in D : \A x \in Names : t.ents[d][x] \notin D

VARIABLES dinode,   \* on disk: type and link count of each inode
          ents,     \* on disk: the entries of each directory
          icache,   \* the cached inode of each inode number
          lock,     \* holder of each ip->lock
          ftable,   \* the file table: ref and inode of each struct file
          ofile,    \* open files of each process
          cwd,      \* current directory of each process
          l,        \* where each process is, with its local variables
          ncalls, panic

vars == <<dinode, ents, icache, lock, ftable, ofile, cwd, l, ncalls, panic>>
disk == <<dinode, ents>>
files == <<ftable, ofile>>

ROOTINO == 1
Inums   == 1..NInodes
Entries == Names \cup {".", ".."}
T_DIR == "dir"
T_FILE == "file"
T_DEVICE == "device"

\* Calls that work on the parent directory of the path, and the type create()
\* gives a new inode.
Creates == [mkdir |-> T_DIR, mknod |-> T_DEVICE, create |-> T_FILE]

\* Local variables: dp, ip and src are references the call owns, puts the ones
\* it is about to drop with iput(), f the inode of a struct file it uses, rf and
\* wf the struct files of a pipe being made.
Idle == [pc |-> "idle", sys |-> "none", path |-> <<>>, new |-> <<>>, name |-> ".",
         dp |-> 0, ip |-> 0, src |-> 0, f |-> 0, rf |-> 0, wf |-> 0,
         puts |-> <<>>, then |-> "idle"]

\* A cache slot nobody refers to: it may hold another inode when next used.
Unused == [ref |-> 0, valid |-> FALSE, type |-> "none", nlink |-> 0]

NoEntries == [x \in Entries |-> 0]

Init ==
  /\ \E t \in Trees : dinode = t.dinode /\ ents = t.ents
  /\ cwd \in [Procs -> {i \in Homes : dinode[i].type = T_DIR}]
  /\ icache = [i \in Inums |->
                 [Unused EXCEPT !.ref = Cardinality({p \in Procs : cwd[p] = i})]]
  /\ lock = [i \in Inums |-> None]
  /\ ftable = [f \in 1..NFILE |-> [ref |-> 0, ip |-> 0]]
  /\ ofile = [p \in Procs |-> [d \in 1..NOFILE |-> 0]]
  /\ l = [p \in Procs |-> Idle]
  /\ ncalls = 0
  /\ panic = "none"

\* The free slot or number that a search from the start of a table finds.
First(S) == CHOOSE x \in S : \A y \in S : x <= y

\* Process p is at label x; panic() has stopped everybody.
At(p, x) == l[p].pc = x /\ panic = "none"

-----------------------------------------------------------------------------
(* The inode cache.                                                         *)

\* iget() and idup(): one more reference; a slot taken anew is not valid.
iget(c, i) == IF c[i].ref > 0 THEN [c EXCEPT ![i].ref = @ + 1]
                              ELSE [c EXCEPT ![i] = [Unused EXCEPT !.ref = 1]]

\* ilock() waits for ip->lock and reads the inode if the slot is not valid.
CanLock(i) == lock[i] = None /\ (icache[i].valid \/ dinode[i].type # "free")

Loaded(c, i) == IF c[i].valid THEN c
                ELSE [c EXCEPT ![i] = [ref |-> @.ref, valid |-> TRUE,
                        type |-> dinode[i].type, nlink |-> dinode[i].nlink]]

\* A change of ip->nlink followed by iupdate().
SetLinks(c, i, n) == [c EXCEPT ![i].nlink = n]

\* The inode a process that is about to call ilock() will lock.
Target(p) == CASE l[p].pc \in {"unlink", "create", "link_dp"} -> l[p].dp
               [] l[p].pc = "link_bad" -> l[p].src
               [] l[p].pc = "fileio" -> l[p].f
               [] OTHER -> l[p].ip

WillLock == {"namex", "unlink", "unlink_ip", "create", "create_new", "create_found",
             "open", "chdir", "link", "link_dp", "link_bad", "fileio"}

\* ilock() finds a free inode: panic("ilock: no type").
ilock_panic(p) ==
  /\ panic = "none" /\ l[p].pc \in WillLock /\ lock[Target(p)] = None /\ ~CanLock(Target(p))
  /\ panic' = "ilock: no type"
  /\ UNCHANGED <<dinode, ents, icache, lock, ftable, ofile, cwd, l, ncalls>>

\* The call goes on to iput() the inodes is, in order, and then to label k with
\* the local variables of r.
Put(p, is, k, r) ==
  l' = [l EXCEPT ![p] = [r EXCEPT !.pc = "iput", !.puts = is, !.then = k]]

\* The last puts of a call, after which it returns.
PutAndReturn(p, is) == Put(p, is, "idle", Idle)

\* Mutant: sys_link() returns without its second iput().
AfterPut_M1(r) == [r EXCEPT !.pc = r.then, !.puts = <<>>, !.then = "idle"]

AfterPut(r) == IF Len(r.puts) > 1 THEN [r EXCEPT !.pc = "iput", !.puts = Tail(@)]
               ELSE [r EXCEPT !.pc = r.then, !.puts = <<>>, !.then = "idle"]

Drop(c, i) == IF c[i].ref = 1 THEN [c EXCEPT ![i] = Unused]
                              ELSE [c EXCEPT ![i].ref = @ - 1]

\* Mutants: the link count, or the reference count, is not looked at.
LastUse_M1(i) == icache[i].ref = 1 /\ icache[i].valid
LastUse_M2(i) == icache[i].valid /\ icache[i].nlink = 0

\* iput()'s test, under icache.lock: nobody else refers to ip, nothing links to it.
LastUse(i) == icache[i].ref = 1 /\ icache[i].valid /\ icache[i].nlink = 0

\* iput(): drop a reference, or start freeing the inode, for which icache.lock
\* is given up once ip->lock is taken.
iput(p) ==
  LET i == Head(l[p].puts) IN
  /\ At(p, "iput")
  /\ IF LastUse(i)
     THEN /\ lock[i] = None
          /\ lock' = [lock EXCEPT ![i] = p]
          /\ l' = [l EXCEPT ![p].pc = "iput_free"]
          /\ UNCHANGED icache
     ELSE /\ icache' = Drop(icache, i)
          /\ l' = [l EXCEPT ![p] = AfterPut(@)]
          /\ UNCHANGED lock
  /\ UNCHANGED <<disk, files, cwd, ncalls, panic>>

\* iput(): itrunc(), type 0, iupdate(), releasesleep().
iput_free(p) ==
  LET i == Head(l[p].puts) IN
  /\ At(p, "iput_free")
  /\ ents' = [ents EXCEPT ![i] = NoEntries]
  /\ dinode' = [dinode EXCEPT ![i].type = "free"]
  /\ icache' = [icache EXCEPT ![i].type = "free", ![i].valid = FALSE]
  /\ lock' = [lock EXCEPT ![i] = None]
  /\ l' = [l EXCEPT ![p].pc = "iput_drop"]
  /\ UNCHANGED <<files, cwd, ncalls, panic>>

\* iput(): icache.lock again, ip->ref--.
iput_drop(p) ==
  /\ At(p, "iput_drop")
  /\ icache' = Drop(icache, Head(l[p].puts))
  /\ l' = [l EXCEPT ![p] = AfterPut(@)]
  /\ UNCHANGED <<disk, lock, files, cwd, ncalls, panic>>

-----------------------------------------------------------------------------
(* Directories.                                                             *)

\* dirlookup(): the inode number of an entry, 0 if there is none.
dirlookup(d, name) == ents[d][name]

\* dirlink() of a name that is not present: the entries with it.
dirlink(e, d, name, i) == [e EXCEPT ![d][name] = i]

-----------------------------------------------------------------------------
(* Struct files.  A struct file of a pipe, which is the subject of Pipe, has *)
(* no inode.                                                                *)

\* The slots of which filealloc() takes the first, and fdalloc().
filealloc == {f \in DOMAIN ftable : ftable[f].ref = 0}
fdalloc(p) == {d \in DOMAIN ofile[p] : ofile[p][d] = 0}

\* argfd(): the file descriptors a call may pass.
argfd(p) == {d \in DOMAIN ofile[p] : ofile[p][d] # 0}

filedup(f) == [ftable EXCEPT ![f].ref = @ + 1]

\* The file table after fileclose(); the last reference empties the slot.
fileclose(f) == [ftable EXCEPT ![f] =
  IF @.ref > 1 THEN [@ EXCEPT !.ref = ftable[f].ref - 1] ELSE [ref |-> 0, ip |-> 0]]

-----------------------------------------------------------------------------
(* Path names.                                                              *)

\* namex() starts at the root or at the current directory.
Start(p, path) == IF Head(path) = "/" THEN ROOTINO ELSE cwd[p]
Elems(path) == IF Head(path) = "/" THEN Tail(path) ELSE path

WantsParent(s) == s = "unlink" \/ s \in DOMAIN Creates \/ s = "link_dp"

\* Where a call goes on when namex() has an inode for it.
Resume(s) == IF s \in DOMAIN Creates THEN "create" ELSE s

\* namex() fails: the call drops what it holds and returns -1; sys_link() first
\* takes back the link it counted.
NamexFails(p, i) ==
  IF l[p].sys = "link_dp"
  THEN Put(p, <<i>>, "link_bad", [l[p] EXCEPT !.ip = 0])
  ELSE PutAndReturn(p, <<i>>)

\* The local variables r of a call s entering namex() with a path; a path
\* without names, "/", has no parent.
Lookup(p, s, path, r) ==
  LET i == Start(p, path) IN
  IF Elems(path) # <<>>
  THEN [r EXCEPT !.pc = "namex", !.sys = s, !.path = Elems(path), !.ip = i]
  ELSE IF ~WantsParent(s)
  THEN [r EXCEPT !.pc = Resume(s), !.sys = s, !.ip = i]
  ELSE [r EXCEPT !.pc = "iput", !.puts = <<i>>,
                 !.then = IF s = "link_dp" THEN "link_bad" ELSE "idle"]

\* One round of namex(): lock the directory, look the next name up, unlock it.
namex(p) ==
  LET i == l[p].ip
      path == l[p].path
      next == dirlookup(i, Head(path))
      s == l[p].sys
  IN
  /\ At(p, "namex") /\ CanLock(i)
  /\ LET c == Loaded(icache, i) IN
     IF c[i].type # T_DIR
     THEN icache' = c /\ NamexFails(p, i)
     ELSE IF WantsParent(s) /\ Len(path) = 1
     THEN /\ icache' = c
          /\ l' = [l EXCEPT ![p].pc = Resume(s), ![p].dp = i, ![p].ip = 0,
                            ![p].name = Head(path), ![p].path = <<>>]
     ELSE IF next = 0
     THEN icache' = c /\ NamexFails(p, i)
     ELSE /\ icache' = iget(c, next)
          /\ Put(p, <<i>>, IF Len(path) = 1 THEN Resume(s) ELSE "namex",
                 [l[p] EXCEPT !.ip = next, !.path = Tail(path)])
  /\ UNCHANGED <<disk, lock, files, cwd, ncalls, panic>>

\* A process enters a system call that takes a path (two for link).
syscall(p) ==
  /\ At(p, "idle") /\ ncalls < MaxCalls
  /\ \E s \in Calls \ {"fileio", "close", "dup", "pipe"}, path \in Paths :
     \E new \in IF s = "link" THEN NewPaths ELSE {<<>>} :
       /\ icache' = iget(icache, Start(p, path))
       /\ l' = [l EXCEPT ![p] = Lookup(p, s, path, [Idle EXCEPT !.new = new])]
  /\ ncalls' = ncalls + 1
  /\ UNCHANGED <<disk, lock, files, cwd, panic>>

-----------------------------------------------------------------------------
(* System calls.                                                            *)

\* Mutant: the names are not checked.
MayUnlink_M1(name) == TRUE

\* sys_unlink() with dp locked: "." and ".." may not be removed.
MayUnlink(name) == name \notin {".", ".."}

sys_unlink(p) ==
  LET d == l[p].dp
      i == dirlookup(d, l[p].name)
      c == Loaded(icache, d)
  IN
  /\ At(p, "unlink") /\ CanLock(d)
  /\ IF ~MayUnlink(l[p].name) \/ i = 0
     THEN icache' = c /\ PutAndReturn(p, <<d>>) /\ UNCHANGED lock
     ELSE /\ icache' = iget(c, i)
          /\ lock' = [lock EXCEPT ![d] = p]
          /\ l' = [l EXCEPT ![p].pc = "unlink_ip", ![p].ip = i]
  /\ UNCHANGED <<disk, files, cwd, ncalls, panic>>

isdirempty(i) == \A x \in Names : ents[i][x] = 0

\* sys_unlink() with both locked: erase the entry and let dp go.
unlink_ip(p) ==
  LET d == l[p].dp
      i == l[p].ip
      c == Loaded(icache, i)
      n == IF c[i].type = T_DIR THEN c[d].nlink - 1 ELSE c[d].nlink
  IN
  /\ At(p, "unlink_ip") /\ CanLock(i)
  /\ IF c[i].nlink < 1
     THEN panic' = "unlink: nlink < 1" /\ UNCHANGED <<disk, icache, lock, l>>
     ELSE IF c[i].type = T_DIR /\ ~isdirempty(i)
     THEN /\ icache' = c
          /\ Put(p, <<i>>, "unlink_bad", [l[p] EXCEPT !.ip = 0])
          /\ UNCHANGED <<disk, lock, panic>>
     ELSE /\ ents' = [ents EXCEPT ![d][l[p].name] = 0]
          /\ dinode' = SetLinks(dinode, d, n)
          /\ icache' = SetLinks(c, d, n)
          /\ lock' = [lock EXCEPT ![d] = None, ![i] = p]
          /\ Put(p, <<d>>, "unlink_dec", [l[p] EXCEPT !.dp = 0])
          /\ UNCHANGED panic
  /\ UNCHANGED <<files, cwd, ncalls>>

unlink_bad(p) ==
  /\ At(p, "unlink_bad")
  /\ lock' = [lock EXCEPT ![l[p].dp] = None]
  /\ PutAndReturn(p, <<l[p].dp>>)
  /\ UNCHANGED <<disk, icache, files, cwd, ncalls, panic>>

unlink_dec(p) ==
  LET i == l[p].ip IN
  /\ At(p, "unlink_dec")
  /\ dinode' = SetLinks(dinode, i, icache[i].nlink - 1)
  /\ icache' = SetLinks(icache, i, icache[i].nlink - 1)
  /\ lock' = [lock EXCEPT ![i] = None]
  /\ PutAndReturn(p, <<i>>)
  /\ UNCHANGED <<ents, files, cwd, ncalls, panic>>

\* create(): lock dp and look the name up; ialloc() if it is new.
create(p) ==
  LET d == l[p].dp
      i == dirlookup(d, l[p].name)
      c == Loaded(icache, d)
      free == {j \in Inums : dinode[j].type = "free"}
  IN
  /\ At(p, "create") /\ CanLock(d)
  /\ IF i # 0
     THEN /\ icache' = iget(c, i)
          /\ Put(p, <<d>>, "create_found", [l[p] EXCEPT !.dp = 0, !.ip = i])
          /\ UNCHANGED <<disk, lock, panic>>
     ELSE IF free = {}
     THEN panic' = "ialloc: no inodes" /\ UNCHANGED <<disk, icache, lock, l>>
     ELSE /\ dinode' = [dinode EXCEPT ![First(free)] =
                          [type |-> Creates[l[p].sys], nlink |-> 0]]
          /\ icache' = c
          /\ lock' = [lock EXCEPT ![d] = p]
          /\ l' = [l EXCEPT ![p].pc = "ialloc", ![p].f = First(free)]
          /\ UNCHANGED <<ents, panic>>
  /\ UNCHANGED <<files, cwd, ncalls>>

\* ialloc(): iget() of the inode it marked.
ialloc(p) ==
  /\ At(p, "ialloc")
  /\ icache' = iget(icache, l[p].f)
  /\ l' = [l EXCEPT ![p].pc = "create_new", ![p].ip = l[p].f, ![p].f = 0]
  /\ UNCHANGED <<disk, lock, files, cwd, ncalls, panic>>

\* create() with both locked: link count, "." and "..", the entry in dp.
create_new(p) ==
  LET d == l[p].dp
      i == l[p].ip
      dir == Creates[l[p].sys] = T_DIR
      c == Loaded(icache, i)
      n == IF dir THEN c[d].nlink + 1 ELSE c[d].nlink
      dots == IF dir THEN [ents[i] EXCEPT !["."] = i, ![".."] = d] ELSE ents[i]
  IN
  /\ At(p, "create_new") /\ CanLock(i)
  /\ icache' = SetLinks(SetLinks(c, i, 1), d, n)
  /\ dinode' = SetLinks(SetLinks(dinode, i, 1), d, n)
  /\ ents' = dirlink([ents EXCEPT ![i] = dots], d, l[p].name, i)
  /\ lock' = [lock EXCEPT ![d] = None, ![i] = p]
  /\ Put(p, <<d>>, "created", [l[p] EXCEPT !.dp = 0])
  /\ UNCHANGED <<files, cwd, ncalls, panic>>

\* create() of a name that exists: only a file or device may be opened.
create_found(p) ==
  LET i == l[p].ip
      c == Loaded(icache, i)
  IN
  /\ At(p, "create_found") /\ CanLock(i)
  /\ icache' = c
  /\ IF l[p].sys = "create" /\ c[i].type # T_DIR
     THEN lock' = [lock EXCEPT ![i] = p] /\ l' = [l EXCEPT ![p].pc = "created"]
     ELSE PutAndReturn(p, <<i>>) /\ UNCHANGED lock
  /\ UNCHANGED <<disk, files, cwd, ncalls, panic>>

\* sys_mkdir() and sys_mknod(): iunlockput(ip).
created(p) ==
  /\ At(p, "created") /\ l[p].sys \in {"mkdir", "mknod"}
  /\ lock' = [lock EXCEPT ![l[p].ip] = None]
  /\ PutAndReturn(p, <<l[p].ip>>)
  /\ UNCHANGED <<disk, icache, files, cwd, ncalls, panic>>

\* sys_open() from ilock(ip), or from create()'s locked ip, to its return:
\* filealloc(), fdalloc(), f->ip = ip.  A mode that is not O_RDONLY fails on a
\* directory and so does a device whose major number is out of range.
sys_open(p) ==
  LET i == l[p].ip
      c == Loaded(icache, i)
      ff == filealloc
      fd == fdalloc(p)
  IN
  /\ \/ At(p, "open") /\ CanLock(i)
     \/ At(p, "created") /\ l[p].sys = "create"
  /\ icache' = c
  /\ lock' = [lock EXCEPT ![i] = None]
  /\ \/ /\ \/ ff = {} \/ fd = {}
           \/ c[i].type \in {T_DIR, T_DEVICE}
        /\ PutAndReturn(p, <<i>>) /\ UNCHANGED files
     \/ /\ ff # {} /\ fd # {}
        /\ ftable' = [ftable EXCEPT ![First(ff)] = [ref |-> 1, ip |-> i]]
        /\ ofile' = [ofile EXCEPT ![p][First(fd)] = First(ff)]
        /\ l' = [l EXCEPT ![p] = Idle]
  /\ UNCHANGED <<disk, cwd, ncalls, panic>>

\* sys_chdir(): the old current directory is put, the new one kept.
sys_chdir(p) ==
  LET i == l[p].ip
      c == Loaded(icache, i)
  IN
  /\ At(p, "chdir") /\ CanLock(i)
  /\ icache' = c
  /\ IF c[i].type # T_DIR
     THEN PutAndReturn(p, <<i>>) /\ UNCHANGED cwd
     ELSE PutAndReturn(p, <<cwd[p]>>) /\ cwd' = [cwd EXCEPT ![p] = i]
  /\ UNCHANGED <<disk, lock, files, ncalls, panic>>

\* sys_link(): count the link, then look for the directory of the new name.
sys_link(p) ==
  LET i == l[p].ip
      c == Loaded(icache, i)
  IN
  /\ At(p, "link") /\ CanLock(i)
  /\ IF c[i].type = T_DIR
     THEN icache' = c /\ PutAndReturn(p, <<i>>) /\ UNCHANGED dinode
     ELSE /\ dinode' = SetLinks(dinode, i, c[i].nlink + 1)
          /\ icache' = iget(SetLinks(c, i, c[i].nlink + 1), Start(p, l[p].new))
          /\ l' = [l EXCEPT ![p] = Lookup(p, "link_dp", l[p].new,
                                          [Idle EXCEPT !.src = i])]
  /\ UNCHANGED <<ents, lock, files, cwd, ncalls, panic>>

\* sys_link() with dp locked: dirlink() refuses a name that is present.
link_dp(p) ==
  LET d == l[p].dp
      i == dirlookup(d, l[p].name)
      c == Loaded(icache, d)
  IN
  /\ At(p, "link_dp") /\ CanLock(d)
  /\ IF i # 0
     THEN /\ icache' = iget(c, i)
          /\ lock' = [lock EXCEPT ![d] = p]
          /\ Put(p, <<i>>, "link_exists", l[p])
          /\ UNCHANGED ents
     ELSE /\ icache' = c
          /\ ents' = dirlink(ents, d, l[p].name, l[p].src)
          /\ PutAndReturn(p, <<d, l[p].src>>)
          /\ UNCHANGED lock
  /\ UNCHANGED <<dinode, files, cwd, ncalls, panic>>

link_exists(p) ==
  /\ At(p, "link_exists")
  /\ lock' = [lock EXCEPT ![l[p].dp] = None]
  /\ Put(p, <<l[p].dp>>, "link_bad", [l[p] EXCEPT !.dp = 0])
  /\ UNCHANGED <<disk, icache, files, cwd, ncalls, panic>>

\* sys_link(), bad: take the link count back.
link_bad(p) ==
  LET i == l[p].src
      c == Loaded(icache, i)
  IN
  /\ At(p, "link_bad") /\ CanLock(i)
  /\ dinode' = SetLinks(dinode, i, c[i].nlink - 1)
  /\ icache' = SetLinks(c, i, c[i].nlink - 1)
  /\ PutAndReturn(p, <<i>>)
  /\ UNCHANGED <<ents, lock, files, cwd, ncalls, panic>>

\* sys_dup(): fdalloc(), then filedup().
sys_dup(p) ==
  /\ At(p, "idle") /\ "dup" \in Calls /\ ncalls < MaxCalls
  /\ fdalloc(p) # {}
  /\ \E d \in argfd(p) :
       /\ ofile' = [ofile EXCEPT ![p][First(fdalloc(p))] = ofile[p][d]]
       /\ ftable' = filedup(ofile[p][d])
  /\ ncalls' = ncalls + 1
  /\ UNCHANGED <<disk, icache, lock, cwd, l, panic>>

\* sys_close(), fileclose(): the last reference puts the inode.
sys_close(p) ==
  /\ At(p, "idle") /\ "close" \in Calls /\ ncalls < MaxCalls
  /\ \E d \in argfd(p) :
       LET f == ofile[p][d] IN
       /\ ofile' = [ofile EXCEPT ![p][d] = 0]
       /\ ftable' = fileclose(f)
       /\ IF ftable[f].ref > 1 \/ ftable[f].ip = 0 THEN UNCHANGED l
          ELSE PutAndReturn(p, <<ftable[f].ip>>)
  /\ ncalls' = ncalls + 1
  /\ UNCHANGED <<disk, icache, lock, cwd, panic>>

\* sys_read(), sys_write(), sys_fstat() of an inode: ilock(f->ip) ... iunlock.
sys_fileio(p) ==
  /\ At(p, "idle") /\ "fileio" \in Calls /\ ncalls < MaxCalls
  /\ \E d \in argfd(p) :
       /\ ftable[ofile[p][d]].ip # 0
       /\ l' = [l EXCEPT ![p].pc = "fileio", ![p].f = ftable[ofile[p][d]].ip]
  /\ ncalls' = ncalls + 1
  /\ UNCHANGED <<disk, icache, lock, files, cwd, panic>>

fileio(p) ==
  /\ At(p, "fileio") /\ CanLock(l[p].f)
  /\ icache' = Loaded(icache, l[p].f)
  /\ l' = [l EXCEPT ![p] = Idle]
  /\ UNCHANGED <<disk, lock, files, cwd, ncalls, panic>>

\* sys_pipe(), pipealloc(): one struct file, then another.
sys_pipe(p) ==
  /\ At(p, "idle") /\ "pipe" \in Calls /\ ncalls < MaxCalls
  /\ filealloc # {}
  /\ ftable' = [ftable EXCEPT ![First(filealloc)].ref = 1]
  /\ l' = [l EXCEPT ![p].pc = "pipe_wf", ![p].rf = First(filealloc)]
  /\ ncalls' = ncalls + 1
  /\ UNCHANGED <<disk, icache, lock, ofile, cwd, panic>>

pipe_wf(p) ==
  /\ At(p, "pipe_wf")
  /\ IF filealloc = {} THEN l' = [l EXCEPT ![p].pc = "pipe_bad"] /\ UNCHANGED ftable
     ELSE /\ ftable' = [ftable EXCEPT ![First(filealloc)].ref = 1]
          /\ l' = [l EXCEPT ![p].pc = "pipe_fds", ![p].wf = First(filealloc)]
  /\ UNCHANGED <<disk, icache, lock, ofile, cwd, ncalls, panic>>

\* sys_pipe(): two descriptors, unless kalloc(), fdalloc() or copyout() fails.
pipe_fds(p) ==
  LET fd0 == First(fdalloc(p))
      fd1 == First(fdalloc(p) \ {fd0})
  IN
  /\ At(p, "pipe_fds")
  /\ \/ l' = [l EXCEPT ![p].pc = "pipe_bad"] /\ UNCHANGED ofile
     \/ /\ Cardinality(fdalloc(p)) >= 2
        /\ ofile' = [ofile EXCEPT ![p][fd0] = l[p].rf, ![p][fd1] = l[p].wf]
        /\ l' = [l EXCEPT ![p] = Idle]
  /\ UNCHANGED <<disk, icache, lock, ftable, cwd, ncalls, panic>>

\* The error paths close rf, then wf.
pipe_bad(p) ==
  /\ At(p, "pipe_bad")
  /\ ftable' = fileclose(l[p].rf)
  /\ l' = [l EXCEPT ![p] = IF l[p].wf = 0 THEN Idle
                             ELSE [l[p] EXCEPT !.rf = l[p].wf, !.wf = 0]]
  /\ UNCHANGED <<disk, icache, lock, ofile, cwd, ncalls, panic>>

-----------------------------------------------------------------------------
\* Processes may stay in user space, and panic() stops them all.
Rest ==
  /\ panic # "none" \/ \A p \in Procs : l[p].pc = "idle"
  /\ UNCHANGED vars

Next == Rest \/ \E p \in Procs :
  \/ syscall(p) \/ sys_dup(p) \/ sys_close(p) \/ sys_fileio(p) \/ fileio(p)
  \/ sys_pipe(p) \/ pipe_wf(p) \/ pipe_fds(p) \/ pipe_bad(p)
  \/ namex(p) \/ ilock_panic(p) \/ iput(p) \/ iput_free(p) \/ iput_drop(p)
  \/ sys_unlink(p) \/ unlink_ip(p) \/ unlink_bad(p) \/ unlink_dec(p)
  \/ create(p) \/ ialloc(p) \/ create_new(p) \/ create_found(p) \/ created(p)
  \/ sys_open(p) \/ sys_chdir(p)
  \/ sys_link(p) \/ link_dp(p) \/ link_exists(p) \/ link_bad(p)

Spec == Init /\ [][Next]_vars

-----------------------------------------------------------------------------
(* Properties.                                                              *)

\* References to inode i held by current directories, open files and calls.
Pointers(i) ==
  Cardinality({p \in Procs : cwd[p] = i})
  + Cardinality({f \in DOMAIN ftable : ftable[f].ref > 0 /\ ftable[f].ip = i})
  + Cardinality({p \in Procs : l[p].dp = i})
  + Cardinality({p \in Procs : l[p].ip = i})
  + Cardinality({p \in Procs : l[p].src = i})
  + Cardinality({p \in Procs : Len(l[p].puts) >= 1 /\ l[p].puts[1] = i})
  + Cardinality({p \in Procs : Len(l[p].puts) >= 2 /\ l[p].puts[2] = i})

\* References to struct file f held by descriptors and calls.
FilePointers(f) ==
  Cardinality({pd \in Procs \X (1..NOFILE) : ofile[pd[1]][pd[2]] = f})
  + Cardinality({p \in Procs : l[p].rf = f}) + Cardinality({p \in Procs : l[p].wf = f})

\* fs.c:131: ip->ref counts exactly the in-memory pointers to the inode, on
\* every path through every call, so no slot is recycled while it is in use
\* and none is kept for ever; f->ref likewise counts the pointers to a struct
\* file, whichever step of sys_pipe() fails.
RefsExact ==
  /\ \A i \in Inums : icache[i].ref = Pointers(i)
  /\ \A f \in DOMAIN ftable : ftable[f].ref = FilePointers(f)

\* The directories that can be reached from the root.
Tree ==
  LET R[n \in 0..NInodes] ==
        IF n = 0 THEN {ROOTINO}
        ELSE R[n-1] \cup ({ents[d][x] : d \in R[n-1], x \in Names} \ {0})
  IN R[NInodes]

\* Every name in the tree leads to an allocated inode, and its link count is
\* never below the number of names (".." included) that lead to it: no order
\* of calls frees an inode that still has a name.
NamesAreLinked ==
  \A i \in Tree :
    /\ dinode[i].type # "free"
    /\ dinode[i].nlink >= Cardinality({dx \in Tree \X (Entries \ {"."}) :
                                         ents[dx[1]][dx[2]] = i})

\* fs.c:340: "ip->ref == 1 means no other process can have ip locked, so this
\* acquiresleep() won't block (or deadlock)": it is called with icache.lock held.
IputWontBlock ==
  \A p \in Procs : l[p].pc = "iput" /\ LastUse(Head(l[p].puts))
                     => lock[Head(l[p].puts)] = None

\* No set of calls waits for each other's inode locks, whichever directories and
\* files they name: sys_unlink() and create() lock a directory and then one of
\* its entries, everyone else one inode at a time.
NoLockCycle ==
  ~ \E S \in (SUBSET Procs) \ {{}} : \A p \in S :
      l[p].pc \in WillLock /\ lock[Target(p)] \in S

\* fs.c:310, panic("ilock: no type"): the inode that a call has a reference to and
\* is about to use has a type, that is, nobody freed it since the entry that names
\* it was read.
IlockFindsType == panic # "ilock: no type"
=============================================================================
