------------------------------ MODULE FileData ------------------------------
(***************************************************************************)
(* File contents: block allocation, bmap(), itrunc(), readi(), writei() of *)
(* kernel/fs.c and fileread(), filewrite() of kernel/file.c.               *)
(*                                                                         *)
(* A block holds BSIZE units; a unit is a byte of a file or an entry of an *)
(* indirect block, so NINDIRECT = BSIZE.  The process that holds ip->lock  *)
(* runs one writei() or readi() in a step: other processes only meet it in *)
(* the free map, which balloc() and bfree() change under a buffer lock.    *)
(* filewrite() is one step for each transaction it splits a write into.    *)
(***************************************************************************)
EXTENDS Integers, Sequences, FiniteSets, FiniteSetsExt

CONSTANTS Procs, Inums, Files,
          Opened,         \* the inodes the struct files may be open on at first
          BSIZE, NDIRECT, MAXOPBLOCKS,
          NBlocks,        \* data blocks are 1..NBlocks
          BPB,            \* free map bits in a block
          UintMod,        \* 2^32, the modulus of a uint: more than any size
          Lengths,        \* lengths passed to read() and write()
          Mapped,         \* lengths of the mapped part of a bad buffer
          MaxCalls        \* bound: number of system calls in a behaviour

FileDataAssumption ==
  /\ {BSIZE, NDIRECT, NBlocks, BPB, UintMod} \subseteq Nat \ {0}
  /\ MAXOPBLOCKS \in Nat /\ MAXOPBLOCKS >= 6
  /\ UintMod > (NDIRECT + 2 * BSIZE) * BSIZE
  /\ Opened \subseteq [Files -> Inums] /\ MaxCalls \in Nat
  /\ Lengths \subseteq Int /\ Mapped \subseteq Nat

VARIABLES bitmap,   \* blocks marked in use
          data,     \* contents of every block
          addrs,    \* ip->addrs[0..NDIRECT], 0 where there is no block
          size,     \* ip->size
          file,     \* the open struct files: inode and offset
          w,        \* the write() each process is in
          got,      \* what the last read() returned
          logged,   \* number of blocks the last transaction logged
          ncalls, panic

vars == <<bitmap, data, addrs, size, file, w, got, logged, ncalls, panic>>

NINDIRECT == BSIZE
MAXFILE   == NDIRECT + NINDIRECT
Blocks    == 1..NBlocks
Zero      == [u \in 0..BSIZE-1 |-> 0]

\* Mutant: the budget counts only the data blocks.
ChunkMax_M1 == MAXOPBLOCKS * BSIZE

\* filewrite()'s "max", in units: what fits one transaction.
ChunkMax == ((MAXOPBLOCKS - 1 - 1 - 2) \div 2) * BSIZE

NoWrite == [f |-> 0, n |-> 0, done |-> 0, v |-> 0, good |-> 0]

Init ==
  /\ bitmap = {}
  /\ data = [b \in Blocks |-> Zero]
  /\ addrs = [i \in Inums |-> [k \in 0..NDIRECT |-> 0]]
  /\ size = [i \in Inums |-> 0]
  /\ \E ip \in Opened : file = [f \in Files |-> [ip |-> ip[f], off |-> 0]]
  /\ w = [p \in Procs |-> NoWrite]
  /\ got = <<>>
  /\ logged = 0
  /\ ncalls = 0
  /\ panic = "none"

-----------------------------------------------------------------------------
(* An inode being worked on: s = [bitmap, data, a, log, full], a its addrs, *)
(* log the blocks passed to log_write().                                    *)

Open(i) == [bitmap |-> bitmap, data |-> data, a |-> addrs[i],
            log |-> {}, full |-> FALSE, b |-> 0]

BBLOCK(b) == <<"bitmap", b \div BPB>>
Data(b)   == <<"data", b>>

\* balloc(): the first free block, marked and zeroed; it panics if there is none.
balloc(s) ==
  LET free == Blocks \ s.bitmap
      b == Min(free)
  IN IF free = {} THEN [s EXCEPT !.full = TRUE, !.b = 1]
     ELSE [s EXCEPT !.bitmap = @ \cup {b}, !.data[b] = Zero, !.b = b,
                    !.log = @ \cup {Data(b), BBLOCK(b)}]

\* bmap(): s.b is the block of the bn-th block of the file, allocated if need be.
bmap(s, bn) ==
  IF bn < NDIRECT
  THEN IF s.a[bn] # 0 THEN [s EXCEPT !.b = s.a[bn]]
       ELSE LET t == balloc(s) IN [t EXCEPT !.a[bn] = t.b]
  ELSE LET t == IF s.a[NDIRECT] # 0 THEN s
                ELSE LET u == balloc(s) IN [u EXCEPT !.a[NDIRECT] = u.b]
           ind == t.a[NDIRECT]
           e == t.data[ind][bn - NDIRECT]
       IN IF e # 0 THEN [t EXCEPT !.b = e]
          ELSE LET u == balloc(t)
               IN [u EXCEPT !.data[ind][bn - NDIRECT] = u.b, !.log = @ \cup {Data(ind)}]

\* One round of writei()'s loop: units from..to-1 of the file become v.
WriteBlock(s, from, to, v) ==
  LET t == bmap(s, from \div BSIZE) IN
  [t EXCEPT !.data[t.b] = [u \in 0..BSIZE-1 |->
              IF u >= from % BSIZE /\ u < (from % BSIZE) + (to - from) THEN v ELSE @[u]],
            !.log = @ \cup {Data(t.b)}]

\* The offset at which the k-th round of a loop that starts at o begins.
Round(o, k) == IF k = 0 THEN o ELSE (o \div BSIZE + k) * BSIZE

\* The rounds a loop over n units from o takes.
Rounds(o, n) == IF n = 0 THEN 0 ELSE (o + n - 1) \div BSIZE - o \div BSIZE + 1

MinOf(m, n) == IF m < n THEN m ELSE n

\* The first k rounds of writei()'s loop.
WriteRounds(s, o, n, v, k) ==
  LET W[r \in 0..k] == IF r = 0 THEN s
        ELSE WriteBlock(W[r-1], Round(o, r-1), MinOf(Round(o, r), o + n), v)
  IN W[k]

\* The round in which either_copyin() fails at unit "to": the block has been
\* allocated, and its buffer changed up to there without log_write().
FaultRound(s, from, to, v) ==
  [WriteBlock(s, from, to, v) EXCEPT !.log = bmap(s, from \div BSIZE).log]

-----------------------------------------------------------------------------
\* Mutant: itrunc() frees the indirect block and not the blocks it lists.
Owned_M1(i) == {addrs[i][k] : k \in 0..NDIRECT}

\* itrunc(): every block of the file is freed.
Owned(i) ==
  LET ind == addrs[i][NDIRECT] IN
  {addrs[i][k] : k \in 0..NDIRECT}
    \cup (IF ind = 0 THEN {} ELSE {data[ind][k] : k \in 0..NINDIRECT-1})

bfree(bs) == bitmap' = bitmap \ bs

itrunc(i) ==
  /\ bfree(Owned(i))
  /\ addrs' = [addrs EXCEPT ![i] = [k \in 0..NDIRECT |-> 0]]
  /\ size' = [size EXCEPT ![i] = 0]

\* A process that is in no write() calls.
Calls(p) == panic = "none" /\ w[p].f = 0 /\ ncalls < MaxCalls /\ ncalls' = ncalls + 1

\* sys_open() of inode i, with or without O_TRUNC, into a struct file that was
\* closed; it starts at offset 0.
sys_open(p, f, i, trunc) ==
  /\ Calls(p)
  /\ \A q \in Procs : w[q].f # f
  /\ file' = [file EXCEPT ![f] = [ip |-> i, off |-> 0]]
  /\ IF trunc THEN itrunc(i) ELSE UNCHANGED <<bitmap, addrs, size>>
  /\ UNCHANGED <<data, w, got, logged, panic>>

\* readi() and writei() refuse an offset past the end, and off + n that wraps.
Refused(i, o, n) == o > size[i] \/ (o + n) % UintMod < o

\* readi(): the units from o that the file has, through bmap().  Only good of
\* them can be copied out; where the copy fails the complete rounds count.
readi(i, o, n, good) ==
  LET m == IF Refused(i, o, n) THEN 0 ELSE MinOf(n, size[i] - o)
      tot == IF good >= m THEN m ELSE Round(o, Rounds(o, good + 1) - 1) - o
  IN [k \in 1..tot |-> data[bmap(Open(i), (o + k - 1) \div BSIZE).b][(o + k - 1) % BSIZE]]

\* fileread() passes its int n as a uint: a negative length is a large one.
fileread(p, f, n) ==
  /\ Calls(p)
  /\ \E good \in {n % UintMod} \cup {m \in Mapped : m < n % UintMod} :
       got' = readi(file[f].ip, file[f].off, n % UintMod, good)
  /\ file' = [file EXCEPT ![f].off = @ + Len(got')]
  /\ UNCHANGED <<bitmap, data, addrs, size, w, logged, panic>>

\* filewrite() is entered with n units, of which only the first good can be
\* copied in: the rest of the user's buffer is not mapped.  The units of every
\* call have a value of their own.
sys_write(p, f, n) ==
  /\ Calls(p)
  /\ \E good \in {n} \cup {m \in Mapped : m < n} :
       w' = [w EXCEPT ![p] = [NoWrite EXCEPT !.f = f, !.n = n, !.v = ncalls', !.good = good]]
  /\ UNCHANGED <<bitmap, data, addrs, size, file, got, logged, panic>>

\* Mutant: size covers the bytes that were asked for.
writei_M1(i, o, n, v, good) ==
  LET k == IF good = n THEN Rounds(o, n) ELSE Rounds(o, good + 1) - 1 IN
  [s |-> WriteRounds(Open(i), o, n, v, k), end |-> o + n]

\* writei() of n units at o, of which good can be copied in.  Where the copy
\* fails the loop ends; size covers the complete rounds and the result is n.
writei(i, o, n, v, good) ==
  LET k == IF good = n THEN Rounds(o, n) ELSE Rounds(o, good + 1) - 1
      s == WriteRounds(Open(i), o, n, v, k)
  IN IF good = n THEN [s |-> s, end |-> o + n]
     ELSE [s |-> FaultRound(s, Round(o, k), o + good, v), end |-> Round(o, k)]

\* One transaction of filewrite(): ilock, writei(), f->off += r, iunlock; or its
\* return, when the loop got to n, which may be negative, or writei() refused.
filewrite(p) ==
  LET x == w[p]
      i == file[x.f].ip
      o == file[x.f].off
      n == MinOf(x.n - x.done, ChunkMax)
      good == IF x.good < x.done THEN 0 ELSE MinOf(x.good - x.done, n)
      r == writei(i, o, n, x.v, good)
  IN
  /\ panic = "none" /\ x.f # 0
  /\ IF n <= 0 \/ Refused(i, o, n) \/ o + n > MAXFILE * BSIZE
     THEN w' = [w EXCEPT ![p] = NoWrite] /\ UNCHANGED <<bitmap, data, addrs, size, file, logged, panic>>
     ELSE IF r.s.full
     THEN /\ panic' = "balloc: out of blocks"
          /\ UNCHANGED <<bitmap, data, addrs, size, file, w, logged>>
     ELSE /\ bitmap' = r.s.bitmap /\ data' = r.s.data
          /\ addrs' = [addrs EXCEPT ![i] = r.s.a]
          /\ size' = [size EXCEPT ![i] = IF r.end > @ THEN r.end ELSE @]
          /\ file' = [file EXCEPT ![x.f].off = o + n]
          /\ logged' = Cardinality(r.s.log) + 1
          /\ w' = [w EXCEPT ![p].done = @ + n]
          /\ UNCHANGED panic
  /\ UNCHANGED <<got, ncalls>>

Rest == (panic # "none" \/ \A p \in Procs : w[p].f = 0) /\ UNCHANGED vars

Next == Rest \/ \E p \in Procs :
  \/ filewrite(p)
  \/ \E f \in Files :
       \/ \E i \in Inums, trunc \in BOOLEAN : sys_open(p, f, i, trunc)
       \/ \E n \in Lengths : fileread(p, f, n) \/ sys_write(p, f, n)

Spec == Init /\ [][Next]_vars

-----------------------------------------------------------------------------
(* Properties.                                                              *)

\* The places that hold a block number: direct entries, the indirect entry and
\* the entries of the indirect block.
Places(i) ==
  {<<i, k>> : k \in 0..NDIRECT} \cup
  (IF addrs[i][NDIRECT] = 0 THEN {} ELSE {<<i, "ind", k>> : k \in 0..NINDIRECT-1})

At(x) == IF Len(x) = 2 THEN addrs[x[1]][x[2]] ELSE data[addrs[x[1]][NDIRECT]][x[3]]

\* The free map marks exactly the blocks some file refers to, and no block is
\* referred to from two places: writes, truncations and writes cut short by a
\* bad buffer neither leak a block nor give one to two files.
BlocksOwnedOnce ==
  LET All == UNION {Places(i) : i \in Inums} IN
  /\ bitmap = {At(x) : x \in All} \ {0}
  /\ \A x, y \in All : At(x) = At(y) /\ At(x) # 0 => x = y

\* file.c:149: the writes of one transaction, with the inode, the indirect
\* block, the free map and unaligned ends, fit what the log reserves for it.
ChunkFitsLog == logged <= MAXOPBLOCKS

\* Reads and writes through bmap() behave as on a sequence: nothing that was
\* written is lost or moved, no unit of a freed block shows up in a file, and
\* f->off moves by what was read, also when copies fail or lengths are negative.
Contents == [i \in Inums |-> [k \in 1..size[i] |->
               data[bmap(Open(i), (k - 1) \div BSIZE).b][(k - 1) % BSIZE]]]

FS == INSTANCE FileStore WITH content <- Contents, Values <- 1..MaxCalls, MaxLen <- MAXFILE * BSIZE
RefinesFileStore == FS!Spec
=============================================================================
