----------------------------- MODULE MCProcess -----------------------------
(***************************************************************************)
(* What a process is made of, for TLC: its slot in the process table       *)
(* (Proc), its memory (Vm) and the contents of its files (FileData).  The  *)
(* three share no state of the kernel, so a behaviour is one of one part:  *)
(* the table stays as it is at boot while another part runs, and a part    *)
(* that does not run has no state.                                         *)
(***************************************************************************)
EXTENDS Proc, TLC

CONSTANTS None, Users, UintMod, MaxCalls,
          NFrames, PGSIZE, Fanout, Uint64Mod, WORD, Deltas, Programs, NArgs, Ranges,
          Inums, Files, Opened, BSIZE, NDIRECT, MAXOPBLOCKS, NBlocks, BPB, Lengths, Mapped

VARIABLES part,                                         \* the part that runs
          free, mem, tbl, tf, sz, job,                  \* Vm
          bitmap, data, addrs, size, file, w, logged,   \* FileData
          got, ncalls, panic                            \* of the part that runs

vmvars == <<free, mem, tbl, tf, sz, job>>
datavars == <<bitmap, data, addrs, size, file, w, logged>>
callvars == <<got, ncalls, panic>>

V == INSTANCE Vm WITH Procs <- Users
F == INSTANCE FileData WITH Procs <- Users

ASSUME PartsAssumption == V!VmAssumption /\ F!FileDataAssumption

MCDeltas == {-3, 3}
MCRanges == {<<0, 0>>, <<0, 3>>}

\* Programs that load, that end early, with a segment that is not aligned, and
\* with one whose end is past 2^64.
Seg(vaddr, memsz, filesz, short) ==
  [vaddr |-> vaddr, memsz |-> memsz, filesz |-> filesz, short |-> short]
MCPrograms == {<<Seg(0, 3, 2, FALSE)>>,
               <<Seg(0, 1, 1, FALSE), Seg(2, 1, 1, TRUE)>>,
               <<Seg(0, 1, 1, FALSE), Seg(3, 1, 0, FALSE)>>,
               <<Seg(0, 1, 1, FALSE), Seg(62, 4, 0, FALSE)>>}

MCLengths == {-1, 3, 5}
MCOpened == {<<1, 1>>, <<1, 2>>}

Symmetry == Permutations(Users)

NoMemory == free = 0 /\ mem = 0 /\ tbl = 0 /\ tf = 0 /\ sz = 0 /\ job = 0
NoData == bitmap = 0 /\ data = 0 /\ addrs = 0 /\ size = 0 /\ file = 0 /\ w = 0 /\ logged = 0

PartsInit ==
  /\ Init
  /\ \/ part = "memory" /\ V!Init /\ NoData
     \/ part = "files" /\ F!Init /\ NoMemory
     \/ part = "table" /\ NoMemory /\ NoData /\ got = 0 /\ ncalls = 0 /\ panic = 0

\* The process table may come to rest: no process is left to run.
PartsNext ==
  \/ part = "table" /\ (Next \/ UNCHANGED vars) /\ UNCHANGED <<part, vmvars, datavars, callvars>>
  \/ part = "memory" /\ V!Next /\ UNCHANGED <<part, vars, datavars>>
  \/ part = "files" /\ F!Next /\ UNCHANGED <<part, vars, vmvars>>

PartsSpec == PartsInit /\ [][PartsNext]_<<part, vars, vmvars, datavars, callvars>>

\* vm.c and exec.c: every physical page is free or has exactly one use, at every
\* step of every call, the failing ones included (Vm).
FramesOwnedOnce == part = "memory" => V!FramesOwnedOnce

\* None of the panics of vm.c and exec.c is reached (Vm).
NoVmPanic == part = "memory" => V!NoPanic

\* A process's memory is its own, whatever fork(), exec(), sbrk() and the copies
\* of the kernel do: Vm implements AddressSpace.
RefinesAddressSpace ==
  /\ part = "memory" => V!AS!Init
  /\ [][part = "memory" => [V!AS!Next]_<<V!Space, got>>]_<<vmvars, callvars>>

\* fs.c: the free map marks exactly the blocks that files refer to, and each is
\* referred to from one place, after every write, truncation and write that was cut
\* short (FileData).
BlocksOwnedOnce == part = "files" => F!BlocksOwnedOnce

\* file.c:149: a transaction of filewrite() fits what the log reserves (FileData).
ChunkFitsLog == part = "files" => F!ChunkFitsLog

\* Reads and writes of a file behave as on a sequence: FileData implements
\* FileStore.
RefinesFileStore ==
  /\ part = "files" => F!FS!Init
  /\ [][part = "files" => [F!FS!Next]_<<F!Contents, file, got>>]_<<datavars, callvars>>
=============================================================================
