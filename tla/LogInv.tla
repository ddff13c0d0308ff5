------------------------------- MODULE LogInv -------------------------------
(***************************************************************************)
(* The inductive invariant of Log.tla: which process may be where, how     *)
(* much log space is spoken for, and how the cache, the log blocks, the    *)
(* header and the home blocks agree at each point of commit and recovery.  *)
(***************************************************************************)
EXTENDS Log

Committers == {p \in Procs : pc[p] \in CommitStates}

Distinct(seq) ==
  \A i, j \in 1..Len(seq) : seq[i] = seq[j] => i = j

\* One process at most is in commit(), no operation runs meanwhile, and
\* log.outstanding counts the operations that do run.
ControlInv ==
  /\ outstanding = Cardinality(Active)
  /\ committing = 1 <=> Committers # {}
  /\ \A p, q \in Committers : p = q
  /\ committing = 1 => Active = {}
  /\ sys # "up" => \A p \in Procs : pc[p] = "idle"
  /\ \A p \in Procs : pc[p] \in {"write", "checked"} => held[p] \in Blocks
  /\ \A p \in Procs :
       held[p] # NoBlock => pc[p] \in {"write", "checked", "panic"}

\* A ticket for each block an active operation has logged.
Tickets ==
  {t \in Active \X (1..OpBlocks) : t[2] <= Cardinality(wrote[t[1]])}

\* Logged blocks and unused reservations fit in the log together.
SpaceInv ==
  /\ Len(lh) + outstanding * MAXOPBLOCKS <= LOGSIZE + Cardinality(Tickets)
  /\ Len(head) <= LOGSIZE
  /\ \A p \in Active : /\ Cardinality(wrote[p]) <= OpBlocks
                       /\ wrote[p] \subseteq Logged(lh)
  /\ \A p \in Procs : pc[p] \in {"write", "checked"} =>
       held[p] \in wrote[p] \/ Cardinality(wrote[p]) < OpBlocks

\* Log slots 1..n hold what the cache holds for the logged blocks.
LogCopied(n) == \A i \in 1..n : logd[i] = cache[lh[i]]

\* Home blocks of log slots 1..n hold what the log holds for them.
Installed(n) == \A i \in 1..n : home[lh[i]] = logd[i]

\* Between commits the header is clear, and with no operation so is the log.
HeaderInv ==
  sys = "up" /\ committing = 0 =>
    head = <<>> /\ (outstanding = 0 => lh = <<>>)

\* A block nobody has logged or is about to log is the same in the cache and
\* at home: it may leave the cache.
CleanInv ==
  sys = "up" => \A b \in Blocks :
    b \notin Logged(lh) /\ (\A p \in Procs : held[p] # b)
      => cache[b] = home[b]

\* recover_from_log() replays the slots of the header it read.
RecoveryInv ==
  /\ sys # "up" => cache = home
  /\ sys = "install" => lh = head /\ tail <= Len(lh) /\ Installed(tail)
  /\ sys = "clear" => lh = head /\ Installed(Len(lh))

\* How far the commit of process p has got.
CommitInv(p) ==
  /\ pc[p] \in {"commit", "write_log", "write_head", "finish"} => head = <<>>
  /\ pc[p] = "write_log" => tail <= Len(lh) /\ LogCopied(tail)
  /\ pc[p] = "write_head" => LogCopied(Len(lh))
  /\ pc[p] \in {"install", "erase"} => lh = head /\ LogCopied(Len(lh))
  /\ pc[p] = "install" => tail <= Len(lh) /\ Installed(tail)
  /\ pc[p] = "erase" => Installed(Len(lh))
  /\ pc[p] = "finish" => lh = <<>>

DataInv ==
  /\ Distinct(lh) /\ Distinct(head)
  /\ HeaderInv /\ CleanInv /\ RecoveryInv
  /\ \A p \in Procs : CommitInv(p)

\* Everything log.c relies on between two steps of it.
IInv == TypeOK /\ ControlInv /\ SpaceInv /\ DataInv /\ SleeperHasWaker

\* The reservation leaves room for the tests of log_write(), which refuse a
\* block even when it is already in the log.
RoomToSpare ==
  /\ OpBlocks + 1 <= MAXOPBLOCKS
  /\ OpBlocks + LOGSIZE + 2 <= MAXOPBLOCKS + NLog
=============================================================================
