----------------------------- MODULE FileStore -----------------------------
(* What the inode layer promises its callers: a file is a sequence of       *)
(* units, which an open file reads and writes from its offset on.  A write  *)
(* may be cut short.  FileData implements this.                             *)
EXTENDS Naturals, Sequences

CONSTANTS Inums, Files, Values, MaxLen
VARIABLES content,   \* the files
          file,      \* the open files: inode and offset
          got        \* what the last read returned

Init == /\ content = [i \in Inums |-> <<>>]
        /\ file \in [Files -> [ip : Inums, off : {0}]]
        /\ got = <<>>

Longer(m, n) == IF m > n THEN m ELSE n
Shorter(m, n) == IF m < n THEN m ELSE n

\* c with n units v written at off.
Overlay(c, off, n, v) ==
  [k \in 1..Longer(Len(c), off + n) |-> IF k > off /\ k <= off + n THEN v ELSE c[k]]

\* Only file i changes.
Others(i) == \A j \in Inums \ {i} : content'[j] = content[j]

Move(f, n) == file' = [file EXCEPT ![f].off = @ + n]

\* A write of n units, of which the first m are written.
Write(f) ==
  LET i == file[f].ip
      old == content[i]
      new == content'[i]
  IN /\ file[f].off <= Len(old)
     /\ UNCHANGED got /\ Others(i)
     /\ \E n \in 1..MaxLen : /\ Move(f, n)
                             /\ \E m \in 0..n, v \in Values : new = Overlay(old, file[f].off, m, v)

\* A read of n units, or of what there is of them.
Read(f) ==
  LET c == content[file[f].ip]
      off == file[f].off
  IN /\ \E n \in 0..MaxLen : got' = SubSeq(c, off + 1, Shorter(off + n, Len(c)))
     /\ Move(f, Len(got')) /\ UNCHANGED content

Open(f, i) == file' = [file EXCEPT ![f] = [ip |-> i, off |-> 0]] /\ UNCHANGED got

Next == \E f \in Files :
  \/ Write(f) \/ Read(f)
  \/ \E i \in Inums : Open(f, i) /\ Others(i) /\ content'[i] \in {content[i], <<>>}

Spec == Init /\ [][Next]_<<content, file, got>>
=============================================================================
