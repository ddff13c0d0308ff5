----------------------------- MODULE MCFileSys -----------------------------
(* Small instances of FileSys: a fresh file system, and one with /a/b.     *)
EXTENDS FileSys, TLC

MCPaths == {<<"/", "a">>, <<"b">>, <<"..", "b">>, <<"b", "..">>}
MCNewPaths == {<<"..", "b">>}

\* What mkdir and open leave: the root, and /a with an entry b of type t in it.
Tree0(t) ==
  [dinode |-> [i \in Inums |->
     IF i = 1 THEN [type |-> T_DIR, nlink |-> IF t = "free" THEN 1 ELSE 2]
     ELSE IF i = 2 /\ t # "free" THEN [type |-> T_DIR, nlink |-> IF t = T_DIR THEN 2 ELSE 1]
     ELSE IF i = 3 /\ t # "free" THEN [type |-> t, nlink |-> 1]
     ELSE [type |-> "free", nlink |-> 0]],
   ents |-> [i \in Inums |->
     IF i = 1 THEN [NoEntries EXCEPT !["."] = 1, ![".."] = 1,
                                     !["a"] = IF t = "free" THEN 0 ELSE 2]
     ELSE IF i = 2 /\ t # "free"
     THEN [NoEntries EXCEPT !["."] = 2, ![".."] = 1, !["b"] = 3]
     ELSE IF i = 3 /\ t = T_DIR
     THEN [NoEntries EXCEPT !["."] = 3, ![".."] = 2]
     ELSE NoEntries]]

MCTrees == {Tree0(T_DIR), Tree0(T_FILE)}
Symmetry == Permutations(Procs)
=============================================================================
