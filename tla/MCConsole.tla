----------------------------- MODULE MCConsole -----------------------------
(* Console for TLC: the processes are alike. *)
EXTENDS Console, TLC

MCTyped == {[line |-> <<>>, edit |-> <<"a", "a">>],
            [line |-> <<"a", "eof", "a">>, edit |-> <<>>]}

MCCalls == {<<"read", 2>>, <<"write", 2>>, <<"sleep", 1>>, <<"uptime", 0>>}

Symmetry == Permutations(Procs)
=============================================================================
