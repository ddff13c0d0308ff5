------------------------------ MODULE MCVirtio ------------------------------
(* The disk driver on a small instance. *)
EXTENDS Virtio, TLC

\* Processes, with their buffers and blocks, are interchangeable.
Symmetry == Permutations(Procs)
=============================================================================
