------------------------------ MODULE MCBcache ------------------------------
EXTENDS Bcache, TLC

\* Processes, blocks and buffers are interchangeable.
Symmetry == Permutations(Procs) \cup Permutations(Blocks) \cup Permutations(Bufs)
=============================================================================
