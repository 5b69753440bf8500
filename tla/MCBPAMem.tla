------------------------------ MODULE MCBPAMem ------------------------------
(* Small instances of module BPAMem for TLC. *)
EXTENDS BPAMem, TLC

\* Neither the processes nor the ranges of the partition are told apart.
Symmetry == Permutations(Clients) \cup Permutations(Chunks)
=============================================================================
