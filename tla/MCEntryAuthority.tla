-------------------------- MODULE MCEntryAuthority --------------------------
(* Symmetry sets for the runs of EntryAuthority.                           *)
EXTENDS EntryAuthority, TLC

Symmetry == Permutations(Workers) \cup Permutations(OrderIds)
=============================================================================
