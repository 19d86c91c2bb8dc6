--------------------------- MODULE MCPermitBroker ---------------------------
(* Instances of PermitBroker for TLC.                                      *)
EXTENDS PermitBroker, TLC

\* Threads and slots are interchangeable in the safety runs.
Symmetry == Permutations(Threads) \cup Permutations(Slots)
=============================================================================
