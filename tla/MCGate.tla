------------------------------- MODULE MCGate -------------------------------
(***************************************************************************)
(* Instances of Gate for TLC.                                              *)
(***************************************************************************)
EXTENDS Gate, TLC

\* IPs and tasks are interchangeable.
Symmetry == Permutations(IPs) \cup Permutations(Tasks)

=============================================================================
