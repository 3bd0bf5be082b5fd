------------------------------ MODULE MCStatus ------------------------------
(***************************************************************************)
(* The instance of Status for TLC.                                         *)
(***************************************************************************)
EXTENDS Status, TLC

\* Pids are only compared for equality; `status` commands are interchangeable.
Symmetry == Permutations(Pids) \cup Permutations(Requests)

=============================================================================
