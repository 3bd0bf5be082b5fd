------------------------------ MODULE MCAccess ------------------------------
(***************************************************************************)
(* Instances of Access for TLC.                                            *)
(***************************************************************************)
EXTENDS Access, TLC

\* Clients, IPs, tasks and scans are interchangeable.
Symmetry ==
    Permutations(Clients) \cup Permutations(IPs) \cup Permutations(Tasks) \cup Permutations(Scans)

=============================================================================
