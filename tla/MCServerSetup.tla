--------------------------- MODULE MCServerSetup ----------------------------
(***************************************************************************)
(* The instance of ServerSetup for TLC.                                    *)
(***************************************************************************)
EXTENDS ServerSetup, TLC

Symmetry == Permutations(Commands) \cup Permutations(Ids) \cup Permutations(PublicKeys)

=============================================================================
