------------------------------- MODULE MCWire -------------------------------
(***************************************************************************)
(* The instance of Wire for TLC.                                           *)
(***************************************************************************)
EXTENDS Wire, TLC

\* Parameters: empty, between the two limits, like an option, unprintable.
TextsToSend == {<<>>, <<"-">>, <<"a", "a">>, <<"control">>}

\* A lease from an earlier cycle has the parameter of two characters.
TextsStored == {<<"a", "a">>}

Symmetry == Permutations(Secrets)

=============================================================================
