---------------------------- MODULE MCHandshake -----------------------------
(***************************************************************************)
(* Instances of Handshake for TLC.                                         *)
(***************************************************************************)
EXTENDS Handshake, TLC

\* Tasks and nonces are interchangeable, and so are clients and endpoints when
\* every client is configured.
TaskNonceSymmetry ==
    Permutations(HelloTasks) \cup Permutations(AnswerTasks) \cup Permutations(Nonces)
FullSymmetry ==
    TaskNonceSymmetry \cup Permutations(ClientIds) \cup Permutations(Endpoints)

=============================================================================
