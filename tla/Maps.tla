-------------------------------- MODULE Maps --------------------------------
(***************************************************************************)
(* The server's hash maps are written as total functions whose absent keys *)
(* map to NoEntry; the same value marks an idle task.                      *)
(***************************************************************************)
EXTENDS Integers

CONSTANT NoEntry

ASSUME NoEntryAssumption == NoEntry \notin Int

Empty(keys) == [k \in keys |-> NoEntry]

=============================================================================
