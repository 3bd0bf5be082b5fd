---------------------------- MODULE LeaseLedger -----------------------------
(***************************************************************************)
(* What the server promises whoever runs its hooks: a lease that ends is   *)
(* entered in a ledger, and each entry is settled by asking for exactly    *)
(* one revoke hook.  No lease ends unentered, no revoke is asked for that  *)
(* is not entered, and only a crash of the server loses entries.           *)
(***************************************************************************)
EXTENDS Naturals

CONSTANTS Clients

VARIABLES
    revokes,   \* whether a revoke hook is configured
    held,      \* the clients with a lease
    due,       \* how many revokes each client's ended leases still ask for
    crashes    \* how often the server stopped: nothing else passes for a crash

vars == <<revokes, held, due, crashes>>

TypeOK ==
    /\ revokes \in BOOLEAN
    /\ held \subseteq Clients
    /\ due \in [Clients -> Nat]
    /\ crashes \in Nat

Init ==
    /\ revokes \in BOOLEAN
    /\ held = {}
    /\ due = [c \in Clients |-> 0]
    /\ crashes = 0

\* A client gets its lease.
Hold(c) ==
    /\ held' = held \cup {c}
    /\ UNCHANGED <<revokes, due, crashes>>

\* The leases of the clients in S end together.
End(S) ==
    /\ held' = held \ S
    /\ due' = [c \in Clients |-> due[c] + (IF revokes /\ c \in S THEN 1 ELSE 0)]
    /\ UNCHANGED <<revokes, crashes>>

\* One revoke of c's is asked for.
Ask(c) ==
    /\ due[c] > 0
    /\ due' = [due EXCEPT ![c] = @ - 1]
    /\ UNCHANGED <<revokes, held, crashes>>

\* The server stops and starts again, perhaps with another configuration.
Crash ==
    /\ revokes' \in BOOLEAN
    /\ held' = {}
    /\ due' = [c \in Clients |-> 0]
    /\ crashes' = crashes + 1

Next ==
    \/ \E c \in Clients : Hold(c) \/ Ask(c)
    \/ \E S \in SUBSET held : End(S)
    \/ Crash

Spec == Init /\ [][Next]_vars

=============================================================================
