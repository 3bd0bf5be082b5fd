--------------------------- MODULE NonceContract ----------------------------
(***************************************************************************)
(* What the challenge-response promises, without clocks, caches, tasks or  *)
(* datagrams: the server issues tickets, each to one client at one         *)
(* endpoint; a client signs orders; an order is carried out only by        *)
(* spending the live ticket it names, at the endpoint the ticket was       *)
(* issued to.  A ticket is spent at most once, and a ticket that was void  *)
(* (expired or lost in a restart) never comes back.                        *)
(***************************************************************************)
CONSTANTS Tickets, Clients, Endpoints, Orders, NoEntry

VARIABLES
    life,     \* Tickets -> "unissued", "live", "spent" or "void"
    holder,   \* Tickets -> the client and the endpoint it was issued to
    signed,   \* the orders signed so far
    done      \* the orders carried out, each with its endpoint

vars == <<life, holder, signed, done>>

Init ==
    /\ life = [n \in Tickets |-> "unissued"]
    /\ holder = [n \in Tickets |-> NoEntry]
    /\ signed = {}
    /\ done = {}

Sign(o) ==
    /\ signed' = signed \cup {o}
    /\ UNCHANGED <<life, holder, done>>

Issue(n, c, e) ==
    /\ life[n] = "unissued"
    /\ life' = [life EXCEPT ![n] = "live"]
    /\ holder' = [holder EXCEPT ![n] = <<c, e>>]
    /\ UNCHANGED <<signed, done>>

\* The order is carried out, or found unusable once its ticket is spent.
Spend(o, e) ==
    /\ o \in signed
    /\ life[o.nonce] = "live"
    /\ holder[o.nonce] = <<o.client, e>>
    /\ life' = [life EXCEPT ![o.nonce] = "spent"]
    /\ done' \in {done, done \cup {<<o, e>>}}
    /\ UNCHANGED <<holder, signed>>

Void(N) ==
    /\ \A n \in N : life[n] = "live"
    /\ life' = [n \in Tickets |-> IF n \in N THEN "void" ELSE life[n]]
    /\ UNCHANGED <<holder, signed, done>>

Next ==
    \/ \E o \in Orders : Sign(o)
    \/ \E n \in Tickets, c \in Clients, e \in Endpoints : Issue(n, c, e)
    \/ \E o \in Orders, e \in Endpoints : Spend(o, e)
    \/ \E N \in SUBSET Tickets : Void(N)

Spec == Init /\ [][Next]_vars

=============================================================================
