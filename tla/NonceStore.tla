----------------------------- MODULE NonceStore -----------------------------
(***************************************************************************)
(* The store of issued challenge nonces (nonce_store.rs).  Each method     *)
(* runs under the store's mutex, so each operator is one atomic step of    *)
(* the task that calls it.                                                 *)
(***************************************************************************)
EXTENDS Maps, UnixTime

NonceEntries(clients, peers) ==
    [client : clients, peer : peers, exp : I64, used : BOOLEAN]

\* insert: a fresh, unused entry bound to the client and the UDP endpoint.
StoreInsert(store, n, client, peer, exp) ==
    [store EXCEPT ![n] = [client |-> client, peer |-> peer, exp |-> exp, used |-> FALSE]]

\* check: unused, unexpired, and bound to exactly this client and endpoint.
Check(entry, client, peer, now) ==
    /\ ~entry.used
    /\ now <= entry.exp
    /\ entry.client = client
    /\ entry.peer = peer

\* validate: the nonce is known and checks out; nothing changes.
Validates(store, n, client, peer, now) ==
    store[n] # NoEntry /\ Check(store[n], client, peer, now)

\* A plausible slip: trust the earlier validate.
MutConsumes(store, n, client, peer, now) == store[n] # NoEntry

\* consume makes the same test again, under the lock that also sets used.
Consumes(store, n, client, peer, now) ==
    store[n] # NoEntry /\ Check(store[n], client, peer, now)

\* The effect of a consume that succeeds: the entry stays, marked used.
StoreConsume(store, n) == [store EXCEPT ![n].used = TRUE]

\* purge_expired: retain now <= expires_at, used entries included.
StorePurge(store, now) ==
    [n \in DOMAIN store |->
        IF store[n] # NoEntry /\ now <= store[n].exp THEN store[n] ELSE NoEntry]

=============================================================================
