---------------------------- MODULE LeaseTracker ----------------------------
(***************************************************************************)
(* The access leases (rate_limit.rs, LeaseTracker): one lease per client,  *)
(* with its expiry on the monotonic clock, the source IP and the parameter *)
(* of the last verified pulse.  Every method runs under the tracker's      *)
(* mutex, so every operator here is part of one atomic step.  The source   *)
(* port is carried to the hooks only and is left out.                      *)
(***************************************************************************)
EXTENDS Maps, FiniteSets

Leases(ips, params) == [expires : Nat, ip : ips, param : params \cup {NoEntry}]

\* A lease counts as live while now < expires_at.
LeaseLive(leases, c, now) == leases[c] # NoEntry /\ now < leases[c].expires

Tracked(leases) == {c \in DOMAIN leases : leases[c] # NoEntry}

\* A plausible slip: count everybody on the IP and take one off for oneself.
MutOthersOnIp(leases, ip, c, now) ==
    Cardinality({o \in Tracked(leases) : leases[o].ip = ip /\ now < leases[o].expires}) - 1

\* others_on_ip: the OTHER clients with a live lease on this IP.
OthersOnIp(leases, ip, c, now) ==
    Cardinality({o \in Tracked(leases) \ {c} : leases[o].ip = ip /\ now < leases[o].expires})

\* LeaseTracker::new: max_entries.max(1)
Capacity(maxEntries) == IF maxEntries = 0 THEN 1 ELSE maxEntries

\* A plausible slip: the cap is not looked at.
MutRenew(leases, maxEntries, c, lease) == [leases EXCEPT ![c] = lease]

\* renew: refresh a tracked client freely, admit a new one below the cap.
Renew(leases, maxEntries, c, lease) ==
    IF leases[c] # NoEntry \/ Cardinality(Tracked(leases)) < Capacity(maxEntries)
    THEN [leases EXCEPT ![c] = lease]
    ELSE leases

\* release: remove the client's lease, live or not.
Release(leases, c) == [leases EXCEPT ![c] = NoEntry]

\* take_expired: the clients whose lease is due, and the map without them.
Expired(leases, now) == {c \in Tracked(leases) : now >= leases[c].expires}

TakeExpired(leases, now) ==
    [c \in DOMAIN leases |-> IF c \in Expired(leases, now) THEN NoEntry ELSE leases[c]]

\* A plausible slip: count before draining, so that clients that expire
\* together keep each other's IP open.
MutRemainingOnIp(leases, ip, now) ==
    Cardinality({o \in Tracked(leases) : leases[o].ip = ip}) - 1

\* take_expired: what is left after the drain is live; count it by IP.
RemainingOnIp(leases, ip, now) ==
    Cardinality({o \in Tracked(TakeExpired(leases, now)) : leases[o].ip = ip})

=============================================================================
