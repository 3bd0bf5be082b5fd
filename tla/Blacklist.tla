------------------------------ MODULE Blacklist -----------------------------
(***************************************************************************)
(* The IP blacklist and the windows behind attack lockdown (rate_limit.rs, *)
(* Blacklist).  An entry counts an IP's faulty packets until the IP is     *)
(* blocked; events and rejections are the times of recent blacklistings    *)
(* and rejected packets.  Each operator is one locked section.             *)
(***************************************************************************)
EXTENDS HelloRateLimiter, Sequences

Entries == [faults : Nat, until : Nat \cup {NoEntry}]

\* is_blocked_at
Blocked(entries, ip, now) ==
    entries[ip] # NoEntry /\ entries[ip].until # NoEntry /\ now < entries[ip].until

\* A plausible slip: a blocked IP is counted from one again.
MutFaulted(entry, now, threshold, duration) ==
    LET faults == IF entry = NoEntry \/ entry.until # NoEntry THEN 1 ELSE entry.faults + 1 IN
    [faults |-> faults, until |-> IF faults > threshold THEN now + duration ELSE NoEntry]

\* The entry of an IP after one more faulty packet: extend a block that runs,
\* start counting again after one that is over, block above the threshold.
Faulted(entry, now, threshold, duration) ==
    LET faults == IF entry = NoEntry THEN 1 ELSE entry.faults + 1 IN
    IF entry # NoEntry /\ entry.until # NoEntry
    THEN IF now < entry.until THEN [entry EXCEPT !.until = now + duration]
                              ELSE [faults |-> 1, until |-> NoEntry]
    ELSE [faults |-> faults, until |-> IF faults > threshold THEN now + duration ELSE NoEntry]

\* record_faulty_at, the section under the state lock.
RecordFaulty(entries, ip, now, threshold, duration, maxEntries) ==
    IF threshold = 0 \/ TableFull(entries, ip, maxEntries) THEN entries
    ELSE [entries EXCEPT ![ip] = Faulted(@, now, threshold, duration)]

\* The packet that newly blocks the IP; a first fault never does.
Trips(entries, ip, threshold) ==
    /\ threshold > 0 /\ entries[ip] # NoEntry
    /\ entries[ip].until = NoEntry /\ entries[ip].faults + 1 > threshold

\* A plausible slip: nothing is ever forgotten.
MutTrim(q, now, window) == q

\* trim: forget the oldest times, up to the first one inside the window.
Trim(q, now, window) ==
    LET keep == {i \in 1 .. Len(q) : now - q[i] <= window}
        first == CHOOSE i \in keep : \A j \in keep : i <= j
    IN  IF keep = {} THEN <<>> ELSE SubSeq(q, first, Len(q))

\* push_back and trim.
Noted(q, now, window) == Trim(Append(q, now), now, window)

\* purge_stale: only running blocks are kept, counts of unblocked IPs are not.
BlacklistPurge(entries, now) ==
    [ip \in DOMAIN entries |-> IF Blocked(entries, ip, now) THEN entries[ip] ELSE NoEntry]

=============================================================================
