-------------------------- MODULE HelloRateLimiter --------------------------
(***************************************************************************)
(* The fixed-window HELLO limiter (rate_limit.rs, HelloRateLimiter): for   *)
(* each source IP the start of its window and the HELLOs let through in    *)
(* it.  A budget of zero switches it off, a table that is full lets an     *)
(* unknown IP pass untracked (maxEntries = 0: no cap).                     *)
(***************************************************************************)
EXTENDS Maps, FiniteSets

Windows == [start : Nat, count : Nat]

TableFull(table, ip, maxEntries) ==
    /\ maxEntries > 0 /\ table[ip] = NoEntry
    /\ Cardinality({i \in DOMAIN table : table[i] # NoEntry}) >= maxEntries

\* The IP's window at time now: the stored one, or a fresh one if that is over.
WindowAt(windows, ip, now, width) ==
    IF windows[ip] # NoEntry /\ now - windows[ip].start < width
    THEN windows[ip]
    ELSE [start |-> now, count |-> 0]

Tracks(windows, ip, max, maxEntries) == max > 0 /\ ~TableFull(windows, ip, maxEntries)

\* check_at: is the HELLO let through ...
RateAllows(windows, ip, now, max, width, maxEntries) ==
    Tracks(windows, ip, max, maxEntries) => WindowAt(windows, ip, now, width).count < max

\* ... and the table afterwards.
RateCheck(windows, ip, now, max, width, maxEntries) ==
    LET w == WindowAt(windows, ip, now, width) IN
    IF Tracks(windows, ip, max, maxEntries) /\ w.count < max
    THEN [windows EXCEPT ![ip] = [w EXCEPT !.count = @ + 1]]
    ELSE windows

\* A plausible slip: windows are dropped by every cleanup tick.
MutRatePurge(windows, now, width) == [ip \in DOMAIN windows |-> NoEntry]

\* purge_stale: drop the windows that are fully in the past.
RatePurge(windows, now, width) ==
    [ip \in DOMAIN windows |->
        IF windows[ip] # NoEntry /\ now - windows[ip].start < width
        THEN windows[ip] ELSE NoEntry]

=============================================================================
