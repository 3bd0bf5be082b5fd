-------------------------------- MODULE Gate --------------------------------
(***************************************************************************)
(* The flood defences around the handlers: the receive loop's gates        *)
(* (blacklist, attack lockdown with its allow-list of active IPs, the      *)
(* in-flight semaphore), the HELLO rate limiter, and the accounting of     *)
(* rejected and faulty packets that arms them.  What a packet contains and *)
(* whether it authenticates is free here; Handshake decides that.          *)
(*                                                                         *)
(* Time is the monotonic clock.  A clock reading and the locked section    *)
(* that uses it are one step; record_faulty takes two locks on one reading *)
(* and time does not pass between them.                                    *)
(***************************************************************************)
EXTENDS Blacklist

CONSTANTS
    IPs,                 \* source IPs
    Tasks,               \* tasks handling a datagram
    MaxInflight,         \* max_inflight_packets, 0 = unbounded
    MaxTracked,          \* max_tracked_ips
    HelloMax,            \* hello_rate_max, 0 disables
    HelloWindow,         \* hello_rate_window_seconds
    MaxFaulty,           \* max_faulty_packets, 0 disables
    BlockTime,           \* blacklist_seconds
    AttackThreshold,     \* attack_blacklist_threshold
    RejectionThreshold,  \* attack_rejection_threshold
    AttackWindow,        \* attack_window_seconds.max(1)
    ActiveTtl,           \* active_ip_ttl_seconds.max(1)
    MaxClock,            \* bound on time
    MaxPackets           \* bound on the datagrams received

ASSUME GateAssumption ==
    /\ IsFiniteSet(IPs) /\ IsFiniteSet(Tasks)
    /\ MaxInflight \in Nat /\ MaxTracked \in Nat
    /\ HelloMax \in Nat /\ HelloWindow \in Nat \ {0}
    /\ MaxFaulty \in Nat /\ BlockTime \in Nat
    /\ AttackThreshold \in Nat /\ RejectionThreshold \in Nat
    /\ AttackWindow \in Nat \ {0} /\ ActiveTtl \in Nat \ {0}
    /\ MaxClock \in Nat /\ MaxPackets \in Nat

VARIABLES
    now,         \* Instant::now, since the server's start
    windows,     \* HelloRateLimiter.state
    entries,     \* Blacklist.state
    events,      \* Blacklist.events
    rejections,  \* Blacklist.rejections
    lockdown,    \* Blacklist.lockdown_until_ms
    drops,       \* Blacklist.drop_window_start_ms and drop_count
    active,      \* ActiveIps.seen
    task,        \* Tasks -> where handling a datagram has got to
    received,    \* number of datagrams received
    passed,      \* history: the times of each IP's HELLOs past the rate limiter
    faulty,      \* history: the number of each IP's faulty packets recorded
    trips,       \* history: the times an IP was blacklisted
    rejectedAt,  \* history: the times of the packets rejected
    shedAt       \* history: the times of the packets shed by lockdown

vars == <<now, windows, entries, events, rejections, lockdown, drops, active, task,
          received, passed, faulty, trips, rejectedAt, shedAt>>
history == <<passed, faulty, trips, rejectedAt, shedAt>>

Times == 0 .. MaxClock
TaskState == [pc : {"handle", "hello", "answer", "hook", "reject", "fault", "event"},
              ip : IPs, faulty : BOOLEAN]

ASSUME RecordAssumption == NoEntry \notin Windows /\ NoEntry \notin Entries /\ NoEntry \notin TaskState

TypeOK ==
    /\ now \in Times
    /\ windows \in [IPs -> Windows \cup {NoEntry}]
    /\ entries \in [IPs -> Entries \cup {NoEntry}]
    /\ events \in Seq(Times) /\ rejections \in Seq(Times)
    /\ lockdown \in Nat
    /\ drops \in [start : Nat, count : Nat]
    /\ active \in [IPs -> Times \cup {NoEntry}]
    /\ task \in [Tasks -> TaskState \cup {NoEntry}]
    /\ received \in Nat
    /\ passed \in [IPs -> Seq(Times)]
    /\ faulty \in [IPs -> Nat]
    /\ trips \in Seq(Times) /\ rejectedAt \in Seq(Times) /\ shedAt \in Seq(Times)

Init ==
    /\ now = 0
    /\ windows = Empty(IPs)
    /\ entries = Empty(IPs)
    /\ events = <<>> /\ rejections = <<>>
    /\ lockdown = 0
    /\ drops = [start |-> 0, count |-> 0]
    /\ active = Empty(IPs)
    /\ task = Empty(Tasks)
    /\ received = 0
    /\ passed = [ip \in IPs |-> <<>>]
    /\ faulty = [ip \in IPs |-> 0]
    /\ trips = <<>> /\ rejectedAt = <<>> /\ shedAt = <<>>

At(t, pc) == task[t] # NoEntry /\ task[t].pc = pc
Goto(t, pc) == task' = [task EXCEPT ![t].pc = pc]
Ends(t) == task' = [task EXCEPT ![t] = NoEntry]

-----------------------------------------------------------------------------
(* Lockdown.                                                                *)

\* under_attack: off when both triggers are off.
UnderAttack ==
    (AttackThreshold > 0 \/ RejectionThreshold > 0) /\ now < lockdown

\* arm_lockdown: fetch_max of one window from now.
Armed == IF lockdown < now + AttackWindow THEN now + AttackWindow ELSE lockdown

\* The drop rate that keeps lockdown latched; 0 when lockdown is disabled.
DropThreshold == IF RejectionThreshold > 0 THEN RejectionThreshold ELSE AttackThreshold

\* note_lockdown_drop: the fixed-window count of shed packets.
NextDrops ==
    IF now - drops.start > AttackWindow
    THEN [start |-> now, count |-> 1]
    ELSE [drops EXCEPT !.count = @ + 1]

\* is_active_at
Active(ip) == active[ip] # NoEntry /\ now - active[ip] < ActiveTtl

\* A plausible slip: an IP is marked with the time its mark ends.
MutMarkActive(ip) == [active EXCEPT ![ip] = now + ActiveTtl]

\* ActiveIps::mark: refresh freely, admit a new IP below the cap.
MarkActive(ip) ==
    IF active[ip] # NoEntry
       \/ Cardinality({i \in IPs : active[i] # NoEntry}) < (IF MaxTracked = 0 THEN 1 ELSE MaxTracked)
    THEN [active EXCEPT ![ip] = now]
    ELSE active

-----------------------------------------------------------------------------
(* The receive loop, a single task.  A datagram of a blocked IP, or one     *)
(* that finds no permit, disappears without a trace.                        *)

Inflight == Cardinality({t \in Tasks : task[t] # NoEntry})

\* Past the gates: take a permit and spawn the handler.
Recv(t, ip) ==
    /\ received < MaxPackets
    /\ ~Blocked(entries, ip, now)
    /\ UnderAttack => Active(ip)
    /\ task[t] = NoEntry
    /\ MaxInflight > 0 => Inflight < MaxInflight
    /\ task' = [task EXCEPT ![t] = [pc |-> "handle", ip |-> ip, faulty |-> FALSE]]
    /\ received' = received + 1
    /\ UNCHANGED <<now, windows, entries, events, rejections, lockdown, drops, active, history>>

\* Shed by lockdown; a high rate of these keeps it armed.
Shed(ip) ==
    /\ received < MaxPackets
    /\ ~Blocked(entries, ip, now)
    /\ UnderAttack /\ ~Active(ip)
    /\ drops' = NextDrops
    /\ lockdown' = IF now - drops.start <= AttackWindow /\ NextDrops.count > DropThreshold
                   THEN Armed ELSE lockdown
    /\ shedAt' = Append(shedAt, now)
    /\ received' = received + 1
    /\ UNCHANGED <<now, windows, entries, events, rejections, active, task,
                   passed, faulty, trips, rejectedAt>>

-----------------------------------------------------------------------------
(* handle_datagram and the handlers, as far as the gates see them.          *)

\* Undecryptable or malformed: note_faulty.  A CHALLENGE: note_rejected.
Decode(t) ==
    /\ At(t, "handle")
    /\ \/ \E pc \in {"hello", "answer", "reject"} : Goto(t, pc)
       \/ task' = [task EXCEPT ![t].pc = "reject", ![t].faulty = TRUE]
    /\ UNCHANGED <<now, windows, entries, events, rejections, lockdown, drops, active,
                   received, history>>

\* handle_hello: the rate limiter first, then authentication, then mark.
Hello(t) ==
    /\ At(t, "hello")
    /\ LET ip == task[t].ip
           ok == RateAllows(windows, ip, now, HelloMax, HelloWindow, MaxTracked)
       IN  /\ windows' = RateCheck(windows, ip, now, HelloMax, HelloWindow, MaxTracked)
           /\ passed' = IF ok THEN [passed EXCEPT ![ip] = Append(@, now)] ELSE passed
           /\ \/ Goto(t, "reject") /\ UNCHANGED active
              \/ ok /\ active' = MarkActive(ip) /\ Ends(t)
    /\ UNCHANGED <<now, entries, events, rejections, lockdown, drops, received,
                   faulty, trips, rejectedAt, shedAt>>

\* handle_response and handle_bye: rejected, or verified; only a RESPONSE marks
\* its IP.  The permit is kept while the hook runs.
Answer(t) ==
    /\ At(t, "answer")
    /\ \/ Goto(t, "reject") /\ UNCHANGED active
       \/ Goto(t, "hook") /\ active' \in {active, MarkActive(task[t].ip)}
    /\ UNCHANGED <<now, windows, entries, events, rejections, lockdown, drops, received, history>>

HookEnds(t) ==
    /\ At(t, "hook")
    /\ Ends(t)
    /\ UNCHANGED <<now, windows, entries, events, rejections, lockdown, drops, active,
                   received, history>>

\* A plausible slip: every rejected packet counts as a faulty one.
MutCountsAsFault(t) == TRUE

\* Only packets that failed to decrypt or decode feed the blacklist.
CountsAsFault(t) == task[t].faulty

\* note_rejected, note_rejection: feed the rejection-rate trigger.
Reject(t) ==
    /\ At(t, "reject")
    /\ rejections' = IF RejectionThreshold = 0 THEN rejections
                     ELSE Noted(rejections, now, AttackWindow)
    /\ lockdown' = IF RejectionThreshold > 0 /\ Len(rejections') > RejectionThreshold
                   THEN Armed ELSE lockdown
    /\ rejectedAt' = Append(rejectedAt, now)
    /\ IF CountsAsFault(t) THEN Goto(t, "fault") ELSE Ends(t)
    /\ UNCHANGED <<now, windows, entries, events, drops, active, received,
                   passed, faulty, trips, shedAt>>

\* record_faulty, under the state lock.
Fault(t) ==
    /\ At(t, "fault")
    /\ LET ip == task[t].ip
           tripped == Trips(entries, ip, MaxFaulty)
       IN  /\ entries' = RecordFaulty(entries, ip, now, MaxFaulty, BlockTime, MaxTracked)
           /\ faulty' = [faulty EXCEPT ![ip] = @ + IF task[t].faulty THEN 1 ELSE 0]
           /\ trips' = IF tripped THEN Append(trips, now) ELSE trips
           /\ IF tripped THEN Goto(t, "event") ELSE Ends(t)
    /\ UNCHANGED <<now, windows, events, rejections, lockdown, drops, active, received,
                   passed, rejectedAt, shedAt>>

\* record_faulty, under the events lock: feed the blacklist-rate trigger.
Event(t) ==
    /\ At(t, "event")
    /\ events' = Noted(events, now, AttackWindow)
    /\ lockdown' = IF Len(events') > AttackThreshold THEN Armed ELSE lockdown
    /\ Ends(t)
    /\ UNCHANGED <<now, windows, entries, rejections, drops, active, received, history>>

-----------------------------------------------------------------------------
(* The cleanup tick and time.                                               *)

Purge ==
    /\ windows' = RatePurge(windows, now, HelloWindow)
    /\ entries' = BlacklistPurge(entries, now)
    /\ events' = Trim(events, now, AttackWindow)
    /\ rejections' = Trim(rejections, now, AttackWindow)
    /\ active' = [ip \in IPs |-> IF Active(ip) THEN active[ip] ELSE NoEntry]
    /\ UNCHANGED <<now, lockdown, drops, task, received, history>>

Tick ==
    /\ now < MaxClock
    /\ \A t \in Tasks : ~At(t, "event")
    /\ now' = now + 1
    /\ UNCHANGED <<windows, entries, events, rejections, lockdown, drops, active, task,
                   received, history>>

Next ==
    \/ \E t \in Tasks, ip \in IPs : Recv(t, ip)
    \/ \E ip \in IPs : Shed(ip)
    \/ \E t \in Tasks : \/ Decode(t) \/ Hello(t) \/ Answer(t) \/ HookEnds(t)
                        \/ Reject(t) \/ Fault(t) \/ Event(t)
    \/ Purge
    \/ Tick

Spec == Init /\ [][Next]_vars

-----------------------------------------------------------------------------
(* Properties.                                                              *)

\* The table has room for every IP.
RoomForAll == MaxTracked = 0 \/ Cardinality(IPs) <= MaxTracked

(* HelloRateLimiter: the fixed window lets at most twice its budget of one  *)
(* IP's HELLOs through in any interval of a window's length, whatever the   *)
(* cleanup tick drops in between: a HELLO and the one twice the budget      *)
(* after it are at least a window apart.                                    *)
RateBounded ==
    HelloMax > 0 /\ RoomForAll =>
        \A ip \in IPs : \A i \in 1 .. Len(passed[ip]) - 2 * HelloMax :
            passed[ip][i + 2 * HelloMax] - passed[ip][i] >= HelloWindow

(* README: authentication failures do not feed the blacklist.  An IP is     *)
(* blocked only after more than max_faulty_packets packets of its own that  *)
(* failed to decrypt or decode.                                             *)
OnlyFaultyBlocked ==
    \A ip \in IPs : entries[ip] # NoEntry /\ entries[ip].until # NoEntry =>
        faulty[ip] > MaxFaulty

\* More than n of the times of q, which are in order, are in the last attack window.
MoreThan(n, q) == Len(q) > n /\ now - q[Len(q) - n] <= AttackWindow

(* rate_limit.rs: lockdown is armed or extended only by a cause inside the  *)
(* last attack window: more than attack_rejection_threshold rejected        *)
(* packets (when that is not 0), more than attack_blacklist_threshold       *)
(* blocks begun, or more shed packets than the threshold; background noise  *)
(* below the thresholds cannot keep lockdown on.  One IP may begin several  *)
(* blocks in a window, and an attack_blacklist_threshold of 0 is exceeded   *)
(* by the first.                                                            *)
LockdownHasCause ==
    [][lockdown' > lockdown =>
        \/ RejectionThreshold > 0 /\ MoreThan(RejectionThreshold, rejectedAt')
        \/ MoreThan(AttackThreshold, trips')
        \/ DropThreshold > 0 /\ MoreThan(DropThreshold, shedAt')]_vars

(* config.rs, attack_blacklist_threshold: "0 disables lockdown".  With that *)
(* trigger off and the other on, the server is in lockdown only after more  *)
(* than attack_rejection_threshold rejected packets.                        *)
ZeroDisablesTrigger ==
    AttackThreshold = 0 /\ UnderAttack => Len(rejectedAt) > RejectionThreshold

(* record_faulty_at, purge_stale: once it runs, a block runs its full time  *)
(* from the last faulty packet, whatever cleanup ticks, other IPs' packets  *)
(* and handlers that were already past the gate do meanwhile.               *)
BlockRunsOut ==
    [][\A ip \in IPs : Blocked(entries, ip, now) /\ now' < entries[ip].until =>
          Blocked(entries', ip, now') /\ entries'[ip].until >= entries[ip].until]_vars

=============================================================================
