------------------------------- MODULE Access -------------------------------
(***************************************************************************)
(* The access half of the server: what a verified RESPONSE (renew the      *)
(* lease, run the grant hook) and a verified BYE (release it, run the      *)
(* revoke hook) do, the lease scan of the cleanup tick, the two command    *)
(* executors, and the firewall set the example hook keeps.  Handshake      *)
(* decides which answers get here; here any client may answer at any time. *)
(*                                                                         *)
(* A hook is a child process: it is asked for, may be refused (AtCapacity) *)
(* or fail to spawn, takes effect at some moment while it runs, and is     *)
(* killed if it outlives the command timeout, before or after its effect.  *)
(***************************************************************************)
EXTENDS LeaseTracker

CONSTANTS
    Clients,           \* configured clients
    IPs,               \* source IPs
    Params,            \* decrypted parameters
    Intervals,         \* advertised pulse intervals
    Tasks,             \* tasks handling a verified answer
    Scans,             \* tasks running one lease scan's revokes
    GraceMultiplier,   \* lease_grace_multiplier
    LeaseMax,          \* lease_max_seconds
    MaxEntries,        \* max_tracked_ips
    MaxConcurrent,     \* command.max_concurrent, for each executor
    Cooldown,          \* client_cooldown_seconds, 0 disables
    RevokeModes,       \* whether command.revoke_argv may be (TRUE) or not be configured
    Horizon,           \* bound: no lease is renewed after this instant
    MaxAnswers,        \* bound: verified answers
    MaxRestarts        \* bound: server restarts

ASSUME AccessAssumption ==
    /\ GraceMultiplier \in Nat \ {0} /\ LeaseMax \in Nat \ {0}    \* ServerConfig::validate
    /\ MaxConcurrent \in Nat \ {0} /\ MaxEntries \in Nat
    /\ Cooldown \in Nat /\ RevokeModes \subseteq BOOLEAN
    /\ Intervals \subseteq Nat /\ Horizon \in Nat
    /\ Tasks \cap Scans = {}
    /\ IsFiniteSet(Clients) /\ IsFiniteSet(Tasks) /\ IsFiniteSet(Scans)

VARIABLES
    hasRevoke,   \* Server.revoke_executor is not None; a restart may change it
    now,         \* Instant::now
    leases,      \* Server.leases
    cooldown,    \* Server.cooldown: the instant of the last mark
    task,        \* Tasks -> the locals of handle_response / handle_bye
    todo,        \* Scans -> the revokes a lease scan has still to run
    proc,        \* Tasks and Scans -> the hook being run for them
    open,        \* external: the IPs in the firewall set
    orphans,     \* external: hooks that outlived the server that ran them
    session,     \* history: the IPs a client's session has asked a grant hook for
    answered,    \* number of verified answers so far
    restarts     \* number of restarts so far

vars == <<hasRevoke, now, leases, cooldown, task, todo, proc, open, orphans, session,
          answered, restarts>>
bounds == <<hasRevoke, answered, restarts>>

Runners == Tasks \cup Scans
MaxClock == Horizon + LeaseMax

Hooks == [client : Clients, ip : IPs, param : Params \cup {NoEntry}, new : BOOLEAN,
          reason : {"grant", "expired", "bye"}, others : Nat]
Procs == [hook : Hooks, st : {"ready", "running", "applied"}]
AnswerTask == [pc : {"renew", "cooldown", "count", "release", "hook"}, client : Clients,
               ip : IPs, param : Params \cup {NoEntry}, interval : Intervals, new : BOOLEAN]

ASSUME RecordAssumption ==
    /\ NoEntry \notin Leases(IPs, Params)
    /\ NoEntry \notin AnswerTask
    /\ NoEntry \notin Procs

TypeOK ==
    /\ hasRevoke \in BOOLEAN
    /\ now \in 0 .. MaxClock
    /\ leases \in [Clients -> Leases(IPs, Params) \cup {NoEntry}]
    /\ cooldown \in [Clients -> Nat \cup {NoEntry}]
    /\ task \in [Tasks -> AnswerTask \cup {NoEntry}]
    /\ todo \in [Scans -> SUBSET Hooks]
    /\ proc \in [Runners -> Procs \cup {NoEntry}]
    /\ open \subseteq IPs
    /\ orphans \subseteq Hooks
    /\ session \in [Clients -> SUBSET IPs]
    /\ answered \in Nat /\ restarts \in Nat

Init ==
    /\ hasRevoke \in RevokeModes
    /\ now = 0
    /\ leases = Empty(Clients)
    /\ cooldown = Empty(Clients)
    /\ task = Empty(Tasks)
    /\ todo = [s \in Scans |-> {}]
    /\ proc = Empty(Runners)
    /\ open = {}
    /\ orphans = {}
    /\ session = [c \in Clients |-> {}]
    /\ answered = 0 /\ restarts = 0

TaskAt(t, pc) == task[t] # NoEntry /\ task[t].pc = pc
TaskEnds(t) == task' = [task EXCEPT ![t] = NoEntry]

-----------------------------------------------------------------------------
(* handle_response and handle_bye, after the nonce is consumed.             *)

\* A verified answer.  Bounds: the number of answers and the Horizon.
Answer(t, kind, c, ip, param, interval) ==
    /\ task[t] = NoEntry
    /\ now <= Horizon
    /\ answered < MaxAnswers
    /\ answered' = answered + 1
    /\ task' = [task EXCEPT ![t] =
          [pc |-> IF kind = "response" THEN "renew" ELSE "release", client |-> c, ip |-> ip,
           param |-> param, interval |-> interval, new |-> FALSE]]
    /\ UNCHANGED <<now, leases, cooldown, todo, proc, open, orphans, session, hasRevoke,
                   restarts>>

\* A plausible slip: no upper clamp.
MutLeaseTtl(interval) ==
    IF interval * GraceMultiplier < 1 THEN 1 ELSE interval * GraceMultiplier

\* interval.saturating_mul(multiplier).clamp(1, lease_max_seconds)
LeaseTtl(interval) ==
    LET secs == interval * GraceMultiplier
    IN  IF secs < 1 THEN 1 ELSE IF secs > LeaseMax THEN LeaseMax ELSE secs

\* Step 5: renew on every verified pulse; new when no live lease was there.
RenewLease(t) ==
    /\ TaskAt(t, "renew")
    /\ LET a == task[t]
           new == ~LeaseLive(leases, a.client, now)
           lease == [expires |-> now + LeaseTtl(a.interval), ip |-> a.ip, param |-> a.param]
       IN  /\ leases' = Renew(leases, MaxEntries, a.client, lease)
           /\ task' = [task EXCEPT ![t].pc = "cooldown", ![t].new = new]
           /\ session' = IF new THEN [session EXCEPT ![a.client] = {}] ELSE session
    /\ UNCHANGED <<now, cooldown, todo, proc, open, orphans, bounds>>

InCooldown(c) == Cooldown > 0 /\ cooldown[c] # NoEntry /\ now - cooldown[c] < Cooldown

\* A plausible slip: a reactivated session waits for its cooldown too.
MutSkips(a) == InCooldown(a.client)

\* Step 6: only a keep-alive is throttled.
Skips(a) == ~a.new /\ InCooldown(a.client)

CheckCooldown(t) ==
    /\ TaskAt(t, "cooldown")
    /\ \/ Skips(task[t]) /\ TaskEnds(t)
       \/ ~Skips(task[t]) /\ task' = [task EXCEPT ![t].pc = "count"]
    /\ UNCHANGED <<now, leases, cooldown, todo, proc, open, orphans, session, bounds>>

\* Step 7: count the other clients on the IP and ask for the grant hook.
AskGrant(t) ==
    /\ TaskAt(t, "count")
    /\ LET a == task[t] IN
       proc' = [proc EXCEPT ![t] = [st |-> "ready", hook |->
          [client |-> a.client, ip |-> a.ip, param |-> a.param, new |-> a.new,
           reason |-> "grant", others |-> OthersOnIp(leases, a.ip, a.client, now)]]]
    /\ task' = [task EXCEPT ![t].pc = "hook"]
    /\ UNCHANGED <<now, leases, cooldown, todo, open, orphans, session, bounds>>

\* handle_bye steps 6 and on: the lease ends now, expired or not; the BYE's own
\* parameter wins over the lease's.
ReleaseLease(t) ==
    /\ TaskAt(t, "release")
    /\ LET c == task[t].client
           l == leases[c]
       IN  \/ /\ l = NoEntry
              /\ TaskEnds(t)
              /\ UNCHANGED <<leases, proc>>
           \/ /\ l # NoEntry /\ ~hasRevoke
              /\ leases' = Release(leases, c)
              /\ TaskEnds(t)
              /\ UNCHANGED proc
           \/ /\ l # NoEntry /\ hasRevoke
              /\ leases' = Release(leases, c)
              /\ task' = [task EXCEPT ![t].pc = "hook"]
              /\ proc' = [proc EXCEPT ![t] = [st |-> "ready", hook |->
                    [client |-> c, ip |-> l.ip, new |-> FALSE, reason |-> "bye",
                     param |-> IF task[t].param # NoEntry THEN task[t].param ELSE l.param,
                     others |-> OthersOnIp(leases, l.ip, c, now)]]]
    /\ UNCHANGED <<now, cooldown, todo, open, orphans, session, bounds>>

-----------------------------------------------------------------------------
(* The lease scan of the cleanup tick.                                      *)

ScanIdle(s) == todo[s] = {} /\ proc[s] = NoEntry

\* The revoke of an expired lease, as decided when it is drained.
ExpiryHook(c) ==
    [client |-> c, ip |-> leases[c].ip, param |-> leases[c].param, new |-> FALSE,
     reason |-> "expired", others |-> RemainingOnIp(leases, leases[c].ip, now)]

\* cooldown.purge_stale, then run_lease_scan: drain the expired leases in one
\* critical section and spawn one task that runs their revokes one by one.
\* Bound: one of the Scans is idle.
ScanTick(s) ==
    /\ ScanIdle(s)
    /\ cooldown' = [c \in Clients |-> IF InCooldown(c) THEN cooldown[c] ELSE NoEntry]
    /\ leases' = TakeExpired(leases, now)
    /\ LET ended == IF hasRevoke THEN Expired(leases, now) ELSE {}
       IN  todo' = [todo EXCEPT ![s] = {ExpiryHook(c) : c \in ended}]
    /\ UNCHANGED <<now, task, proc, open, orphans, session, bounds>>

\* A plausible slip: the item is run but not taken off the list.
MutScanNext(s, h) ==
    /\ proc[s] = NoEntry
    /\ h \in todo[s]
    /\ proc' = [proc EXCEPT ![s] = [st |-> "ready", hook |-> h]]
    /\ UNCHANGED <<now, leases, cooldown, task, todo, open, orphans, session, bounds>>

\* The spawned task takes its next item, in the map's arbitrary order.
ScanNext(s, h) ==
    /\ proc[s] = NoEntry
    /\ h \in todo[s]
    /\ todo' = [todo EXCEPT ![s] = @ \ {h}]
    /\ proc' = [proc EXCEPT ![s] = [st |-> "ready", hook |-> h]]
    /\ UNCHANGED <<now, leases, cooldown, task, open, orphans, session, bounds>>

-----------------------------------------------------------------------------
(* ProcessExecutor::execute: one executor for grants, one for revokes.      *)

IsGrant(h) == h.reason = "grant"

\* The permits of the executor that runs h which are taken.
Busy(h) == Cardinality({r \in Runners : /\ proc[r] # NoEntry /\ proc[r].st # "ready"
                                        /\ IsGrant(proc[r].hook) = IsGrant(h)})

Done(r) ==
    /\ proc' = [proc EXCEPT ![r] = NoEntry]
    /\ task' = IF r \in Tasks THEN [task EXCEPT ![r] = NoEntry] ELSE task

\* The history of asking for hook h: a grant is part of its client's session.
Asked(h) ==
    session' = IF IsGrant(h) THEN [session EXCEPT ![h.client] = @ \cup {h.ip}] ELSE session

\* A permit is free and the child is spawned.
Start(r) ==
    /\ proc[r] # NoEntry /\ proc[r].st = "ready"
    /\ Busy(proc[r].hook) < MaxConcurrent
    /\ proc' = [proc EXCEPT ![r].st = "running"]
    /\ Asked(proc[r].hook)
    /\ UNCHANGED <<now, leases, cooldown, task, todo, open, orphans, bounds>>

\* A plausible slip: the scan's loop ends at the first revoke that fails.
MutRefuse(r) ==
    /\ proc[r] # NoEntry /\ proc[r].st = "ready"
    /\ Asked(proc[r].hook)
    /\ Done(r)
    /\ todo' = IF r \in Scans THEN [todo EXCEPT ![r] = {}] ELSE todo
    /\ UNCHANGED <<now, leases, cooldown, open, orphans, bounds>>

\* AtCapacity, or the child cannot be spawned: the error is only logged.
Refuse(r) ==
    /\ proc[r] # NoEntry /\ proc[r].st = "ready"
    /\ Asked(proc[r].hook)
    /\ Done(r)
    /\ UNCHANGED <<now, leases, cooldown, todo, open, orphans, bounds>>

\* External, examples/signedpulse-hook.sh: a grant adds the IP to the firewall
\* set, a revoke deletes it when no other client is on it.
Effect(h) ==
    IF IsGrant(h) THEN open \cup {h.ip}
    ELSE IF h.others = 0 THEN open \ {h.ip} ELSE open

Apply(r) ==
    /\ proc[r] # NoEntry /\ proc[r].st = "running"
    /\ proc' = [proc EXCEPT ![r].st = "applied"]
    /\ open' = Effect(proc[r].hook)
    /\ UNCHANGED <<now, leases, cooldown, task, todo, orphans, session, bounds>>

\* The child ends: by itself with any exit code, or killed by the timeout, in
\* both cases Ok, which marks the cooldown of a grant; or wait fails (Err).
Finish(r) ==
    /\ proc[r] # NoEntry /\ proc[r].st \in {"running", "applied"}
    /\ LET h == proc[r].hook
           marked == [cooldown EXCEPT ![h.client] = now]
       IN  cooldown' \in IF IsGrant(h) /\ Cooldown > 0 THEN {marked, cooldown} ELSE {cooldown}
    /\ Done(r)
    /\ UNCHANGED <<now, leases, todo, open, orphans, session, bounds>>

-----------------------------------------------------------------------------
(* Time and restarts.                                                       *)

\* Time does not pass the Horizon while a task has still to renew a lease, so
\* every lease runs out by MaxClock.
Tick ==
    /\ now < MaxClock
    /\ now >= Horizon => \A t \in Tasks : ~TaskAt(t, "renew")
    /\ now' = now + 1
    /\ UNCHANGED <<leases, cooldown, task, todo, proc, open, orphans, session, bounds>>

\* A restart forgets everything but the firewall; children that have not taken
\* effect are not killed with the server (no kill_on_drop).
Restart ==
    /\ restarts < MaxRestarts
    /\ restarts' = restarts + 1
    /\ hasRevoke' \in RevokeModes
    /\ leases' = Empty(Clients)
    /\ cooldown' = Empty(Clients)
    /\ task' = Empty(Tasks)
    /\ todo' = [s \in Scans |-> {}]
    /\ proc' = Empty(Runners)
    /\ orphans' = orphans \cup
          {proc[r].hook : r \in {q \in Runners : proc[q] # NoEntry /\ proc[q].st = "running"}}
    /\ session' = [c \in Clients |-> {}]
    /\ UNCHANGED <<now, open, answered>>

OrphanApply(h) ==
    /\ orphans' = orphans \ {h}
    /\ open' = Effect(h)
    /\ UNCHANGED <<now, leases, cooldown, task, todo, proc, session, bounds>>

Next ==
    \/ \E t \in Tasks, kind \in {"response", "bye"}, c \in Clients, ip \in IPs,
          param \in Params \cup {NoEntry}, interval \in Intervals :
          Answer(t, kind, c, ip, param, interval)
    \/ \E t \in Tasks : RenewLease(t) \/ CheckCooldown(t) \/ AskGrant(t) \/ ReleaseLease(t)
    \/ \E s \in Scans : ScanTick(s)
    \/ \E s \in Scans : \E h \in todo[s] : ScanNext(s, h)
    \/ \E r \in Runners : Start(r) \/ Refuse(r) \/ Apply(r) \/ Finish(r)
    \/ Tick
    \/ Restart
    \/ \E h \in orphans : OrphanApply(h)

Spec == Init /\ [][Next]_vars

(* The runtime polls every task, interval ticks recur, time passes, and the *)
(* command timeout ends every hook.                                         *)
FairSpec ==
    /\ Spec
    /\ WF_vars(Tick)
    /\ WF_vars(\E s \in Scans : ScanTick(s))
    /\ \A t \in Tasks :
          WF_vars(RenewLease(t) \/ CheckCooldown(t) \/ AskGrant(t) \/ ReleaseLease(t))
    /\ \A s \in Scans : WF_vars(\E h \in todo[s] : ScanNext(s, h))
    /\ \A r \in Runners : WF_vars(Start(r) \/ Refuse(r) \/ Finish(r))

-----------------------------------------------------------------------------
(* Properties.                                                              *)

\* A task of c that is bound to ask for a grant hook, or has just asked.
GrantPending(c) ==
    \E t \in Tasks :
        /\ task[t] # NoEntry /\ task[t].client = c
        /\ \/ task[t].pc = "cooldown" /\ task[t].new
           \/ task[t].pc = "count"
           \/ /\ task[t].pc = "hook" /\ proc[t] # NoEntry
              /\ proc[t].st = "ready" /\ IsGrant(proc[t].hook)

(* handle_response steps 5 to 7: a tracked lease means that since its       *)
(* session began a grant hook was asked for, or is about to be: no cooldown *)
(* left over from an earlier session suppresses the one that opens access,  *)
(* whatever pulses, releases and scans run beside it.                       *)
SessionAsksGrant ==
    \A c \in Clients : leases[c] # NoEntry => session[c] # {} \/ GrantPending(c)

(* LeaseTracker's cap: the map never tracks more clients than max_entries.  *)
LeaseCap == Cardinality({c \in Clients : leases[c] # NoEntry}) <=
                (IF MaxEntries = 0 THEN 1 ELSE MaxEntries)

(* lease_max_seconds: no advertised interval keeps a lease, and with it     *)
(* access, alive for longer than the configured maximum after a pulse.      *)
LeaseBounded ==
    \A c \in Clients : leases[c] # NoEntry => leases[c].expires <= now + LeaseMax

(* take_expired and release: {ip_clients} of a revoke is, at the instant    *)
(* the lease ends, the number of other clients with a live lease on its IP. *)
IpClientsExact ==
    [][\A c \in Clients : leases[c] # NoEntry /\ leases'[c] = NoEntry /\ restarts' = restarts =>
          \A h \in (UNION {todo'[s] \ todo[s] : s \in Scans}) \cup
                   {proc'[t].hook : t \in {u \in Tasks : proc[u] = NoEntry /\ proc'[u] # NoEntry}} :
             h.client = c => h.others =
                 Cardinality({o \in Clients \ {c} : /\ leases'[o] # NoEntry
                                                    /\ now < leases'[o].expires
                                                    /\ leases'[o].ip = h.ip})]_vars

\* The revokes asked for by leases of c that ended: queued by a scan, or handed
\* to an executor that has not answered yet.
Due(c) ==
    LET queued == {e \in Scans \X (UNION {todo[s] : s \in Scans}) :
                      e[2] \in todo[e[1]] /\ e[2].client = c}
        handed == {r \in Runners : /\ proc[r] # NoEntry /\ proc[r].st = "ready"
                                   /\ ~IsGrant(proc[r].hook) /\ proc[r].hook.client = c}
    IN  Cardinality(queued) + Cardinality(handed)

Ledger == INSTANCE LeaseLedger WITH
    revokes <- hasRevoke,
    held <- Tracked(leases),
    due <- [c \in Clients |-> Due(c)],
    crashes <- restarts

(* run_lease_scan and handle_bye keep the ledger: every lease that ends asks *)
(* for exactly one revoke, none is forgotten or asked for twice, however     *)
(* pulses, scans, releases, refused hooks and restarts interleave.           *)
KeepsLedger == Ledger!Spec

(* README: a client that goes away is revoked automatically.  Once clients  *)
(* stop answering, every lease ends and the revoke of every ended lease is  *)
(* asked for.                                                               *)
EventuallyAllRevoked == <>[](\A c \in Clients : leases[c] = NoEntry /\ Due(c) = 0)

-----------------------------------------------------------------------------
(* Claims of the code's comments that the code does not keep.               *)

Starts(r) ==
    /\ proc[r] # NoEntry /\ proc[r].st = "ready"
    /\ proc'[r] # NoEntry /\ proc'[r].st = "running"

(* run_lease_scan's comment: before each revoke the scan re-checks that the *)
(* client has not re-pulsed, so the revoke of an expired lease never starts *)
(* when the same client holds a fresh lease on the same IP.                 *)
RevokeRechecksLease ==
    [][\A s \in Scans : Starts(s) =>
          LET h == proc[s].hook IN
          ~(LeaseLive(leases, h.client, now) /\ leases[h.client].ip = h.ip)]_vars

\* A task of c has renewed the lease and not yet looked at the cooldown.
Undecided(c) == \E t \in Tasks : TaskAt(t, "cooldown") /\ task[t].client = c

(* handle_response, on the lease: "so the IP stays authorized while it      *)
(* keeps pulsing".  A lease on an IP means that its client's session has    *)
(* asked for that IP's grant hook, is about to, or has still to decide.     *)
LeasedIpGranted ==
    \A c \in Clients : leases[c] # NoEntry =>
        leases[c].ip \in session[c] \/ GrantPending(c) \/ Undecided(c)

=============================================================================
