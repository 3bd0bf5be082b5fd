---------------------------- MODULE AccessProofs ----------------------------
(***************************************************************************)
(* Proofs about Access, for every set of clients, IPs, tasks and scans and *)
(* every configuration.                                                    *)
(***************************************************************************)
EXTENDS Access, FiniteSetTheorems, TLAPS

-----------------------------------------------------------------------------
(* Lemmas about the operators.                                             *)

(* LeaseTracker: the number of other clients on an IP is a natural number.  *)
LEMMA OthersType ==
    ASSUME NEW ls, DOMAIN ls = Clients, NEW ip, NEW c, NEW t
    PROVE  OthersOnIp(ls, ip, c, t) \in Nat
  <1> DEFINE S == {o \in Tracked(ls) \ {c} : ls[o].ip = ip /\ t < ls[o].expires}
  <1>1. S \subseteq Clients
        BY DEF Tracked
  <1>2. IsFiniteSet(S)
        BY <1>1, FS_Subset, AccessAssumption
  <1> QED
      BY <1>2, FS_CardinalityType DEF OthersOnIp

(* LeaseTracker: so is the number of leases left on an IP after a drain.    *)
LEMMA RemainingType ==
    ASSUME NEW ls, DOMAIN ls = Clients, NEW ip, NEW t
    PROVE  RemainingOnIp(ls, ip, t) \in Nat
  <1> DEFINE S == {o \in Tracked(TakeExpired(ls, t)) : ls[o].ip = ip}
  <1>1. S \subseteq Clients
        BY DEF Tracked, TakeExpired
  <1>2. IsFiniteSet(S)
        BY <1>1, FS_Subset, AccessAssumption
  <1> QED
      BY <1>2, FS_CardinalityType DEF RemainingOnIp

(* handle_response: the lease TTL is clamped between one second and         *)
(* lease_max_seconds, whatever interval the client advertises.              *)
LEMMA TtlType ==
    ASSUME NEW i \in Intervals
    PROVE  LeaseTtl(i) \in 1 .. LeaseMax
  <1>1. i * GraceMultiplier \in Nat
        BY AccessAssumption
  <1> QED
      BY <1>1, AccessAssumption DEF LeaseTtl

-----------------------------------------------------------------------------
(* Type correctness.                                                       *)

(* The initial state is well typed.                                         *)
LEMMA InitType == Init => TypeOK
  BY AccessAssumption DEF Init, TypeOK, Empty, MaxClock

(* Every step keeps the types.                                              *)
LEMMA NextType == TypeOK /\ [Next]_vars => TypeOK'
  <1> SUFFICES ASSUME TypeOK, [Next]_vars PROVE TypeOK'
      OBVIOUS
  <1> USE DEF TypeOK, bounds
  <1>1. ASSUME NEW t \in Tasks, NEW kind \in {"response", "bye"}, NEW c \in Clients,
               NEW ip \in IPs, NEW param \in Params \cup {NoEntry}, NEW i \in Intervals,
               Answer(t, kind, c, ip, param, i)
        PROVE  TypeOK'
        BY <1>1 DEF Answer, AnswerTask
  <1>2. ASSUME NEW t \in Tasks, RenewLease(t) PROVE TypeOK'
    <2> DEFINE a == task[t]
               lease == [expires |-> now + LeaseTtl(a.interval), ip |-> a.ip, param |-> a.param]
    <2>1. a \in AnswerTask /\ a.client \in Clients /\ a.interval \in Intervals
          BY <1>2 DEF RenewLease, TaskAt, AnswerTask
    <2>2. lease \in Leases(IPs, Params)
      <3>1. now + LeaseTtl(a.interval) \in Nat
        <4>1. now \in Nat
              BY AccessAssumption DEF MaxClock
        <4>2. LeaseTtl(a.interval) \in 1 .. LeaseMax
              BY <2>1, TtlType
        <4> QED
            BY <4>1, <4>2, AccessAssumption
      <3> QED
          BY <2>1, <3>1 DEF Leases, AnswerTask
    <2>3. leases' \in [Clients -> Leases(IPs, Params) \cup {NoEntry}]
          BY <1>2, <2>1, <2>2 DEF RenewLease, Renew
    <2>4. task' \in [Tasks -> AnswerTask \cup {NoEntry}]
      <3>1. LeaseLive(leases, a.client, now) \in BOOLEAN
            BY DEF LeaseLive
      <3> QED
          BY <1>2, <2>1, <3>1 DEF RenewLease, AnswerTask
    <2>5. session' \in [Clients -> SUBSET IPs]
          BY <1>2, <2>1 DEF RenewLease
    <2> QED
        BY <1>2, <2>3, <2>4, <2>5 DEF RenewLease
  <1>3. ASSUME NEW t \in Tasks, CheckCooldown(t) PROVE TypeOK'
        BY <1>3 DEF CheckCooldown, TaskAt, TaskEnds, AnswerTask
  <1>4. ASSUME NEW t \in Tasks, AskGrant(t) PROVE TypeOK'
    <2>1. task[t] \in AnswerTask
          BY <1>4 DEF AskGrant, TaskAt
    <2>2. OthersOnIp(leases, task[t].ip, task[t].client, now) \in Nat
          BY OthersType
    <2>3. proc' \in [Runners -> Procs \cup {NoEntry}]
          BY <1>4, <2>1, <2>2 DEF AskGrant, Procs, Hooks, AnswerTask, Runners
    <2>4. task' \in [Tasks -> AnswerTask \cup {NoEntry}]
          BY <1>4, <2>1 DEF AskGrant, AnswerTask
    <2> QED
        BY <1>4, <2>3, <2>4 DEF AskGrant
  <1>5. ASSUME NEW t \in Tasks, ReleaseLease(t) PROVE TypeOK'
    <2> DEFINE c == task[t].client
               l == leases[c]
               h == [client |-> c, ip |-> l.ip, new |-> FALSE, reason |-> "bye",
                     param |-> IF task[t].param # NoEntry THEN task[t].param ELSE l.param,
                     others |-> OthersOnIp(leases, l.ip, c, now)]
    <2>1. task[t] \in AnswerTask /\ c \in Clients /\ task[t].param \in Params \cup {NoEntry}
          BY <1>5 DEF ReleaseLease, TaskAt, AnswerTask
    <2>2. leases' \in [Clients -> Leases(IPs, Params) \cup {NoEntry}]
          BY <1>5, <2>1 DEF ReleaseLease, Release
    <2>3. task' \in [Tasks -> AnswerTask \cup {NoEntry}]
          BY <1>5, <2>1 DEF ReleaseLease, TaskEnds, AnswerTask
    <2>4. l # NoEntry => h \in Hooks
      <3>1. OthersOnIp(leases, l.ip, c, now) \in Nat
            BY OthersType
      <3>2. l # NoEntry => l.ip \in IPs /\ l.param \in Params \cup {NoEntry}
            BY <2>1 DEF Leases
      <3> QED
          BY <2>1, <3>1, <3>2 DEF Hooks
    <2>5. proc' = proc \/ (l # NoEntry /\ proc' = [proc EXCEPT ![t] = [st |-> "ready", hook |-> h]])
          BY <1>5 DEF ReleaseLease
    <2>6. proc' \in [Runners -> Procs \cup {NoEntry}]
      <3> HIDE DEF h, l
      <3> QED
          BY <2>4, <2>5 DEF Procs, Runners
    <2> QED
        BY <1>5, <2>2, <2>3, <2>6 DEF ReleaseLease
  <1>6. ASSUME NEW s \in Scans, ScanTick(s) PROVE TypeOK'
    <2>1. cooldown' \in [Clients -> Nat \cup {NoEntry}]
          BY <1>6 DEF ScanTick, InCooldown
    <2>2. leases' \in [Clients -> Leases(IPs, Params) \cup {NoEntry}]
          BY <1>6 DEF ScanTick, TakeExpired
    <2>3. \A c \in Expired(leases, now) : c \in Clients /\ ExpiryHook(c) \in Hooks
      <3> SUFFICES ASSUME NEW c \in Expired(leases, now)
                   PROVE  c \in Clients /\ ExpiryHook(c) \in Hooks
          OBVIOUS
      <3>1. c \in Clients /\ leases[c] \in Leases(IPs, Params)
            BY DEF Expired, Tracked
      <3>2. RemainingOnIp(leases, leases[c].ip, now) \in Nat
            BY RemainingType
      <3> QED
          BY <3>1, <3>2 DEF ExpiryHook, Hooks, Leases
    <2>4. todo' \in [Scans -> SUBSET Hooks]
          BY <1>6, <2>3 DEF ScanTick
    <2> QED
        BY <1>6, <2>1, <2>2, <2>4 DEF ScanTick
  <1>7. ASSUME NEW s \in Scans, NEW h \in todo[s], ScanNext(s, h) PROVE TypeOK'
        BY <1>7 DEF ScanNext, Procs, Runners
  <1>8. ASSUME NEW r \in Runners, Start(r) PROVE TypeOK'
    <2>1. proc[r] \in Procs /\ proc[r].hook.client \in Clients /\ proc[r].hook.ip \in IPs
          BY <1>8 DEF Start, Procs, Hooks
    <2>2. proc' \in [Runners -> Procs \cup {NoEntry}]
          BY <1>8, <2>1 DEF Start, Procs
    <2> QED
        BY <1>8, <2>1, <2>2 DEF Start, Asked
  <1>9. ASSUME NEW r \in Runners, Refuse(r) PROVE TypeOK'
    <2>1. proc[r] \in Procs /\ proc[r].hook.client \in Clients /\ proc[r].hook.ip \in IPs
          BY <1>9 DEF Refuse, Procs, Hooks
    <2> QED
        BY <1>9, <2>1 DEF Refuse, Asked, Done
  <1>10. ASSUME NEW r \in Runners, Apply(r) PROVE TypeOK'
    <2>1. proc[r] \in Procs /\ proc[r].hook.ip \in IPs
          BY <1>10 DEF Apply, Procs, Hooks
    <2>2. proc' \in [Runners -> Procs \cup {NoEntry}]
          BY <1>10, <2>1 DEF Apply, Procs
    <2> QED
        BY <1>10, <2>1, <2>2 DEF Apply, Effect
  <1>11. ASSUME NEW r \in Runners, Finish(r) PROVE TypeOK'
    <2>1. proc[r] \in Procs /\ proc[r].hook.client \in Clients /\ now \in Nat
          BY <1>11, AccessAssumption DEF Finish, Procs, Hooks, MaxClock
    <2>2. cooldown' \in [Clients -> Nat \cup {NoEntry}]
          BY <1>11, <2>1 DEF Finish
    <2> QED
        BY <1>11, <2>2 DEF Finish, Done
  <1>12. CASE Tick
         BY <1>12, AccessAssumption DEF Tick, MaxClock
  <1>13. CASE Restart
    <2>1. orphans' \subseteq Hooks
          BY <1>13 DEF Restart, Procs
    <2> QED
        BY <1>13, <2>1, AccessAssumption DEF Restart, Empty
  <1>14. ASSUME NEW h \in orphans, OrphanApply(h) PROVE TypeOK'
         BY <1>14 DEF OrphanApply, Effect, Hooks
  <1>15. CASE UNCHANGED vars
         BY <1>15 DEF vars
  <1> QED
      BY <1>1, <1>2, <1>3, <1>4, <1>5, <1>6, <1>7, <1>8, <1>9, <1>10, <1>11, <1>12, <1>13,
         <1>14, <1>15 DEF Next

(* Every variable keeps its type; in particular {ip_clients} is never       *)
(* negative, whichever leases expire or are released together.              *)
THEOREM TypeCorrect == Spec => []TypeOK
  BY InitType, NextType, PTL DEF Spec

-----------------------------------------------------------------------------
(* A session asks for its grant hook.                                      *)

\* A task has a hook exactly while it is at "hook", and it is its client's.
TaskHookInv ==
    \A t \in Tasks :
        /\ proc[t] # NoEntry =>
              /\ task[t] # NoEntry /\ task[t].pc = "hook"
              /\ task[t].client = proc[t].hook.client
        /\ task[t] # NoEntry /\ task[t].pc = "hook" => proc[t] # NoEntry

\* What makes task t count as a pending grant of client c.
Pending(t, c) ==
    /\ task[t] # NoEntry /\ task[t].client = c
    /\ \/ task[t].pc = "cooldown" /\ task[t].new
       \/ task[t].pc = "count"
       \/ /\ task[t].pc = "hook" /\ proc[t] # NoEntry
          /\ proc[t].st = "ready" /\ IsGrant(proc[t].hook)

SessionInv == TaskHookInv /\ SessionAsksGrant

(* GrantPending is the disjunction of Pending over the tasks.               *)
LEMMA PendingLemma ==
    /\ \A c : GrantPending(c) <=> \E t \in Tasks : Pending(t, c)
    /\ \A c : GrantPending(c)' <=> \E t \in Tasks : Pending(t, c)'
  BY DEF GrantPending, Pending

(* There are no sessions at the start.                                      *)
LEMMA InitSession == Init => SessionInv
  BY DEF Init, Empty, SessionInv, TaskHookInv, SessionAsksGrant, Runners

(* Every step keeps each session's grant asked for or pending.              *)
LEMMA NextSession == TypeOK /\ SessionInv /\ [Next]_vars => SessionInv'
  <1> SUFFICES ASSUME TypeOK, SessionInv, [Next]_vars PROVE SessionInv'
      OBVIOUS
  <1> USE DEF SessionInv
  \* What a step must show: it keeps TaskHookInv; it takes a lease from nowhere,
  \* forgets no session and drops no pending grant, except for a client that
  \* ends up with a started session or a pending grant.
  <1>0. ASSUME TaskHookInv',
               \A c \in Clients :
                  \/ leases'[c] = NoEntry
                  \/ session'[c] # {}
                  \/ \E t \in Tasks : Pending(t, c)'
                  \/ /\ leases'[c] # NoEntry => leases[c] # NoEntry
                     /\ session[c] # {} => session'[c] # {}
                     /\ \A t \in Tasks : Pending(t, c) => Pending(t, c)'
        PROVE  SessionInv'
    <2> SUFFICES ASSUME NEW c \in Clients, leases'[c] # NoEntry, session'[c] = {}
                 PROVE  \E t \in Tasks : Pending(t, c)'
        BY <1>0, PendingLemma DEF SessionAsksGrant
    <2> QED
        BY <1>0, PendingLemma DEF SessionAsksGrant
  \* Steps that touch neither tasks nor their hooks nor sessions, and give no lease.
  <1>20. ASSUME UNCHANGED <<task, session>>,
               \A t \in Tasks : proc'[t] = proc[t],
               \A c \in Clients : leases'[c] # NoEntry => leases[c] # NoEntry
        PROVE  SessionInv'
    <2>1. TaskHookInv'
          BY <1>20 DEF TaskHookInv
    <2>2. \A c : \A t \in Tasks : Pending(t, c) => Pending(t, c)'
          BY <1>20 DEF Pending
    <2> QED
        BY <1>20, <1>0, <2>1, <2>2
  <1>1. ASSUME NEW t \in Tasks, NEW kind \in {"response", "bye"}, NEW c \in Clients,
               NEW ip \in IPs, NEW param \in Params \cup {NoEntry}, NEW i \in Intervals,
               Answer(t, kind, c, ip, param, i)
        PROVE  SessionInv'
    <2>1. /\ task[t] = NoEntry /\ proc' = proc /\ session' = session /\ leases' = leases
          /\ \A u \in Tasks : u # t => task'[u] = task[u]
          /\ task'[t].pc # "hook"
          BY <1>1 DEF Answer, TypeOK
    <2>2. TaskHookInv'
          BY <2>1 DEF TaskHookInv
    <2>3. \A d : \A u \in Tasks : Pending(u, d) => Pending(u, d)'
          BY <2>1 DEF Pending
    <2> QED
        BY <1>0, <2>1, <2>2, <2>3
  <1>2. ASSUME NEW t \in Tasks, RenewLease(t) PROVE SessionInv'
    <2> DEFINE a == task[t]
    <2>1. /\ a # NoEntry /\ a \in AnswerTask /\ a.pc = "renew" /\ a.client \in Clients
          BY <1>2 DEF RenewLease, TaskAt, TypeOK, AnswerTask
    <2>2. /\ proc' = proc
          /\ \A u \in Tasks : u # t => task'[u] = task[u]
          /\ task'[t] # NoEntry /\ task'[t].pc = "cooldown" /\ task'[t].client = a.client
          /\ task'[t].new = ~LeaseLive(leases, a.client, now)
      <3>1. task'[t] = [a EXCEPT !.pc = "cooldown", !.new = ~LeaseLive(leases, a.client, now)]
            BY <1>2 DEF RenewLease, TypeOK
      <3>2. task'[t] \in AnswerTask
            BY <2>1, <3>1 DEF AnswerTask, LeaseLive
      <3> QED
          BY <1>2, <2>1, <3>1, <3>2, RecordAssumption DEF RenewLease, TypeOK, AnswerTask
    <2>3. \A d \in Clients : d # a.client => leases'[d] = leases[d] /\ session'[d] = session[d]
          BY <1>2 DEF RenewLease, Renew, TypeOK
    <2>4. TaskHookInv'
          BY <2>1, <2>2 DEF TaskHookInv
    <2>5. \A d : \A u \in Tasks : Pending(u, d) => Pending(u, d)'
          BY <2>1, <2>2 DEF Pending
    <2>6. CASE LeaseLive(leases, a.client, now)
      <3>1. session' = session /\ leases[a.client] # NoEntry
            BY <1>2, <2>6 DEF RenewLease, LeaseLive
      <3>2. \A d \in Clients : leases'[d] # NoEntry => leases[d] # NoEntry
            BY <2>3, <3>1
      <3>3. ASSUME NEW d \in Clients
            PROVE  /\ leases'[d] # NoEntry => leases[d] # NoEntry
                   /\ session[d] # {} => session'[d] # {}
                   /\ \A u \in Tasks : Pending(u, d) => Pending(u, d)'
            BY <2>5, <3>1, <3>2
      <3> HIDE DEF SessionInv
      <3> QED
          BY <1>0, <2>4, <3>3
    <2>7. CASE ~LeaseLive(leases, a.client, now)
      <3>1. \A d : d = a.client => Pending(t, d)'
            BY <2>2, <2>7 DEF Pending
      <3> QED
          BY <1>0, <2>3, <2>4, <2>5, <3>1
    <2> QED
        BY <2>6, <2>7
  <1>3. ASSUME NEW t \in Tasks, CheckCooldown(t) PROVE SessionInv'
    <2>1. /\ task[t] # NoEntry /\ task[t] \in AnswerTask /\ task[t].pc = "cooldown"
          /\ UNCHANGED <<proc, session, leases>>
          BY <1>3 DEF CheckCooldown, TaskAt, TypeOK
    <2>2. CASE ~task[t].new /\ task' = [task EXCEPT ![t] = NoEntry]
      <3>1. TaskHookInv'
            BY <2>1, <2>2 DEF TaskHookInv, TypeOK
      <3>2. \A d : \A u \in Tasks : Pending(u, d) => Pending(u, d)'
            BY <2>1, <2>2 DEF Pending, TypeOK
      <3> QED
          BY <1>0, <2>1, <3>1, <3>2
    <2>3. CASE task' = [task EXCEPT ![t].pc = "count"]
      <3>1. task'[t] # NoEntry /\ task'[t].pc = "count" /\ task'[t].client = task[t].client
        <4>1. task'[t] = [task[t] EXCEPT !.pc = "count"]
              BY <2>3 DEF TypeOK
        <4>2. task'[t] \in AnswerTask
              BY <2>1, <4>1 DEF AnswerTask
        <4> QED
            BY <2>1, <4>1, <4>2, RecordAssumption DEF AnswerTask
      <3>2. \A u \in Tasks : u # t => task'[u] = task[u]
            BY <2>3 DEF TypeOK
      <3>3. TaskHookInv'
            BY <2>1, <3>1, <3>2 DEF TaskHookInv
      <3>4. \A d : \A u \in Tasks : Pending(u, d) => Pending(u, d)'
            BY <2>1, <3>1, <3>2 DEF Pending
      <3> QED
          BY <1>0, <2>1, <3>3, <3>4
    <2> QED
        BY <1>3, <2>2, <2>3 DEF CheckCooldown, Skips, TaskEnds
  <1>4. ASSUME NEW t \in Tasks, AskGrant(t) PROVE SessionInv'
    <2>1. /\ task[t] # NoEntry /\ task[t] \in AnswerTask /\ task[t].pc = "count"
          /\ UNCHANGED <<session, leases>>
          BY <1>4 DEF AskGrant, TaskAt, TypeOK
    <2>2. task'[t] # NoEntry /\ task'[t].pc = "hook" /\ task'[t].client = task[t].client
      <3>1. task'[t] = [task[t] EXCEPT !.pc = "hook"]
            BY <1>4 DEF AskGrant, TypeOK
      <3>2. task'[t] \in AnswerTask
            BY <2>1, <3>1 DEF AnswerTask
      <3> QED
          BY <2>1, <3>1, <3>2, RecordAssumption DEF AnswerTask
    <2>3. /\ proc'[t] # NoEntry /\ proc'[t].st = "ready" /\ IsGrant(proc'[t].hook)
          /\ proc'[t].hook.client = task[t].client
      <3>1. proc'[t] = [st |-> "ready", hook |->
               [client |-> task[t].client, ip |-> task[t].ip, param |-> task[t].param,
                new |-> task[t].new, reason |-> "grant",
                others |-> OthersOnIp(leases, task[t].ip, task[t].client, now)]]
            BY <1>4 DEF AskGrant, TypeOK, Runners
      <3>2. OthersOnIp(leases, task[t].ip, task[t].client, now) \in Nat
            BY OthersType DEF TypeOK
      <3>3. proc'[t] \in Procs
            BY <2>1, <3>1, <3>2 DEF Procs, Hooks, AnswerTask
      <3> QED
          BY <3>1, <3>3, RecordAssumption DEF IsGrant
    <2>4. \A u \in Tasks : u # t => task'[u] = task[u] /\ proc'[u] = proc[u]
          BY <1>4 DEF AskGrant, TypeOK, Runners
    <2>5. TaskHookInv'
          BY <2>2, <2>3, <2>4 DEF TaskHookInv
    <2>6. \A d : \A u \in Tasks : Pending(u, d) => Pending(u, d)'
          BY <2>1, <2>2, <2>3, <2>4 DEF Pending
    <2> QED
        BY <1>0, <2>1, <2>5, <2>6
  <1>5. ASSUME NEW t \in Tasks, ReleaseLease(t) PROVE SessionInv'
    <2> DEFINE c == task[t].client
    <2>1. /\ task[t] # NoEntry /\ task[t] \in AnswerTask /\ task[t].pc = "release"
          /\ UNCHANGED session
          /\ \A d \in Clients : leases'[d] # NoEntry => leases[d] # NoEntry
          BY <1>5 DEF ReleaseLease, TaskAt, TypeOK, Release
    <2>2. proc[t] = NoEntry
          BY <2>1 DEF TaskHookInv
    <2>3. CASE task' = [task EXCEPT ![t] = NoEntry] /\ proc' = proc
      <3>1. TaskHookInv'
            BY <2>2, <2>3 DEF TaskHookInv, TypeOK
      <3>2. \A d : \A u \in Tasks : Pending(u, d) => Pending(u, d)'
            BY <2>1, <2>3 DEF Pending, TypeOK
      <3> QED
          BY <1>0, <2>1, <3>1, <3>2
    <2>4. CASE /\ leases[c] # NoEntry /\ hasRevoke
               /\ task' = [task EXCEPT ![t].pc = "hook"]
               /\ proc' = [proc EXCEPT ![t] = [st |-> "ready", hook |->
                     [client |-> c, ip |-> leases[c].ip, new |-> FALSE, reason |-> "bye",
                      param |-> IF task[t].param # NoEntry THEN task[t].param ELSE leases[c].param,
                      others |-> OthersOnIp(leases, leases[c].ip, c, now)]]]
      <3>1. task'[t] # NoEntry /\ task'[t].pc = "hook" /\ task'[t].client = c
        <4>1. task'[t] = [task[t] EXCEPT !.pc = "hook"]
              BY <2>4 DEF TypeOK
        <4>2. task'[t] \in AnswerTask
              BY <2>1, <4>1 DEF AnswerTask
        <4> QED
            BY <2>1, <4>1, <4>2, RecordAssumption DEF AnswerTask
      <3>2. proc'[t] # NoEntry /\ proc'[t].hook.client = c
        <4>1. proc'[t].hook.client = c
              BY <2>4 DEF TypeOK, Runners
        <4>2. proc'[t] # NoEntry
          <5> DEFINE x == [st |-> "ready", hook |->
                     [client |-> c, ip |-> leases[c].ip, new |-> FALSE, reason |-> "bye",
                      param |-> IF task[t].param # NoEntry THEN task[t].param ELSE leases[c].param,
                      others |-> OthersOnIp(leases, leases[c].ip, c, now)]]
          <5>1. OthersOnIp(leases, leases[c].ip, c, now) \in Nat
                BY OthersType DEF TypeOK
          <5>2. c \in Clients /\ task[t].param \in Params \cup {NoEntry}
                BY <2>1 DEF AnswerTask
          <5>3. leases[c].ip \in IPs /\ leases[c].param \in Params \cup {NoEntry}
                BY <2>4, <5>2 DEF TypeOK, Leases
          <5>4. x \in Procs
                BY <5>1, <5>2, <5>3 DEF Procs, Hooks
          <5>5. proc'[t] = x
                BY <2>4 DEF TypeOK, Runners
          <5> QED
              BY <5>4, <5>5, RecordAssumption
        <4> QED
            BY <4>1, <4>2
      <3>3. \A u \in Tasks : u # t => task'[u] = task[u] /\ proc'[u] = proc[u]
            BY <2>4 DEF TypeOK, Runners
      <3>4. TaskHookInv'
            BY <3>1, <3>2, <3>3 DEF TaskHookInv
      <3>5. \A d : \A u \in Tasks : Pending(u, d) => Pending(u, d)'
            BY <2>1, <3>3 DEF Pending
      <3> QED
          BY <1>0, <2>1, <3>4, <3>5
    <2> QED
        BY <1>5, <2>3, <2>4 DEF ReleaseLease, TaskEnds
  <1>6. ASSUME NEW s \in Scans, ScanTick(s) PROVE SessionInv'
    <2>1. \A c \in Clients : leases'[c] # NoEntry => leases[c] # NoEntry
          BY <1>6 DEF ScanTick, TakeExpired, TypeOK
    <2> QED
        BY <1>6, <1>20, <2>1 DEF ScanTick
  <1>7. ASSUME NEW s \in Scans, NEW h \in todo[s], ScanNext(s, h) PROVE SessionInv'
    <2>1. \A t \in Tasks : proc'[t] = proc[t]
          BY <1>7, AccessAssumption DEF ScanNext, TypeOK, Runners
    <2> QED
        BY <1>7, <1>20, <2>1 DEF ScanNext
  \* Steps of the executor: they move or end the hook of one runner, and a grant
  \* hook that stops being ready leaves its client's session asked for.
  <1>21. ASSUME NEW r \in Runners, proc[r] # NoEntry, leases' = leases,
                \A t \in Tasks : t # r => task'[t] = task[t] /\ proc'[t] = proc[t],
                r \in Tasks =>
                   \/ proc'[r] = NoEntry /\ task'[r] = NoEntry
                   \/ proc'[r] # NoEntry /\ proc'[r].hook = proc[r].hook /\ task'[r] = task[r],
                \/ /\ proc[r].st # "ready" \/ ~IsGrant(proc[r].hook)
                   /\ session' = session
                \/ /\ session'[proc[r].hook.client] # {}
                   /\ \A d \in Clients : d # proc[r].hook.client => session'[d] = session[d]
         PROVE  SessionInv'
    <2>1. TaskHookInv'
          BY <1>21 DEF TaskHookInv
    <2>2. ASSUME NEW d, NEW u \in Tasks, u # r, Pending(u, d) PROVE Pending(u, d)'
          BY <1>21, <2>2 DEF Pending
    <2>3. ASSUME NEW d, r \in Tasks, Pending(r, d)
          PROVE  d = proc[r].hook.client /\ proc[r].st = "ready" /\ IsGrant(proc[r].hook)
          BY <1>21, <2>3 DEF Pending, TaskHookInv
    <2> QED
        BY <1>0, <1>21, <2>1, <2>2, <2>3
  <1>8. ASSUME NEW r \in Runners, Start(r) PROVE SessionInv'
    <2>1. proc[r] # NoEntry /\ proc[r] \in Procs /\ proc[r].hook.client \in Clients
          BY <1>8 DEF Start, TypeOK, Procs, Hooks
    <2>2. proc'[r] # NoEntry /\ proc'[r].hook = proc[r].hook
      <3>1. proc'[r] = [proc[r] EXCEPT !.st = "running"]
            BY <1>8 DEF Start, TypeOK
      <3>2. proc'[r] \in Procs
            BY <2>1, <3>1 DEF Procs
      <3> QED
          BY <2>1, <3>1, <3>2, RecordAssumption DEF Procs
    <2>3. /\ leases' = leases /\ task' = task
          /\ \A t \in Tasks : t # r => proc'[t] = proc[t]
          BY <1>8 DEF Start, TypeOK, Runners
    <2>4. \/ ~IsGrant(proc[r].hook) /\ session' = session
          \/ /\ session'[proc[r].hook.client] # {}
             /\ \A d \in Clients : d # proc[r].hook.client => session'[d] = session[d]
          BY <1>8, <2>1 DEF Start, Asked, TypeOK
    <2> QED
        BY <1>21, <2>1, <2>2, <2>3, <2>4
  <1>9. ASSUME NEW r \in Runners, Refuse(r) PROVE SessionInv'
    <2>1. proc[r] # NoEntry /\ proc[r] \in Procs /\ proc[r].hook.client \in Clients
          BY <1>9 DEF Refuse, TypeOK, Procs, Hooks
    <2>2. /\ leases' = leases
          /\ \A t \in Tasks : t # r => task'[t] = task[t] /\ proc'[t] = proc[t]
          /\ r \in Tasks => proc'[r] = NoEntry /\ task'[r] = NoEntry
          BY <1>9 DEF Refuse, Done, TypeOK, Runners
    <2>3. \/ ~IsGrant(proc[r].hook) /\ session' = session
          \/ /\ session'[proc[r].hook.client] # {}
             /\ \A d \in Clients : d # proc[r].hook.client => session'[d] = session[d]
          BY <1>9, <2>1 DEF Refuse, Asked, TypeOK
    <2> QED
        BY <1>21, <2>1, <2>2, <2>3
  <1>10. ASSUME NEW r \in Runners, Apply(r) PROVE SessionInv'
    <2>1. proc[r] # NoEntry /\ proc[r] \in Procs /\ proc[r].st # "ready"
          BY <1>10 DEF Apply, TypeOK
    <2>2. proc'[r] # NoEntry /\ proc'[r].hook = proc[r].hook
      <3>1. proc'[r] = [proc[r] EXCEPT !.st = "applied"]
            BY <1>10 DEF Apply, TypeOK
      <3>2. proc'[r] \in Procs
            BY <2>1, <3>1 DEF Procs
      <3> QED
          BY <2>1, <3>1, <3>2, RecordAssumption DEF Procs
    <2>3. /\ leases' = leases /\ task' = task /\ session' = session
          /\ \A t \in Tasks : t # r => proc'[t] = proc[t]
          BY <1>10 DEF Apply, TypeOK, Runners
    <2> QED
        BY <1>21, <2>1, <2>2, <2>3
  <1>11. ASSUME NEW r \in Runners, Finish(r) PROVE SessionInv'
    <2>1. proc[r] # NoEntry /\ proc[r].st # "ready"
          BY <1>11 DEF Finish
    <2>2. /\ leases' = leases /\ session' = session
          /\ \A t \in Tasks : t # r => task'[t] = task[t] /\ proc'[t] = proc[t]
          /\ r \in Tasks => proc'[r] = NoEntry /\ task'[r] = NoEntry
          BY <1>11 DEF Finish, Done, TypeOK, Runners
    <2> QED
        BY <1>21, <2>1, <2>2
  <1>12. CASE Tick
         BY <1>12, <1>20 DEF Tick
  <1>13. CASE Restart
    <2>1. /\ \A c \in Clients : leases'[c] = NoEntry
          /\ \A t \in Tasks : task'[t] = NoEntry /\ proc'[t] = NoEntry
          BY <1>13 DEF Restart, Empty, Runners
    <2>2. TaskHookInv'
          BY <2>1 DEF TaskHookInv
    <2> QED
        BY <1>0, <2>1, <2>2
  <1>14. ASSUME NEW h \in orphans, OrphanApply(h) PROVE SessionInv'
         BY <1>14, <1>20 DEF OrphanApply
  <1>15. CASE UNCHANGED vars
         BY <1>15, <1>20 DEF vars
  <1> QED
      BY <1>1, <1>2, <1>3, <1>4, <1>5, <1>6, <1>7, <1>8, <1>9, <1>10, <1>11, <1>12, <1>13,
         <1>14, <1>15 DEF Next

(* handle_response, for every number of clients, tasks and scans: a tracked *)
(* lease has had its grant hook asked for since its session began, or a     *)
(* task is about to ask for it.                                             *)
THEOREM SessionAsksGrantHolds == Spec => []SessionAsksGrant
  <1>1. Init => TypeOK /\ SessionInv
        BY InitType, InitSession
  <1>2. TypeOK /\ SessionInv /\ [Next]_vars => TypeOK' /\ SessionInv'
        BY NextType, NextSession
  <1>3. SessionInv => SessionAsksGrant
        BY DEF SessionInv
  <1> QED
      BY <1>1, <1>2, <1>3, PTL DEF Spec

-----------------------------------------------------------------------------
(* No lease outlives lease_max_seconds.                                    *)

(* There are no leases at the start.                                        *)
LEMMA InitBounded == Init => LeaseBounded
  BY DEF Init, Empty, LeaseBounded

(* A step keeps, drops or renews a lease; a renewal stays within the bound. *)
LEMMA NextBounded == TypeOK /\ LeaseBounded /\ [Next]_vars => LeaseBounded'
  <1> SUFFICES ASSUME TypeOK, LeaseBounded, [Next]_vars PROVE LeaseBounded'
      OBVIOUS
  <1>1. now \in Int /\ LeaseMax \in Int
        BY AccessAssumption DEF TypeOK
  <1>2. ASSUME now' = now, \A c \in Clients : leases'[c] = NoEntry \/ leases'[c] = leases[c]
        PROVE  LeaseBounded'
        BY <1>2 DEF LeaseBounded
  <1>3. ASSUME NEW t \in Tasks, RenewLease(t) PROVE LeaseBounded'
    <2> DEFINE a == task[t]
               lease == [expires |-> now + LeaseTtl(a.interval), ip |-> a.ip, param |-> a.param]
    <2>1. a.client \in Clients /\ LeaseTtl(a.interval) \in 1 .. LeaseMax
          BY <1>3, TtlType DEF RenewLease, TaskAt, TypeOK, AnswerTask
    <2>2. lease.expires <= now + LeaseMax
          BY <1>1, <2>1
    <2>3. now' = now /\ \A c \in Clients : leases'[c] = leases[c] \/ leases'[c] = lease
          BY <1>3, <2>1 DEF RenewLease, Renew, TypeOK
    <2> QED
        BY <2>2, <2>3 DEF LeaseBounded
  <1>4. ASSUME NEW t \in Tasks, ReleaseLease(t) PROVE LeaseBounded'
        BY <1>2, <1>4 DEF ReleaseLease, Release, TypeOK
  <1>5. ASSUME NEW s \in Scans, ScanTick(s) PROVE LeaseBounded'
        BY <1>2, <1>5 DEF ScanTick, TakeExpired, TypeOK
  <1>6. CASE Tick
    <2>1. now' = now + 1 /\ leases' = leases
          BY <1>6 DEF Tick
    <2>2. \A c \in Clients : leases[c] # NoEntry => leases[c].expires \in Int
          BY DEF TypeOK, Leases
    <2> QED
        BY <1>1, <2>1, <2>2 DEF LeaseBounded
  <1>7. CASE Restart
        BY <1>2, <1>7 DEF Restart, Empty
  <1>8. CASE UNCHANGED <<now, leases>>
        BY <1>2, <1>8
  <1> QED
      BY <1>3, <1>4, <1>5, <1>6, <1>7, <1>8
      DEF Next, vars, Answer, CheckCooldown, AskGrant, ScanNext, Start, Refuse, Apply, Finish,
          OrphanApply

(* lease_max_seconds: whatever interval clients advertise, no lease reaches *)
(* further than the configured maximum into the future.                     *)
THEOREM LeaseBoundedHolds == Spec => []LeaseBounded
  <1>1. Init => TypeOK /\ LeaseBounded
        BY InitType, InitBounded
  <1>2. TypeOK /\ LeaseBounded /\ [Next]_vars => TypeOK' /\ LeaseBounded'
        BY NextType, NextBounded
  <1> QED
      BY <1>1, <1>2, PTL DEF Spec

-----------------------------------------------------------------------------
(* The cap on tracked clients.                                             *)

(* The clients with a lease are finitely many.                              *)
LEMMA HeldFinite ==
    ASSUME TypeOK
    PROVE  /\ Tracked(leases) = {c \in Clients : leases[c] # NoEntry}
           /\ IsFiniteSet(Tracked(leases)) /\ Cardinality(Tracked(leases)) \in Nat
  <1>1. Tracked(leases) = {c \in Clients : leases[c] # NoEntry}
        BY DEF Tracked, TypeOK
  <1>2. Tracked(leases) \in SUBSET Clients
        BY <1>1
  <1>3. IsFiniteSet(Tracked(leases))
        BY <1>2, FS_Subset, AccessAssumption
  <1> QED
      BY <1>1, <1>3, FS_CardinalityType

(* renew: a pulse adds its client to the tracked ones, below the cap only.  *)
LEMMA RenewTracks ==
    ASSUME TypeOK, NEW t \in Tasks, RenewLease(t)
    PROVE  /\ task[t].client \in Clients
           /\ \/ Tracked(leases') = Tracked(leases)
              \/ /\ Tracked(leases') = Tracked(leases) \cup {task[t].client}
                 /\ Cardinality(Tracked(leases)) < Capacity(MaxEntries)
  <1> DEFINE lease == [expires |-> now + LeaseTtl(task[t].interval), ip |-> task[t].ip,
                       param |-> task[t].param]
  <1>1. PICK c \in Clients : c = task[t].client
        BY DEF RenewLease, TaskAt, TypeOK, AnswerTask
  <1>2. lease # NoEntry
    <2>1. LeaseTtl(task[t].interval) \in 1 .. LeaseMax
          BY TtlType DEF RenewLease, TaskAt, TypeOK, AnswerTask
    <2>2. now + LeaseTtl(task[t].interval) \in Nat
          BY <2>1, AccessAssumption DEF TypeOK, MaxClock
    <2>3. lease \in Leases(IPs, Params)
          BY <2>2 DEF RenewLease, TaskAt, TypeOK, AnswerTask, Leases
    <2> QED
        BY <2>3, RecordAssumption
  <1>3. leases' = Renew(leases, MaxEntries, c, lease)
        BY <1>1 DEF RenewLease
  <1> HIDE DEF lease
  <1>4. DOMAIN leases = Clients
        BY DEF TypeOK
  <1>5. CASE leases' = leases
        BY <1>1, <1>5
  <1>6. CASE leases' = [leases EXCEPT ![c] = lease] /\ leases[c] # NoEntry
    <2>1. Tracked(leases') = Tracked(leases)
          BY <1>2, <1>4, <1>6 DEF Tracked
    <2> QED
        BY <1>1, <2>1
  <1>7. CASE leases' = [leases EXCEPT ![c] = lease] /\ Cardinality(Tracked(leases)) < Capacity(MaxEntries)
    <2>1. Tracked(leases') = Tracked(leases) \cup {c}
          BY <1>2, <1>4, <1>7 DEF Tracked
    <2> QED
        BY <1>1, <1>7, <2>1
  <1> QED
      BY <1>3, <1>5, <1>6, <1>7 DEF Renew

(* The other steps track nobody new.                                        *)
LEMMA OthersTrack ==
    ASSUME TypeOK, [Next]_vars, \A t \in Tasks : ~RenewLease(t)
    PROVE  Tracked(leases') \subseteq Tracked(leases)
  <1>1. CASE leases' = leases
        BY <1>1
  <1>2. ASSUME NEW t \in Tasks, ReleaseLease(t) PROVE Tracked(leases') \subseteq Tracked(leases)
        BY <1>1, <1>2 DEF ReleaseLease, Release, Tracked, TypeOK
  <1>3. ASSUME NEW s \in Scans, ScanTick(s) PROVE Tracked(leases') \subseteq Tracked(leases)
        BY <1>3 DEF ScanTick, TakeExpired, Tracked, TypeOK
  <1>4. CASE Restart
        BY <1>4 DEF Restart, Empty, Tracked
  <1> QED
      BY <1>1, <1>2, <1>3, <1>4
      DEF Next, vars, Answer, CheckCooldown, AskGrant, ScanNext, Start, Refuse, Apply, Finish,
          Tick, OrphanApply

(* LeaseTracker's cap, for every number of clients and every max_entries:   *)
(* no interleaving of pulses, releases and scans tracks more clients.       *)
THEOREM LeaseCapHolds == Spec => []LeaseCap
  <1> DEFINE Capped == Cardinality(Tracked(leases)) <= Capacity(MaxEntries)
  <1>0. Capacity(MaxEntries) \in Nat
        BY AccessAssumption DEF Capacity
  <1>1. TypeOK => (LeaseCap <=> Capped)
        BY HeldFinite DEF LeaseCap, Capacity
  <1>2. Init => Capped
    <2> SUFFICES ASSUME Init PROVE Capped
        OBVIOUS
    <2>1. Tracked(leases) = {}
          BY DEF Init, Empty, Tracked
    <2>2. Cardinality(Tracked(leases)) = 0
          BY <2>1, FS_EmptySet
    <2> QED
        BY <1>0, <2>2
  <1>3. TypeOK /\ Capped /\ [Next]_vars => Capped'
    <2> SUFFICES ASSUME TypeOK, Capped, [Next]_vars PROVE Capped'
        OBVIOUS
    <2>1. PICK n \in Nat : n = Cardinality(Tracked(leases)) /\ IsFiniteSet(Tracked(leases))
          BY HeldFinite
    <2>2. ASSUME NEW t \in Tasks, RenewLease(t) PROVE Capped'
      <3>1. CASE Tracked(leases') = Tracked(leases)
            BY <3>1
      <3>2. CASE /\ Tracked(leases') = Tracked(leases) \cup {task[t].client}
                 /\ Cardinality(Tracked(leases)) < Capacity(MaxEntries)
        <4>1. Cardinality(Tracked(leases')) = n \/ Cardinality(Tracked(leases')) = n + 1
              BY <2>1, <3>2, FS_AddElement
        <4> QED
            BY <1>0, <2>1, <3>2, <4>1
      <3> QED
          BY <2>2, <3>1, <3>2, RenewTracks
    <2>3. CASE \A t \in Tasks : ~RenewLease(t)
      <3>1. Tracked(leases') \in SUBSET Tracked(leases)
            BY <2>3, OthersTrack
      <3>2. Cardinality(Tracked(leases')) \in Nat /\ Cardinality(Tracked(leases')) <= n
            BY <2>1, <3>1, FS_Subset, FS_CardinalityType
      <3> QED
          BY <1>0, <2>1, <3>2
    <2> QED
        BY <2>2, <2>3
  <1> HIDE DEF Capped
  <1> QED
      BY <1>1, <1>2, <1>3, TypeCorrect, PTL DEF Spec

-----------------------------------------------------------------------------
(* {ip_clients} of a revoke.                                               *)

\* The other clients than c with a live lease on ip, once this step is done.
LeftOn(ip, c) ==
    {o \in Clients \ {c} : leases'[o] # NoEntry /\ now < leases'[o].expires /\ leases'[o].ip = ip}

(* take_expired and release, for any number of clients that expire, release *)
(* and renew side by side: a revoke carries the number of other clients     *)
(* with a live lease on its IP at the instant the lease ends.               *)
THEOREM IpClientsExactHolds == Spec => IpClientsExact
  <1> DEFINE queued == UNION {todo'[s] \ todo[s] : s \in Scans}
             handed == {proc'[t].hook : t \in {u \in Tasks : proc[u] = NoEntry /\ proc'[u] # NoEntry}}
             new == queued \cup handed
             Exact(c) == leases[c] # NoEntry /\ leases'[c] = NoEntry /\ restarts' = restarts =>
                 \A h \in new : h.client = c => h.others = Cardinality(LeftOn(h.ip, c))
  <1>1. TypeOK /\ [Next]_vars => \A c \in Clients : Exact(c)
    <2> SUFFICES ASSUME TypeOK, [Next]_vars, NEW c \in Clients, leases[c] # NoEntry,
                        leases'[c] = NoEntry, restarts' = restarts, NEW h \in new, h.client = c
                 PROVE  h.others = Cardinality(LeftOn(h.ip, c))
        OBVIOUS
    <2>0. \A d \in Clients : leases[d] # NoEntry => leases[d].expires \in Nat
          BY DEF TypeOK, Leases
    <2>1. ASSUME NEW t \in Tasks, ReleaseLease(t) PROVE h.others = Cardinality(LeftOn(h.ip, c))
      <3>1. PICK d \in Clients : d = task[t].client
            BY <2>1 DEF ReleaseLease, TaskAt, TypeOK, AnswerTask
      <3> DEFINE l == leases[d]
                 hook == [client |-> d, ip |-> l.ip, new |-> FALSE, reason |-> "bye",
                          param |-> IF task[t].param # NoEntry THEN task[t].param ELSE l.param,
                          others |-> OthersOnIp(leases, l.ip, d, now)]
                 p == [st |-> "ready", hook |-> hook]
      <3>2. p.hook = hook /\ hook.client = d /\ hook.ip = l.ip
            /\ hook.others = OthersOnIp(leases, l.ip, d, now)
            OBVIOUS
      <3>3. \/ proc' = proc
            \/ proc' = [proc EXCEPT ![t] = p] /\ leases' = Release(leases, d)
            BY <2>1, <3>1 DEF ReleaseLease
      <3>4. todo' = todo
            BY <2>1 DEF ReleaseLease
      <3> HIDE DEF p, hook
      <3>5. proc' = [proc EXCEPT ![t] = p] /\ leases' = Release(leases, d) /\ h = hook
        <4>0. \A q \in Scans : todo'[q] \ todo[q] = {}
              BY <3>4
        <4>1. \E u \in Tasks : proc[u] = NoEntry /\ proc'[u] # NoEntry /\ h = proc'[u].hook
          <5>1. h \notin queued
                BY <4>0
          <5>2. h \in handed
            <6> HIDE DEF queued, handed
            <6> QED
                BY <5>1
          <5> QED
              BY <5>2
        <4>2. proc' # proc
              BY <4>1
        <4>3. \A u \in Tasks : u # t => proc'[u] = proc[u]
              BY <3>3 DEF TypeOK, Runners
        <4>4. t \in DOMAIN proc
              BY DEF TypeOK, Runners
        <4> QED
            BY <3>2, <3>3, <4>1, <4>2, <4>3, <4>4
      <3>6. c = d /\ h.ip = l.ip /\ h.others = OthersOnIp(leases, l.ip, d, now)
            BY <3>2, <3>5
      <3>7. LeftOn(l.ip, d) = {o \in Tracked(leases) \ {d} : leases[o].ip = l.ip /\ now < leases[o].expires}
            BY <3>5 DEF LeftOn, Tracked, Release, TypeOK
      <3> QED
          BY <3>6, <3>7 DEF OthersOnIp
    <2>2. ASSUME NEW s \in Scans, ScanTick(s) PROVE h.others = Cardinality(LeftOn(h.ip, c))
      <3>1. leases' = TakeExpired(leases, now) /\ proc' = proc
            BY <2>2 DEF ScanTick
      <3>2. PICK d \in Expired(leases, now) : h = ExpiryHook(d)
        <4>1. PICK ended \in SUBSET Expired(leases, now) :
                 todo' = [todo EXCEPT ![s] = {ExpiryHook(d) : d \in ended}]
              BY <2>2 DEF ScanTick
        <4>2. \E q \in Scans : h \in todo'[q] \ todo[q]
              BY <3>1
        <4> QED
            BY <4>1, <4>2 DEF TypeOK
      <3>3. /\ h.client = d /\ h.ip = leases[d].ip
            /\ h.others = RemainingOnIp(leases, leases[d].ip, now)
            BY <3>2 DEF ExpiryHook
      <3>4. LeftOn(leases[d].ip, d) = {o \in Tracked(TakeExpired(leases, now)) : leases[o].ip = leases[d].ip}
        <4>1. DOMAIN leases = Clients /\ now \in Nat
              BY AccessAssumption DEF TypeOK, MaxClock
        <4>2. \A o \in Clients : leases'[o] = IF leases[o] # NoEntry /\ now >= leases[o].expires
                                              THEN NoEntry ELSE leases[o]
              BY <3>1, <4>1 DEF TakeExpired, Expired, Tracked
        <4>3. leases'[d] = NoEntry
              BY <3>2, <4>1, <4>2 DEF Expired, Tracked
        <4>4. Tracked(TakeExpired(leases, now)) = {o \in Clients : leases'[o] # NoEntry}
              BY <3>1, <4>1 DEF Tracked, TakeExpired
        <4>5. \A o \in Clients : leases'[o] # NoEntry => leases'[o] = leases[o] /\ now < leases[o].expires
              BY <2>0, <4>1, <4>2
        <4> QED
            BY <4>3, <4>4, <4>5 DEF LeftOn
      <3> QED
          BY <3>3, <3>4 DEF RemainingOnIp
    <2>3. ASSUME NEW t \in Tasks, RenewLease(t) PROVE FALSE
      <3>1. c \in Tracked(leases) /\ c \notin Tracked(leases')
            BY DEF Tracked, TypeOK
      <3> QED
          BY <2>3, <3>1, RenewTracks
    <2>4. CASE Restart
      <3>1. restarts \in Nat /\ restarts' = restarts + 1
            BY <2>4 DEF Restart, TypeOK
      <3> QED
          BY <3>1
    <2> QED
        BY <2>1, <2>2, <2>3, <2>4
        DEF Next, vars, Answer, CheckCooldown, AskGrant, ScanNext, Start, Refuse, Apply, Finish,
            Tick, OrphanApply
  <1>2. TypeOK /\ [Next]_vars =>
          [\A c \in Clients : leases[c] # NoEntry /\ leases'[c] = NoEntry /\ restarts' = restarts =>
              \A h \in new : h.client = c => h.others =
                 Cardinality({o \in Clients \ {c} : /\ leases'[o] # NoEntry
                                                    /\ now < leases'[o].expires
                                                    /\ leases'[o].ip = h.ip})]_vars
        BY <1>1 DEF LeftOn
  <1> QED
      BY <1>2, TypeCorrect, PTL DEF Spec, IpClientsExact

-----------------------------------------------------------------------------
(* The ledger of revokes.                                                  *)

\* The revokes of c in the scans' lists, and those handed to an executor.
Queued(c) ==
    {e \in Scans \X (UNION {todo[s] : s \in Scans}) : e[2] \in todo[e[1]] /\ e[2].client = c}
Handed(c) ==
    {r \in Runners : /\ proc[r] # NoEntry /\ proc[r].st = "ready"
                     /\ ~IsGrant(proc[r].hook) /\ proc[r].hook.client = c}

\* A scan's list holds revokes, at most one of each client.
TodoInv ==
    \A s \in Scans : \A h \in todo[s] :
        ~IsGrant(h) /\ \A g \in todo[s] : g.client = h.client => g = h

LedgerInv == SessionInv /\ TodoInv

LEMMA QueuedElements ==
    /\ \A c, e : e \in Queued(c) <=> \E s \in Scans : \E h \in todo[s] : h.client = c /\ e = <<s, h>>
    /\ \A c, e : e \in Queued(c)' <=> \E s \in Scans : \E h \in todo'[s] : h.client = c /\ e = <<s, h>>
  BY DEF Queued

LEMMA DueIs ==
    ASSUME NEW c
    PROVE  /\ Due(c) = Cardinality(Queued(c)) + Cardinality(Handed(c))
           /\ Due(c)' = Cardinality(Queued(c)') + Cardinality(Handed(c)')
  BY DEF Due, Queued, Handed

(* Only finitely many revokes are under way: one of c in each list.         *)
LEMMA DueFinite ==
    ASSUME TodoInv, NEW c
    PROVE  /\ IsFiniteSet(Queued(c)) /\ Cardinality(Queued(c)) \in Nat
           /\ IsFiniteSet(Handed(c)) /\ Cardinality(Handed(c)) \in Nat
  <1> DEFINE f == [e \in Queued(c) |-> e[1]]
  <1>1. f \in [Queued(c) -> Scans]
        BY DEF Queued
  <1>2. \A d, e \in Queued(c) : f[d] = f[e] => d = e
    <2> SUFFICES ASSUME NEW d \in Queued(c), NEW e \in Queued(c), f[d] = f[e] PROVE d = e
        OBVIOUS
    <2>1. PICK s \in Scans : \E h \in todo[s] : h.client = c /\ d = <<s, h>>
          BY QueuedElements
    <2>2. PICK h \in todo[s] : h.client = c /\ d = <<s, h>>
          BY <2>1
    <2>3. PICK q \in Scans : \E g \in todo[q] : g.client = c /\ e = <<q, g>>
          BY QueuedElements
    <2>4. PICK g \in todo[q] : g.client = c /\ e = <<q, g>>
          BY <2>3
    <2>5. s = q
          BY <2>2, <2>4
    <2> QED
        BY <2>2, <2>4, <2>5 DEF TodoInv
  <1>3. f \in Injection(Queued(c), Scans)
        BY <1>1, <1>2 DEF Injection, IsInjective
  <1> HIDE DEF f
  <1>4. IsFiniteSet(Queued(c))
        BY <1>3, FS_Injection, AccessAssumption
  <1>5. IsFiniteSet(Runners)
        BY FS_Union, AccessAssumption DEF Runners
  <1>6. Handed(c) \in SUBSET Runners
        BY DEF Handed
  <1>7. IsFiniteSet(Handed(c))
        BY <1>5, <1>6, FS_Subset
  <1> QED
      BY <1>4, <1>7, FS_CardinalityType

(* What a step makes of c's account.                                        *)
LEMMA DueMoves ==
    ASSUME TodoInv, NEW c
    PROVE  /\ Due(c) \in Nat
           /\ Queued(c)' = Queued(c) /\ Handed(c)' = Handed(c) => Due(c)' = Due(c)
           /\ Queued(c)' = Queued(c) => \A r :
                 /\ r \notin Handed(c) /\ Handed(c)' = Handed(c) \cup {r} => Due(c)' = Due(c) + 1
                 /\ r \in Handed(c) /\ Handed(c)' = Handed(c) \ {r} => Due(c) > 0 /\ Due(c)' = Due(c) - 1
           /\ Handed(c)' = Handed(c) => \A e :
                 e \notin Queued(c) /\ Queued(c)' = Queued(c) \cup {e} => Due(c)' = Due(c) + 1
           /\ \A e, r : /\ e \in Queued(c) /\ Queued(c)' = Queued(c) \ {e}
                        /\ r \notin Handed(c) /\ Handed(c)' = Handed(c) \cup {r}
                        => Due(c)' = Due(c)
  <1>1. PICK n \in Nat, m \in Nat : n = Cardinality(Queued(c)) /\ m = Cardinality(Handed(c))
        BY DueFinite
  <1>2. Due(c) = n + m /\ Due(c)' = Cardinality(Queued(c)') + Cardinality(Handed(c)')
        BY <1>1, DueIs
  <1>3. IsFiniteSet(Queued(c)) /\ IsFiniteSet(Handed(c))
        BY DueFinite
  <1>4. \A e : /\ e \notin Queued(c) => Cardinality(Queued(c) \cup {e}) = n + 1
               /\ e \in Queued(c) => Cardinality(Queued(c) \ {e}) = n - 1
        BY <1>1, <1>3, FS_AddElement, FS_RemoveElement
  <1>5. \A r : /\ r \notin Handed(c) => Cardinality(Handed(c) \cup {r}) = m + 1
               /\ r \in Handed(c) => Cardinality(Handed(c) \ {r}) = m - 1
        BY <1>1, <1>3, FS_AddElement, FS_RemoveElement
  <1>6. \A r : r \in Handed(c) => m # 0
        BY <1>1, <1>3, FS_EmptySet
  <1>7. Due(c) \in Nat
        BY <1>2
  <1>8. Queued(c)' = Queued(c) /\ Handed(c)' = Handed(c) => Due(c)' = Due(c)
        BY <1>1, <1>2
  <1>9. ASSUME Queued(c)' = Queued(c), NEW r
        PROVE  /\ r \notin Handed(c) /\ Handed(c)' = Handed(c) \cup {r} => Due(c)' = Due(c) + 1
               /\ r \in Handed(c) /\ Handed(c)' = Handed(c) \ {r} => Due(c) > 0 /\ Due(c)' = Due(c) - 1
        BY <1>1, <1>2, <1>5, <1>6, <1>9
  <1>10. ASSUME Handed(c)' = Handed(c), NEW e, e \notin Queued(c), Queued(c)' = Queued(c) \cup {e}
         PROVE  Due(c)' = Due(c) + 1
         BY <1>1, <1>2, <1>4, <1>10
  <1>11. ASSUME NEW e, NEW r, e \in Queued(c), Queued(c)' = Queued(c) \ {e},
                r \notin Handed(c), Handed(c)' = Handed(c) \cup {r}
         PROVE  Due(c)' = Due(c)
         BY <1>1, <1>2, <1>4, <1>5, <1>11
  <1> QED
      BY <1>7, <1>8, <1>9, <1>10, <1>11

LEMMA TodoInit == Init => TodoInv
  BY DEF Init, TodoInv

(* A scan's list is filled with one revoke for each lease that ended, and   *)
(* then only gets shorter.                                                  *)
LEMMA TodoNext == TypeOK /\ TodoInv /\ [Next]_vars => TodoInv'
  <1> SUFFICES ASSUME TypeOK, TodoInv, [Next]_vars PROVE TodoInv'
      OBVIOUS
  <1>1. ASSUME \A s \in Scans : todo'[s] \subseteq todo[s] PROVE TodoInv'
        BY <1>1 DEF TodoInv
  <1>2. ASSUME NEW s \in Scans, ScanTick(s) PROVE TodoInv'
    <2>1. PICK ended \in SUBSET Clients :
             todo' = [todo EXCEPT ![s] = {ExpiryHook(c) : c \in ended}]
          BY <1>2 DEF ScanTick, Expired, Tracked, TypeOK
    <2>2. \A c \in ended : ExpiryHook(c).client = c /\ ~IsGrant(ExpiryHook(c))
          BY DEF ExpiryHook, IsGrant
    <2>3. \A q \in Scans : todo'[q] = IF q = s THEN {ExpiryHook(c) : c \in ended} ELSE todo[q]
          BY <2>1 DEF TypeOK
    <2> SUFFICES ASSUME NEW q \in Scans, NEW h \in todo'[q]
                 PROVE  ~IsGrant(h) /\ \A g \in todo'[q] : g.client = h.client => g = h
        BY DEF TodoInv, IsGrant
    <2>4. CASE q = s
      <3>1. PICK d \in ended : h = ExpiryHook(d)
            BY <2>3, <2>4
      <3>2. \A g \in todo'[q] : \E c \in ended : g = ExpiryHook(c)
            BY <2>3, <2>4
      <3> QED
          BY <2>2, <3>1, <3>2
    <2>5. CASE q # s
          BY <2>3, <2>5 DEF TodoInv
    <2> QED
        BY <2>4, <2>5
  <1>3. ASSUME NEW s \in Scans, NEW h \in todo[s], ScanNext(s, h) PROVE TodoInv'
        BY <1>1, <1>3 DEF ScanNext, TypeOK
  <1>4. CASE Restart
        BY <1>1, <1>4 DEF Restart
  <1>5. CASE todo' = todo
        BY <1>1, <1>5
  <1> QED
      BY <1>2, <1>3, <1>4, <1>5
      DEF Next, vars, Answer, RenewLease, CheckCooldown, AskGrant, ReleaseLease, Start, Refuse,
          Apply, Finish, Tick, OrphanApply

LEMMA LedgerInvariant == Spec => [](TypeOK /\ LedgerInv)
  <1>1. Init => TypeOK /\ LedgerInv
        BY InitType, InitSession, TodoInit DEF LedgerInv
  <1>2. TypeOK /\ LedgerInv /\ [Next]_vars => TypeOK' /\ LedgerInv'
        BY NextType, NextSession, TodoNext DEF LedgerInv
  <1> QED
      BY <1>1, <1>2, PTL DEF Spec

LEMMA InitLedger == Init => Ledger!Init
  <1> SUFFICES ASSUME Init PROVE Ledger!Init
      OBVIOUS
  <1>1. \A c \in Clients : Due(c) = 0
    <2> SUFFICES ASSUME NEW c \in Clients PROVE Due(c) = 0
        OBVIOUS
    <2>1. Queued(c) = {} /\ Handed(c) = {}
          BY QueuedElements DEF Init, Empty, Handed
    <2> QED
        BY <2>1, DueIs, FS_EmptySet
  <1>2. Tracked(leases) = {} /\ hasRevoke \in BOOLEAN /\ restarts = 0
        BY AccessAssumption DEF Init, Empty, Tracked
  <1> QED
      BY <1>1, <1>2 DEF Ledger!Init

(* A step that neither ends nor starts a lease and moves no revoke.         *)
LEMMA LedgerRests ==
    ASSUME UNCHANGED <<hasRevoke, restarts>>, Tracked(leases') = Tracked(leases),
           \A c \in Clients : Due(c)' = Due(c)
    PROVE  UNCHANGED Ledger!vars
  <1>1. [c \in Clients |-> Due(c)]' = [c \in Clients |-> Due(c)]
        OBVIOUS
  <1> QED
      BY <1>1 DEF Ledger!vars, Tracked

(* The leases of the clients in S end.                                      *)
LEMMA LedgerEnds ==
    ASSUME TodoInv, UNCHANGED <<hasRevoke, restarts>>, NEW S \in SUBSET Tracked(leases),
           Tracked(leases') = Tracked(leases) \ S,
           \A c \in Clients : Due(c)' = Due(c) + (IF hasRevoke /\ c \in S THEN 1 ELSE 0)
    PROVE  Ledger!Next
  <1>1. Tracked(leases)' = Tracked(leases) \ S
        BY DEF Tracked
  <1>2. [c \in Clients |-> Due(c)]' =
        [c \in Clients |-> [d \in Clients |-> Due(d)][c] + (IF hasRevoke /\ c \in S THEN 1 ELSE 0)]
        OBVIOUS
  <1>3. Ledger!End(S)
        BY <1>1, <1>2 DEF Ledger!End
  <1> QED
      BY <1>3 DEF Ledger!Next

(* A hook that was handed to an executor, started or not, moves on: if it   *)
(* was a revoke not yet asked for, it is asked for now.                     *)
LEMMA HookMoves ==
    ASSUME TypeOK, TodoInv, NEW r \in Runners, proc[r] # NoEntry,
           UNCHANGED <<hasRevoke, restarts, leases, todo>>,
           proc'[r] = NoEntry \/ proc'[r].st # "ready",
           \A q \in Runners \ {r} : proc'[q] = proc[q]
    PROVE  Ledger!Next \/ UNCHANGED Ledger!vars
  <1>1. \A c : Queued(c)' = Queued(c)
        BY DEF Queued
  <1>2. \A c : Handed(c)' = Handed(c) \ {r}
        BY DEF Handed
  <1>3. CASE \A c \in Clients : r \notin Handed(c)
    <2>1. \A c \in Clients : Handed(c)' = Handed(c)
          BY <1>2, <1>3
    <2>2. \A c \in Clients : Due(c)' = Due(c)
          BY <1>1, <2>1, DueMoves
    <2> QED
        BY <2>2, LedgerRests
  <1>4. ASSUME NEW d \in Clients, r \in Handed(d) PROVE Ledger!Next
    <2>1. Due(d) > 0 /\ Due(d)' = Due(d) - 1
          BY <1>1, <1>2, <1>4, DueMoves
    <2>2. \A c \in Clients : c # d => Due(c)' = Due(c)
      <3> SUFFICES ASSUME NEW c \in Clients, c # d PROVE Due(c)' = Due(c)
          OBVIOUS
      <3>1. r \notin Handed(c)
            BY <1>4 DEF Handed
      <3>2. Handed(c)' = Handed(c)
            BY <1>2, <3>1
      <3> QED
          BY <1>1, <3>2, DueMoves
    <2>3. [c \in Clients |-> Due(c)]' =
             [[c \in Clients |-> Due(c)] EXCEPT ![d] = [c \in Clients |-> Due(c)][d] - 1]
          BY <2>1, <2>2
    <2>4. Ledger!Ask(d)
          BY <2>1, <2>3 DEF Ledger!Ask, Tracked
    <2> QED
        BY <2>4 DEF Ledger!Next
  <1> QED
      BY <1>3, <1>4

(* handle_bye: the lease ends, and its revoke, if any, is handed over.      *)
LEMMA ReleaseEnds ==
    ASSUME TypeOK, LedgerInv, NEW t \in Tasks, ReleaseLease(t)
    PROVE  Ledger!Next \/ UNCHANGED Ledger!vars
  <1>0. PICK d \in Clients : d = task[t].client
        BY DEF ReleaseLease, TaskAt, TypeOK, AnswerTask
  <1>1. UNCHANGED <<hasRevoke, restarts, todo>> /\ proc[t] = NoEntry
        BY DEF ReleaseLease, TaskAt, bounds, LedgerInv, SessionInv, TaskHookInv
  <1>2. \A c : Queued(c)' = Queued(c)
        BY <1>1 DEF Queued
  <1>3. CASE leases[d] = NoEntry
    <2>1. leases' = leases /\ proc' = proc
          BY <1>0, <1>3 DEF ReleaseLease
    <2>2. \A c \in Clients : Handed(c)' = Handed(c)
          BY <2>1 DEF Handed
    <2>3. \A c \in Clients : Due(c)' = Due(c)
          BY <1>2, <2>2, DueMoves DEF LedgerInv
    <2> QED
        BY <1>1, <2>1, <2>3, LedgerRests
  <1>4. CASE leases[d] # NoEntry
    <2>1. leases' = Release(leases, d)
          BY <1>0, <1>4 DEF ReleaseLease
    <2>2. Tracked(leases') = Tracked(leases) \ {d} /\ {d} \in SUBSET Tracked(leases)
          BY <1>4, <2>1 DEF Release, Tracked, TypeOK
    <2>3. CASE ~hasRevoke
      <3>1. proc' = proc
            BY <1>0, <1>4, <2>3 DEF ReleaseLease
      <3>2. \A c \in Clients : Handed(c)' = Handed(c)
            BY <3>1 DEF Handed
      <3>3. \A c \in Clients : Due(c)' = Due(c) /\ Due(c) \in Nat
            BY <1>2, <3>2, DueMoves DEF LedgerInv
      <3>4. \A c \in Clients : Due(c)' = Due(c) + (IF hasRevoke /\ c \in {d} THEN 1 ELSE 0)
            BY <2>3, <3>3
      <3> QED
          BY <1>1, <2>2, <3>4, LedgerEnds DEF LedgerInv
    <2>4. CASE hasRevoke
      <3> DEFINE hook == [client |-> d, ip |-> leases[d].ip, new |-> FALSE, reason |-> "bye",
                          param |-> IF task[t].param # NoEntry THEN task[t].param ELSE leases[d].param,
                          others |-> OthersOnIp(leases, leases[d].ip, d, now)]
                 p == [st |-> "ready", hook |-> hook]
      <3>1. p.st = "ready" /\ p.hook.client = d /\ ~IsGrant(p.hook)
            BY DEF IsGrant
      <3>2. proc' = [proc EXCEPT ![t] = p]
            BY <1>0, <1>4, <2>4 DEF ReleaseLease
      <3> HIDE DEF p
      <3>3. t \in Runners /\ proc'[t] = p /\ \A r \in Runners \ {t} : proc'[r] = proc[r]
            BY <3>2 DEF TypeOK, Runners
      <3>4. p # NoEntry
        <4>1. p \in Procs
          <5>1. hook \in Hooks
            <6>1. leases[d] \in Leases(IPs, Params) /\ task[t] \in AnswerTask
                  BY <1>4 DEF ReleaseLease, TaskAt, TypeOK
            <6>2. OthersOnIp(leases, leases[d].ip, d, now) \in Nat
                  BY OthersType DEF TypeOK
            <6> QED
                BY <6>1, <6>2 DEF Hooks, Leases, AnswerTask
          <5> HIDE DEF hook
          <5> QED
              BY <5>1 DEF p, Procs
        <4> QED
            BY <4>1, RecordAssumption
      <3>5. t \notin Handed(d) /\ Handed(d)' = Handed(d) \cup {t}
            BY <1>1, <3>1, <3>3, <3>4 DEF Handed
      <3>6. \A c \in Clients : c # d => Handed(c)' = Handed(c)
            BY <1>1, <3>1, <3>3 DEF Handed
      <3>7. Due(d)' = Due(d) + 1
            BY <1>2, <3>5, DueMoves DEF LedgerInv
      <3>8. \A c \in Clients : c # d => Due(c)' = Due(c) /\ Due(c) \in Nat
            BY <1>2, <3>6, DueMoves DEF LedgerInv
      <3>9. \A c \in Clients : Due(c)' = Due(c) + (IF hasRevoke /\ c \in {d} THEN 1 ELSE 0)
            BY <2>4, <3>7, <3>8
      <3> QED
          BY <1>1, <2>2, <3>9, LedgerEnds DEF LedgerInv
    <2> QED
        BY <2>3, <2>4
  <1> QED
      BY <1>3, <1>4

(* run_lease_scan: the expired leases end together, each with its revoke.   *)
LEMMA ScanEnds ==
    ASSUME TypeOK, LedgerInv, NEW s \in Scans, ScanTick(s)
    PROVE  Ledger!Next
  <1>1. /\ UNCHANGED <<hasRevoke, restarts, proc>> /\ todo[s] = {}
        /\ leases' = TakeExpired(leases, now)
        BY DEF ScanTick, ScanIdle, bounds
  <1> DEFINE S == Expired(leases, now)
             ended == IF hasRevoke THEN S ELSE {}
  <1>2. S \in SUBSET Tracked(leases)
        BY DEF Expired
  <1>3. Tracked(leases') = Tracked(leases) \ S
        BY <1>1 DEF TakeExpired, Tracked, Expired
  <1>4. \A q \in Scans : todo'[q] = IF q = s THEN {ExpiryHook(c) : c \in ended} ELSE todo[q]
        BY DEF ScanTick, TypeOK
  <1>5. \A c : Handed(c)' = Handed(c)
        BY <1>1 DEF Handed
  <1>6. \A c : ExpiryHook(c).client = c
        BY DEF ExpiryHook
  <1> HIDE DEF ended
  <1>7. ASSUME NEW c \in ended PROVE Due(c)' = Due(c) + 1
    <2> DEFINE e == <<s, ExpiryHook(c)>>
    <2>1. e \notin Queued(c)
      <3>1. \A q \in Scans : \A h \in todo[q] : q # s
            BY <1>1
      <3> QED
          BY <3>1, QueuedElements
    <2>2. \A x : x \in Queued(c)' <=> x \in Queued(c) \/ x = e
      <3> SUFFICES ASSUME NEW x PROVE x \in Queued(c)' <=> x \in Queued(c) \/ x = e
          OBVIOUS
      <3>1. ASSUME x \in Queued(c)' PROVE x \in Queued(c) \/ x = e
        <4>1. PICK q \in Scans : \E h \in todo'[q] : h.client = c /\ x = <<q, h>>
              BY <3>1, QueuedElements
        <4>2. PICK h \in todo'[q] : h.client = c /\ x = <<q, h>>
              BY <4>1
        <4>3. CASE q = s
          <5>1. PICK d \in ended : h = ExpiryHook(d)
                BY <1>4, <4>3
          <5> QED
              BY <1>6, <4>2, <4>3, <5>1
        <4>4. CASE q # s
          <5>1. h \in todo[q]
                BY <1>4, <4>4
          <5> QED
              BY <4>2, <5>1, QueuedElements
        <4> QED
            BY <4>3, <4>4
      <3>2. ASSUME x \in Queued(c) PROVE x \in Queued(c)'
        <4>1. PICK q \in Scans : \E h \in todo[q] : h.client = c /\ x = <<q, h>>
              BY <3>2, QueuedElements
        <4>2. q # s
              BY <1>1, <4>1
        <4>3. todo'[q] = todo[q]
              BY <1>4, <4>2
        <4> QED
            BY <4>1, <4>3, QueuedElements
      <3>3. e \in Queued(c)'
        <4>1. ExpiryHook(c) \in todo'[s]
              BY <1>4, <1>7
        <4> QED
            BY <1>6, <4>1, QueuedElements
      <3> QED
          BY <3>1, <3>2, <3>3
    <2> HIDE DEF e
    <2>3. Queued(c)' = Queued(c) \cup {e}
          BY <2>2
    <2> QED
        BY <1>5, <2>1, <2>3, DueMoves DEF LedgerInv
  <1>8. ASSUME NEW c, c \notin ended PROVE Due(c)' = Due(c) /\ Due(c) \in Nat
    <2>1. \A q \in Scans : \A h : h.client = c => (h \in todo'[q] <=> h \in todo[q])
      <3> SUFFICES ASSUME NEW q \in Scans, NEW h, h.client = c PROVE h \in todo'[q] <=> h \in todo[q]
          OBVIOUS
      <3>1. CASE q = s
        <4>1. h \notin todo'[s]
          <5> SUFFICES ASSUME h \in todo'[s] PROVE FALSE
              OBVIOUS
          <5>1. PICK d \in ended : h = ExpiryHook(d)
                BY <1>4
          <5> QED
              BY <1>6, <1>8, <5>1
        <4> QED
            BY <1>1, <3>1, <4>1
      <3>2. CASE q # s
            BY <1>4, <3>2
      <3> QED
          BY <3>1, <3>2
    <2>2. \A x : x \in Queued(c)' <=> x \in Queued(c)
          BY <2>1, QueuedElements
    <2>3. Queued(c)' = Queued(c)
      <3> DEFINE A == Queued(c)'
                 B == Queued(c)
      <3>1. \A x : x \in A <=> x \in B
            BY <2>2
      <3> HIDE DEF A, B
      <3>2. A = B
            BY <3>1
      <3> QED
          BY <3>2 DEF A, B
    <2> QED
        BY <1>5, <2>3, DueMoves DEF LedgerInv
  <1>9. \A c \in Clients : Due(c)' = Due(c) + (IF hasRevoke /\ c \in S THEN 1 ELSE 0)
    <2> SUFFICES ASSUME NEW c \in Clients
                 PROVE  Due(c)' = Due(c) + (IF hasRevoke /\ c \in S THEN 1 ELSE 0)
        OBVIOUS
    <2>1. c \in ended <=> hasRevoke /\ c \in S
          BY DEF ended
    <2> QED
        BY <1>7, <1>8, <2>1
  <1> HIDE DEF S
  <1> QED
      BY <1>1, <1>2, <1>3, <1>9, LedgerEnds DEF LedgerInv

(* The scan's task: the next revoke goes from the list to the executor.     *)
LEMMA ScanHands ==
    ASSUME TypeOK, LedgerInv, NEW s \in Scans, NEW h \in todo[s], ScanNext(s, h)
    PROVE  UNCHANGED Ledger!vars
  <1>1. /\ UNCHANGED <<hasRevoke, restarts, leases>> /\ proc[s] = NoEntry
        /\ \A q \in Scans : todo'[q] = IF q = s THEN todo[s] \ {h} ELSE todo[q]
        BY DEF ScanNext, bounds, TypeOK
  <1> DEFINE p == [st |-> "ready", hook |-> h]
             e == <<s, h>>
  <1>2. ~IsGrant(h) /\ h \in Hooks
        BY DEF LedgerInv, TodoInv, TypeOK
  <1>3. p.st = "ready" /\ p.hook = h /\ p # NoEntry
        BY <1>2, RecordAssumption DEF Procs
  <1>4. proc' = [proc EXCEPT ![s] = p]
        BY DEF ScanNext
  <1> HIDE DEF p
  <1>5. s \in Runners /\ proc'[s] = p /\ \A r \in Runners \ {s} : proc'[r] = proc[r]
        BY <1>4 DEF TypeOK, Runners
  <1>6. PICK d \in Clients : d = h.client
        BY <1>2 DEF Hooks
  <1>7. s \notin Handed(d) /\ Handed(d)' = Handed(d) \cup {s}
        BY <1>1, <1>2, <1>3, <1>5, <1>6 DEF Handed
  <1>8. \A c \in Clients : c # d => Handed(c)' = Handed(c)
        BY <1>1, <1>3, <1>5, <1>6 DEF Handed
  <1>9. \A c, x : x \in Queued(c)' <=> x \in Queued(c) /\ x # e
    <2> SUFFICES ASSUME NEW c, NEW x PROVE x \in Queued(c)' <=> x \in Queued(c) /\ x # e
        OBVIOUS
    <2>1. ASSUME x \in Queued(c)' PROVE x \in Queued(c) /\ x # e
      <3>1. PICK q \in Scans : \E g \in todo'[q] : g.client = c /\ x = <<q, g>>
            BY <2>1, QueuedElements
      <3>2. PICK g \in todo'[q] : g.client = c /\ x = <<q, g>>
            BY <3>1
      <3>3. g \in todo[q] /\ ~(q = s /\ g = h)
            BY <1>1, <3>2
      <3>4. x # e
            BY <3>2, <3>3
      <3> QED
          BY <3>2, <3>3, <3>4, QueuedElements
    <2>2. ASSUME x \in Queued(c), x # e PROVE x \in Queued(c)'
      <3>1. PICK q \in Scans : \E g \in todo[q] : g.client = c /\ x = <<q, g>>
            BY <2>2, QueuedElements
      <3>2. PICK g \in todo[q] : g.client = c /\ x = <<q, g>>
            BY <3>1
      <3>3. g \in todo'[q]
            BY <1>1, <2>2, <3>2
      <3> QED
          BY <3>2, <3>3, QueuedElements
    <2> QED
        BY <2>1, <2>2
  <1>10. e \in Queued(d) /\ \A c : c # d => e \notin Queued(c)
    <2>1. e \in Queued(d)
          BY <1>6, QueuedElements
    <2>2. \A c : e \in Queued(c) => h.client = c
          BY DEF Queued
    <2> QED
        BY <1>6, <2>1, <2>2
  <1> HIDE DEF e
  <1>11. \A c : Queued(c)' = Queued(c) \ {e}
         BY <1>9
  <1>12. Due(d)' = Due(d)
         BY <1>7, <1>10, <1>11, DueMoves DEF LedgerInv
  <1>13. ASSUME NEW c \in Clients, c # d PROVE Due(c)' = Due(c)
    <2>1. Queued(c)' = Queued(c)
          BY <1>10, <1>11, <1>13
    <2> QED
        BY <1>8, <1>13, <2>1, DueMoves DEF LedgerInv
  <1>14. \A c \in Clients : Due(c)' = Due(c)
         BY <1>12, <1>13
  <1> QED
      BY <1>1, <1>14, LedgerRests

(* Every step of the server is a step of the ledger or leaves it alone.     *)
LEMMA NextLedger == TypeOK /\ LedgerInv /\ [Next]_vars => [Ledger!Next]_(Ledger!vars)
  <1> SUFFICES ASSUME TypeOK, LedgerInv, [Next]_vars PROVE Ledger!Next \/ UNCHANGED Ledger!vars
      OBVIOUS
  <1>0. ASSUME UNCHANGED <<todo, proc>> PROVE \A c \in Clients : Due(c)' = Due(c)
    <2>1. \A c : Queued(c)' = Queued(c) /\ Handed(c)' = Handed(c)
          BY <1>0 DEF Queued, Handed
    <2> QED
        BY <2>1, DueMoves DEF LedgerInv
  <1>1. CASE UNCHANGED <<hasRevoke, restarts, leases, todo, proc>>
        BY <1>0, <1>1, LedgerRests
  <1>2. ASSUME NEW t \in Tasks, RenewLease(t) PROVE Ledger!Next \/ UNCHANGED Ledger!vars
    <2>1. UNCHANGED <<hasRevoke, restarts, todo, proc>>
          BY <1>2 DEF RenewLease, bounds
    <2>2. \A c \in Clients : Due(c)' = Due(c)
          BY <1>0, <2>1
    <2>3. CASE Tracked(leases') = Tracked(leases)
          BY <2>1, <2>2, <2>3, LedgerRests
    <2>4. CASE Tracked(leases') = Tracked(leases) \cup {task[t].client}
      <3>1. [c \in Clients |-> Due(c)]' = [c \in Clients |-> Due(c)]
            BY <2>2
      <3>2. Ledger!Hold(task[t].client)
            BY <2>1, <2>4, <3>1 DEF Ledger!Hold, Tracked
      <3> QED
          BY <1>2, <3>2, RenewTracks DEF Ledger!Next
    <2> QED
        BY <1>2, <2>3, <2>4, RenewTracks
  <1>3. ASSUME NEW t \in Tasks, AskGrant(t) PROVE UNCHANGED Ledger!vars
    <2>1. UNCHANGED <<hasRevoke, restarts, leases, todo>> /\ proc[t] = NoEntry
          BY <1>3 DEF AskGrant, TaskAt, bounds, LedgerInv, SessionInv, TaskHookInv
    <2>2. PICK g : g.reason = "grant" /\ proc' = [proc EXCEPT ![t] = [st |-> "ready", hook |-> g]]
          BY <1>3 DEF AskGrant
    <2>3. \A c \in Clients : Handed(c)' = Handed(c)
      <3>1. \A r \in Runners \ {t} : proc'[r] = proc[r]
            BY <2>2 DEF TypeOK
      <3>2. t \in Runners /\ IsGrant(proc'[t].hook)
            BY <2>2 DEF TypeOK, Runners, IsGrant
      <3> QED
          BY <2>1, <3>1, <3>2 DEF Handed
    <2>4. \A c \in Clients : Queued(c)' = Queued(c)
          BY <2>1 DEF Queued
    <2>5. \A c \in Clients : Due(c)' = Due(c)
          BY <2>3, <2>4, DueMoves DEF LedgerInv
    <2> QED
        BY <2>1, <2>5, LedgerRests
  <1>4. ASSUME NEW r \in Runners, Start(r) \/ Refuse(r) \/ Apply(r) \/ Finish(r)
        PROVE  Ledger!Next \/ UNCHANGED Ledger!vars
    <2>1. UNCHANGED <<hasRevoke, restarts, leases, todo>> /\ proc[r] # NoEntry
          BY <1>4 DEF Start, Refuse, Apply, Finish, bounds
    <2>2. proc[r] \in Procs /\ proc \in [Runners -> Procs \cup {NoEntry}]
          BY <2>1 DEF TypeOK
    <2>3. /\ proc'[r] = NoEntry \/ proc'[r].st # "ready"
          /\ \A q \in Runners \ {r} : proc'[q] = proc[q]
      <3>1. CASE Refuse(r) \/ Finish(r)
            BY <2>2, <3>1 DEF Refuse, Finish, Done
      <3>2. ASSUME NEW st \in {"running", "applied"}, proc' = [proc EXCEPT ![r].st = st]
            PROVE  proc'[r].st # "ready" /\ \A q \in Runners \ {r} : proc'[q] = proc[q]
            BY <2>2, <3>2 DEF Procs
      <3> QED
          BY <1>4, <3>1, <3>2 DEF Start, Apply
    <2> QED
        BY <2>1, <2>3, HookMoves DEF LedgerInv
  <1>5. CASE Restart
    <2>1. \A c \in Clients : Due(c)' = 0
      <3> SUFFICES ASSUME NEW c \in Clients PROVE Due(c)' = 0
          OBVIOUS
      <3>1. \A x : x \notin Queued(c)'
            BY <1>5, QueuedElements DEF Restart
      <3>2. Queued(c)' = {}
            BY <3>1
      <3>3. Handed(c)' = {}
            BY <1>5 DEF Restart, Handed, Empty
      <3> QED
          BY <3>2, <3>3, DueIs, FS_EmptySet
    <2>2. [c \in Clients |-> Due(c)]' = [c \in Clients |-> 0]
          BY <2>1
    <2>3. Tracked(leases)' = {} /\ hasRevoke' \in BOOLEAN /\ restarts' = restarts + 1
          BY <1>5, AccessAssumption DEF Restart, Empty, Tracked
    <2>4. Ledger!Crash
          BY <2>2, <2>3 DEF Ledger!Crash
    <2> QED
        BY <2>4 DEF Ledger!Next
  <1>6. ASSUME NEW t \in Tasks, ReleaseLease(t) PROVE Ledger!Next \/ UNCHANGED Ledger!vars
        BY <1>6, ReleaseEnds
  <1>7. ASSUME NEW s \in Scans, ScanTick(s) PROVE Ledger!Next
        BY <1>7, ScanEnds
  <1>8. ASSUME NEW s \in Scans, NEW h \in todo[s], ScanNext(s, h) PROVE UNCHANGED Ledger!vars
        BY <1>8, ScanHands
  <1>9. ASSUME \/ \E t \in Tasks, kind \in {"response", "bye"}, c \in Clients, ip \in IPs,
                     param \in Params \cup {NoEntry}, interval \in Intervals :
                     Answer(t, kind, c, ip, param, interval)
               \/ \E t \in Tasks : CheckCooldown(t)
               \/ Tick \/ UNCHANGED vars
               \/ \E h \in orphans : OrphanApply(h)
        PROVE  UNCHANGED <<hasRevoke, restarts, leases, todo, proc>>
        BY <1>9 DEF Answer, CheckCooldown, Tick, OrphanApply, vars, bounds
  <1> QED
      BY <1>1, <1>2, <1>3, <1>4, <1>5, <1>6, <1>7, <1>8, <1>9 DEF Next

(* run_lease_scan and handle_bye, for every number of clients, tasks and    *)
(* scans: the server keeps the ledger.  Every lease that ends while a       *)
(* revoke hook is configured is entered, each entry is asked for exactly    *)
(* once, and only a restart loses one.                                      *)
THEOREM KeepsLedgerHolds == Spec => KeepsLedger
  BY LedgerInvariant, InitLedger, NextLedger, PTL DEF Spec, KeepsLedger, Ledger!Spec

=============================================================================
