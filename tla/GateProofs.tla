----------------------------- MODULE GateProofs -----------------------------
(***************************************************************************)
(* Proofs about Gate, for every number of source IPs and handler tasks,    *)
(* every limit, window and threshold, and any number of packets.           *)
(***************************************************************************)
EXTENDS Gate, FiniteSetTheorems, WellFoundedInduction, TLAPS

-----------------------------------------------------------------------------
(* Sequences of times.                                                     *)

\* r is an end of q.
Suffix(r, q) ==
    /\ Len(r) <= Len(q)
    /\ \A i \in 0 .. Len(r) - 1 : r[Len(r) - i] = q[Len(q) - i]

\* The times of q are in order and none is later than n.
InOrder(q, n) ==
    /\ \A i, j \in 1 .. Len(q) : i <= j => q[i] <= q[j]
    /\ \A i \in 1 .. Len(q) : q[i] <= n

(* A set of natural numbers that is not empty has a least element.          *)
LEMMA LeastNatural ==
    ASSUME NEW S \in SUBSET Nat, S # {}
    PROVE  \E x \in S : \A y \in S : x <= y
  <1>1. \E R : IsWellFoundedOn(R, Nat) /\ \A x, y \in Nat : y < x => <<y, x>> \in R
    <2> DEFINE R == OpToRel(<, Nat)
    <2>1. IsWellFoundedOn(R, Nat)
          BY NatLessThanWellFounded
    <2>2. \A x, y \in Nat : y < x => <<y, x>> \in R
          BY DEF OpToRel
    <2> HIDE DEF R
    <2> QED
        BY <2>1, <2>2
  <1>2. PICK R : IsWellFoundedOn(R, Nat) /\ \A x, y \in Nat : y < x => <<y, x>> \in R
        BY <1>1
  <1>3. PICK x \in S : \A y \in S : ~(<<y, x>> \in R)
        BY <1>2, WFMin
  <1>4. \A y \in S : ~(y < x)
        BY <1>2, <1>3, Zenon
  <1>5. \A y \in S : x <= y
        BY <1>4
  <1> QED
      BY <1>5

(* trim keeps an end of the queue, and if the times are in order only those *)
(* inside the window.                                                       *)
LEMMA TrimKeeps ==
    ASSUME NEW q \in Seq(Times), NEW n \in Times, NEW w \in Nat
    PROVE  /\ Trim(q, n, w) \in Seq(Times)
           /\ Suffix(Trim(q, n, w), q)
           /\ InOrder(q, n) => \A i \in 1 .. Len(Trim(q, n, w)) : n - Trim(q, n, w)[i] <= w
  <1> DEFINE keep == {i \in 1 .. Len(q) : n - q[i] <= w}
             first == CHOOSE i \in keep : \A j \in keep : i <= j
             r == Trim(q, n, w)
  <1>0. Times \subseteq Nat /\ \A i \in 1 .. Len(q) : q[i] \in Nat
        BY GateAssumption DEF Times
  <1>1. CASE keep = {}
    <2>1. r = <<>>
          BY <1>1 DEF Trim
    <2> HIDE DEF r
    <2>2. r \in Seq(Times) /\ Len(r) = 0
          BY <2>1
    <2>3. Suffix(r, q)
          BY <2>2 DEF Suffix
    <2> QED
        BY <2>2, <2>3 DEF r
  <1>2. CASE keep # {}
    <2>1. first \in keep /\ \A j \in keep : first <= j
      <3>1. keep \in SUBSET Nat
            OBVIOUS
      <3>2. \E x \in keep : \A y \in keep : x <= y
            BY <1>2, <3>1, LeastNatural
      <3> QED
          BY <3>2
    <2>2. r = SubSeq(q, first, Len(q))
          BY <1>2 DEF Trim
    <2>3. first \in 1 .. Len(q) /\ n - q[first] <= w
          BY <2>1
    <2> HIDE DEF first, r
    <2>4. r \in Seq(Times) /\ Len(r) = Len(q) - first + 1
          BY <2>2, <2>3
    <2>5. \A i \in 1 .. Len(r) : r[i] = q[first + i - 1]
          BY <2>2, <2>3, <2>4
    <2>6. Suffix(r, q)
      <3> SUFFICES ASSUME NEW i \in 0 .. Len(r) - 1
                   PROVE  r[Len(r) - i] = q[Len(q) - i]
          BY <2>3, <2>4 DEF Suffix
      <3>1. Len(r) - i \in 1 .. Len(r) /\ first + (Len(r) - i) - 1 = Len(q) - i
            BY <2>3, <2>4
      <3> QED
          BY <2>5, <3>1
    <2>7. ASSUME InOrder(q, n), NEW i \in 1 .. Len(r) PROVE n - r[i] <= w
      <3>1. first + i - 1 \in 1 .. Len(q) /\ first <= first + i - 1
            BY <2>3, <2>4
      <3>2. q[first] <= q[first + i - 1]
            BY <2>3, <2>7, <3>1 DEF InOrder
      <3>3. n \in Nat /\ q[first] \in Nat /\ q[first + i - 1] \in Nat
            BY <1>0, <2>3, <3>1
      <3>4. r[i] = q[first + i - 1]
            BY <2>5
      <3>5. ASSUME NEW a \in Nat, NEW b \in Nat, a <= b, n - a <= w PROVE n - b <= w
            BY <1>0, <3>3, <3>5
      <3> QED
          BY <2>3, <3>2, <3>3, <3>4, <3>5
    <2> QED
        BY <2>4, <2>6, <2>7 DEF r
  <1> QED
      BY <1>1, <1>2

(* The same for push_back and trim.                                         *)
LEMMA NotedKeeps ==
    ASSUME NEW q \in Seq(Times), NEW n \in Times, NEW w \in Nat
    PROVE  /\ Noted(q, n, w) \in Seq(Times)
           /\ Suffix(Noted(q, n, w), Append(q, n))
           /\ InOrder(q, n) => \A i \in 1 .. Len(Noted(q, n, w)) : n - Noted(q, n, w)[i] <= w
  <1>1. Append(q, n) \in Seq(Times)
        OBVIOUS
  <1>2. InOrder(q, n) => InOrder(Append(q, n), n)
    <2> SUFFICES ASSUME InOrder(q, n) PROVE InOrder(Append(q, n), n)
        OBVIOUS
    <2>1. n \in Nat
          BY GateAssumption DEF Times
    <2> QED
        BY <2>1 DEF InOrder
  <1> QED
      BY <1>1, <1>2, TrimKeeps DEF Noted

(* A time that is appended as it is read keeps the order.                   *)
LEMMA AppendInOrder ==
    ASSUME NEW q \in Seq(Times), NEW n \in Times, InOrder(q, n)
    PROVE  Append(q, n) \in Seq(Times) /\ InOrder(Append(q, n), n)
  <1>1. n \in Nat
        BY GateAssumption DEF Times
  <1> QED
      BY <1>1 DEF InOrder

(* What is in order at one time is so later.                                *)
LEMMA LaterInOrder ==
    ASSUME NEW q \in Seq(Times), NEW n \in Nat, NEW m \in Nat, n <= m, InOrder(q, n)
    PROVE  InOrder(q, m)
  <1>1. \A i \in 1 .. Len(q) : q[i] \in Nat
        BY GateAssumption DEF Times
  <1> QED
      BY <1>1 DEF InOrder

-----------------------------------------------------------------------------
(* Type correctness.                                                       *)

(* A handler that goes on or ends keeps its type.                           *)
LEMMA TaskType ==
    ASSUME TypeOK, NEW t \in Tasks, task[t] # NoEntry
    PROVE  /\ Ends(t) => task' \in [Tasks -> TaskState \cup {NoEntry}]
           /\ \A pc \in {"hello", "answer", "hook", "reject", "fault", "event"} :
                 Goto(t, pc) => task' \in [Tasks -> TaskState \cup {NoEntry}]
  <1>1. task \in [Tasks -> TaskState \cup {NoEntry}] /\ task[t] \in TaskState
        BY DEF TypeOK
  <1>2. Ends(t) => task' \in [Tasks -> TaskState \cup {NoEntry}]
        BY <1>1 DEF Ends
  <1>3. ASSUME NEW pc \in {"hello", "answer", "hook", "reject", "fault", "event"}, Goto(t, pc)
        PROVE  task' \in [Tasks -> TaskState \cup {NoEntry}]
    <2> DEFINE s == [task[t] EXCEPT !.pc = pc]
    <2>1. s \in TaskState
          BY <1>1 DEF TaskState
    <2>2. task' = [task EXCEPT ![t] = s]
          BY <1>1, <1>3 DEF Goto
    <2> HIDE DEF s
    <2> QED
        BY <1>1, <2>1, <2>2
  <1> QED
      BY <1>2, <1>3

LEMMA InitType == Init => TypeOK
  BY GateAssumption DEF Init, TypeOK, Empty, Times

(* The lockdown deadline and the drop window are natural numbers.           *)
LEMMA LockdownType ==
    ASSUME TypeOK
    PROVE  Armed \in Nat /\ NextDrops \in [start : Nat, count : Nat]
  <1>1. now \in Nat /\ lockdown \in Nat /\ drops \in [start : Nat, count : Nat]
        BY GateAssumption DEF TypeOK, Times
  <1>2. Armed \in Nat
        BY <1>1, GateAssumption DEF Armed
  <1>3. NextDrops \in [start : Nat, count : Nat]
        BY <1>1 DEF NextDrops
  <1> QED
      BY <1>2, <1>3

(* The table of windows after a HELLO.                                      *)
LEMMA WindowsType ==
    ASSUME TypeOK, NEW ip \in IPs
    PROVE  RateCheck(windows, ip, now, HelloMax, HelloWindow, MaxTracked)
              \in [IPs -> Windows \cup {NoEntry}]
  <1> DEFINE w == WindowAt(windows, ip, now, HelloWindow)
             u == [w EXCEPT !.count = @ + 1]
  <1>1. windows \in [IPs -> Windows \cup {NoEntry}] /\ now \in Nat
        BY GateAssumption DEF TypeOK, Times
  <1>2. w \in Windows
        BY <1>1 DEF WindowAt, Windows
  <1> HIDE DEF w
  <1>3. u \in Windows
        BY <1>2 DEF Windows
  <1>4. RateCheck(windows, ip, now, HelloMax, HelloWindow, MaxTracked)
            \in {windows, [windows EXCEPT ![ip] = u]}
        BY DEF RateCheck, w
  <1> HIDE DEF u
  <1> QED
      BY <1>1, <1>3, <1>4

(* The table of entries after a faulty packet.                              *)
LEMMA EntriesType ==
    ASSUME TypeOK, NEW ip \in IPs
    PROVE  RecordFaulty(entries, ip, now, MaxFaulty, BlockTime, MaxTracked)
              \in [IPs -> Entries \cup {NoEntry}]
  <1> DEFINE e == Faulted(entries[ip], now, MaxFaulty, BlockTime)
  <1>1. /\ entries \in [IPs -> Entries \cup {NoEntry}] /\ now + BlockTime \in Nat
        BY GateAssumption DEF TypeOK, Times
  <1>2. e \in Entries
        BY <1>1 DEF Faulted, Entries
  <1>3. RecordFaulty(entries, ip, now, MaxFaulty, BlockTime, MaxTracked)
            \in {entries, [entries EXCEPT ![ip] = e]}
        BY DEF RecordFaulty
  <1> HIDE DEF e
  <1> QED
      BY <1>1, <1>2, <1>3

LEMMA ActiveType ==
    ASSUME TypeOK, NEW ip \in IPs
    PROVE  MarkActive(ip) \in [IPs -> Times \cup {NoEntry}]
  BY DEF TypeOK, MarkActive

(* Every step keeps the types.                                              *)
LEMMA NextType == TypeOK /\ [Next]_vars => TypeOK'
  <1> SUFFICES ASSUME TypeOK, [Next]_vars PROVE TypeOK'
      OBVIOUS
  <1>0. AttackWindow \in Nat /\ now \in Times /\ Times \subseteq Nat
        BY GateAssumption DEF TypeOK, Times
  <1>1. ASSUME NEW t \in Tasks, NEW ip \in IPs, Recv(t, ip) PROVE TypeOK'
    <2>1. task' \in [Tasks -> TaskState \cup {NoEntry}]
          BY <1>1 DEF Recv, TypeOK, TaskState
    <2> QED
        BY <1>1, <2>1 DEF Recv, TypeOK, history
  <1>2. ASSUME NEW ip \in IPs, Shed(ip) PROVE TypeOK'
    <2>1. shedAt' \in Seq(Times)
          BY <1>2 DEF Shed, TypeOK
    <2>2. lockdown' \in Nat /\ drops' \in [start : Nat, count : Nat]
          BY <1>2, LockdownType DEF Shed, TypeOK
    <2>3. received' \in Nat
          BY <1>2 DEF Shed, TypeOK
    <2> QED
        BY <1>2, <2>1, <2>2, <2>3 DEF Shed, TypeOK
  <1>3. ASSUME NEW t \in Tasks, Decode(t) PROVE TypeOK'
    <2>1. task[t] # NoEntry /\ task[t] \in TaskState /\ task \in [Tasks -> TaskState \cup {NoEntry}]
          BY <1>3 DEF Decode, At, TypeOK
    <2>2. CASE task' = [task EXCEPT ![t].pc = "reject", ![t].faulty = TRUE]
      <3> DEFINE s == [task[t] EXCEPT !.pc = "reject", !.faulty = TRUE]
      <3>1. s \in TaskState
            BY <2>1 DEF TaskState
      <3>2. task' = [task EXCEPT ![t] = s]
            BY <2>1, <2>2
      <3> HIDE DEF s
      <3>3. task' \in [Tasks -> TaskState \cup {NoEntry}]
            BY <2>1, <3>1, <3>2
      <3> QED
          BY <1>3, <3>3 DEF Decode, TypeOK, history
    <2>3. CASE \E pc \in {"hello", "answer", "reject"} : Goto(t, pc)
          BY <1>3, <2>1, <2>3, TaskType DEF Decode, TypeOK, history
    <2> QED
        BY <1>3, <2>2, <2>3 DEF Decode
  <1>4. ASSUME NEW t \in Tasks, Hello(t) PROVE TypeOK'
    <2>1. task[t] # NoEntry /\ task[t].ip \in IPs
          BY <1>4 DEF Hello, At, TypeOK, TaskState
    <2>2. task' \in [Tasks -> TaskState \cup {NoEntry}]
          BY <1>4, <2>1, TaskType DEF Hello
    <2>3. windows' \in [IPs -> Windows \cup {NoEntry}]
          BY <1>4, <2>1, WindowsType DEF Hello
    <2>4. active' \in [IPs -> Times \cup {NoEntry}]
          BY <1>4, <2>1, ActiveType DEF Hello, TypeOK
    <2>5. passed' \in [IPs -> Seq(Times)]
          BY <1>0, <1>4, <2>1 DEF Hello, TypeOK
    <2> QED
        BY <1>4, <2>2, <2>3, <2>4, <2>5 DEF Hello, TypeOK
  <1>5. ASSUME NEW t \in Tasks, Answer(t) PROVE TypeOK'
    <2>1. task[t] # NoEntry /\ task[t].ip \in IPs
          BY <1>5 DEF Answer, At, TypeOK, TaskState
    <2>2. task' \in [Tasks -> TaskState \cup {NoEntry}]
          BY <1>5, <2>1, TaskType DEF Answer
    <2>3. active' \in [IPs -> Times \cup {NoEntry}]
          BY <1>5, <2>1, ActiveType DEF Answer, TypeOK
    <2> QED
        BY <1>5, <2>2, <2>3 DEF Answer, TypeOK, history
  <1>6. ASSUME NEW t \in Tasks, HookEnds(t) PROVE TypeOK'
        BY <1>6, TaskType DEF HookEnds, At, TypeOK, history
  <1>7. ASSUME NEW t \in Tasks, Reject(t) PROVE TypeOK'
    <2>1. task' \in [Tasks -> TaskState \cup {NoEntry}]
          BY <1>7, TaskType DEF Reject, At
    <2>2. rejections' \in Seq(Times)
          BY <1>0, <1>7, NotedKeeps DEF Reject, TypeOK
    <2>3. lockdown' \in Nat /\ rejectedAt' \in Seq(Times)
          BY <1>7, LockdownType DEF Reject, TypeOK
    <2> QED
        BY <1>7, <2>1, <2>2, <2>3 DEF Reject, TypeOK
  <1>8. ASSUME NEW t \in Tasks, Fault(t) PROVE TypeOK'
    <2>1. task[t] # NoEntry /\ task[t].ip \in IPs
          BY <1>8 DEF Fault, At, TypeOK, TaskState
    <2>2. task' \in [Tasks -> TaskState \cup {NoEntry}]
          BY <1>8, <2>1, TaskType DEF Fault
    <2>3. entries' \in [IPs -> Entries \cup {NoEntry}]
          BY <1>8, <2>1, EntriesType DEF Fault
    <2>4. faulty' \in [IPs -> Nat]
          BY <1>8, <2>1 DEF Fault, TypeOK
    <2>5. trips' \in Seq(Times)
          BY <1>0, <1>8 DEF Fault, TypeOK
    <2> QED
        BY <1>8, <2>2, <2>3, <2>4, <2>5 DEF Fault, TypeOK
  <1>9. ASSUME NEW t \in Tasks, Event(t) PROVE TypeOK'
    <2>1. task' \in [Tasks -> TaskState \cup {NoEntry}]
          BY <1>9, TaskType DEF Event, At
    <2>2. events' \in Seq(Times)
          BY <1>0, <1>9, NotedKeeps DEF Event, TypeOK
    <2>3. lockdown' \in Nat
          BY <1>9, LockdownType DEF Event, TypeOK
    <2> QED
        BY <1>9, <2>1, <2>2, <2>3 DEF Event, TypeOK, history
  <1>10. CASE Purge
    <2>1. windows' \in [IPs -> Windows \cup {NoEntry}] /\ entries' \in [IPs -> Entries \cup {NoEntry}]
          BY <1>10 DEF Purge, RatePurge, BlacklistPurge, TypeOK
    <2>2. events' \in Seq(Times) /\ rejections' \in Seq(Times)
          BY <1>0, <1>10, TrimKeeps DEF Purge, TypeOK
    <2>3. active' \in [IPs -> Times \cup {NoEntry}]
          BY <1>10 DEF Purge, TypeOK
    <2> QED
        BY <1>10, <2>1, <2>2, <2>3 DEF Purge, TypeOK, history
  <1>11. CASE Tick
    <2>1. now' \in Times
          BY <1>11, GateAssumption DEF Tick, TypeOK, Times
    <2> QED
        BY <1>11, <2>1 DEF Tick, TypeOK, history
  <1>12. CASE UNCHANGED vars
        BY <1>12 DEF vars, TypeOK
  <1> QED
      BY <1>1, <1>2, <1>3, <1>4, <1>5, <1>6, <1>7, <1>8, <1>9, <1>10, <1>11, <1>12 DEF Next

(* The tables, the queues of times, the handlers and the lockdown state     *)
(* keep their types; no stored time is later than the clock's bound.        *)
THEOREM TypeCorrect == Spec => []TypeOK
  BY InitType, NextType, PTL DEF Spec

-----------------------------------------------------------------------------
(* The handlers.                                                           *)

\* Of all handlers only t moves.
Alone(t) == \A q \in Tasks : q # t => task'[q] = task[q]

(* A handler that goes on keeps its packet; one that ends is gone.          *)
LEMMA TaskMoves ==
    ASSUME TypeOK, NEW t \in Tasks, task[t] # NoEntry
    PROVE  /\ Ends(t) => Alone(t) /\ task'[t] = NoEntry
           /\ \A pc \in {"hello", "answer", "hook", "reject", "fault", "event"} :
                 Goto(t, pc) => /\ Alone(t) /\ task'[t] # NoEntry /\ task'[t].pc = pc
                                /\ task'[t].ip = task[t].ip /\ task'[t].faulty = task[t].faulty
  <1>1. task \in [Tasks -> TaskState \cup {NoEntry}] /\ task[t] \in TaskState
        BY DEF TypeOK
  <1>2. Ends(t) => Alone(t) /\ task'[t] = NoEntry
        BY <1>1 DEF Ends, Alone
  <1>3. ASSUME NEW pc \in {"hello", "answer", "hook", "reject", "fault", "event"}, Goto(t, pc)
        PROVE  /\ Alone(t) /\ task'[t] # NoEntry /\ task'[t].pc = pc
               /\ task'[t].ip = task[t].ip /\ task'[t].faulty = task[t].faulty
    <2> DEFINE s == [task[t] EXCEPT !.pc = pc]
    <2>1. s \in TaskState /\ s.pc = pc /\ s.ip = task[t].ip /\ s.faulty = task[t].faulty
          BY <1>1 DEF TaskState
    <2>2. task' = [task EXCEPT ![t] = s]
          BY <1>1, <1>3 DEF Goto
    <2> HIDE DEF s
    <2> QED
        BY <1>1, <2>1, <2>2, RecordAssumption DEF Alone
  <1> QED
      BY <1>2, <1>3

(* Only note_faulty brings a handler to the blacklist, and only the packet  *)
(* that blocks its IP brings it to the events.                              *)
LEMMA LateStages ==
    ASSUME TypeOK, NEW t \in Tasks,
           \/ \E ip \in IPs : Recv(t, ip)
           \/ Decode(t) \/ Hello(t) \/ Answer(t) \/ HookEnds(t) \/ Reject(t) \/ Fault(t) \/ Event(t)
    PROVE  /\ Alone(t)
           /\ At(t, "fault")' => Reject(t) /\ task[t].faulty /\ task'[t].faulty
           /\ At(t, "event")' => /\ Fault(t) /\ Trips(entries, task[t].ip, MaxFaulty)
                                 /\ task'[t].ip = task[t].ip
           /\ ~At(t, "event") \/ Event(t)
  <1>0. task \in [Tasks -> TaskState \cup {NoEntry}]
        BY DEF TypeOK
  <1>1. ASSUME NEW ip \in IPs, Recv(t, ip)
        PROVE  Alone(t) /\ ~At(t, "fault")' /\ ~At(t, "event")' /\ ~At(t, "event")
    <2>1. task'[t] = [pc |-> "handle", ip |-> ip, faulty |-> FALSE] /\ Alone(t) /\ task[t] = NoEntry
          BY <1>0, <1>1 DEF Recv, Alone
    <2> QED
        BY <2>1 DEF At
  <1>2. CASE Decode(t)
    <2>1. task[t] # NoEntry /\ task[t] \in TaskState /\ task[t].pc = "handle"
          BY <1>0, <1>2 DEF Decode, At
    <2>2. CASE task' = [task EXCEPT ![t].pc = "reject", ![t].faulty = TRUE]
          BY <1>0, <2>1, <2>2 DEF Alone, At, TaskState
    <2>3. CASE \E pc \in {"hello", "answer", "reject"} : Goto(t, pc)
          BY <2>1, <2>3, TaskMoves DEF At
    <2> QED
        BY <1>2, <2>2, <2>3 DEF Decode
  <1>3. CASE Hello(t)
        BY <1>3, TaskMoves DEF Hello, At
  <1>4. CASE Answer(t) \/ HookEnds(t)
        BY <1>4, TaskMoves DEF Answer, HookEnds, At
  <1>5. CASE Reject(t)
        BY <1>5, TaskMoves DEF Reject, At, CountsAsFault
  <1>6. CASE Fault(t)
        BY <1>6, TaskMoves DEF Fault, At
  <1>7. CASE Event(t)
        BY <1>7, TaskMoves DEF Event, At
  <1> QED
      BY <1>1, <1>2, <1>3, <1>4, <1>5, <1>6, <1>7

-----------------------------------------------------------------------------
(* The blacklist.                                                          *)

\* An entry counts faulty packets of its IP, a blocked one more than the limit,
\* and its block ends no later than one that would begin now.
EntryInv(ip) ==
    entries[ip] # NoEntry =>
        /\ entries[ip].faults <= faulty[ip]
        /\ entries[ip].until # NoEntry =>
              entries[ip].faults > MaxFaulty /\ entries[ip].until <= now + BlockTime

BlockInv ==
    /\ \A ip \in IPs : EntryInv(ip)
    /\ \A t \in Tasks : At(t, "fault") => task[t].faulty

(* One more faulty packet of ip.                                            *)
LEMMA FaultEntry ==
    ASSUME TypeOK, BlockInv, NEW t \in Tasks, Fault(t)
    PROVE  /\ task[t].ip \in IPs
           /\ \A ip \in IPs \ {task[t].ip} : entries'[ip] = entries[ip] /\ faulty'[ip] = faulty[ip]
           /\ faulty'[task[t].ip] = faulty[task[t].ip] + 1
           /\ \/ entries'[task[t].ip] = entries[task[t].ip]
              \/ entries'[task[t].ip] = Faulted(entries[task[t].ip], now, MaxFaulty, BlockTime)
  <1>1. task[t].ip \in IPs /\ task[t].faulty /\ faulty \in [IPs -> Nat]
        BY DEF Fault, At, TypeOK, TaskState, BlockInv
  <1>2. entries \in [IPs -> Entries \cup {NoEntry}]
        BY DEF TypeOK
  <1> DEFINE ip == task[t].ip
             e == Faulted(entries[ip], now, MaxFaulty, BlockTime)
  <1>3. entries' = entries \/ entries' = [entries EXCEPT ![ip] = e]
        BY DEF Fault, RecordFaulty
  <1>4. faulty' = [faulty EXCEPT ![ip] = @ + 1]
        BY <1>1 DEF Fault
  <1> HIDE DEF e
  <1>5. \A i \in IPs \ {ip} : entries'[i] = entries[i] /\ faulty'[i] = faulty[i]
        BY <1>1, <1>2, <1>3, <1>4
  <1>6. faulty'[ip] = faulty[ip] + 1 /\ (entries'[ip] = entries[ip] \/ entries'[ip] = e)
        BY <1>1, <1>2, <1>3, <1>4
  <1> QED
      BY <1>1, <1>5, <1>6 DEF e

LEMMA BlockInit == Init => BlockInv
  BY DEF Init, Empty, BlockInv, EntryInv, At

(* Every step keeps the accounts of the blacklist.                          *)
LEMMA BlockNext == TypeOK /\ BlockInv /\ [Next]_vars => BlockInv'
  <1> SUFFICES ASSUME TypeOK, BlockInv, [Next]_vars PROVE BlockInv'
      OBVIOUS
  <1>0. now \in Nat /\ BlockTime \in Nat /\ MaxFaulty \in Nat
        BY GateAssumption DEF TypeOK, Times
  <1>1. ASSUME NEW t \in Tasks,
               \/ \E ip \in IPs : Recv(t, ip)
               \/ Decode(t) \/ Hello(t) \/ Answer(t) \/ HookEnds(t) \/ Reject(t) \/ Fault(t) \/ Event(t)
        PROVE  \A q \in Tasks : At(q, "fault")' => task'[q].faulty
    <2>1. Alone(t) /\ (At(t, "fault")' => task'[t].faulty)
          BY <1>1, LateStages
    <2> QED
        BY <2>1 DEF Alone, BlockInv, At
  <1>2. ASSUME UNCHANGED <<entries, faulty, now>> PROVE \A ip \in IPs : EntryInv(ip)'
        BY <1>2 DEF BlockInv, EntryInv
  <1>3. ASSUME NEW t \in Tasks,
               \/ \E ip \in IPs : Recv(t, ip)
               \/ Decode(t) \/ Hello(t) \/ Answer(t) \/ HookEnds(t) \/ Reject(t) \/ Event(t)
        PROVE  BlockInv'
    <2>1. UNCHANGED <<entries, faulty, now>>
          BY <1>3 DEF Recv, Decode, Hello, Answer, HookEnds, Reject, Event, history
    <2> QED
        BY <1>1, <1>2, <1>3, <2>1 DEF BlockInv
  <1>4. ASSUME NEW t \in Tasks, Fault(t) PROVE BlockInv'
    <2>0. PICK ip \in IPs : ip = task[t].ip
          BY <1>4, FaultEntry
    <2> DEFINE e == entries[ip]
               f == Faulted(e, now, MaxFaulty, BlockTime)
    <2>1. /\ e \in Entries \cup {NoEntry} /\ faulty[ip] \in Nat
          /\ EntryInv(ip) /\ now' = now
          BY <1>4 DEF TypeOK, BlockInv, Fault
    <2>2. /\ f.faults <= faulty[ip] + 1
          /\ f.until # NoEntry => f.faults > MaxFaulty /\ f.until <= now + BlockTime
      <3>1. CASE e = NoEntry
        <4>1. f = [faults |-> 1, until |-> IF 1 > MaxFaulty THEN now + BlockTime ELSE NoEntry]
              BY <3>1 DEF Faulted
        <4> QED
            BY <1>0, <2>1, <4>1
      <3>2. CASE e # NoEntry /\ e.until = NoEntry
        <4>1. f = [faults |-> e.faults + 1,
                   until |-> IF e.faults + 1 > MaxFaulty THEN now + BlockTime ELSE NoEntry]
              BY <3>2 DEF Faulted
        <4>2. e.faults \in Nat /\ e.faults <= faulty[ip]
              BY <2>1, <3>2 DEF Entries, EntryInv
        <4> DEFINE n == e.faults + 1
        <4>3. n \in Nat /\ n <= faulty[ip] + 1
              BY <2>1, <4>2
        <4>4. f = [faults |-> n, until |-> IF n > MaxFaulty THEN now + BlockTime ELSE NoEntry]
              BY <4>1
        <4> HIDE DEF n
        <4> QED
            BY <1>0, <2>1, <4>3, <4>4
      <3>3. CASE e # NoEntry /\ e.until # NoEntry
        <4>1. f = IF now < e.until THEN [e EXCEPT !.until = now + BlockTime]
                                   ELSE [faults |-> 1, until |-> NoEntry]
              BY <3>3 DEF Faulted
        <4>2. e.faults \in Nat /\ e.faults <= faulty[ip] /\ e.faults > MaxFaulty /\ e \in Entries
              BY <2>1, <3>3 DEF Entries, EntryInv
        <4> QED
            BY <1>0, <2>1, <4>1, <4>2 DEF Entries
      <3> QED
          BY <3>1, <3>2, <3>3
    <2> HIDE DEF f
    <2>3. EntryInv(ip)'
      <3>1. faulty'[ip] = faulty[ip] + 1 /\ (entries'[ip] = e \/ entries'[ip] = f)
            BY <1>4, <2>0, FaultEntry DEF f
      <3>2. CASE entries'[ip] = e
            BY <1>0, <2>1, <3>1, <3>2 DEF EntryInv, Entries
      <3>3. CASE entries'[ip] = f
            BY <2>1, <2>2, <3>1, <3>3 DEF EntryInv
      <3> QED
          BY <3>1, <3>2, <3>3
    <2>4. \A i \in IPs \ {ip} : EntryInv(i)'
          BY <1>4, <2>0, <2>1, FaultEntry DEF BlockInv, EntryInv
    <2> QED
        BY <1>1, <1>4, <2>3, <2>4 DEF BlockInv
  <1>5. ASSUME NEW ip \in IPs, Shed(ip) PROVE BlockInv'
        BY <1>2, <1>5 DEF Shed, BlockInv, At
  <1>6. CASE Purge
    <2>1. \A ip \in IPs : entries'[ip] = entries[ip] \/ entries'[ip] = NoEntry
          BY <1>6 DEF Purge, BlacklistPurge, TypeOK
    <2>2. UNCHANGED <<faulty, now, task>>
          BY <1>6 DEF Purge, history
    <2> QED
        BY <2>1, <2>2 DEF BlockInv, EntryInv, At
  <1>7. CASE Tick
    <2>1. now' = now + 1 /\ UNCHANGED <<entries, faulty, task>>
          BY <1>7 DEF Tick, history
    <2>2. \A ip \in IPs : EntryInv(ip)'
          BY <1>0, <2>1 DEF BlockInv, EntryInv, TypeOK, Entries
    <2> QED
        BY <2>1, <2>2 DEF BlockInv, At
  <1>8. CASE UNCHANGED vars
        BY <1>2, <1>8 DEF vars, BlockInv, At
  <1> QED
      BY <1>3, <1>4, <1>5, <1>6, <1>7, <1>8 DEF Next

LEMMA BlockInvariant == Spec => [](TypeOK /\ BlockInv)
  BY TypeCorrect, BlockInit, BlockNext, PTL DEF Spec

(* README, "authentication failures do not feed the blacklist": for any     *)
(* traffic, an IP is blocked only after more than max_faulty_packets        *)
(* packets of its own that failed to decrypt or decode.                     *)
THEOREM OnlyFaultyBlockedHolds == Spec => []OnlyFaultyBlocked
  <1>1. TypeOK /\ BlockInv => OnlyFaultyBlocked
    <2> SUFFICES ASSUME TypeOK, BlockInv, NEW ip \in IPs, entries[ip] # NoEntry, entries[ip].until # NoEntry
                 PROVE  faulty[ip] > MaxFaulty
        BY DEF OnlyFaultyBlocked
    <2>1. entries[ip].faults \in Nat /\ faulty[ip] \in Nat
          BY DEF TypeOK, Entries
    <2> QED
        BY <2>1, GateAssumption DEF BlockInv, EntryInv
  <1> QED
      BY <1>1, BlockInvariant, PTL

\* The block of ip, if it runs, is not over before its time.
Kept(ip) ==
    Blocked(entries, ip, now) /\ now' < entries[ip].until =>
        Blocked(entries', ip, now') /\ entries'[ip].until >= entries[ip].until

LEMMA BlockKept == TypeOK /\ BlockInv /\ [Next]_vars => \A ip \in IPs : Kept(ip)
  <1> SUFFICES ASSUME TypeOK, BlockInv, [Next]_vars, NEW ip \in IPs,
                      Blocked(entries, ip, now), now' < entries[ip].until
               PROVE  Blocked(entries', ip, now') /\ entries'[ip].until >= entries[ip].until
      BY DEF Kept
  <1>0. /\ entries[ip] \in Entries /\ entries[ip] # NoEntry /\ entries[ip].until \in Nat
        /\ now < entries[ip].until /\ entries[ip].until <= now + BlockTime
        /\ now \in Nat /\ BlockTime \in Nat
        BY GateAssumption DEF Blocked, TypeOK, Entries, BlockInv, EntryInv, Times
  <1>1. CASE entries'[ip] = entries[ip]
        BY <1>0, <1>1, NoEntryAssumption DEF Blocked
  <1>2. ASSUME NEW t \in Tasks, Fault(t)
        PROVE  Blocked(entries', ip, now') /\ entries'[ip].until >= entries[ip].until
    <2>1. CASE entries'[ip] = Faulted(entries[ip], now, MaxFaulty, BlockTime)
      <3>1. entries'[ip] = [entries[ip] EXCEPT !.until = now + BlockTime]
            BY <1>0, <2>1, NoEntryAssumption DEF Faulted
      <3>2. entries'[ip] \in Entries /\ entries'[ip].until = now + BlockTime /\ now' = now
            BY <1>0, <1>2, <3>1 DEF Entries, Fault
      <3> QED
          BY <1>0, <3>2, NoEntryAssumption, RecordAssumption DEF Blocked
    <2> QED
        BY <1>1, <1>2, <2>1, FaultEntry
  <1>3. CASE Purge
    <2>1. entries'[ip] = entries[ip]
          BY <1>3 DEF Purge, BlacklistPurge, TypeOK
    <2> QED
        BY <1>1, <2>1
  <1>4. ASSUME NEW t \in Tasks,
               \/ \E i \in IPs : Recv(t, i)
               \/ Decode(t) \/ Hello(t) \/ Answer(t) \/ HookEnds(t) \/ Reject(t) \/ Event(t)
        PROVE  entries' = entries
        BY <1>4 DEF Recv, Decode, Hello, Answer, HookEnds, Reject, Event
  <1>5. ASSUME (\E i \in IPs : Shed(i)) \/ Tick \/ UNCHANGED vars PROVE entries' = entries
        BY <1>5 DEF Shed, Tick, vars
  <1> QED
      BY <1>1, <1>2, <1>3, <1>4, <1>5 DEF Next

(* record_faulty_at, purge_stale: a block runs its full time from the last  *)
(* faulty packet; no cleanup tick, packet of another IP or late handler     *)
(* ends it earlier.                                                         *)
THEOREM BlockRunsOutHolds == Spec => BlockRunsOut
  <1>1. TypeOK /\ BlockInv /\ [Next]_vars =>
            [\A ip \in IPs : Blocked(entries, ip, now) /\ now' < entries[ip].until =>
                Blocked(entries', ip, now') /\ entries'[ip].until >= entries[ip].until]_vars
        BY BlockKept DEF Kept
  <1> QED
      BY <1>1, BlockInvariant, PTL DEF Spec, BlockRunsOut

-----------------------------------------------------------------------------
(* The HELLO budget.                                                       *)

\* A HELLO and the one twice the budget after it are a window apart.
Spaced(q) ==
    \A i \in 1 .. Len(q) - 2 * HelloMax : q[i + 2 * HelloMax] - q[i] >= HelloWindow

\* The first k HELLOs passed no later than start, and all of them but the last
\* HelloMax at least a window's length before it.
Before(q, k, start) ==
    /\ \A i \in 1 .. k : q[i] <= start
    /\ \A i \in 1 .. k - HelloMax : q[i] + HelloWindow <= start

\* Of one IP: q are the times its HELLOs passed, w its window, n the time.  The
\* HELLOs that the window does not count passed before it, as above.
Rate(q, w, n) ==
    /\ Spaced(q)
    /\ w = NoEntry => Before(q, Len(q), n)
    /\ w # NoEntry =>
          /\ w.count <= HelloMax /\ w.count <= Len(q) /\ w.start <= n
          /\ \A i \in 1 .. Len(q) : q[i] <= n
          /\ Before(q, Len(q) - w.count, w.start)

RateInv == HelloMax > 0 /\ RoomForAll => \A ip \in IPs : Rate(passed[ip], windows[ip], now)

(* What passed before a time passed before any later one.                   *)
LEMMA BeforeLater ==
    ASSUME NEW q \in Seq(Nat), NEW k \in Int, k <= Len(q), NEW n \in Nat, NEW m \in Nat, n <= m,
           Before(q, k, n)
    PROVE  Before(q, k, m)
  <1>1. HelloMax \in Nat /\ HelloWindow \in Nat /\ Len(q) \in Nat /\ \A i \in 1 .. Len(q) : q[i] \in Nat
        BY GateAssumption
  <1>2. ASSUME NEW i \in 1 .. k PROVE q[i] <= m
    <2>1. q[i] \in Nat /\ q[i] <= n
          BY <1>1 DEF Before
    <2> QED
        BY <2>1
  <1>3. ASSUME NEW i \in 1 .. k - HelloMax PROVE q[i] + HelloWindow <= m
    <2>1. i \in 1 .. Len(q)
          BY <1>1
    <2>2. q[i] \in Nat /\ q[i] + HelloWindow <= n
          BY <1>1, <2>1 DEF Before
    <2> QED
        BY <1>1, <2>2
  <1> QED
      BY <1>2, <1>3 DEF Before

(* Time passes.                                                             *)
LEMMA RateLater ==
    ASSUME NEW q \in Seq(Nat), NEW w \in Windows \cup {NoEntry}, NEW n \in Nat, NEW m \in Nat, n <= m,
           Rate(q, w, n)
    PROVE  Rate(q, w, m)
  <1>1. CASE w = NoEntry
    <2>1. Before(q, Len(q), m)
          BY <1>1, BeforeLater DEF Rate
    <2> QED
        BY <1>1, <2>1 DEF Rate
  <1>2. CASE w # NoEntry
    <2>1. w.start \in Nat /\ w.start <= n /\ \A i \in 1 .. Len(q) : q[i] \in Nat /\ q[i] <= n
          BY <1>2 DEF Rate, Windows
    <2>2. w.start <= m /\ \A i \in 1 .. Len(q) : q[i] <= m
          BY <2>1
    <2> QED
        BY <1>2, <2>2 DEF Rate
  <1> QED
      BY <1>1, <1>2

(* When a window is over, all its HELLOs passed before now, and all but the *)
(* last HelloMax before it began.                                           *)
LEMMA RateOver ==
    ASSUME NEW q \in Seq(Nat), NEW w \in Windows, NEW n \in Nat, w # NoEntry,
           ~(n - w.start < HelloWindow), Rate(q, w, n)
    PROVE  Before(q, Len(q), n)
  <1>1. /\ HelloMax \in Nat /\ HelloWindow \in Nat /\ w.start \in Nat /\ w.count \in Nat
        /\ Len(q) \in Nat /\ w.count <= HelloMax
        BY GateAssumption DEF Windows, Rate
  <1>2. ASSUME NEW i \in 1 .. Len(q) - HelloMax PROVE q[i] + HelloWindow <= n
    <2>1. i \in 1 .. Len(q) - w.count /\ i \in 1 .. Len(q)
          BY <1>1
    <2>2. q[i] <= w.start /\ q[i] \in Nat
          BY <2>1 DEF Rate, Before
    <2> QED
        BY <1>1, <2>2
  <1>3. \A i \in 1 .. Len(q) : q[i] <= n
        BY DEF Rate
  <1> QED
      BY <1>2, <1>3 DEF Before

(* A HELLO passes at time n in a window that began at time start and has    *)
(* let count others through.                                                *)
LEMMA RateAppend ==
    ASSUME NEW q \in Seq(Nat), NEW n \in Nat, NEW start \in Nat, NEW count \in Nat,
           count < HelloMax, count <= Len(q), start <= n,
           Spaced(q), Before(q, Len(q) - count, start)
    PROVE  /\ Spaced(Append(q, n))
           /\ Before(Append(q, n), Len(q) - count, start)
  <1>1. /\ HelloMax \in Nat /\ HelloWindow \in Nat /\ Len(q) \in Nat
        /\ \A i \in 1 .. Len(q) : q[i] \in Nat
        BY GateAssumption
  <1> DEFINE p == Append(q, n)
  <1>2. /\ Len(p) = Len(q) + 1 /\ p[Len(q) + 1] = n
        /\ \A i \in 1 .. Len(q) : p[i] = q[i]
        OBVIOUS
  <1> HIDE DEF p
  <1>3. ASSUME NEW i \in 1 .. Len(p) - 2 * HelloMax
        PROVE  p[i + 2 * HelloMax] - p[i] >= HelloWindow
    <2>1. i \in 1 .. Len(q) /\ (i + 2 * HelloMax <= Len(q) \/ i + 2 * HelloMax = Len(q) + 1)
          BY <1>1, <1>2
    <2>2. p[i] = q[i] /\ q[i] \in Nat
          BY <1>1, <1>2, <2>1
    <2>3. CASE i + 2 * HelloMax <= Len(q)
      <3>1. i \in 1 .. Len(q) - 2 * HelloMax /\ i + 2 * HelloMax \in 1 .. Len(q)
            BY <1>1, <2>1, <2>3
      <3>2. q[i + 2 * HelloMax] - q[i] >= HelloWindow
            BY <3>1 DEF Spaced
      <3>3. p[i + 2 * HelloMax] = q[i + 2 * HelloMax]
            BY <1>2, <3>1
      <3> QED
          BY <2>2, <3>2, <3>3
    <2>4. CASE i + 2 * HelloMax = Len(q) + 1
      <3>1. i \in 1 .. (Len(q) - count) - HelloMax
            BY <1>1, <2>1, <2>4
      <3>2. q[i] + HelloWindow <= start
            BY <3>1 DEF Before
      <3>3. p[i + 2 * HelloMax] = n
            BY <1>2, <2>4
      <3>4. n - q[i] >= HelloWindow
        <4>1. PICK x \in Nat : x = q[i]
              BY <2>2
        <4>2. HelloWindow \in Nat /\ x + HelloWindow <= start
              BY <1>1, <3>2, <4>1
        <4>3. n - x >= HelloWindow
              BY <4>2
        <4> QED
            BY <4>1, <4>3
      <3> QED
          BY <2>2, <3>3, <3>4
    <2> QED
        BY <2>1, <2>3, <2>4
  <1>4. Spaced(p)
        BY <1>3 DEF Spaced
  <1>5. \A i \in 1 .. Len(q) - count : i \in 1 .. Len(q)
        BY <1>1
  <1>6. \A i \in 1 .. (Len(q) - count) - HelloMax : i \in 1 .. Len(q)
        BY <1>1
  <1>7. Before(p, Len(q) - count, start)
        BY <1>2, <1>5, <1>6 DEF Before
  <1> QED
      BY <1>4, <1>7 DEF p

(* One more HELLO passes, in the window that runs or in a new one.          *)
LEMMA RatePass ==
    ASSUME NEW q \in Seq(Nat), NEW n \in Nat, NEW w \in Windows \cup {NoEntry}, HelloMax > 0,
           Rate(q, w, n), NEW v \in Windows, v.count < HelloMax,
           \/ w # NoEntry /\ v = w
           \/ v = [start |-> n, count |-> 0] /\ Before(q, Len(q), n)
    PROVE  Rate(Append(q, n), [v EXCEPT !.count = @ + 1], n)
  <1>0. HelloMax \in Nat /\ Len(q) \in Nat /\ v.start \in Nat /\ v.count \in Nat
        BY GateAssumption DEF Windows
  <1>1. /\ v.count <= Len(q) /\ v.start <= n /\ Before(q, Len(q) - v.count, v.start)
        /\ Spaced(q) /\ \A i \in 1 .. Len(q) : q[i] <= n
    <2>1. CASE w # NoEntry /\ v = w
          BY <2>1 DEF Rate
    <2>2. CASE v = [start |-> n, count |-> 0] /\ Before(q, Len(q), n)
      <3>1. v.start = n /\ v.count = 0 /\ Len(q) - 0 = Len(q)
            BY <1>0, <2>2
      <3> QED
          BY <1>0, <2>2, <3>1 DEF Rate, Before
    <2> QED
        BY <2>1, <2>2
  <1> DEFINE p == Append(q, n)
             u == [v EXCEPT !.count = @ + 1]
  <1>2. Spaced(p) /\ Before(p, Len(q) - v.count, v.start)
        BY <1>0, <1>1, RateAppend
  <1>3. Len(p) = Len(q) + 1 /\ \A i \in 1 .. Len(p) : p[i] = q[i] \/ p[i] = n
        OBVIOUS
  <1>4. \A i \in 1 .. Len(p) : p[i] <= n
    <2> SUFFICES ASSUME NEW i \in 1 .. Len(p) PROVE p[i] <= n
        OBVIOUS
    <2>1. CASE i \in 1 .. Len(q)
          BY <1>1, <2>1
    <2>2. CASE i = Len(q) + 1
          BY <2>2
    <2> QED
        BY <1>0, <1>3, <2>1, <2>2
  <1>5. u \in Windows /\ u.start = v.start /\ u.count = v.count + 1
        BY <1>0 DEF Windows
  <1> HIDE DEF p, u
  <1>6. u # NoEntry
        BY <1>5, RecordAssumption
  <1>7. Len(p) - (v.count + 1) = Len(q) - v.count /\ v.count + 1 <= HelloMax /\ v.count + 1 <= Len(p)
        BY <1>0, <1>1, <1>3
  <1>8. Rate(p, u, n)
        BY <1>1, <1>2, <1>4, <1>5, <1>6, <1>7 DEF Rate
  <1> QED
      BY <1>8 DEF p, u

(* With room for every IP the limiter tracks every one.                     *)
LEMMA RoomTracks ==
    ASSUME TypeOK, HelloMax > 0, RoomForAll, NEW ip \in IPs
    PROVE  Tracks(windows, ip, HelloMax, MaxTracked)
  <1> SUFFICES ASSUME MaxTracked > 0, windows[ip] = NoEntry
               PROVE  ~(Cardinality({i \in DOMAIN windows : windows[i] # NoEntry}) >= MaxTracked)
      BY DEF Tracks, TableFull
  <1> DEFINE S == {i \in DOMAIN windows : windows[i] # NoEntry}
  <1>1. S \subseteq IPs \ {ip}
        BY DEF TypeOK
  <1> HIDE DEF S
  <1>2. IsFiniteSet(IPs \ {ip}) /\ Cardinality(IPs \ {ip}) = Cardinality(IPs) - 1
        BY GateAssumption, FS_RemoveElement
  <1>3. Cardinality(S) <= Cardinality(IPs \ {ip}) /\ Cardinality(S) \in Nat
        BY <1>1, <1>2, FS_Subset, FS_CardinalityType
  <1>4. Cardinality(IPs) \in Nat /\ MaxTracked \in Nat /\ Cardinality(IPs) <= MaxTracked
        BY GateAssumption, FS_CardinalityType DEF RoomForAll
  <1> QED
      BY <1>2, <1>3, <1>4 DEF S

LEMMA RateInit == Init => RateInv
  <1> SUFFICES ASSUME Init, NEW ip \in IPs PROVE Rate(passed[ip], windows[ip], now)
      BY DEF RateInv
  <1>1. passed[ip] = <<>> /\ windows[ip] = NoEntry
        BY DEF Init, Empty
  <1>2. Len(passed[ip]) = 0
        BY <1>1
  <1> QED
      BY <1>1, <1>2, GateAssumption DEF Rate, Spaced, Before

(* Every step keeps the windows in step with the HELLOs that passed.        *)
LEMMA RateNext == TypeOK /\ RateInv /\ [Next]_vars => RateInv'
  <1> SUFFICES ASSUME TypeOK, RateInv, [Next]_vars, HelloMax > 0, RoomForAll, NEW ip \in IPs
               PROVE  Rate(passed[ip], windows[ip], now)'
      BY DEF RateInv, RoomForAll
  <1> DEFINE q == passed[ip]
             w == windows[ip]
  <1>1. /\ q \in Seq(Nat) /\ w \in Windows \cup {NoEntry} /\ now \in Nat
        /\ Rate(q, w, now)
        BY GateAssumption DEF TypeOK, Times, RateInv
  <1>2. CASE UNCHANGED <<windows, passed, now>>
        BY <1>1, <1>2 DEF Rate
  <1>3. ASSUME NEW t \in Tasks, Hello(t) PROVE Rate(passed[ip], windows[ip], now)'
    <2>0. now' = now /\ task[t].ip \in IPs
          BY <1>3 DEF Hello, At, TypeOK, TaskState
    <2>1. CASE task[t].ip # ip
      <3>1. passed'[ip] = q /\ windows'[ip] = w
            BY <1>3, <2>0, <2>1 DEF Hello, RateCheck, TypeOK
      <3> QED
          BY <1>1, <2>0, <3>1 DEF Rate
    <2>2. CASE task[t].ip = ip
      <3> DEFINE v == WindowAt(windows, ip, now, HelloWindow)
                 u == [v EXCEPT !.count = @ + 1]
      <3>1. Tracks(windows, ip, HelloMax, MaxTracked)
            BY RoomTracks
      <3>2. /\ windows' = IF v.count < HelloMax THEN [windows EXCEPT ![ip] = u] ELSE windows
            /\ passed' = IF v.count < HelloMax THEN [passed EXCEPT ![ip] = Append(@, now)] ELSE passed
            BY <1>3, <2>2, <3>1 DEF Hello, RateCheck, RateAllows
      <3>3. v \in Windows
            BY <1>1 DEF WindowAt, Windows
      <3>4. \/ w # NoEntry /\ v = w
            \/ v = [start |-> now, count |-> 0] /\ Before(q, Len(q), now)
        <4>1. CASE w # NoEntry /\ now - w.start < HelloWindow
              BY <4>1 DEF WindowAt
        <4>2. CASE w # NoEntry /\ ~(now - w.start < HelloWindow)
          <5>1. v = [start |-> now, count |-> 0]
                BY <4>2 DEF WindowAt
          <5> QED
              BY <1>1, <4>2, <5>1, RateOver
        <4>3. CASE w = NoEntry
          <5>1. v = [start |-> now, count |-> 0]
                BY <4>3 DEF WindowAt
          <5> QED
              BY <1>1, <4>3, <5>1 DEF Rate
        <4> QED
            BY <4>1, <4>2, <4>3
      <3> HIDE DEF v
      <3>5. CASE v.count < HelloMax
        <4>1. windows'[ip] = u /\ passed'[ip] = Append(q, now)
              BY <3>2, <3>5 DEF TypeOK
        <4>2. Rate(Append(q, now), u, now)
              BY <1>1, <3>3, <3>4, <3>5, RatePass
        <4> QED
            BY <2>0, <4>1, <4>2 DEF Rate
      <3>6. CASE ~(v.count < HelloMax)
            BY <1>1, <2>0, <3>2, <3>6 DEF Rate
      <3> QED
          BY <3>5, <3>6
    <2> QED
        BY <2>1, <2>2
  <1>4. CASE Purge
    <2>1. passed' = passed /\ now' = now
          BY <1>4 DEF Purge, history
    <2>2. windows'[ip] = IF w # NoEntry /\ now - w.start < HelloWindow THEN w ELSE NoEntry
          BY <1>4 DEF Purge, RatePurge, TypeOK
    <2>3. Rate(q, windows'[ip], now)
      <3>1. CASE w # NoEntry /\ ~(now - w.start < HelloWindow)
            BY <1>1, <2>2, <3>1, RateOver DEF Rate
      <3> QED
          BY <1>1, <2>2, <3>1
    <2> QED
        BY <2>1, <2>3 DEF Rate
  <1>5. CASE Tick
    <2>1. UNCHANGED <<passed, windows>> /\ now' = now + 1
          BY <1>5 DEF Tick, history
    <2>2. Rate(q, w, now + 1)
      <3>1. now + 1 \in Nat /\ now <= now + 1
            BY <1>1
      <3> QED
          BY <1>1, <3>1, RateLater
    <2> QED
        BY <2>1, <2>2 DEF Rate
  <1>6. ASSUME NEW t \in Tasks,
               \/ \E i \in IPs : Recv(t, i)
               \/ Decode(t) \/ Answer(t) \/ HookEnds(t) \/ Reject(t) \/ Fault(t) \/ Event(t)
        PROVE  UNCHANGED <<windows, passed, now>>
        BY <1>6 DEF Recv, Decode, Answer, HookEnds, Reject, Fault, Event, history
  <1>7. ASSUME (\E i \in IPs : Shed(i)) \/ UNCHANGED vars
        PROVE  UNCHANGED <<windows, passed, now>>
        BY <1>7 DEF Shed, vars
  <1> QED
      BY <1>2, <1>3, <1>4, <1>5, <1>6, <1>7 DEF Next

(* HelloRateLimiter: for every budget, window and traffic, one IP gets at   *)
(* most twice its budget through in any interval of a window's length.      *)
THEOREM RateBoundedHolds == Spec => []RateBounded
  <1>1. RateInv => RateBounded
        BY DEF RateInv, Rate, Spaced, RateBounded
  <1> QED
      BY <1>1, TypeCorrect, RateInit, RateNext, PTL DEF Spec

-----------------------------------------------------------------------------
(* The causes of lockdown: rejected and shed packets.                      *)

\* The rejections that are remembered are the last ones.
RejectInv ==
    /\ InOrder(rejectedAt, now)
    /\ Suffix(rejections, rejectedAt)
    /\ RejectionThreshold = 0 => Len(rejections) = 0

\* The packets counted in the drop window were shed since it began.
ShedInv ==
    /\ InOrder(shedAt, now)
    /\ drops.start <= now /\ drops.count <= Len(shedAt)
    /\ \A i \in 0 .. drops.count - 1 : shedAt[Len(shedAt) - i] >= drops.start

(* An end of an end of q is an end of q.                                    *)
LEMMA SuffixSuffix ==
    ASSUME NEW p \in Seq(Times), NEW r \in Seq(Times), NEW q \in Seq(Times), Suffix(p, r), Suffix(r, q)
    PROVE  Suffix(p, q)
  <1>1. Len(p) \in Nat /\ Len(r) \in Nat /\ Len(q) \in Nat
        OBVIOUS
  <1>2. Len(p) <= Len(q) /\ \A i \in 0 .. Len(p) - 1 : i \in 0 .. Len(r) - 1
        BY <1>1 DEF Suffix
  <1> QED
      BY <1>2 DEF Suffix

(* Ends stay ends when the same is appended.                                *)
LEMMA SuffixAppend ==
    ASSUME NEW r \in Seq(Times), NEW q \in Seq(Times), NEW n \in Times, Suffix(r, q)
    PROVE  Suffix(Append(r, n), Append(q, n))
  <1> DEFINE a == Append(r, n)
             b == Append(q, n)
  <1>1. /\ Len(a) = Len(r) + 1 /\ Len(b) = Len(q) + 1 /\ Len(r) \in Nat /\ Len(q) \in Nat
        /\ a[Len(a)] = n /\ b[Len(b)] = n
        /\ \A i \in 1 .. Len(r) : a[i] = r[i]
        /\ \A i \in 1 .. Len(q) : b[i] = q[i]
        OBVIOUS
  <1> HIDE DEF a, b
  <1>2. ASSUME NEW i \in 0 .. Len(a) - 1 PROVE a[Len(a) - i] = b[Len(b) - i]
    <2>1. CASE i = 0
          BY <1>1, <2>1
    <2>2. CASE i # 0
      <3>1. /\ i - 1 \in 0 .. Len(r) - 1 /\ Len(r) <= Len(q)
            /\ Len(a) - i = Len(r) - (i - 1) /\ Len(b) - i = Len(q) - (i - 1)
            BY <1>1, <1>2, <2>2 DEF Suffix
      <3>2. r[Len(r) - (i - 1)] = q[Len(q) - (i - 1)]
            BY <3>1 DEF Suffix
      <3>3. Len(r) - (i - 1) \in 1 .. Len(r) /\ Len(q) - (i - 1) \in 1 .. Len(q)
            BY <1>1, <3>1
      <3> QED
          BY <1>1, <3>1, <3>2, <3>3
    <2> QED
        BY <2>1, <2>2
  <1>3. Suffix(a, b)
        BY <1>1, <1>2 DEF Suffix
  <1> QED
      BY <1>3 DEF a, b

LEMMA CountsInit == Init => RejectInv /\ ShedInv
  <1> SUFFICES ASSUME Init PROVE RejectInv /\ ShedInv
      OBVIOUS
  <1>1. rejections = <<>> /\ rejectedAt = <<>> /\ shedAt = <<>> /\ now = 0
        /\ drops = [start |-> 0, count |-> 0]
        BY DEF Init
  <1>2. Len(rejections) = 0 /\ Len(rejectedAt) = 0 /\ Len(shedAt) = 0
        BY <1>1
  <1> QED
      BY <1>1, <1>2 DEF RejectInv, ShedInv, InOrder, Suffix

(* note_rejection: the queue is an end of the history of rejected packets,  *)
(* and what is left of it is inside the window.                             *)
LEMMA RejectCounts ==
    ASSUME TypeOK, RejectInv, NEW t \in Tasks, Reject(t)
    PROVE  /\ RejectInv'
           /\ RejectionThreshold > 0 /\ Len(rejections') > RejectionThreshold =>
                 MoreThan(RejectionThreshold, rejectedAt')
  <1>0. /\ rejections \in Seq(Times) /\ rejectedAt \in Seq(Times) /\ now \in Times /\ now' = now
        /\ Times \subseteq Nat /\ AttackWindow \in Nat /\ RejectionThreshold \in Nat
        BY GateAssumption DEF TypeOK, Times, Reject
  <1>1. /\ rejectedAt' = Append(rejectedAt, now)
        /\ rejectedAt' \in Seq(Times) /\ InOrder(rejectedAt', now)
        BY <1>0, AppendInOrder DEF Reject, RejectInv
  <1>2. CASE RejectionThreshold = 0
    <2>1. rejections' = rejections /\ Len(rejections) = 0
          BY <1>2 DEF Reject, RejectInv
    <2>2. Suffix(rejections', rejectedAt')
          BY <1>1, <2>1 DEF Suffix
    <2> QED
        BY <1>0, <1>1, <1>2, <2>1, <2>2 DEF RejectInv, InOrder, Suffix
  <1>3. CASE RejectionThreshold # 0
    <2> DEFINE r == Noted(rejections, now, AttackWindow)
    <2>1. rejections' = r
          BY <1>3 DEF Reject
    <2>2. InOrder(rejections, now)
      <3>1. /\ Len(rejections) \in Nat /\ Len(rejectedAt) \in Nat /\ Len(rejections) <= Len(rejectedAt)
            BY <1>0 DEF RejectInv, Suffix
      <3>2. \A i \in 1 .. Len(rejections) :
               /\ Len(rejections) - i \in 0 .. Len(rejections) - 1
               /\ rejections[i] = rejectedAt[Len(rejectedAt) - (Len(rejections) - i)]
        <4> SUFFICES ASSUME NEW i \in 1 .. Len(rejections)
                     PROVE  /\ Len(rejections) - i \in 0 .. Len(rejections) - 1
                            /\ rejections[i] = rejectedAt[Len(rejectedAt) - (Len(rejections) - i)]
            OBVIOUS
        <4>1. Len(rejections) - i \in 0 .. Len(rejections) - 1
              BY <3>1
        <4>2. Len(rejections) - (Len(rejections) - i) = i
              BY <3>1
        <4> QED
            BY <4>1, <4>2 DEF RejectInv, Suffix
      <3> DEFINE d == Len(rejectedAt) - Len(rejections)
      <3>3. d \in Nat /\ \A i \in 1 .. Len(rejections) :
               d + i \in 1 .. Len(rejectedAt) /\ d + i = Len(rejectedAt) - (Len(rejections) - i)
            BY <3>1
      <3>4. \A i \in 1 .. Len(rejections) : rejections[i] = rejectedAt[d + i]
            BY <3>2, <3>3
      <3> HIDE DEF d
      <3>5. \A i \in 1 .. Len(rejections) : rejections[i] <= now
            BY <3>3, <3>4 DEF RejectInv, InOrder
      <3>6. ASSUME NEW i \in 1 .. Len(rejections), NEW j \in 1 .. Len(rejections), i <= j
            PROVE  rejections[i] <= rejections[j]
        <4>1. d + i <= d + j
              BY <3>1, <3>3, <3>6
        <4>2. d + i \in 1 .. Len(rejectedAt) /\ d + j \in 1 .. Len(rejectedAt)
              BY <3>3
        <4>3. rejectedAt[d + i] <= rejectedAt[d + j]
              BY <4>1, <4>2 DEF RejectInv, InOrder
        <4> QED
            BY <3>4, <4>3
      <3> QED
          BY <3>5, <3>6 DEF InOrder
    <2>3. /\ r \in Seq(Times) /\ Suffix(r, Append(rejections, now))
          /\ \A i \in 1 .. Len(r) : now - r[i] <= AttackWindow
          BY <1>0, <2>2, NotedKeeps
    <2>4. Suffix(Append(rejections, now), rejectedAt')
          BY <1>0, <1>1, SuffixAppend DEF RejectInv
    <2>5. Append(rejections, now) \in Seq(Times)
          BY <1>0
    <2> HIDE DEF r
    <2>6. Suffix(r, rejectedAt')
          BY <1>1, <2>3, <2>4, <2>5, SuffixSuffix
    <2>7. RejectInv'
          BY <1>0, <1>1, <1>3, <2>1, <2>6 DEF RejectInv, InOrder, Suffix
    <2>8. ASSUME Len(r) > RejectionThreshold PROVE MoreThan(RejectionThreshold, rejectedAt')
      <3>1. Len(r) \in Nat /\ Len(rejectedAt') \in Nat /\ Len(r) <= Len(rejectedAt')
            BY <1>1, <2>3, <2>6 DEF Suffix
      <3>2. RejectionThreshold \in 0 .. Len(r) - 1 /\ Len(r) - RejectionThreshold \in 1 .. Len(r)
            BY <1>0, <2>8, <3>1
      <3>3. r[Len(r) - RejectionThreshold] = rejectedAt'[Len(rejectedAt') - RejectionThreshold]
            BY <2>6, <3>2 DEF Suffix
      <3>4. now - r[Len(r) - RejectionThreshold] <= AttackWindow
            BY <2>3, <3>2
      <3>5. Len(rejectedAt') > RejectionThreshold
            BY <1>0, <2>8, <3>1
      <3> QED
          BY <3>3, <3>4, <3>5 DEF MoreThan
    <2> QED
        BY <2>1, <2>7, <2>8
  <1> QED
      BY <1>2, <1>3

(* note_lockdown_drop: a count above the threshold is of packets shed since *)
(* the drop window began, at most an attack window ago.                     *)
LEMMA ShedCounts ==
    ASSUME TypeOK, ShedInv, NEW ip \in IPs, Shed(ip)
    PROVE  /\ ShedInv'
           /\ now - drops.start <= AttackWindow /\ NextDrops.count > DropThreshold =>
                 MoreThan(DropThreshold, shedAt')
           /\ DropThreshold > 0
  <1>0. /\ shedAt \in Seq(Times) /\ now \in Times /\ now' = now /\ now \in Nat
        /\ drops.start \in Nat /\ drops.count \in Nat /\ drops \in [start : Nat, count : Nat]
        /\ Times \subseteq Nat /\ AttackWindow \in Nat /\ DropThreshold \in Nat
        BY GateAssumption DEF TypeOK, Times, Shed, DropThreshold
  <1> DEFINE q == Append(shedAt, now)
  <1>1. /\ shedAt' = q /\ q \in Seq(Times) /\ InOrder(q, now)
        BY <1>0, AppendInOrder DEF Shed, ShedInv
  <1>2. /\ Len(q) = Len(shedAt) + 1 /\ q[Len(q)] = now /\ Len(shedAt) \in Nat
        /\ \A i \in 1 .. Len(shedAt) : q[i] = shedAt[i]
        BY <1>0
  <1> HIDE DEF q
  <1>3. DropThreshold > 0
        BY GateAssumption DEF Shed, UnderAttack, DropThreshold
  <1>4. drops' = NextDrops
        BY DEF Shed
  <1>5. CASE now - drops.start > AttackWindow
    <2>1. drops'.start = now /\ drops'.count = 1
          BY <1>4, <1>5 DEF NextDrops
    <2>2. \A i \in 0 .. drops'.count - 1 : q[Len(q) - i] >= drops'.start
          BY <1>0, <1>2, <2>1
    <2>3. ShedInv'
          BY <1>0, <1>1, <1>2, <2>1, <2>2 DEF ShedInv, InOrder
    <2> QED
        BY <1>0, <1>3, <1>5, <2>3
  <1>6. CASE ~(now - drops.start > AttackWindow)
    <2>1. drops'.start = drops.start /\ drops'.count = drops.count + 1
          BY <1>0, <1>4, <1>6 DEF NextDrops
    <2>2. \A i \in 0 .. drops'.count - 1 : q[Len(q) - i] >= drops.start
      <3> SUFFICES ASSUME NEW i \in 0 .. drops'.count - 1 PROVE q[Len(q) - i] >= drops.start
          OBVIOUS
      <3>1. CASE i = 0
            BY <1>0, <1>2, <3>1 DEF ShedInv
      <3>2. CASE i # 0
        <4>1. i - 1 \in 0 .. drops.count - 1 /\ Len(q) - i = Len(shedAt) - (i - 1)
              BY <1>0, <1>2, <2>1, <3>2
        <4>2. Len(shedAt) - (i - 1) \in 1 .. Len(shedAt)
              BY <1>0, <1>2, <4>1 DEF ShedInv
        <4> QED
            BY <1>2, <4>1, <4>2 DEF ShedInv
      <3> QED
          BY <3>1, <3>2
    <2>3. drops'.count <= Len(q)
          BY <1>0, <1>2, <2>1 DEF ShedInv
    <2>4. ShedInv'
          BY <1>0, <1>1, <2>1, <2>2, <2>3 DEF ShedInv, InOrder
    <2>5. ASSUME NextDrops.count > DropThreshold PROVE MoreThan(DropThreshold, q)
      <3>1. DropThreshold \in 0 .. drops'.count - 1 /\ Len(q) > DropThreshold
            BY <1>0, <1>2, <1>4, <2>1, <2>3, <2>5
      <3>2. q[Len(q) - DropThreshold] >= drops.start
            BY <2>2, <3>1
      <3>3. Len(q) - DropThreshold \in 1 .. Len(q)
            BY <1>0, <1>2, <3>1
      <3>4. q[Len(q) - DropThreshold] \in Nat
        <4>1. \A i \in 1 .. Len(q) : q[i] \in Times
              BY <1>1
        <4> QED
            BY <1>0, <3>3, <4>1
      <3> QED
          BY <1>0, <1>6, <3>1, <3>2, <3>4 DEF MoreThan
    <2> QED
        BY <1>1, <1>3, <2>4, <2>5
  <1> QED
      BY <1>5, <1>6

(* The other steps append nothing; the cleanup tick keeps an end.           *)
LEMMA CountsNext == TypeOK /\ RejectInv /\ ShedInv /\ [Next]_vars => RejectInv' /\ ShedInv'
  <1> SUFFICES ASSUME TypeOK, RejectInv, ShedInv, [Next]_vars PROVE RejectInv' /\ ShedInv'
      OBVIOUS
  <1>0. /\ rejections \in Seq(Times) /\ rejectedAt \in Seq(Times) /\ shedAt \in Seq(Times)
        /\ now \in Times /\ now \in Nat /\ AttackWindow \in Nat /\ drops.start \in Nat
        BY GateAssumption DEF TypeOK, Times
  <1>1. ASSUME UNCHANGED <<rejections, rejectedAt, now>> PROVE RejectInv'
        BY <1>1 DEF RejectInv, InOrder, Suffix
  <1>2. ASSUME UNCHANGED <<drops, shedAt, now>> PROVE ShedInv'
        BY <1>2 DEF ShedInv, InOrder
  <1>3. ASSUME NEW t \in Tasks,
               \/ \E i \in IPs : Recv(t, i)
               \/ Decode(t) \/ Hello(t) \/ Answer(t) \/ HookEnds(t) \/ Fault(t) \/ Event(t)
        PROVE  UNCHANGED <<rejections, rejectedAt, drops, shedAt, now>>
        BY <1>3 DEF Recv, Decode, Hello, Answer, HookEnds, Fault, Event, history
  <1>4. ASSUME NEW t \in Tasks, Reject(t) PROVE RejectInv' /\ ShedInv'
        BY <1>2, <1>4, RejectCounts DEF Reject
  <1>5. ASSUME NEW ip \in IPs, Shed(ip) PROVE RejectInv' /\ ShedInv'
        BY <1>1, <1>5, ShedCounts DEF Shed
  <1>6. CASE Purge
    <2>1. rejections' = Trim(rejections, now, AttackWindow) /\ UNCHANGED <<rejectedAt, drops, shedAt, now>>
          BY <1>6 DEF Purge, history
    <2>2. rejections' \in Seq(Times) /\ Suffix(rejections', rejections)
          BY <1>0, <2>1, TrimKeeps
    <2>3. Suffix(rejections', rejectedAt)
          BY <1>0, <2>2, SuffixSuffix DEF RejectInv
    <2>4. Len(rejections') \in Nat /\ Len(rejections') <= Len(rejections)
          BY <2>2 DEF Suffix
    <2> QED
        BY <1>2, <2>1, <2>3, <2>4 DEF RejectInv, InOrder, Suffix
  <1>7. CASE Tick
    <2>1. now' = now + 1 /\ UNCHANGED <<rejections, rejectedAt, drops, shedAt>>
          BY <1>7 DEF Tick, history
    <2>2. InOrder(rejectedAt, now + 1) /\ InOrder(shedAt, now + 1)
          BY <1>0, LaterInOrder DEF RejectInv, ShedInv
    <2> QED
        BY <1>0, <2>1, <2>2 DEF RejectInv, ShedInv, InOrder, Suffix
  <1>8. CASE UNCHANGED vars
        BY <1>1, <1>2, <1>8 DEF vars
  <1> QED
      BY <1>1, <1>2, <1>3, <1>4, <1>5, <1>6, <1>7, <1>8 DEF Next

-----------------------------------------------------------------------------
(* The causes of lockdown: blocks that begin.                              *)

\* The handlers between the two locks of record_faulty.
Pending == {t \in Tasks : At(t, "event")}

\* The times of the trips are in order, the events that are remembered are the
\* times of the last trips but those still pending, and these are of this moment.
EventInv ==
    LET p == Cardinality(Pending) IN
    /\ \A i, j \in 1 .. Len(trips) : i <= j => trips[i] <= trips[j]
    /\ \A i \in 1 .. Len(trips) : trips[i] <= now
    /\ Len(events) + p <= Len(trips)
    /\ \A i \in 0 .. Len(events) - 1 : events[Len(events) - i] = trips[Len(trips) - p - i]
    /\ \A i \in 0 .. p - 1 : trips[Len(trips) - i] = now

LEMMA PendingFinite ==
    /\ IsFiniteSet(Pending) /\ Cardinality(Pending) \in Nat
    /\ IsFiniteSet(Pending') /\ Cardinality(Pending') \in Nat
  <1>1. Pending \subseteq Tasks /\ Pending' \subseteq Tasks
        BY DEF Pending
  <1>2. IsFiniteSet(Pending) /\ IsFiniteSet(Pending')
        BY <1>1, FS_Subset, GateAssumption
  <1> QED
      BY <1>2, FS_CardinalityType

(* The step of a handler adds it to the pending ones if its packet blocked  *)
(* its IP, and takes it from them when the event is recorded.               *)
LEMMA PendingMoves ==
    ASSUME TypeOK, NEW t \in Tasks,
           \/ \E ip \in IPs : Recv(t, ip)
           \/ Decode(t) \/ Hello(t) \/ Answer(t) \/ HookEnds(t) \/ Reject(t) \/ Fault(t) \/ Event(t)
    PROVE  /\ ~At(t, "event") /\ ~At(t, "event")' => Pending' = Pending
           /\ At(t, "event")' => Cardinality(Pending') = Cardinality(Pending) + 1
           /\ Event(t) => Cardinality(Pending') = Cardinality(Pending) - 1
  <1>1. Alone(t) /\ (~At(t, "event") \/ Event(t))
        BY LateStages
  <1>2. \A q \in Tasks : q # t => (At(q, "event")' <=> At(q, "event"))
        BY <1>1 DEF Alone, At
  <1>3. ~At(t, "event") /\ ~At(t, "event")' => Pending' = Pending
        BY <1>2 DEF Pending
  <1>4. ASSUME At(t, "event")' PROVE Cardinality(Pending') = Cardinality(Pending) + 1
    <2>1. Fault(t)
          BY <1>4, LateStages
    <2>2. ~At(t, "event")
          BY <2>1 DEF Fault, At
    <2>3. Pending' = Pending \cup {t} /\ t \notin Pending
          BY <1>2, <1>4, <2>2 DEF Pending
    <2> QED
        BY <2>3, PendingFinite, FS_AddElement
  <1>5. ASSUME Event(t) PROVE Cardinality(Pending') = Cardinality(Pending) - 1
    <2>1. At(t, "event") /\ ~At(t, "event")'
      <3>1. task[t] # NoEntry /\ Ends(t) /\ At(t, "event")
            BY <1>5 DEF Event, At
      <3> QED
          BY <3>1, TaskMoves DEF At
    <2>2. Pending' = Pending \ {t} /\ t \in Pending
          BY <1>2, <2>1 DEF Pending
    <2> QED
        BY <2>2, PendingFinite, FS_RemoveElement
  <1> QED
      BY <1>3, <1>4, <1>5

LEMMA TripsInit == Init => EventInv
  <1> SUFFICES ASSUME Init PROVE EventInv
      OBVIOUS
  <1>1. Pending = {}
        BY DEF Init, Pending, At, Empty
  <1>2. Cardinality(Pending) = 0
        BY <1>1, FS_EmptySet
  <1>3. trips = <<>> /\ events = <<>>
        BY DEF Init
  <1>4. Len(trips) = 0 /\ Len(events) = 0
        BY <1>3
  <1> QED
      BY <1>2, <1>4 DEF EventInv

(* A trip in the history is a time.                                         *)
LEMMA TripsType ==
    ASSUME TypeOK
    PROVE  /\ Len(trips) \in Nat
           /\ \A i \in 1 .. Len(trips) : trips[i] \in Nat /\ trips[i] \in Times
  BY GateAssumption DEF TypeOK, Times

(* record_faulty under the state lock: the packet that blocks an IP.        *)
LEMMA TripStep ==
    ASSUME TypeOK, EventInv, NEW t \in Tasks, Fault(t), Trips(entries, task[t].ip, MaxFaulty)
    PROVE  EventInv'
  <1>1. /\ now' = now /\ events' = events /\ trips' = Append(trips, now)
        /\ task[t] # NoEntry /\ Goto(t, "event")
        BY DEF Fault, At
  <1>2. /\ Len(trips) \in Nat /\ now \in Nat /\ Len(events) \in Nat
        /\ \A i \in 1 .. Len(trips) : trips[i] \in Nat
    <2>1. now \in Nat /\ Len(events) \in Nat
          BY GateAssumption DEF TypeOK, Times
    <2> QED
        BY <2>1, TripsType
  <1>3. PICK L \in Nat : L = Len(trips)
        BY <1>2
  <1>4. /\ Len(trips') = L + 1 /\ trips'[L + 1] = now
        /\ \A i \in 1 .. L : trips'[i] = trips[i]
        BY <1>1, <1>3 DEF TypeOK
  <1>5. PICK p \in Nat : p = Cardinality(Pending) /\ Cardinality(Pending') = p + 1
    <2>1. At(t, "event")'
          BY <1>1, TaskMoves DEF At
    <2> QED
        BY <2>1, PendingMoves, PendingFinite
  <1>6. EventInv'
    <2>1. \A i, j \in 1 .. L + 1 : i <= j => trips'[i] <= trips'[j]
      <3> SUFFICES ASSUME NEW i \in 1 .. L + 1, NEW j \in 1 .. L + 1, i <= j
                   PROVE  trips'[i] <= trips'[j]
          OBVIOUS
      <3>1. CASE j \in 1 .. L
        <4>1. i \in 1 .. L
              BY <3>1
        <4> QED
            BY <1>3, <1>4, <3>1, <4>1 DEF EventInv
      <3>2. CASE j = L + 1
        <4>1. CASE i \in 1 .. L
              BY <1>3, <1>4, <3>2, <4>1 DEF EventInv
        <4>2. CASE i = L + 1
              BY <1>2, <1>4, <3>2, <4>2
        <4> QED
            BY <4>1, <4>2
      <3> QED
          BY <3>1, <3>2
    <2>2. \A i \in 1 .. L + 1 : trips'[i] <= now
      <3> SUFFICES ASSUME NEW i \in 1 .. L + 1 PROVE trips'[i] <= now
          OBVIOUS
      <3>1. CASE i \in 1 .. L
            BY <1>3, <1>4, <3>1 DEF EventInv
      <3>2. CASE i = L + 1
            BY <1>2, <1>4, <3>2
      <3> QED
          BY <3>1, <3>2
    <2>3. /\ Len(events) + p <= L
          /\ \A i \in 0 .. Len(events) - 1 : events[Len(events) - i] = trips[L - p - i]
          /\ \A i \in 0 .. p - 1 : trips[L - i] = now
          BY <1>3, <1>5 DEF EventInv
    <2>4. \A i \in 0 .. Len(events) - 1 : events[Len(events) - i] = trips'[(L + 1) - (p + 1) - i]
      <3> SUFFICES ASSUME NEW i \in 0 .. Len(events) - 1
                   PROVE  events[Len(events) - i] = trips'[(L + 1) - (p + 1) - i]
          OBVIOUS
      <3>1. (L + 1) - (p + 1) - i = L - p - i /\ L - p - i \in 1 .. L
            BY <1>2, <2>3
      <3> QED
          BY <1>4, <2>3, <3>1
    <2>5. \A i \in 0 .. (p + 1) - 1 : trips'[(L + 1) - i] = now
      <3> SUFFICES ASSUME NEW i \in 0 .. (p + 1) - 1 PROVE trips'[(L + 1) - i] = now
          OBVIOUS
      <3>1. CASE i = 0
            BY <1>4, <3>1
      <3>2. CASE i # 0
        <4>1. i - 1 \in 0 .. p - 1 /\ (L + 1) - i = L - (i - 1) /\ L - (i - 1) \in 1 .. L
              BY <1>2, <2>3, <3>2
        <4> QED
            BY <1>4, <2>3, <4>1
      <3> QED
          BY <3>1, <3>2
    <2>6. Len(events) + (p + 1) <= L + 1
          BY <1>2, <2>3
    <2> QED
        BY <1>1, <1>4, <1>5, <2>1, <2>2, <2>4, <2>5, <2>6 DEF EventInv
  <1> QED
      BY <1>6

(* record_faulty under the events lock, and what it makes of lockdown.      *)
LEMMA EventStep ==
    ASSUME TypeOK, EventInv, NEW t \in Tasks, Event(t)
    PROVE  EventInv'
  <1>0. /\ events \in Seq(Times) /\ now \in Times /\ now' = now /\ AttackWindow \in Nat
        /\ trips' = trips /\ events' = Noted(events, now, AttackWindow) /\ Len(trips) \in Nat
        BY GateAssumption, TripsType DEF TypeOK, Event, history
  <1>1. PICK L \in Nat : L = Len(trips)
        BY <1>0
  <1>2. PICK p \in Nat : p + 1 = Cardinality(Pending) /\ Cardinality(Pending') = p
    <2>1. Cardinality(Pending') = Cardinality(Pending) - 1
          BY PendingMoves
    <2> QED
        BY <2>1, PendingFinite
  <1> DEFINE a == Append(events, now)
  <1>3. a \in Seq(Times) /\ events' \in Seq(Times) /\ Suffix(events', a)
        BY <1>0, NotedKeeps
  <1>4. /\ Len(events) \in Nat /\ Len(a) = Len(events) + 1 /\ a[Len(events) + 1] = now
        /\ \A i \in 1 .. Len(events) : a[i] = events[i]
        BY <1>0
  <1> HIDE DEF a
  <1>5. /\ Len(events) + (p + 1) <= L
        /\ \A i \in 0 .. Len(events) - 1 : events[Len(events) - i] = trips[L - (p + 1) - i]
        /\ \A i \in 0 .. (p + 1) - 1 : trips[L - i] = now
        BY <1>1, <1>2 DEF EventInv
  <1>6. \A i \in 0 .. Len(a) - 1 : a[Len(a) - i] = trips[L - p - i]
    <2> SUFFICES ASSUME NEW i \in 0 .. Len(a) - 1 PROVE a[Len(a) - i] = trips[L - p - i]
        OBVIOUS
    <2>1. CASE i = 0
      <3>1. p \in 0 .. (p + 1) - 1 /\ L - p - i = L - p /\ Len(a) - i = Len(events) + 1
            BY <1>4, <2>1
      <3> QED
          BY <1>4, <1>5, <3>1
    <2>2. CASE i # 0
      <3>1. /\ i - 1 \in 0 .. Len(events) - 1 /\ Len(a) - i = Len(events) - (i - 1)
            /\ L - p - i = L - (p + 1) - (i - 1) /\ Len(events) - (i - 1) \in 1 .. Len(events)
            BY <1>4, <2>2
      <3> QED
          BY <1>4, <1>5, <3>1
    <2> QED
        BY <2>1, <2>2
  <1>7. Len(events') \in Nat /\ Len(events') <= Len(a)
        BY <1>3 DEF Suffix
  <1>8. \A i \in 0 .. Len(events') - 1 : events'[Len(events') - i] = trips[L - p - i]
    <2>1. \A i \in 0 .. Len(events') - 1 : i \in 0 .. Len(a) - 1
          BY <1>4, <1>7
    <2> QED
        BY <1>3, <1>6, <2>1 DEF Suffix
  <1>9. Len(events') + p <= L /\ \A i \in 0 .. p - 1 : trips[L - i] = now
        BY <1>4, <1>5, <1>7
  <1> QED
      BY <1>0, <1>1, <1>2, <1>8, <1>9 DEF EventInv

(* When more than AttackThreshold events are remembered, the last           *)
(* AttackThreshold + 1 trips are in the window.                             *)
LEMMA EventsTell ==
    ASSUME TypeOK, EventInv, NEW t \in Tasks, Event(t), Len(events') > AttackThreshold
    PROVE  MoreThan(AttackThreshold, trips')
  <1>0. /\ events \in Seq(Times) /\ now \in Times /\ now \in Nat /\ AttackWindow \in Nat
        /\ AttackThreshold \in Nat /\ now' = now
        /\ trips' = trips /\ events' = Noted(events, now, AttackWindow)
        /\ \A i \in 1 .. Len(trips) : trips[i] \in Nat
    <2>1. /\ events \in Seq(Times) /\ now \in Times /\ now \in Nat /\ AttackWindow \in Nat
          /\ AttackThreshold \in Nat
          BY GateAssumption DEF TypeOK, Times
    <2>2. now' = now /\ trips' = trips /\ events' = Noted(events, now, AttackWindow)
          BY DEF Event, history
    <2> QED
        BY <2>1, <2>2, TripsType
  <1>1. PICK L \in Nat : L = Len(trips)
        BY TripsType
  <1>2. PICK p \in Nat : p = Cardinality(Pending')
        BY PendingFinite
  <1>3. PICK n \in Nat : n = Len(events')
        BY <1>0, NotedKeeps
  <1>4. /\ n + p <= L
        /\ \A i \in 0 .. n - 1 : events'[n - i] = trips[L - p - i]
        BY <1>0, <1>1, <1>2, <1>3, EventStep DEF EventInv
  <1>5. InOrder(events, now)
    <2>1. PICK m \in Nat, c \in Nat : m = Len(events) /\ c = Cardinality(Pending)
          BY <1>0, PendingFinite
    <2>2. /\ m + c <= L
          /\ \A i \in 0 .. m - 1 : events[m - i] = trips[L - c - i]
          /\ \A i, j \in 1 .. L : i <= j => trips[i] <= trips[j]
          /\ \A i \in 1 .. L : trips[i] <= now
          BY <1>1, <2>1 DEF EventInv
    <2>3. \A i \in 1 .. m : L - c - (m - i) \in 1 .. L /\ events[i] = trips[L - c - (m - i)]
      <3> SUFFICES ASSUME NEW i \in 1 .. m
                   PROVE  L - c - (m - i) \in 1 .. L /\ events[i] = trips[L - c - (m - i)]
          OBVIOUS
      <3>1. m - i \in 0 .. m - 1 /\ m - (m - i) = i /\ L - c - (m - i) \in 1 .. L
            BY <2>2
      <3> QED
          BY <2>2, <3>1
    <2>4. \A i, j \in 1 .. m : i <= j => events[i] <= events[j]
      <3> SUFFICES ASSUME NEW i \in 1 .. m, NEW j \in 1 .. m, i <= j PROVE events[i] <= events[j]
          OBVIOUS
      <3>1. L - c - (m - i) <= L - c - (m - j)
            OBVIOUS
      <3> QED
          BY <2>2, <2>3, <3>1
    <2> QED
        BY <2>1, <2>2, <2>3, <2>4 DEF InOrder
  <1>6. \A i \in 1 .. n : now - events'[i] <= AttackWindow
        BY <1>0, <1>3, <1>5, NotedKeeps
  <1> DEFINE first == L - AttackThreshold
  <1>7. first \in 1 .. L /\ now - trips[first] <= AttackWindow
    <2>1. AttackThreshold \in 0 .. n - 1 /\ n - AttackThreshold \in 1 .. n
          BY <1>0, <1>3
    <2>2. PICK k \in 1 .. L : k = L - p - AttackThreshold
          BY <1>4, <2>1
    <2>3. first \in 1 .. L /\ k <= first
          BY <1>4, <2>1, <2>2
    <2>4. now - trips[k] <= AttackWindow
          BY <1>4, <1>6, <2>1, <2>2
    <2>5. trips[k] <= trips[first]
          BY <1>1, <2>2, <2>3 DEF EventInv
    <2>6. PICK a \in Nat, b \in Nat : a = trips[k] /\ b = trips[first]
          BY <1>0, <1>1, <2>2, <2>3
    <2>7. now - a <= AttackWindow /\ a <= b
          BY <2>4, <2>5, <2>6
    <2>8. now - b <= AttackWindow
          BY <1>0, <2>7
    <2> QED
        BY <2>3, <2>6, <2>8
  <1>8. L > AttackThreshold
        BY <1>0, <1>7
  <1> QED
      BY <1>0, <1>1, <1>7, <1>8 DEF MoreThan

(* The other steps append no trip; the cleanup tick keeps an end of the     *)
(* events, and time passes only when no event is pending.                   *)
LEMMA TripsNext == TypeOK /\ EventInv /\ [Next]_vars => EventInv'
  <1> SUFFICES ASSUME TypeOK, EventInv, [Next]_vars PROVE EventInv'
      OBVIOUS
  <1>0. /\ now \in Nat /\ now \in Times /\ events \in Seq(Times) /\ AttackWindow \in Nat
        BY GateAssumption DEF TypeOK, Times
  <1>2. ASSUME trips' = trips, now' = now, events' = events, Pending' = Pending PROVE EventInv'
        BY <1>2 DEF EventInv
  <1>3. ASSUME NEW t \in Tasks,
               \/ \E i \in IPs : Recv(t, i)
               \/ Decode(t) \/ Hello(t) \/ Answer(t) \/ HookEnds(t) \/ Reject(t)
        PROVE  EventInv'
    <2>1. trips' = trips /\ now' = now /\ events' = events
          BY <1>3 DEF Recv, Decode, Hello, Answer, HookEnds, Reject, history
    <2>2. ~Fault(t) /\ ~Event(t)
          BY <1>3 DEF Recv, Decode, Hello, Answer, HookEnds, Reject, Fault, Event, At
    <2>3. ~At(t, "event") /\ ~At(t, "event")'
          BY <1>3, <2>2, LateStages
    <2>4. Pending' = Pending
          BY <1>3, <2>3, PendingMoves
    <2> QED
        BY <1>2, <2>1, <2>4
  <1>4. ASSUME NEW t \in Tasks, Fault(t) PROVE EventInv'
    <2>1. CASE Trips(entries, task[t].ip, MaxFaulty)
          BY <1>4, <2>1, TripStep
    <2>2. CASE ~Trips(entries, task[t].ip, MaxFaulty)
      <3>1. trips' = trips /\ now' = now /\ events' = events
            BY <1>4, <2>2 DEF Fault
      <3>2. ~At(t, "event") /\ ~At(t, "event")'
            BY <1>4, <2>2, LateStages DEF Fault, At
      <3>3. Pending' = Pending
            BY <1>4, <3>2, PendingMoves
      <3> QED
          BY <1>2, <3>1, <3>3
    <2> QED
        BY <2>1, <2>2
  <1>5. ASSUME NEW t \in Tasks, Event(t) PROVE EventInv'
        BY <1>5, EventStep
  <1>6. ASSUME NEW ip \in IPs, Shed(ip) PROVE EventInv'
    <2>1. trips' = trips /\ now' = now /\ events' = events /\ task' = task
          BY <1>6 DEF Shed
    <2>2. Pending' = Pending
          BY <2>1 DEF Pending, At
    <2> QED
        BY <1>2, <2>1, <2>2
  <1>7. CASE Purge
    <2>1. trips' = trips /\ now' = now /\ task' = task /\ events' = Trim(events, now, AttackWindow)
          BY <1>7 DEF Purge, history
    <2>2. Pending' = Pending
          BY <2>1 DEF Pending, At
    <2>3. events' \in Seq(Times) /\ Suffix(events', events)
          BY <1>0, <2>1, TrimKeeps
    <2>4. PICK m \in Nat, n \in Nat : m = Len(events') /\ n = Len(events)
          BY <1>0, <2>3
    <2>5. m <= n /\ \A i \in 0 .. m - 1 : events'[m - i] = events[n - i]
          BY <2>3, <2>4 DEF Suffix
    <2>6. PICK L \in Nat, p \in Nat : L = Len(trips) /\ p = Cardinality(Pending)
          BY TripsType, PendingFinite
    <2>7. n + p <= L /\ \A i \in 0 .. n - 1 : events[n - i] = trips[L - p - i]
          BY <2>4, <2>6 DEF EventInv
    <2>8. m + p <= L /\ \A i \in 0 .. m - 1 : events'[m - i] = trips[L - p - i]
      <3>1. \A i \in 0 .. m - 1 : i \in 0 .. n - 1
            BY <2>5
      <3> QED
          BY <2>5, <2>7, <3>1
    <2> QED
        BY <2>1, <2>2, <2>4, <2>6, <2>8 DEF EventInv
  <1>8. CASE Tick
    <2>1. trips' = trips /\ now' = now + 1 /\ task' = task /\ events' = events
          BY <1>8 DEF Tick, history
    <2>2. Pending = {} /\ Pending' = {}
          BY <1>8, <2>1 DEF Tick, Pending, At
    <2>3. Cardinality(Pending) = 0 /\ Cardinality(Pending') = 0
          BY <2>2, FS_EmptySet
    <2>4. \A i \in 1 .. Len(trips) : trips[i] <= now + 1
      <3> SUFFICES ASSUME NEW i \in 1 .. Len(trips) PROVE trips[i] <= now + 1
          OBVIOUS
      <3>1. PICK a \in Nat : a = trips[i]
            BY TripsType
      <3>2. a <= now
            BY <3>1 DEF EventInv
      <3> QED
          BY <1>0, <3>1, <3>2
    <2> QED
        BY <2>1, <2>3, <2>4 DEF EventInv
  <1>9. CASE UNCHANGED vars
    <2>1. trips' = trips /\ now' = now /\ events' = events /\ task' = task
          BY <1>9 DEF vars
    <2>2. Pending' = Pending
          BY <2>1 DEF Pending, At
    <2> QED
        BY <1>2, <2>1, <2>2
  <1> QED
      BY <1>3, <1>4, <1>5, <1>6, <1>7, <1>8, <1>9 DEF Next

-----------------------------------------------------------------------------
(* Lockdown.                                                               *)

CauseInv == RejectInv /\ ShedInv /\ EventInv

LEMMA CauseInvariant == Spec => [](TypeOK /\ CauseInv)
  <1>1. Init => CauseInv
        BY CountsInit, TripsInit DEF CauseInv
  <1>2. TypeOK /\ CauseInv /\ [Next]_vars => CauseInv'
        BY CountsNext, TripsNext DEF CauseInv
  <1> QED
      BY <1>1, <1>2, TypeCorrect, PTL DEF Spec

(* rate_limit.rs: for any traffic and any settings, lockdown is armed or    *)
(* extended only when more packets were rejected, more blocks begun or more *)
(* packets shed within the last attack window than the threshold.  The      *)
(* proof has to tie the queues, which are trimmed by every call and by the  *)
(* cleanup tick, and the fixed drop window to all that happened.            *)
THEOREM LockdownHasCauseHolds == Spec => LockdownHasCause
  <1> DEFINE Cause ==
          \/ RejectionThreshold > 0 /\ MoreThan(RejectionThreshold, rejectedAt')
          \/ MoreThan(AttackThreshold, trips')
          \/ DropThreshold > 0 /\ MoreThan(DropThreshold, shedAt')
  <1>1. TypeOK /\ CauseInv /\ [Next]_vars => (lockdown' > lockdown => Cause)
    <2> SUFFICES ASSUME TypeOK, CauseInv, [Next]_vars, lockdown' > lockdown PROVE Cause
        OBVIOUS
    <2>1. lockdown' # lockdown
      <3>1. lockdown \in Nat
            BY DEF TypeOK
      <3> QED
          BY <3>1
    <2>2. ASSUME NEW t \in Tasks, Reject(t) PROVE Cause
          BY <2>1, <2>2, RejectCounts DEF Reject, CauseInv
    <2>3. ASSUME NEW t \in Tasks, Event(t) PROVE Cause
          BY <2>1, <2>3, EventsTell DEF Event, CauseInv
    <2>4. ASSUME NEW ip \in IPs, Shed(ip) PROVE Cause
          BY <2>1, <2>4, ShedCounts DEF Shed, CauseInv
    <2>5. ASSUME NEW t \in Tasks,
                 \/ \E i \in IPs : Recv(t, i)
                 \/ Decode(t) \/ Hello(t) \/ Answer(t) \/ HookEnds(t) \/ Fault(t)
          PROVE  lockdown' = lockdown
          BY <2>5 DEF Recv, Decode, Hello, Answer, HookEnds, Fault
    <2>6. ASSUME Purge \/ Tick \/ UNCHANGED vars PROVE lockdown' = lockdown
          BY <2>6 DEF Purge, Tick, vars
    <2> QED
        BY <2>1, <2>2, <2>3, <2>4, <2>5, <2>6 DEF Next
  <1>2. TypeOK /\ CauseInv /\ [Next]_vars => [lockdown' > lockdown => Cause]_vars
        BY <1>1
  <1> QED
      BY <1>2, CauseInvariant, PTL DEF Spec, LockdownHasCause

=============================================================================
