---------------------------- MODULE StatusProofs ----------------------------
(***************************************************************************)
(* Proofs about Status, for every number of processes, state paths,        *)
(* `status` commands and polls.                                            *)
(***************************************************************************)
EXTENDS Status, FiniteSetTheorems, TLAPS

-----------------------------------------------------------------------------
(* Type correctness.                                                       *)

\* The daemons that have begun a dump and not yet ended it.
DumpPcs == {"create", "fill", "rename"}
Dumping == {p \in Pids : proc[p] # NoEntry /\ proc[p].pc \in DumpPcs}

\* Every state file put in place, and every one still being written, is a dump
\* of its own; a round of polling is left while a command polls, and it has read
\* a pid before it checks or signals a process.
CountInv ==
    /\ now <= dumps
    /\ published + Cardinality(Dumping) <= dumps
    /\ \A r \in Requests : ReqAt(r, "poll") => req[r].polls < MaxPolls
    /\ \A r \in Requests :
          req[r] # NoEntry /\ req[r].pc \in {"read", "check", "before", "signal"} => req[r].polls = 0
    /\ \A r \in Requests :
          req[r] # NoEntry /\ req[r].pc \in {"check", "before", "signal"} => req[r].pid \in Pids

TypeInv == TypeOK /\ CountInv

(* The daemons that dump are finitely many, before and after a step.        *)
LEMMA DumpingFinite ==
    /\ IsFiniteSet(Dumping) /\ Cardinality(Dumping) \in Nat
    /\ IsFiniteSet(Dumping') /\ Cardinality(Dumping') \in Nat
  <1>1. Dumping \subseteq Pids /\ Dumping' \subseteq Pids
        BY DEF Dumping
  <1>2. IsFiniteSet(Dumping) /\ IsFiniteSet(Dumping')
        BY <1>1, FS_Subset, StatusAssumption
  <1> QED
      BY <1>2, FS_CardinalityType

(* A step that moves no process into a dump does not add to the daemons     *)
(* that dump.                                                               *)
LEMMA DumpingShrinks ==
    ASSUME Dumping' \subseteq Dumping
    PROVE  Cardinality(Dumping') <= Cardinality(Dumping)
  BY DumpingFinite, FS_Subset

(* Nothing runs at the start.                                               *)
LEMMA InitType == Init => TypeInv
  <1> SUFFICES ASSUME Init PROVE TypeInv
      OBVIOUS
  <1>1. Dumping = {}
        BY DEF Init, Empty, Dumping
  <1>2. Cardinality(Dumping) = 0
        BY <1>1, FS_EmptySet
  <1>3. TypeOK
        BY StatusAssumption DEF Init, TypeOK, Empty, Clock
  <1>4. CountInv
        BY <1>2 DEF Init, CountInv, Empty, ReqAt
  <1> QED
      BY <1>3, <1>4 DEF TypeInv

(* A step that leaves the requests and the counters alone, and ends dumps   *)
(* or begins none, keeps the counts.                                        *)
LEMMA CountStays ==
    ASSUME TypeInv, UNCHANGED <<req, now, published, dumps>>, Dumping' \subseteq Dumping
    PROVE  CountInv'
  <1>1. Cardinality(Dumping') <= Cardinality(Dumping)
        BY DumpingShrinks
  <1>2. published \in Int /\ dumps \in Int
        BY DEF TypeInv, TypeOK
  <1>3. published' + Cardinality(Dumping') <= dumps'
        BY <1>1, <1>2, DumpingFinite DEF TypeInv, CountInv
  <1> QED
      BY <1>3 DEF TypeInv, CountInv, ReqAt

(* A step of one request that leaves the processes and counters alone keeps *)
(* the counts if that request's round of polling is in order.               *)
LEMMA CountOfRequest ==
    ASSUME TypeInv, UNCHANGED <<proc, now, published, dumps>>, NEW r \in Requests,
           \A q \in Requests : q # r => req'[q] = req[q],
           ReqAt(r, "poll")' => req'[r].polls < MaxPolls,
           req'[r].pc \in {"read", "check", "before", "signal"} => req'[r].polls = 0,
           req'[r].pc \in {"check", "before", "signal"} => req'[r].pid \in Pids
    PROVE  CountInv'
  <1>1. Dumping' = Dumping
        BY DEF Dumping
  <1>2. published' + Cardinality(Dumping') <= dumps' /\ now' <= dumps'
        BY <1>1 DEF TypeInv, CountInv
  <1>3. \A q \in Requests : ReqAt(q, "poll")' => req'[q].polls < MaxPolls
        BY DEF TypeInv, CountInv, ReqAt
  <1>4. \A q \in Requests : req'[q] # NoEntry /\ req'[q].pc \in {"read", "check", "before", "signal"}
            => req'[q].polls = 0
        BY DEF TypeInv, CountInv
  <1>5. \A q \in Requests : req'[q] # NoEntry /\ req'[q].pc \in {"check", "before", "signal"}
            => req'[q].pid \in Pids
        BY DEF TypeInv, CountInv
  <1> QED
      BY <1>2, <1>3, <1>4, <1>5 DEF CountInv

(* The next candidate path is one of the paths.                             *)
LEMMA MissesType ==
    ASSUME TypeInv, NEW r \in Requests, req[r] # NoEntry, Misses(r),
           UNCHANGED <<proc, now, published, dumps>>
    PROVE  req' \in [Requests -> StatusTask \cup {NoEntry}] /\ CountInv'
  <1> DEFINE next == [req[r] EXCEPT !.pc = "read", !.path = @ + 1, !.pid = NoEntry,
                                    !.before = NoEntry, !.polls = 0, !.noticed = FALSE]
             end == [req[r] EXCEPT !.pc = "done"]
  <1>1. req[r] \in StatusTask
        BY DEF TypeInv, TypeOK
  <1>2. req[r].path < req[r].last => req[r].path + 1 \in Paths
        BY <1>1, StatusAssumption DEF StatusTask, Paths
  <1>3. req[r].path < req[r].last => next \in StatusTask /\ next.polls = 0 /\ next.pc = "read"
    <2>1. next = [req[r] EXCEPT !.pc = "read", !.path = req[r].path + 1, !.pid = NoEntry,
                                !.before = NoEntry, !.polls = 0, !.noticed = FALSE]
          BY <1>1 DEF StatusTask
    <2>2. 0 \in 0 .. MaxPolls
          BY StatusAssumption
    <2> QED
        BY <1>1, <1>2, <2>1, <2>2 DEF StatusTask
  <1>4. end \in StatusTask /\ end.pc = "done"
        BY <1>1 DEF StatusTask
  <1>5. req' = [req EXCEPT ![r] = IF req[r].path < req[r].last THEN next ELSE end]
        BY DEF Misses
  <1> HIDE DEF next, end
  <1>6. /\ req'[r] = IF req[r].path < req[r].last THEN next ELSE end
        /\ \A q \in Requests : q # r => req'[q] = req[q]
        BY <1>5 DEF TypeInv, TypeOK
  <1>7. req' \in [Requests -> StatusTask \cup {NoEntry}]
        BY <1>3, <1>4, <1>5 DEF TypeInv, TypeOK
  <1>8. /\ ReqAt(r, "poll")' => req'[r].polls < MaxPolls
        /\ req'[r].pc \in {"read", "check", "before", "signal"} => req'[r].polls = 0
        /\ req'[r].pc \notin {"check", "before", "signal"}
        BY <1>3, <1>4, <1>6 DEF ReqAt
  <1> QED
      BY <1>6, <1>7, <1>8, CountOfRequest

(* A process that goes to pc keeps its type; unless it begins a dump, no    *)
(* daemon does.                                                             *)
LEMMA GotoType ==
    ASSUME TypeInv, NEW p \in Pids, proc[p] # NoEntry,
           NEW pc \in {"written", "truncated", "loop", "create", "fill", "rename"}, Goto(p, pc)
    PROVE  /\ proc' \in [Pids -> Processes \cup {NoEntry}]
           /\ pc \notin DumpPcs \/ proc[p].pc \in DumpPcs => Dumping' \subseteq Dumping
  <1>1. proc[p] \in Processes
        BY DEF TypeInv, TypeOK
  <1>2. proc' \in [Pids -> Processes \cup {NoEntry}]
        BY <1>1 DEF Goto, TypeInv, TypeOK, Processes
  <1>3. proc'[p].pc = pc /\ \A q \in Pids : q # p => proc'[q] = proc[q]
        BY <1>1 DEF Goto, TypeInv, TypeOK, Processes
  <1> QED
      BY <1>2, <1>3 DEF Dumping

(* A process that is gone leaves its type, and no dump begins.              *)
LEMMA GoneType ==
    ASSUME TypeInv, NEW p \in Pids, Gone(p)
    PROVE  /\ proc' \in [Pids -> Processes \cup {NoEntry}]
           /\ unheard' \in [Pids -> SUBSET Requests]
           /\ Dumping' \subseteq Dumping
  BY DEF Gone, TypeInv, TypeOK, Dumping

(* A temporary file of a process that runs is named by a path and its pid.  *)
LEMMA TmpNameType ==
    ASSUME TypeOK, NEW p \in Pids, proc[p] # NoEntry
    PROVE  TmpName(p) \in Paths \X (Pids \cup {NoEntry}) /\ proc[p].path \in Paths
  BY DEF TypeOK, Processes, TmpName

(* Every step keeps the types and the counts.                               *)
LEMMA NextType == TypeInv /\ [Next]_vars => TypeInv'
  <1> SUFFICES ASSUME TypeInv, [Next]_vars PROVE TypeInv'
      OBVIOUS
  <1>a. /\ TypeOK /\ CountInv
        /\ published \in Nat /\ dumps \in Nat /\ now \in Nat
        BY StatusAssumption DEF TypeInv, TypeOK, Clock
  <1>1. ASSUME NEW p \in Pids, NEW kind \in Kinds, NEW path \in Paths, Start(p, kind, path)
        PROVE  TypeInv'
    <2>1. Dumping' \subseteq Dumping
          BY <1>1, <1>a DEF Start, Dumping, DumpPcs, TypeOK, IsDaemon
    <2>2. proc' \in [Pids -> Processes \cup {NoEntry}]
          BY <1>1, <1>a DEF Start, TypeOK, Processes, IsDaemon
    <2>3. TypeOK'
          BY <1>1, <1>a, <2>2, StatusAssumption DEF Start, TypeOK
    <2>4. CountInv'
          BY <1>1, <2>1, CountStays DEF Start
    <2> QED
        BY <2>3, <2>4 DEF TypeInv
  <1>2. ASSUME NEW p \in Pids, TruncatePid(p) PROVE TypeInv'
    <2>1. proc' \in [Pids -> Processes \cup {NoEntry}] /\ Dumping' \subseteq Dumping
          BY <1>2, GotoType DEF TruncatePid, At, DumpPcs
    <2>2. TypeOK'
          BY <1>2, <1>a, <2>1 DEF TruncatePid, TypeOK
    <2>3. CountInv'
          BY <1>2, <2>1, CountStays DEF TruncatePid
    <2> QED
        BY <2>2, <2>3 DEF TypeInv
  <1>3. ASSUME NEW p \in Pids, WritePid(p) PROVE TypeInv'
    <2>1. proc' \in [Pids -> Processes \cup {NoEntry}] /\ Dumping' \subseteq Dumping
          BY <1>3, GotoType DEF WritePid, At, DumpPcs
    <2>2. TypeOK'
          BY <1>3, <1>a, <2>1 DEF WritePid, TypeOK
    <2>3. CountInv'
          BY <1>3, <2>1, CountStays DEF WritePid
    <2> QED
        BY <2>2, <2>3 DEF TypeInv
  <1>4. ASSUME NEW p \in Pids, Listen(p) PROVE TypeInv'
    <2>1. proc' \in [Pids -> Processes \cup {NoEntry}] /\ Dumping' \subseteq Dumping
          BY <1>4, GotoType DEF Listen, At, DumpPcs
    <2>2. TypeOK'
          BY <1>4, <1>a, <2>1 DEF Listen, TypeOK
    <2>3. CountInv'
          BY <1>4, <2>1, CountStays DEF Listen
    <2> QED
        BY <2>2, <2>3 DEF TypeInv
  <1>5. ASSUME NEW p \in Pids, Stop(p) PROVE TypeInv'
    <2>1. TypeOK'
          BY <1>5, <1>a, GoneType DEF Stop, TypeOK
    <2>2. CountInv'
          BY <1>5, GoneType, CountStays DEF Stop
    <2> QED
        BY <2>1, <2>2 DEF TypeInv
  <1>6. ASSUME NEW p \in Pids, Exit(p) PROVE TypeInv'
    <2>1. TypeOK'
          BY <1>6, <1>a, GoneType DEF Exit, TypeOK
    <2>2. CountInv'
          BY <1>6, GoneType, CountStays DEF Exit
    <2> QED
        BY <2>1, <2>2 DEF TypeInv
  <1>7. ASSUME NEW p \in Pids, Capture(p) PROVE TypeInv'
    <2>1. proc[p] \in Processes /\ p \notin Dumping
          BY <1>7, <1>a DEF Capture, At, TypeOK, Dumping, DumpPcs
    <2>2. proc' \in [Pids -> Processes \cup {NoEntry}]
          BY <1>7, <1>a, <2>1 DEF Capture, TypeOK, Processes
    <2>3. Dumping' \subseteq Dumping \cup {p}
          BY <1>7, <1>a DEF Capture, TypeOK, Dumping
    <2>4. Cardinality(Dumping') <= Cardinality(Dumping) + 1
      <3>1. /\ IsFiniteSet(Dumping \cup {p})
            /\ Cardinality(Dumping \cup {p}) = Cardinality(Dumping) + 1
            BY <2>1, DumpingFinite, FS_AddElement
      <3> QED
          BY <2>3, <3>1, FS_Subset
    <2>5. TypeOK'
          BY <1>7, <1>a, <2>2, StatusAssumption DEF Capture, TypeOK
    <2>6. published' + Cardinality(Dumping') <= dumps' /\ now' <= dumps'
          BY <1>7, <1>a, <2>4, DumpingFinite DEF Capture, CountInv
    <2>7. CountInv'
          BY <1>7, <1>a, <2>6 DEF Capture, CountInv, ReqAt
    <2> QED
        BY <2>5, <2>7 DEF TypeInv
  <1>8. ASSUME NEW p \in Pids, CreateTmp(p) PROVE TypeInv'
    <2>1. proc' \in [Pids -> Processes \cup {NoEntry}] /\ Dumping' \subseteq Dumping
          BY <1>8, GotoType DEF CreateTmp, At, DumpPcs
    <2>2. [by |-> p, whole |-> FALSE, mtime |-> now, seq |-> 0] \in Files
          BY <1>a, StatusAssumption DEF Files, TypeOK
    <2>3. TypeOK'
          BY <1>8, <1>a, <2>1, <2>2, TmpNameType DEF CreateTmp, At, TypeOK
    <2>4. CountInv'
          BY <1>8, <2>1, CountStays DEF CreateTmp
    <2> QED
        BY <2>3, <2>4 DEF TypeInv
  <1>9. ASSUME NEW p \in Pids, FillTmp(p) PROVE TypeInv'
    <2>1. proc' \in [Pids -> Processes \cup {NoEntry}] /\ Dumping' \subseteq Dumping
          BY <1>9, GotoType DEF FillTmp, At, DumpPcs
    <2> DEFINE f == tmp[TmpName(p)]
               g == [f EXCEPT !.whole = TRUE, !.mtime = now]
    <2>2. f # NoEntry => g \in Files
          BY <1>9, <1>a, TmpNameType DEF FillTmp, At, TypeOK, Files
    <2>3. tmp' = tmp \/ (f # NoEntry /\ tmp' = [tmp EXCEPT ![TmpName(p)] = g])
          BY <1>9 DEF FillTmp
    <2>4. tmp' \in [Paths \X (Pids \cup {NoEntry}) -> Files \cup {NoEntry}]
      <3> HIDE DEF f, g
      <3> QED
          BY <1>a, <2>2, <2>3 DEF TypeOK
    <2>5. TypeOK'
          BY <1>9, <1>a, <2>1, <2>4 DEF FillTmp, TypeOK
    <2>6. CountInv'
          BY <1>9, <2>1, CountStays DEF FillTmp
    <2> QED
        BY <2>5, <2>6 DEF TypeInv
  <1>10. ASSUME NEW p \in Pids, RenameTmp(p) PROVE TypeInv'
    <2>1. proc[p] # NoEntry /\ proc[p] \in Processes /\ p \in Dumping
          BY <1>10, <1>a DEF RenameTmp, At, Dumping, DumpPcs, TypeOK
    <2>2. proc' \in [Pids -> Processes \cup {NoEntry}]
          BY <1>10, <2>1, GotoType DEF RenameTmp
    <2>3. Dumping' \subseteq Dumping \ {p}
          BY <1>10, <1>a, <2>1 DEF RenameTmp, Goto, TypeOK, Processes, Dumping, DumpPcs
    <2>4. Cardinality(Dumping') <= Cardinality(Dumping) - 1
      <3>1. /\ IsFiniteSet(Dumping \ {p})
            /\ Cardinality(Dumping \ {p}) = Cardinality(Dumping) - 1
            BY <2>1, DumpingFinite, FS_RemoveElement
      <3> QED
          BY <2>3, <3>1, FS_Subset
    <2>5. published' + Cardinality(Dumping') <= dumps' /\ now' <= dumps'
          BY <1>10, <1>a, <2>4, DumpingFinite DEF RenameTmp, CountInv
    <2>6. published' \in 0 .. MaxDumps /\ published + 1 \in 0 .. MaxDumps
          BY <1>10, <1>a, <2>5, DumpingFinite, StatusAssumption DEF RenameTmp, TypeOK
    <2>7. [tmp[TmpName(p)] EXCEPT !.seq = published + 1] \in Files
          BY <1>10, <1>a, <2>1, <2>6, TmpNameType DEF RenameTmp, TypeOK, Files
    <2>8. file' \in [Paths -> Files \cup {NoEntry}]
          BY <1>10, <1>a, <2>7 DEF RenameTmp, TypeOK
    <2>9. TypeOK'
          BY <1>10, <1>a, <2>2, <2>6, <2>8 DEF RenameTmp, TypeOK
    <2>10. CountInv'
          BY <1>10, <1>a, <2>5 DEF RenameTmp, CountInv, ReqAt
    <2> QED
        BY <2>9, <2>10 DEF TypeInv
  <1>11. ASSUME NEW p \in Pids, DumpFails(p) PROVE TypeInv'
    <2>1. proc' \in [Pids -> Processes \cup {NoEntry}] /\ Dumping' \subseteq Dumping
          BY <1>11, GotoType DEF DumpFails, DumpPcs
    <2>2. TypeOK'
          BY <1>11, <1>a, <2>1 DEF DumpFails, TypeOK
    <2>3. CountInv'
          BY <1>11, <2>1, CountStays DEF DumpFails
    <2> QED
        BY <2>2, <2>3 DEF TypeInv
  <1>12. ASSUME NEW r \in Requests, Begin(r) PROVE TypeInv'
    <2>1. PICK first \in Paths, last \in Paths : req' = [req EXCEPT ![r] =
                [pc |-> "read", path |-> first, last |-> last, pid |-> NoEntry,
                 before |-> NoEntry, polls |-> 0, noticed |-> FALSE, since |-> 0,
                 result |-> NoEntry]]
          BY <1>12 DEF Begin
    <2>2. req' \in [Requests -> StatusTask \cup {NoEntry}]
          BY <1>a, <2>1, StatusAssumption DEF TypeOK, StatusTask
    <2>3. /\ req'[r].pc = "read" /\ req'[r].polls = 0
          /\ \A q \in Requests : q # r => req'[q] = req[q]
          BY <1>a, <2>1 DEF TypeOK
    <2>4. TypeOK'
          BY <1>12, <1>a, <2>2 DEF Begin, TypeOK
    <2>5. CountInv'
          BY <1>12, <2>3, CountOfRequest DEF Begin, ReqAt
    <2> QED
        BY <2>4, <2>5 DEF TypeInv
  <1>13. ASSUME NEW r \in Requests, ReadPid(r) PROVE TypeInv'
    <2>1. CASE Misses(r)
      <3>1. req' \in [Requests -> StatusTask \cup {NoEntry}] /\ CountInv'
            BY <1>13, <2>1, MissesType DEF ReadPid, ReqAt
      <3> QED
          BY <1>13, <1>a, <3>1 DEF ReadPid, TypeOK, TypeInv
    <2>2. CASE /\ pidfile[req[r].path] # NoEntry
               /\ req' = [req EXCEPT ![r].pc = "check", ![r].pid = pidfile[req[r].path]]
      <3>1. req[r] \in StatusTask /\ req[r].path \in Paths /\ req[r].polls = 0
            BY <1>13, <1>a DEF ReadPid, ReqAt, TypeOK, StatusTask, CountInv
      <3>2. req' \in [Requests -> StatusTask \cup {NoEntry}]
        <4>1. pidfile[req[r].path] \in Pids
              BY <1>a, <2>2, <3>1 DEF TypeOK
        <4>2. [req[r] EXCEPT !.pc = "check", !.pid = pidfile[req[r].path]] \in StatusTask
              BY <3>1, <4>1 DEF StatusTask
        <4> QED
            BY <1>a, <2>2, <4>2 DEF TypeOK
      <3>3. /\ req'[r].pc = "check" /\ req'[r].polls = 0 /\ req'[r].pid \in Pids
            /\ \A q \in Requests : q # r => req'[q] = req[q]
            BY <1>a, <2>2, <3>1 DEF TypeOK, StatusTask
      <3>4. CountInv'
            BY <1>13, <3>3, CountOfRequest DEF ReadPid, ReqAt
      <3> QED
          BY <1>13, <1>a, <3>2, <3>4 DEF ReadPid, TypeOK, TypeInv
    <2> QED
        BY <1>13, <2>1, <2>2 DEF ReadPid
  <1>14. ASSUME NEW r \in Requests, CheckPid(r) PROVE TypeInv'
    <2>1. CASE Misses(r)
      <3>1. req' \in [Requests -> StatusTask \cup {NoEntry}] /\ CountInv'
            BY <1>14, <2>1, MissesType DEF CheckPid, ReqAt
      <3> QED
          BY <1>14, <1>a, <3>1 DEF CheckPid, TypeOK, TypeInv
    <2>2. CASE req' = [req EXCEPT ![r].pc = "before"]
      <3>1. req[r] \in StatusTask /\ req[r].polls = 0 /\ req[r].pid \in Pids
            BY <1>14, <1>a DEF CheckPid, ReqAt, TypeOK, CountInv
      <3>2. req' \in [Requests -> StatusTask \cup {NoEntry}]
            BY <1>a, <2>2, <3>1 DEF TypeOK, StatusTask
      <3>3. /\ req'[r].pc = "before" /\ req'[r].polls = 0 /\ req'[r].pid \in Pids
            /\ \A q \in Requests : q # r => req'[q] = req[q]
            BY <1>a, <2>2, <3>1 DEF TypeOK, StatusTask
      <3>4. CountInv'
            BY <1>14, <3>3, CountOfRequest DEF CheckPid, ReqAt
      <3> QED
          BY <1>14, <1>a, <3>2, <3>4 DEF CheckPid, TypeOK, TypeInv
    <2> QED
        BY <1>14, <2>1, <2>2 DEF CheckPid
  <1>15. ASSUME NEW r \in Requests, ReadBefore(r) PROVE TypeInv'
    <2>1. /\ req[r] \in StatusTask /\ req[r].path \in Paths
          /\ req[r].polls = 0 /\ req[r].pid \in Pids
          BY <1>15, <1>a DEF ReadBefore, ReqAt, TypeOK, StatusTask, CountInv
    <2>2. Mtime(req[r].path) \in Clock \cup {NoEntry}
          BY <1>a, <2>1 DEF Mtime, TypeOK, Files
    <2>a. published \in 0 .. MaxDumps /\ req \in [Requests -> StatusTask \cup {NoEntry}]
          BY <1>a DEF TypeOK
    <2>3. req' \in [Requests -> StatusTask \cup {NoEntry}]
      <3> DEFINE s == [req[r] EXCEPT !.pc = "signal", !.before = Mtime(req[r].path), !.since = published]
      <3>1. s \in StatusTask
            BY <2>a, <2>1, <2>2 DEF StatusTask
      <3>2. req' = [req EXCEPT ![r] = s]
            BY <1>15 DEF ReadBefore
      <3> HIDE DEF s
      <3> QED
          BY <2>a, <3>1, <3>2
    <2>4. /\ req'[r].pc = "signal" /\ req'[r].polls = 0 /\ req'[r].pid \in Pids
          /\ \A q \in Requests : q # r => req'[q] = req[q]
          BY <1>15, <1>a, <2>1 DEF ReadBefore, TypeOK, StatusTask
    <2>5. CountInv'
          BY <1>15, <2>4, CountOfRequest DEF ReadBefore, ReqAt
    <2> QED
        BY <1>15, <1>a, <2>3, <2>5 DEF ReadBefore, TypeOK, TypeInv
  <1>16. ASSUME NEW r \in Requests, Signal(r) PROVE TypeInv'
    <2>1. req[r] \in StatusTask /\ req[r].polls = 0 /\ req[r].pid \in Pids
          BY <1>16, <1>a DEF Signal, ReqAt, TypeOK, CountInv
    <2>2. req' \in [Requests -> StatusTask \cup {NoEntry}]
          BY <1>16, <1>a, <2>1 DEF Signal, TypeOK, StatusTask
    <2>3. /\ req'[r].pc = "poll" /\ req'[r].polls = 0
          /\ \A q \in Requests : q # r => req'[q] = req[q]
          BY <1>16, <1>a, <2>1 DEF Signal, TypeOK, StatusTask
    <2>4. /\ proc' \in [Pids -> Processes \cup {NoEntry}]
          /\ unheard' \in [Pids -> SUBSET Requests]
          /\ Dumping' \subseteq Dumping
      <3> DEFINE p == req[r].pid
      <3>1. p \in Pids
            BY <2>1
      <3>2. CASE UNCHANGED <<proc, unheard>>
            BY <1>a, <3>2 DEF TypeOK, Dumping
      <3>3. CASE proc[p] # NoEntry /\ Gone(p)
            BY <3>1, <3>3, GoneType
      <3>4. CASE /\ proc[p] # NoEntry
                 /\ proc' = [proc EXCEPT ![p].pending = TRUE]
                 /\ unheard' = [unheard EXCEPT ![p] = @ \cup {r}]
        <4>1. proc[p] \in Processes
              BY <1>a, <3>1, <3>4 DEF TypeOK
        <4>2. proc' \in [Pids -> Processes \cup {NoEntry}] /\ Dumping' \subseteq Dumping
              BY <1>a, <3>1, <3>4, <4>1 DEF TypeOK, Processes, Dumping
        <4> QED
            BY <1>a, <3>1, <3>4, <4>2 DEF TypeOK
      <3> QED
          BY <1>16, <3>2, <3>3, <3>4 DEF Signal
    <2>5. published' + Cardinality(Dumping') <= dumps' /\ now' <= dumps'
          BY <1>16, <1>a, <2>4, DumpingShrinks, DumpingFinite DEF Signal, CountInv
    <2>6. CountInv'
          BY <1>a, <2>3, <2>5, StatusAssumption DEF CountInv, ReqAt
    <2> QED
        BY <1>16, <1>a, <2>2, <2>4, <2>6 DEF Signal, TypeOK, TypeInv
  <1>17. ASSUME NEW r \in Requests, Poll(r) PROVE TypeInv'
    <2>1. req[r] \in StatusTask /\ req[r].polls \in Nat /\ req[r].polls < MaxPolls
          BY <1>17, <1>a DEF Poll, ReqAt, TypeOK, CountInv, StatusTask
    <2>2. req' \in [Requests -> StatusTask \cup {NoEntry}]
          BY <1>17, <1>a, <2>1, StatusAssumption DEF Poll, TypeOK, StatusTask
    <2>3. \A q \in Requests : q # r => req'[q] = req[q]
          BY <1>17, <1>a DEF Poll, TypeOK
    <2>4. /\ req'[r].pc \in {"poll", "load"}
          /\ req'[r].pc = "poll" => req'[r].polls = req[r].polls + 1 /\ ~LastPoll(r)
          BY <1>17, <1>a, <2>1 DEF Poll, TypeOK, StatusTask
    <2>5. req'[r].pc = "poll" => req'[r].polls < MaxPolls
          BY <2>1, <2>4, StatusAssumption DEF LastPoll
    <2>6. CountInv'
          BY <1>17, <2>3, <2>4, <2>5, CountOfRequest DEF Poll, ReqAt
    <2> QED
        BY <1>17, <1>a, <2>2, <2>6 DEF Poll, TypeOK, TypeInv
  <1>18. ASSUME NEW r \in Requests, Load(r) PROVE TypeInv'
    <2>1. CASE Misses(r)
      <3>1. req' \in [Requests -> StatusTask \cup {NoEntry}] /\ CountInv'
            BY <1>18, <2>1, MissesType DEF Load, ReqAt
      <3> QED
          BY <1>18, <1>a, <3>1 DEF Load, TypeOK, TypeInv
    <2>2. CASE /\ file[req[r].path] # NoEntry
               /\ req' = [req EXCEPT ![r].pc = "done", ![r].result = file[req[r].path]]
      <3>1. req[r] \in StatusTask /\ req[r].path \in Paths
            BY <1>18, <1>a DEF Load, ReqAt, TypeOK, StatusTask
      <3>2. file[req[r].path] \in Files
            BY <1>a, <2>2, <3>1 DEF TypeOK
      <3>3. [req[r] EXCEPT !.pc = "done", !.result = file[req[r].path]] \in StatusTask
            BY <3>1, <3>2 DEF StatusTask
      <3>4. req' \in [Requests -> StatusTask \cup {NoEntry}]
            BY <1>a, <2>2, <3>3 DEF TypeOK
      <3>5. req'[r].pc = "done" /\ \A q \in Requests : q # r => req'[q] = req[q]
            BY <1>a, <2>2, <3>1 DEF TypeOK, StatusTask
      <3>6. CountInv'
            BY <1>18, <3>5, CountOfRequest DEF Load, ReqAt
      <3> QED
          BY <1>18, <1>a, <3>4, <3>6 DEF Load, TypeOK, TypeInv
    <2> QED
        BY <1>18, <2>1, <2>2 DEF Load
  <1>19. CASE Tick
    <2>1. now' \in Clock /\ now' <= dumps'
          BY <1>19, <1>a, StatusAssumption DEF Tick, TypeOK, Clock
    <2>2. Dumping' = Dumping
          BY <1>19 DEF Tick, Dumping
    <2>3. CountInv'
          BY <1>19, <1>a, <2>1, <2>2 DEF Tick, CountInv, ReqAt
    <2> QED
        BY <1>19, <1>a, <2>1, <2>3 DEF Tick, TypeOK, TypeInv
  <1>20. CASE UNCHANGED vars
    <2>1. CountInv'
          BY <1>20, CountStays DEF vars, Dumping
    <2> QED
        BY <1>20, <1>a, <2>1 DEF vars, TypeOK, TypeInv
  <1> QED
      BY <1>1, <1>2, <1>3, <1>4, <1>5, <1>6, <1>7, <1>8, <1>9, <1>10, <1>11, <1>12, <1>13,
         <1>14, <1>15, <1>16, <1>17, <1>18, <1>19, <1>20
      DEF Next, DaemonStep, DumpStep, RequestStep

(* Every variable keeps its type: no more state files are put in place than *)
(* dumps were begun, and no command polls more often than it may.           *)
THEOREM TypeCorrect == Spec => []TypeOK
  <1>1. TypeInv => TypeOK
        BY DEF TypeInv
  <1> QED
      BY <1>1, InitType, NextType, PTL DEF Spec

-----------------------------------------------------------------------------
(* State files are complete.                                               *)

\* While a daemon fills its temporary file the file has its name and is its own;
\* when it is about to rename it, the file is complete.
TmpInv ==
    \A p \in Pids :
        /\ At(p, "fill") => tmp[TmpName(p)] # NoEntry /\ tmp[TmpName(p)].by = p
        /\ At(p, "rename") => tmp[TmpName(p)] # NoEntry /\ tmp[TmpName(p)].whole

WholeInv == TmpInv /\ PublishedWhole

(* A step of process p alone, which touches at most its own temporary file, *)
(* need only be in order for p.                                             *)
LEMMA WholeOfProcess ==
    ASSUME TypeOK, TmpInv, NEW p \in Pids,
           \A q \in Pids : q # p => proc'[q] = proc[q],
           \A path \in Paths, q \in Pids : q # p => tmp'[<<path, q>>] = tmp[<<path, q>>],
           At(p, "fill")' => tmp'[TmpName(p)'] # NoEntry /\ tmp'[TmpName(p)'].by = p,
           At(p, "rename")' => tmp'[TmpName(p)'] # NoEntry /\ tmp'[TmpName(p)'].whole
    PROVE  TmpInv'
  <1> SUFFICES ASSUME NEW q \in Pids, q # p
               PROVE  /\ At(q, "fill")' => tmp'[TmpName(q)'] # NoEntry /\ tmp'[TmpName(q)'].by = q
                      /\ At(q, "rename")' => tmp'[TmpName(q)'] # NoEntry /\ tmp'[TmpName(q)'].whole
      BY DEF TmpInv
  <1>1. /\ At(q, "fill")' = At(q, "fill") /\ At(q, "rename")' = At(q, "rename")
        /\ TmpName(q)' = TmpName(q)
        BY DEF At, TmpName
  <1>2. proc[q] # NoEntry => tmp'[TmpName(q)] = tmp[TmpName(q)]
        BY DEF TypeOK, Processes, TmpName
  <1> QED
      BY <1>1, <1>2 DEF TmpInv, At

(* There are no files at the start.                                         *)
LEMMA InitWhole == Init => WholeInv
  BY DEF Init, Empty, WholeInv, TmpInv, PublishedWhole, At, Paths

(* Every step leaves complete state files.                                  *)
LEMMA NextWhole == TypeInv /\ WholeInv /\ [Next]_vars => WholeInv'
  <1> SUFFICES ASSUME TypeOK, CountInv, WholeInv, [Next]_vars PROVE WholeInv'
      BY DEF TypeInv
  <1> USE DEF WholeInv
  \* A process that is in no dump afterwards, and leaves the files alone.
  <1>0. ASSUME NEW p \in Pids, UNCHANGED <<file, tmp>>,
               \A q \in Pids : q # p => proc'[q] = proc[q],
               \/ proc'[p] = NoEntry \/ proc'[p].pc \notin {"fill", "rename"}
               \/ proc'[p].pc = proc[p].pc /\ proc'[p].path = proc[p].path /\ proc[p] # NoEntry
        PROVE  WholeInv'
    <2>1. /\ At(p, "fill")' => tmp'[TmpName(p)'] # NoEntry /\ tmp'[TmpName(p)'].by = p
          /\ At(p, "rename")' => tmp'[TmpName(p)'] # NoEntry /\ tmp'[TmpName(p)'].whole
          BY <1>0 DEF At, TmpName, TmpInv
    <2>2. TmpInv'
          BY <1>0, <2>1, WholeOfProcess
    <2> QED
        BY <1>0, <2>2 DEF PublishedWhole
  <1>1. ASSUME NEW p \in Pids, NEW kind \in Kinds, NEW path \in Paths, Start(p, kind, path)
        PROVE  WholeInv'
        BY <1>1, <1>0 DEF Start, TypeOK, IsDaemon
  <1>2. ASSUME NEW p \in Pids,
               TruncatePid(p) \/ WritePid(p) \/ Listen(p) \/ DumpFails(p) \/ Capture(p)
        PROVE  WholeInv'
    <2>1. proc[p] # NoEntry /\ proc[p] \in Processes
          BY <1>2 DEF TruncatePid, WritePid, Listen, DumpFails, Capture, At, TypeOK
    <2>2. /\ \A q \in Pids : q # p => proc'[q] = proc[q]
          /\ proc'[p].pc \notin {"fill", "rename"}
          BY <1>2, <2>1
          DEF TruncatePid, WritePid, Listen, DumpFails, Capture, Goto, TypeOK, Processes
    <2>3. UNCHANGED <<file, tmp>>
          BY <1>2 DEF TruncatePid, WritePid, Listen, DumpFails, Capture
    <2> QED
        BY <1>0, <2>2, <2>3
  <1>3. ASSUME NEW p \in Pids, Stop(p) \/ Exit(p) PROVE WholeInv'
        BY <1>3, <1>0 DEF Stop, Exit, Gone, TypeOK
  <1>4. ASSUME NEW p \in Pids, CreateTmp(p) PROVE WholeInv'
    <2>1. /\ proc[p] # NoEntry /\ proc[p] \in Processes
          /\ TmpName(p) \in Paths \X (Pids \cup {NoEntry})
          BY <1>4, TmpNameType DEF CreateTmp, At, TypeOK
    <2>2. /\ \A q \in Pids : q # p => proc'[q] = proc[q]
          /\ proc'[p].pc = "fill" /\ TmpName(p)' = TmpName(p)
          BY <1>4, <2>1 DEF CreateTmp, Goto, TypeOK, Processes, TmpName
    <2>3. tmp'[TmpName(p)] = [by |-> p, whole |-> FALSE, mtime |-> now, seq |-> 0]
          BY <1>4, <2>1 DEF CreateTmp, TypeOK
    <2>4. tmp'[TmpName(p)] # NoEntry /\ tmp'[TmpName(p)].by = p
      <3>1. tmp'[TmpName(p)] \in Files
            BY <2>3, StatusAssumption DEF Files, TypeOK
      <3>2. tmp'[TmpName(p)].by = p
            BY <2>3
      <3> QED
          BY <3>1, <3>2, RecordAssumption
    <2>5. \A path \in Paths, q \in Pids : q # p => tmp'[<<path, q>>] = tmp[<<path, q>>]
          BY <1>4 DEF CreateTmp, TypeOK, TmpName
    <2>6. TmpInv'
          BY <2>2, <2>4, <2>5, WholeOfProcess DEF At
    <2> QED
        BY <1>4, <2>6 DEF CreateTmp, PublishedWhole
  <1>5. ASSUME NEW p \in Pids, FillTmp(p) PROVE WholeInv'
    <2>1. /\ proc[p] # NoEntry /\ proc[p] \in Processes
          /\ TmpName(p) \in Paths \X (Pids \cup {NoEntry})
          BY <1>5, TmpNameType DEF FillTmp, At, TypeOK
    <2>2. /\ \A q \in Pids : q # p => proc'[q] = proc[q]
          /\ proc'[p].pc = "rename" /\ TmpName(p)' = TmpName(p)
          BY <1>5, <2>1 DEF FillTmp, Goto, TypeOK, Processes, TmpName
    <2> DEFINE f == tmp[TmpName(p)]
               g == [f EXCEPT !.whole = TRUE, !.mtime = now]
    <2>3. f # NoEntry /\ f.by = p /\ f \in Files
          BY <1>5, <2>1 DEF FillTmp, TmpInv, TypeOK
    <2>4. g \in Files /\ g.whole
          BY <2>3 DEF Files, TypeOK
    <2>5. tmp' = [tmp EXCEPT ![TmpName(p)] = g]
          BY <1>5, <2>3 DEF FillTmp
    <2> HIDE DEF f, g
    <2>6. tmp'[TmpName(p)] = g
          BY <2>1, <2>5 DEF TypeOK
    <2>7. tmp'[TmpName(p)] # NoEntry /\ tmp'[TmpName(p)].whole
          BY <2>4, <2>6, RecordAssumption
    <2>8. \A path \in Paths, q \in Pids : q # p => tmp'[<<path, q>>] = tmp[<<path, q>>]
          BY <2>5 DEF TypeOK, TmpName
    <2>9. TmpInv'
          BY <2>2, <2>7, <2>8, WholeOfProcess DEF At
    <2> QED
        BY <1>5, <2>9 DEF FillTmp, PublishedWhole
  <1>6. ASSUME NEW p \in Pids, RenameTmp(p) PROVE WholeInv'
    <2>1. /\ proc[p] # NoEntry /\ proc[p] \in Processes /\ proc[p].path \in Paths
          /\ TmpName(p) \in Paths \X (Pids \cup {NoEntry})
          BY <1>6, TmpNameType DEF RenameTmp, At, TypeOK
    <2>2. /\ \A q \in Pids : q # p => proc'[q] = proc[q]
          /\ proc'[p].pc = "loop"
          BY <1>6, <2>1 DEF RenameTmp, Goto, TypeOK, Processes
    <2>3. \A path \in Paths, q \in Pids : q # p => tmp'[<<path, q>>] = tmp[<<path, q>>]
          BY <1>6 DEF RenameTmp, TypeOK, TmpName
    <2>4. TmpInv'
          BY <2>2, <2>3, WholeOfProcess DEF At
    <2> DEFINE f == tmp[TmpName(p)]
               g == [f EXCEPT !.seq = published + 1]
    <2>5. f \in Files /\ f.whole
          BY <1>6, <2>1 DEF RenameTmp, TmpInv, TypeOK
    <2>6. g.whole
          BY <2>5 DEF Files
    <2>7. file' = [file EXCEPT ![proc[p].path] = g]
          BY <1>6 DEF RenameTmp
    <2> HIDE DEF f, g
    <2>8. PublishedWhole'
          BY <2>1, <2>6, <2>7 DEF PublishedWhole, TypeOK
    <2> QED
        BY <2>4, <2>8
  <1>7. ASSUME NEW r \in Requests, Signal(r) PROVE WholeInv'
    <2>1. CASE proc' = proc
          BY <1>7, <2>1 DEF Signal, TmpInv, At, TmpName, PublishedWhole
    <2>2. CASE proc' # proc
      <3> DEFINE p == req[r].pid
      <3>1. p \in Pids /\ proc[p] # NoEntry /\ proc[p] \in Processes
            BY <1>7, <2>2 DEF Signal, ReqAt, CountInv, TypeOK
      <3>2. \/ proc'[p] = NoEntry
            \/ proc'[p].pc = proc[p].pc /\ proc'[p].path = proc[p].path
            BY <1>7, <2>2, <3>1 DEF Signal, Gone, TypeOK, Processes
      <3>3. \A q \in Pids : q # p => proc'[q] = proc[q]
            BY <1>7, <2>2 DEF Signal, Gone, TypeOK
      <3>4. UNCHANGED <<file, tmp>>
            BY <1>7 DEF Signal
      <3> QED
          BY <1>0, <3>1, <3>2, <3>3, <3>4
    <2> QED
        BY <2>1, <2>2
  <1>8. CASE UNCHANGED <<proc, file, tmp>>
        BY <1>8 DEF TmpInv, At, TmpName, PublishedWhole
  <1> QED
      BY <1>1, <1>2, <1>3, <1>4, <1>5, <1>6, <1>7, <1>8
      DEF Next, DaemonStep, DumpStep, RequestStep, Begin, ReadPid, CheckPid, ReadBefore,
          Poll, Load, Tick, vars

(* write_snapshot, for every number of daemons that share a path and        *)
(* wherever they crash: a reader finds no partial state file.               *)
THEOREM PublishedWholeHolds == Spec => []PublishedWhole
  <1>1. Init => TypeInv /\ WholeInv
        BY InitType, InitWhole
  <1>2. TypeInv /\ WholeInv /\ [Next]_vars => TypeInv' /\ WholeInv'
        BY NextType, NextWhole
  <1>3. WholeInv => PublishedWhole
        BY DEF WholeInv
  <1> QED
      BY <1>1, <1>2, <1>3, PTL DEF Spec

-----------------------------------------------------------------------------
(* A change that is noticed is a new snapshot.                             *)

\* No state file is newer than the count of them; the file a command waits on is
\* the one it has seen, or newer; what it noticed, or loaded after that, is newer.
FileInv == \A path \in Paths : file[path] # NoEntry => file[path].seq <= published

WaitInv ==
    \A r \in Requests : req[r] # NoEntry =>
        LET f == file[req[r].path] IN
        /\ req[r].since <= published
        /\ req[r].pc \in {"signal", "poll"} =>
              f = NoEntry \/ f.seq > req[r].since \/ f.mtime = req[r].before
        /\ req[r].pc = "load" /\ req[r].noticed => f # NoEntry /\ f.seq > req[r].since
        /\ req[r].pc # "done" => req[r].result = NoEntry
        /\ req[r].pc \notin {"load", "done"} => ~req[r].noticed

FreshInv == FileInv /\ WaitInv /\ NoticedIsFresh

\* What FreshInv says of one request.
FreshOf(r) ==
    /\ req[r] # NoEntry =>
        LET f == file[req[r].path] IN
        /\ req[r].since <= published
        /\ req[r].pc \in {"signal", "poll"} =>
              f = NoEntry \/ f.seq > req[r].since \/ f.mtime = req[r].before
        /\ req[r].pc = "load" /\ req[r].noticed => f # NoEntry /\ f.seq > req[r].since
        /\ req[r].pc # "done" => req[r].result = NoEntry
        /\ req[r].pc \notin {"load", "done"} => ~req[r].noticed
    /\ ReqAt(r, "done") /\ req[r].noticed /\ req[r].result # NoEntry =>
          req[r].result.seq > req[r].since

(* FreshInv is FileInv and FreshOf of every request.                        *)
LEMMA FreshParts ==
    /\ FreshInv <=> FileInv /\ \A r \in Requests : FreshOf(r)
    /\ FreshInv' <=> FileInv' /\ \A r \in Requests : FreshOf(r)'
  BY DEF FreshInv, WaitInv, NoticedIsFresh, FreshOf

(* Nobody waits at the start.                                               *)
LEMMA InitFresh == Init => FreshInv
  BY DEF Init, Empty, FreshInv, FileInv, WaitInv, NoticedIsFresh, ReqAt, Paths

(* A step of one request that leaves the files alone need only be in order  *)
(* for that request.                                                        *)
LEMMA FreshOfRequest ==
    ASSUME FreshInv, NEW r \in Requests, UNCHANGED <<file, published>>,
           \A q \in Requests : q # r => req'[q] = req[q], FreshOf(r)'
    PROVE  FreshInv'
  <1>1. FileInv'
        BY DEF FreshInv, FileInv
  <1>2. ASSUME NEW q \in Requests, q # r PROVE FreshOf(q)'
    <2>1. FreshOf(q)
          BY FreshParts
    <2> QED
        BY <1>2, <2>1 DEF FreshOf, ReqAt
  <1> QED
      BY <1>1, <1>2, FreshParts

(* So is a step of the request to its next candidate, or to its end.        *)
LEMMA MissesFresh ==
    ASSUME TypeOK, FreshInv, NEW r \in Requests, req[r] # NoEntry, req[r].pc # "done", Misses(r),
           UNCHANGED <<file, published>>
    PROVE  FreshInv'
  <1>1. req[r] \in StatusTask /\ FreshOf(r)
        BY FreshParts DEF TypeOK
  <1>2. \A q \in Requests : q # r => req'[q] = req[q]
        BY DEF Misses, TypeOK
  <1>3. /\ req'[r].since = req[r].since /\ req'[r].result = req[r].result
        /\ \/ req'[r].pc = "read" /\ ~req'[r].noticed
           \/ req'[r].pc = "done"
        BY <1>1 DEF Misses, TypeOK, StatusTask
  <1>4. FreshOf(r)'
        BY <1>1, <1>3 DEF FreshOf, ReqAt
  <1> QED
      BY <1>2, <1>4, FreshOfRequest

(* Every step keeps what is known of the snapshots noticed.                 *)
LEMMA NextFresh == TypeInv /\ FreshInv /\ [Next]_vars => FreshInv'
  <1> SUFFICES ASSUME TypeOK, TypeOK', FreshInv, [Next]_vars PROVE FreshInv'
      BY NextType DEF TypeInv
  <1>a. published \in Int
        BY DEF TypeOK
  <1>1. CASE UNCHANGED <<file, published, req>>
        BY <1>1 DEF FreshInv, FileInv, WaitInv, NoticedIsFresh, ReqAt
  <1>2. ASSUME NEW p \in Pids, RenameTmp(p) PROVE FreshInv'
    <2>1. proc[p].path \in Paths /\ tmp[TmpName(p)] \in Files
          BY <1>2, TmpNameType DEF RenameTmp, At, TypeOK
    <2>2. /\ published' = published + 1 /\ req' = req
          /\ file'[proc[p].path] = [tmp[TmpName(p)] EXCEPT !.seq = published + 1]
          /\ \A path \in Paths : path # proc[p].path => file'[path] = file[path]
          BY <1>2, <2>1 DEF RenameTmp, TypeOK
    <2>3. file'[proc[p].path].seq = published + 1
          BY <2>1, <2>2 DEF Files
    <2>4. file'[proc[p].path] # NoEntry
      <3>1. file'[proc[p].path] \in Files
            BY <2>1, <2>2 DEF Files, TypeOK
      <3> QED
          BY <3>1, RecordAssumption
    <2>5. FileInv'
          BY <1>a, <2>2, <2>3 DEF FreshInv, FileInv, TypeOK, Files
    <2>6. ASSUME NEW r \in Requests PROVE FreshOf(r)'
      <3>1. FreshOf(r)
            BY FreshParts
      <3>2. CASE req[r] = NoEntry
            BY <2>2, <3>2 DEF FreshOf, ReqAt
      <3>3. CASE req[r] # NoEntry /\ req[r].path # proc[p].path
        <4>1. req[r] \in StatusTask /\ file'[req[r].path] = file[req[r].path]
              BY <2>2, <3>3 DEF TypeOK, StatusTask
        <4> QED
            BY <1>a, <2>2, <3>1, <3>3, <4>1 DEF FreshOf, ReqAt, StatusTask
      <3>4. CASE req[r] # NoEntry /\ req[r].path = proc[p].path
        <4>1. req[r] \in StatusTask /\ req[r].since \in Int
              BY <3>4 DEF TypeOK, StatusTask
        <4>2. file'[req[r].path].seq > req[r].since /\ file'[req[r].path] # NoEntry
              BY <1>a, <2>3, <2>4, <3>1, <3>4, <4>1 DEF FreshOf
        <4>3. req[r].since <= published'
              BY <1>a, <2>2, <3>1, <3>4, <4>1 DEF FreshOf
        <4> QED
            BY <2>2, <3>1, <3>4, <4>2, <4>3 DEF FreshOf, ReqAt
      <3> QED
          BY <3>2, <3>3, <3>4
    <2> QED
        BY <2>5, <2>6, FreshParts
  <1>3. ASSUME NEW r \in Requests, Begin(r) PROVE FreshInv'
    <2>1. /\ req'[r].pc = "read" /\ req'[r].since = 0
          /\ req'[r].result = NoEntry /\ req'[r].noticed = FALSE
          /\ \A q \in Requests : q # r => req'[q] = req[q]
          BY <1>3 DEF Begin, TypeOK
    <2>2. FreshOf(r)'
          BY <1>3, <2>1 DEF Begin, FreshOf, ReqAt, TypeOK
    <2> QED
        BY <1>3, <2>1, <2>2, FreshOfRequest DEF Begin
  <1>4. ASSUME NEW r \in Requests, ReadPid(r) \/ CheckPid(r) \/ Load(r), Misses(r) PROVE FreshInv'
        BY <1>4, MissesFresh DEF ReadPid, CheckPid, Load, ReqAt
  <1>5. ASSUME NEW r \in Requests, ReadPid(r) \/ CheckPid(r), ~Misses(r) PROVE FreshInv'
    <2>1. req[r] # NoEntry /\ req[r] \in StatusTask /\ req[r].pc \in {"read", "check"} /\ FreshOf(r)
          BY <1>5, FreshParts DEF ReadPid, CheckPid, ReqAt, TypeOK
    <2>2. /\ req'[r].pc \in {"check", "before"} /\ req'[r].since = req[r].since
          /\ req'[r].result = req[r].result /\ req'[r].noticed = req[r].noticed
          /\ \A q \in Requests : q # r => req'[q] = req[q]
          BY <1>5, <2>1 DEF ReadPid, CheckPid, TypeOK, StatusTask
    <2>3. UNCHANGED <<file, published>>
          BY <1>5 DEF ReadPid, CheckPid
    <2>4. FreshOf(r)'
          BY <2>1, <2>2, <2>3 DEF FreshOf, ReqAt
    <2> QED
        BY <2>2, <2>3, <2>4, FreshOfRequest
  <1>6. ASSUME NEW r \in Requests, ReadBefore(r) PROVE FreshInv'
    <2>1. /\ req[r] # NoEntry /\ req[r] \in StatusTask /\ req[r].pc = "before"
          /\ req[r].path \in Paths /\ FreshOf(r)
          BY <1>6, FreshParts DEF ReadBefore, ReqAt, TypeOK, StatusTask
    <2>2. /\ req'[r].pc = "signal" /\ req'[r].since = published /\ req'[r].path = req[r].path
          /\ req'[r].before = Mtime(req[r].path)
          /\ req'[r].result = req[r].result /\ req'[r].noticed = req[r].noticed
          /\ \A q \in Requests : q # r => req'[q] = req[q]
          BY <1>6, <2>1 DEF ReadBefore, TypeOK, StatusTask
    <2>3. UNCHANGED <<file, published>>
          BY <1>6 DEF ReadBefore
    <2>4. FreshOf(r)'
          BY <1>a, <2>1, <2>2, <2>3 DEF FreshOf, ReqAt, Mtime
    <2> QED
        BY <2>2, <2>3, <2>4, FreshOfRequest
  <1>7. ASSUME NEW r \in Requests, Signal(r) PROVE FreshInv'
    <2>1. /\ req[r] # NoEntry /\ req[r] \in StatusTask /\ req[r].pc = "signal" /\ FreshOf(r)
          BY <1>7, FreshParts DEF Signal, ReqAt, TypeOK
    <2>2. /\ req'[r] = [req[r] EXCEPT !.pc = "poll"]
          /\ \A q \in Requests : q # r => req'[q] = req[q]
          BY <1>7 DEF Signal, TypeOK
    <2>3. UNCHANGED <<file, published>>
          BY <1>7 DEF Signal
    <2>4. FreshOf(r)'
          BY <2>1, <2>2, <2>3 DEF FreshOf, ReqAt, StatusTask
    <2> QED
        BY <2>2, <2>3, <2>4, FreshOfRequest
  <1>8. ASSUME NEW r \in Requests, Poll(r) PROVE FreshInv'
    <2>1. /\ req[r] # NoEntry /\ req[r] \in StatusTask /\ req[r].pc = "poll" /\ FreshOf(r)
          BY <1>8, FreshParts DEF Poll, ReqAt, TypeOK
    <2>2. /\ \/ /\ Refreshed(r)
                /\ req'[r] = [req[r] EXCEPT !.pc = "load", !.noticed = TRUE]
             \/ req'[r] = [req[r] EXCEPT !.polls = @ + 1, !.pc = IF LastPoll(r) THEN "load" ELSE "poll"]
          /\ \A q \in Requests : q # r => req'[q] = req[q]
          BY <1>8, <2>1 DEF Poll, TypeOK
    <2>3. UNCHANGED <<file, published>>
          BY <1>8 DEF Poll
    <2>4. Refreshed(r) => file[req[r].path] # NoEntry /\ file[req[r].path].seq > req[r].since
          BY <2>1 DEF Refreshed, Mtime, FreshOf
    <2>5. FreshOf(r)'
          BY <2>1, <2>2, <2>3, <2>4 DEF FreshOf, ReqAt, StatusTask
    <2> QED
        BY <2>2, <2>3, <2>5, FreshOfRequest
  <1>9. ASSUME NEW r \in Requests, Load(r), ~Misses(r) PROVE FreshInv'
    <2>1. /\ req[r] # NoEntry /\ req[r] \in StatusTask /\ req[r].pc = "load" /\ FreshOf(r)
          BY <1>9, FreshParts DEF Load, ReqAt, TypeOK
    <2>2. /\ req'[r] = [req[r] EXCEPT !.pc = "done", !.result = file[req[r].path]]
          /\ \A q \in Requests : q # r => req'[q] = req[q]
          BY <1>9, <2>1 DEF Load, TypeOK
    <2>3. UNCHANGED <<file, published>>
          BY <1>9 DEF Load
    <2>4. FreshOf(r)'
          BY <2>1, <2>2, <2>3 DEF FreshOf, ReqAt, StatusTask
    <2> QED
        BY <2>2, <2>3, <2>4, FreshOfRequest
  <1>10. ASSUME NEW p \in Pids, DaemonStep(p), ~RenameTmp(p) PROVE FreshInv'
         BY <1>1, <1>10 DEF DaemonStep, DumpStep, TruncatePid, WritePid, Listen, DumpFails, Capture,
                            CreateTmp, FillTmp
  <1>11. CASE \E p \in Pids : \/ Stop(p) \/ Exit(p)
                              \/ \E kind \in Kinds, path \in Paths : Start(p, kind, path)
         BY <1>1, <1>11 DEF Stop, Exit, Start
  <1>12. CASE Tick \/ UNCHANGED vars
         BY <1>1, <1>12 DEF Tick, vars
  <1> QED
      BY <1>2, <1>3, <1>4, <1>5, <1>6, <1>7, <1>8, <1>9, <1>10, <1>11, <1>12 DEF Next, RequestStep

(* refresh_and_read, for every number of commands and daemons: a wait that  *)
(* ends at a change ends at a snapshot put in place after it began.         *)
THEOREM NoticedIsFreshHolds == Spec => []NoticedIsFresh
  <1>1. Init => TypeInv /\ FreshInv
        BY InitType, InitFresh
  <1>2. TypeInv /\ FreshInv /\ [Next]_vars => TypeInv' /\ FreshInv'
        BY NextType, NextFresh
  <1>3. FreshInv => NoticedIsFresh
        BY DEF FreshInv
  <1> QED
      BY <1>1, <1>2, <1>3, PTL DEF Spec

=============================================================================
