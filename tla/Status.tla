------------------------------- MODULE Status -------------------------------
(***************************************************************************)
(* The on-demand status dump (common/status.rs, run of the server, run_    *)
(* forever of the client, the status subcommands): a daemon leaves its pid *)
(* in a file beside its state file; `status` reads it, checks the process, *)
(* sends SIGUSR1 and polls the state file, which the daemon's event loop   *)
(* replaces by renaming a temporary file over it.  Daemons start, stop and *)
(* crash, pids are used again, several daemons may share a state path (two *)
(* configurations that leave state_file out) and several `status` commands *)
(* run at once.                                                            *)
(*                                                                         *)
(* External, the operating system: a freed pid may go to any process at    *)
(* any time, and SIGUSR1 ends a process that has no handler for it.        *)
(***************************************************************************)
EXTENDS Maps, FiniteSets

CONSTANTS
    Pids,          \* process ids
    NumPaths,      \* state_path_candidates: how many, in the order they are probed
    Requests,      \* `status` commands
    MaxPolls,      \* refresh_and_read polls this often, 50 in the code
    MaxStarts,     \* bound: processes started
    MaxDumps,      \* bound: dumps begun, and with it the clock of mtimes
    Kinds,         \* which kinds of process run on the host
    HasProc        \* target_os = "linux": /proc tells what a process is

ASSUME StatusAssumption ==
    /\ NumPaths \in Nat \ {0} /\ MaxPolls \in Nat \ {0}
    /\ MaxStarts \in Nat /\ MaxDumps \in Nat /\ IsFiniteSet(Pids)
    /\ Kinds \subseteq {"server", "client", "tool", "foreign"} /\ HasProc \in BOOLEAN

Paths == 1 .. NumPaths
Clock == 0 .. MaxDumps

Processes == [kind : Kinds, path : Paths, pending : BOOLEAN,
              pc : {"start", "truncated", "written", "loop", "create", "fill", "rename", "idle"}]
\* A state or temporary file: who created it, is it complete, when was it last
\* written (its mtime) and, for the history, the how-manieth it was.
Files == [by : Pids, whole : BOOLEAN, mtime : Clock, seq : 0 .. MaxDumps]
StatusTask == [pc : {"read", "check", "before", "signal", "poll", "load", "done"},
               path : Paths, last : Paths, pid : Pids \cup {NoEntry},
               before : Clock \cup {NoEntry}, polls : 0 .. MaxPolls, noticed : BOOLEAN,
               since : 0 .. MaxDumps, result : Files \cup {NoEntry}]

ASSUME RecordAssumption ==
    NoEntry \notin Processes /\ NoEntry \notin Files /\ NoEntry \notin StatusTask /\ NoEntry \notin Pids

VARIABLES
    proc,       \* Pids -> the process running under it
    pidfile,    \* Paths -> the pid in the pid file; NoEntry if it is missing or empty
    file,       \* Paths -> the state file
    tmp,        \* temporary files, by path and name
    req,        \* Requests -> the locals of refresh_and_read_component
    now,        \* the clock mtimes are taken from, as coarse as the file system's
    published,  \* history: how many state files were renamed into place
    unheard,    \* history: Pids -> signals not yet followed by a snapshot
    starts,     \* number of processes started
    dumps       \* number of dumps begun

vars == <<proc, pidfile, file, tmp, req, now, published, unheard, starts, dumps>>

TypeOK ==
    /\ proc \in [Pids -> Processes \cup {NoEntry}]
    /\ pidfile \in [Paths -> Pids \cup {NoEntry}]
    /\ file \in [Paths -> Files \cup {NoEntry}]
    /\ tmp \in [Paths \X (Pids \cup {NoEntry}) -> Files \cup {NoEntry}]
    /\ req \in [Requests -> StatusTask \cup {NoEntry}]
    /\ now \in Clock
    /\ published \in 0 .. MaxDumps
    /\ unheard \in [Pids -> SUBSET Requests]
    /\ starts \in 0 .. MaxStarts /\ dumps \in 0 .. MaxDumps

Init ==
    /\ proc = Empty(Pids)
    /\ pidfile = Empty(Paths)
    /\ file = Empty(Paths)
    /\ tmp = Empty(Paths \X (Pids \cup {NoEntry}))
    /\ req = Empty(Requests)
    /\ now = 0 /\ published = 0
    /\ unheard = [p \in Pids |-> {}]
    /\ starts = 0 /\ dumps = 0

IsDaemon(kind) == kind \in {"server", "client"}
At(p, pc) == proc[p] # NoEntry /\ proc[p].pc = pc
Goto(p, pc) == proc' = [proc EXCEPT ![p].pc = pc]

-----------------------------------------------------------------------------
(* Processes.                                                               *)

\* A daemon, another signedpulse command ("tool") or an unrelated process starts.
Start(p, kind, path) ==
    /\ proc[p] = NoEntry
    /\ starts < MaxStarts
    /\ starts' = starts + 1
    /\ proc' = [proc EXCEPT ![p] = [kind |-> kind, path |-> path, pending |-> FALSE,
                                    pc |-> IF IsDaemon(kind) THEN "start" ELSE "idle"]]
    /\ UNCHANGED <<pidfile, file, tmp, req, now, published, unheard, dumps>>

\* write_pidfile: the file is created or truncated, then written.  If either
\* fails the daemon only warns.
TruncatePid(p) ==
    /\ At(p, "start")
    /\ \/ pidfile' = [pidfile EXCEPT ![proc[p].path] = NoEntry] /\ Goto(p, "truncated")
       \/ UNCHANGED pidfile /\ Goto(p, "written")
    /\ UNCHANGED <<file, tmp, req, now, published, unheard, starts, dumps>>

WritePid(p) ==
    /\ At(p, "truncated")
    /\ pidfile' \in {pidfile, [pidfile EXCEPT ![proc[p].path] = p]}
    /\ Goto(p, "written")
    /\ UNCHANGED <<file, tmp, req, now, published, unheard, starts, dumps>>

\* DumpListener::new: only from here on is SIGUSR1 handled.
Listen(p) ==
    /\ At(p, "written")
    /\ Goto(p, "loop")
    /\ UNCHANGED <<pidfile, file, tmp, req, now, published, unheard, starts, dumps>>

Gone(p) ==
    /\ proc' = [proc EXCEPT ![p] = NoEntry]
    /\ unheard' = [unheard EXCEPT ![p] = {}]

\* The shutdown branch of the event loop.  The server removes the pid file,
\* whoever's pid is in it; the client leaves it there.
Stop(p) ==
    /\ At(p, "loop")
    /\ Gone(p)
    /\ pidfile' = IF proc[p].kind = "server" THEN [pidfile EXCEPT ![proc[p].path] = NoEntry]
                                             ELSE pidfile
    /\ UNCHANGED <<file, tmp, req, now, published, starts, dumps>>

\* A crash or a kill, at any point; any end of a process that is no daemon.
Exit(p) ==
    /\ proc[p] # NoEntry
    /\ Gone(p)
    /\ UNCHANGED <<pidfile, file, tmp, req, now, published, starts, dumps>>

-----------------------------------------------------------------------------
(* write_status, run by the event loop when SIGUSR1 was received.           *)

\* A plausible slip: one name for everybody's temporary file.
MutTmpName(p) == <<proc[p].path, NoEntry>>

\* path.with_extension("json.tmp.<pid>")
TmpName(p) == <<proc[p].path, p>>

\* dump.recv() returns, which clears the signal (several signals are one), and
\* the live status is cloned.
Capture(p) ==
    /\ At(p, "loop") /\ proc[p].pending
    /\ dumps < MaxDumps
    /\ dumps' = dumps + 1
    /\ proc' = [proc EXCEPT ![p].pc = "create", ![p].pending = FALSE]
    /\ unheard' = [unheard EXCEPT ![p] = {}]
    /\ UNCHANGED <<pidfile, file, tmp, req, now, published, starts>>

\* remove_file, then create_secure with O_EXCL: a new, empty file.
CreateTmp(p) ==
    /\ At(p, "create")
    /\ tmp' = [tmp EXCEPT ![TmpName(p)] = [by |-> p, whole |-> FALSE, mtime |-> now, seq |-> 0]]
    /\ Goto(p, "fill")
    /\ UNCHANGED <<pidfile, file, req, now, published, unheard, starts, dumps>>

\* write_all, to the file created: it may no longer have that name.
FillTmp(p) ==
    /\ At(p, "fill")
    /\ tmp' = LET f == tmp[TmpName(p)] IN
              IF f # NoEntry /\ f.by = p
              THEN [tmp EXCEPT ![TmpName(p)] = [f EXCEPT !.whole = TRUE, !.mtime = now]] ELSE tmp
    /\ Goto(p, "rename")
    /\ UNCHANGED <<pidfile, file, req, now, published, unheard, starts, dumps>>

\* A plausible slip: the signal is taken as served once the file is out.
MutRenameTmp(p) ==
    /\ At(p, "rename") /\ tmp[TmpName(p)] # NoEntry
    /\ published' = published + 1
    /\ file' = [file EXCEPT ![proc[p].path] = [tmp[TmpName(p)] EXCEPT !.seq = published + 1]]
    /\ tmp' = [tmp EXCEPT ![TmpName(p)] = NoEntry]
    /\ proc' = [proc EXCEPT ![p].pc = "loop", ![p].pending = FALSE]
    /\ UNCHANGED <<pidfile, req, now, unheard, starts, dumps>>

RenameTmp(p) ==
    /\ At(p, "rename") /\ tmp[TmpName(p)] # NoEntry
    /\ published' = published + 1
    /\ file' = [file EXCEPT ![proc[p].path] = [tmp[TmpName(p)] EXCEPT !.seq = published + 1]]
    /\ tmp' = [tmp EXCEPT ![TmpName(p)] = NoEntry]
    /\ Goto(p, "loop")
    /\ UNCHANGED <<pidfile, req, now, unheard, starts, dumps>>

\* Any of the steps fails: a warning, and back to the loop.  The temporary file
\* stays until this pid dumps again.
DumpFails(p) ==
    /\ proc[p] # NoEntry /\ proc[p].pc \in {"create", "fill", "rename"}
    /\ Goto(p, "loop")
    /\ UNCHANGED <<pidfile, file, tmp, req, now, published, unheard, starts, dumps>>

-----------------------------------------------------------------------------
(* refresh_and_read_component.                                              *)

ReqAt(r, pc) == req[r] # NoEntry /\ req[r].pc = pc

\* state_file is configured and is the only candidate, or all defaults are probed.
Begin(r) ==
    /\ req[r] = NoEntry
    /\ \E first \in Paths, last \in Paths :
          /\ first = last \/ (first = 1 /\ last = NumPaths)
          /\ req' = [req EXCEPT ![r] =
                [pc |-> "read", path |-> first, last |-> last, pid |-> NoEntry,
                 before |-> NoEntry, polls |-> 0, noticed |-> FALSE, since |-> 0,
                 result |-> NoEntry]]
    /\ UNCHANGED <<proc, pidfile, file, tmp, now, published, unheard, starts, dumps>>

\* refresh_and_read returned None: the next candidate, or None altogether.
Misses(r) ==
    req' = [req EXCEPT ![r] =
        IF req[r].path < req[r].last
        THEN [req[r] EXCEPT !.pc = "read", !.path = @ + 1, !.pid = NoEntry, !.before = NoEntry,
                            !.polls = 0, !.noticed = FALSE]
        ELSE [req[r] EXCEPT !.pc = "done"]]

ReadPid(r) ==
    /\ ReqAt(r, "read")
    /\ LET pid == pidfile[req[r].path] IN
       \/ pid = NoEntry /\ Misses(r)
       \/ pid # NoEntry /\ req' = [req EXCEPT ![r].pc = "check", ![r].pid = pid]
    /\ UNCHANGED <<proc, pidfile, file, tmp, now, published, unheard, starts, dumps>>

\* process_alive and process_is_signedpulse: on Linux /proc/<pid>/exe has to be a
\* signedpulse binary, elsewhere every live process will do.
IsSignedpulse(pid) == proc[pid] # NoEntry /\ (HasProc => proc[pid].kind # "foreign")

CheckPid(r) ==
    /\ ReqAt(r, "check")
    /\ \/ ~IsSignedpulse(req[r].pid) /\ Misses(r)
       \/ IsSignedpulse(req[r].pid) /\ req' = [req EXCEPT ![r].pc = "before"]
    /\ UNCHANGED <<proc, pidfile, file, tmp, now, published, unheard, starts, dumps>>

Mtime(path) == IF file[path] = NoEntry THEN NoEntry ELSE file[path].mtime

ReadBefore(r) ==
    /\ ReqAt(r, "before")
    /\ req' = [req EXCEPT ![r].pc = "signal", ![r].before = Mtime(req[r].path),
                          ![r].since = published]
    /\ UNCHANGED <<proc, pidfile, file, tmp, now, published, unheard, starts, dumps>>

\* send_dump_signal, whose result is ignored.
Signal(r) ==
    /\ ReqAt(r, "signal")
    /\ req' = [req EXCEPT ![r].pc = "poll"]
    /\ LET p == req[r].pid IN
       \/ /\ proc[p] = NoEntry
          /\ UNCHANGED <<proc, unheard>>
       \/ /\ proc[p] # NoEntry /\ proc[p].pc \in {"start", "truncated", "written", "idle"}
          /\ Gone(p)
       \/ /\ proc[p] # NoEntry /\ proc[p].pc \in {"loop", "create", "fill", "rename"}
          /\ proc' = [proc EXCEPT ![p].pending = TRUE]
          /\ unheard' = [unheard EXCEPT ![p] = @ \cup {r}]
    /\ UNCHANGED <<pidfile, file, tmp, now, published, starts, dumps>>

\* A plausible slip: wait for the file to be there, not for it to change.
MutRefreshed(r) == Mtime(req[r].path) # NoEntry

\* now != before && now.is_some()
Refreshed(r) == Mtime(req[r].path) # req[r].before /\ Mtime(req[r].path) # NoEntry

\* A plausible slip: one round too many.
MutLastPoll(r) == req[r].polls = MaxPolls

\* for _ in 0..50
LastPoll(r) == req[r].polls + 1 = MaxPolls

\* One round of the loop; it ends at a change, or after MaxPolls rounds.
Poll(r) ==
    /\ ReqAt(r, "poll")
    /\ \/ /\ Refreshed(r)
          /\ req' = [req EXCEPT ![r].pc = "load", ![r].noticed = TRUE]
       \/ /\ ~Refreshed(r)
          /\ req' = [req EXCEPT ![r].polls = @ + 1,
                                ![r].pc = IF LastPoll(r) THEN "load" ELSE "poll"]
    /\ UNCHANGED <<proc, pidfile, file, tmp, now, published, unheard, starts, dumps>>

\* read_snapshot, changed or not; a file that does not parse is None.
Load(r) ==
    /\ ReqAt(r, "load")
    /\ LET f == file[req[r].path] IN
       \/ f = NoEntry /\ Misses(r)
       \/ f # NoEntry /\ req' = [req EXCEPT ![r].pc = "done", ![r].result = f]
    /\ UNCHANGED <<proc, pidfile, file, tmp, now, published, unheard, starts, dumps>>

-----------------------------------------------------------------------------
Tick ==
    /\ now < dumps
    /\ now' = now + 1
    /\ UNCHANGED <<proc, pidfile, file, tmp, req, published, unheard, starts, dumps>>

DumpStep(p) == CreateTmp(p) \/ FillTmp(p) \/ RenameTmp(p) \/ DumpFails(p)

DaemonStep(p) ==
    \/ TruncatePid(p) \/ WritePid(p) \/ Listen(p)
    \/ Capture(p) \/ DumpStep(p)

RequestStep(r) ==
    ReadPid(r) \/ CheckPid(r) \/ ReadBefore(r) \/ Signal(r) \/ Poll(r) \/ Load(r)

Next ==
    \/ \E p \in Pids, kind \in Kinds, path \in Paths : Start(p, kind, path)
    \/ \E p \in Pids : DaemonStep(p) \/ Stop(p) \/ Exit(p)
    \/ \E r \in Requests : Begin(r) \/ RequestStep(r)
    \/ Tick

Spec == Init /\ [][Next]_vars

\* The event loop of a daemon goes on: recv() is polled, and write_status comes
\* to its end.
Fairness == \A p \in Pids : WF_vars(Capture(p)) /\ WF_vars(DumpStep(p))
FairSpec == Spec /\ Fairness

-----------------------------------------------------------------------------
(* Properties.                                                              *)

(* write_snapshot: a state file is always complete, even when daemons that  *)
(* share its path dump at the same time or crash in the middle of it.       *)
PublishedWhole == \A path \in Paths : file[path] # NoEntry => file[path].whole

(* refresh_and_read: when the wait ends before its limit, the snapshot read *)
(* was put in place after the wait began; it is never a leftover of an      *)
(* earlier dump or of a daemon that is gone.                                *)
NoticedIsFresh ==
    \A r \in Requests :
        ReqAt(r, "done") /\ req[r].noticed /\ req[r].result # NoEntry =>
            req[r].result.seq > req[r].since

(* The dump branch of the event loops: a signal that a daemon handles is    *)
(* followed by a dump whose snapshot is taken after it, also when it comes  *)
(* during the dump for another `status`, whatever becomes of that dump; or  *)
(* the daemon goes away, or MaxDumps is reached.                            *)
SignalAnswered ==
    \A p \in Pids : unheard[p] # {} ~> unheard[p] = {} \/ dumps = MaxDumps

=============================================================================
