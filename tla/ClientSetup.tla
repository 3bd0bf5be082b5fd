---------------------------- MODULE ClientSetup -----------------------------
(***************************************************************************)
(* The client's configuration file: signedpulse-client init and add-server *)
(* write it (cli.rs), the administrator edits it, ClientConfig::load checks*)
(* it (config.rs), and Client::from_config resolves it into the targets    *)
(* the client pulses (client.rs), where a server's unset fields inherit    *)
(* from [client].  Two commands may run at once; a write is atomic.        *)
(*                                                                         *)
(* An unset field, and a missing key, file or table, is NoEntry.  Labels   *)
(* and addresses are well-formed and the client's own id and private key   *)
(* are the ones init generated.                                            *)
(***************************************************************************)
EXTENDS Maps, FiniteSets

CONSTANTS
    Labels,       \* labels of [client.servers.<label>] and the primary's server_id
    Primary,      \* the server_id init writes into [client]
    LenLimit,     \* 60000, the bound on param_max_len
    Intervals,    \* the intervals commands may be given
    Numbers,      \* the numbers edits may write
    Commands,     \* running invocations of init and add-server
    MaxChanges    \* bound on the commands started and edits made

ASSUME SetupAssumption ==
    /\ Primary \in Labels /\ LenLimit \in Nat \ {0}
    /\ Intervals \subseteq Nat /\ Numbers \subseteq Nat /\ MaxChanges \in Nat
    /\ NoEntry \notin {"good", "bad", "empty", "set"} /\ NoEntry \notin BOOLEAN

Keys == {"good", "bad", NoEntry}      \* server_encryption_key; "bad" does not decode
Argvs == {"set", "empty", NoEntry}    \* param_command
OptBool == BOOLEAN \cup {NoEntry}
OptNat == Nat \cup {NoEntry}

Sections == [id : Labels, key : Keys, wire : BOOLEAN, interval : Nat, t1 : Nat, t2 : Nat,
             cmd : Argvs, cmdTimeout : Nat, maxLen : Nat]
Overrides == [key : Keys, wire : OptBool, interval : OptNat, t1 : OptNat, t2 : OptNat,
              cmd : Argvs, cmdTimeout : OptNat, maxLen : OptNat]
Targets == [name : Labels, key : Keys, wire : BOOLEAN, interval : Nat, t1 : Nat, t2 : Nat,
            cmd : Argvs, cmdTimeout : Nat, maxLen : Nat]

\* A file; dup: one table occurs twice, which is not TOML.
Files == [base : Sections, servers : [Labels -> Overrides \cup {NoEntry}], dup : BOOLEAN]
AddArgs == [name : Labels, key : Keys, wire : BOOLEAN, interval : OptNat]
InitArgs == [key : Keys, wire : BOOLEAN, interval : Nat]
AddTask == [pc : {"read", "reload"}, args : AddArgs]
WriteTask == [pc : {"write"}, args : AddArgs, text : Files]
InitTask == [pc : {"init"}, args : InitArgs]

ASSUME RecordAssumption ==
    /\ NoEntry \notin Files /\ NoEntry \notin Overrides
    /\ NoEntry \notin AddTask /\ NoEntry \notin WriteTask /\ NoEntry \notin InitTask

VARIABLES
    file,       \* the configuration file
    task,       \* Commands -> the locals of init or add_server
    targets,    \* Client.targets of the client that runs; none if it does not
    changes     \* number of commands started and edits made so far

vars == <<file, task, targets, changes>>

TypeOK ==
    /\ file \in Files \cup {NoEntry}
    /\ task \in [Commands -> AddTask \cup WriteTask \cup InitTask \cup {NoEntry}]
    /\ targets \subseteq Targets
    /\ changes \in Nat

Init ==
    /\ file = NoEntry
    /\ task = Empty(Commands)
    /\ targets = {}
    /\ changes = 0

-----------------------------------------------------------------------------
(* ClientConfig::load.                                                      *)

Or(value, default) == IF value = NoEntry THEN default ELSE value
Listed(f) == {l \in Labels : f.servers[l] # NoEntry}

SectionOk(b) ==
    /\ b.interval >= 1
    /\ b.wire \/ b.cmd # NoEntry => b.key # NoEntry
    /\ b.cmd # "empty"
    /\ b.t1 >= 1 /\ b.t2 >= 1 /\ b.t1 <= b.t2
    /\ b.cmd # NoEntry => b.cmdTimeout >= 1
    /\ b.maxLen \in 1 .. LenLimit

\* A slip: the checks look at what the table says and not at what it inherits.
MutOverrideOk(l, ov, b) ==
    /\ l # b.id
    /\ ov.wire = TRUE \/ ov.cmd # NoEntry => ov.key # NoEntry
    /\ ov.cmd # "empty" /\ ov.interval # 0 /\ ov.cmdTimeout # 0
    /\ ov.maxLen # NoEntry => ov.maxLen \in 1 .. LenLimit

\* The effective settings, with what the table inherits.
OverrideOk(l, ov, b) ==
    /\ l # b.id
    /\ Or(ov.wire, b.wire) \/ Or(ov.cmd, b.cmd) # NoEntry => ov.key # NoEntry
    /\ ov.cmd # "empty"
    /\ ov.interval # 0
    /\ Or(ov.t1, b.t1) >= 1 /\ Or(ov.t2, b.t2) >= 1 /\ Or(ov.t1, b.t1) <= Or(ov.t2, b.t2)
    /\ ov.cmdTimeout # 0
    /\ ov.maxLen # NoEntry => ov.maxLen \in 1 .. LenLimit

Loads(f) ==
    /\ f # NoEntry
    /\ ~f.dup
    /\ SectionOk(f.base)
    /\ \A l \in Listed(f) : OverrideOk(l, f.servers[l], f.base)

-----------------------------------------------------------------------------
(* Client::from_config.                                                     *)

PrimaryTarget(b) ==
    [name |-> b.id, key |-> b.key, wire |-> b.wire, interval |-> b.interval, t1 |-> b.t1,
     t2 |-> b.t2, cmd |-> b.cmd, cmdTimeout |-> b.cmdTimeout, maxLen |-> b.maxLen]

\* A slip: an unset length becomes zero.
MutOverrideTarget(l, ov, b) ==
    [name |-> l, key |-> ov.key, wire |-> Or(ov.wire, b.wire),
     interval |-> Or(ov.interval, b.interval), t1 |-> Or(ov.t1, b.t1), t2 |-> Or(ov.t2, b.t2),
     cmd |-> Or(ov.cmd, b.cmd), cmdTimeout |-> Or(ov.cmdTimeout, b.cmdTimeout),
     maxLen |-> Or(ov.maxLen, 0)]

\* resolve_override: everything but the key is inherited.
OverrideTarget(l, ov, b) ==
    [name |-> l, key |-> ov.key, wire |-> Or(ov.wire, b.wire),
     interval |-> Or(ov.interval, b.interval), t1 |-> Or(ov.t1, b.t1), t2 |-> Or(ov.t2, b.t2),
     cmd |-> Or(ov.cmd, b.cmd), cmdTimeout |-> Or(ov.cmdTimeout, b.cmdTimeout),
     maxLen |-> Or(ov.maxLen, b.maxLen)]

TargetsOf(f) ==
    {PrimaryTarget(f.base)} \cup {OverrideTarget(l, f.servers[l], f.base) : l \in Listed(f)}

\* resolve_target: the key decodes, and is there if anything is sealed.
Resolves(t) ==
    /\ t.key # "bad"
    /\ t.wire => t.key # NoEntry
    /\ t.cmd # NoEntry => t.key # NoEntry

\* The client is (re)started: it comes up with the targets or not at all.
Restart ==
    /\ targets' = IF Loads(file) /\ \A t \in TargetsOf(file) : Resolves(t)
                  THEN TargetsOf(file) ELSE {}
    /\ UNCHANGED <<file, task, changes>>

-----------------------------------------------------------------------------
(* signedpulse-client init and add-server, and the administrator.           *)

\* Bound: MaxChanges.
Counts == changes < MaxChanges /\ changes' = changes + 1

\* init: refuses to overwrite a file, unless with --force.
InitCheck(c, args, force) ==
    /\ task[c] = NoEntry
    /\ file = NoEntry \/ force
    /\ args.wire => args.key # NoEntry
    /\ task' = [task EXCEPT ![c] = [pc |-> "init", args |-> args]]
    /\ Counts
    /\ UNCHANGED <<file, targets>>

\* The file init writes; the numbers stand for the defaults.
InitFile(args) ==
    [base |-> [id |-> Primary, key |-> args.key, wire |-> args.wire, interval |-> args.interval,
               t1 |-> 1, t2 |-> 1, cmd |-> NoEntry, cmdTimeout |-> 1, maxLen |-> LenLimit],
     servers |-> Empty(Labels), dup |-> FALSE]

InitWrite(c) ==
    /\ task[c] # NoEntry /\ task[c].pc = "init"
    /\ file' = InitFile(task[c].args)
    /\ task' = [task EXCEPT ![c] = NoEntry]
    /\ UNCHANGED <<targets, changes>>

\* add_server, its checks against the file as it is now.
AddCheck(c, args) ==
    /\ task[c] = NoEntry
    /\ Loads(file)
    /\ args.name # file.base.id /\ args.name \notin Listed(file)
    /\ args.wire => args.key # NoEntry
    /\ args.key # "bad"
    /\ task' = [task EXCEPT ![c] = [pc |-> "read", args |-> args]]
    /\ Counts
    /\ UNCHANGED <<file, targets>>

\* The file is read again; the new table is appended to that text.
AddRead(c) ==
    /\ task[c] # NoEntry /\ task[c].pc = "read"
    /\ task' = [task EXCEPT ![c] = [pc |-> "write", args |-> task[c].args, text |-> file]]
    /\ UNCHANGED <<file, targets, changes>>

\* A slip: --no-encryption is checked and not written.
MutNewTable(args) ==
    [key |-> args.key, wire |-> NoEntry, interval |-> args.interval,
     t1 |-> NoEntry, t2 |-> NoEntry, cmd |-> NoEntry, cmdTimeout |-> NoEntry, maxLen |-> NoEntry]

\* The table add_server writes: wire_encryption only if it is off.
NewTable(args) ==
    [key |-> args.key, wire |-> IF args.wire THEN NoEntry ELSE FALSE, interval |-> args.interval,
     t1 |-> NoEntry, t2 |-> NoEntry, cmd |-> NoEntry, cmdTimeout |-> NoEntry, maxLen |-> NoEntry]

\* The text plus the new table; a second table of that label breaks the file.
Appended(f, args) ==
    IF args.name \in Listed(f) THEN [f EXCEPT !.dup = TRUE]
    ELSE [f EXCEPT !.servers[args.name] = NewTable(args)]

AddWrite(c) ==
    /\ task[c] # NoEntry /\ task[c].pc = "write"
    /\ file' = Appended(task[c].text, task[c].args)
    /\ task' = [task EXCEPT ![c] = [pc |-> "reload", args |-> task[c].args]]
    /\ UNCHANGED <<targets, changes>>

\* The file is loaded once more, for the report only.
AddReload(c) ==
    /\ task[c] # NoEntry /\ task[c].pc = "reload"
    /\ task' = [task EXCEPT ![c] = NoEntry]
    /\ UNCHANGED <<file, targets, changes>>

\* The administrator's edits.
Edit(f) ==
    /\ Counts
    /\ file' = f
    /\ UNCHANGED <<task, targets>>

SectionFields == [id |-> Labels, key |-> Keys, wire |-> BOOLEAN, interval |-> Numbers,
                  t1 |-> Numbers, t2 |-> Numbers, cmd |-> Argvs, cmdTimeout |-> Numbers,
                  maxLen |-> Numbers]
OptNumbers == Numbers \cup {NoEntry}
OverrideFields == [key |-> Keys, wire |-> OptBool, interval |-> OptNumbers, t1 |-> OptNumbers,
                   t2 |-> OptNumbers, cmd |-> Argvs, cmdTimeout |-> OptNumbers,
                   maxLen |-> OptNumbers]

EditSection ==
    /\ file # NoEntry
    /\ \E x \in DOMAIN SectionFields : \E v \in SectionFields[x] :
          Edit([file EXCEPT !.base[x] = v])

EditServer ==
    /\ file # NoEntry
    /\ \E l \in Listed(file), x \in DOMAIN OverrideFields : \E v \in OverrideFields[x] :
          Edit([file EXCEPT !.servers[l][x] = v])

Next ==
    \/ \E c \in Commands, key \in Keys, wire \in BOOLEAN, interval \in Intervals, force \in BOOLEAN :
          InitCheck(c, [key |-> key, wire |-> wire, interval |-> interval], force)
    \/ \E c \in Commands, name \in Labels, key \in Keys, wire \in BOOLEAN,
          interval \in Intervals \cup {NoEntry} :
          AddCheck(c, [name |-> name, key |-> key, wire |-> wire, interval |-> interval])
    \/ \E c \in Commands : InitWrite(c) \/ AddRead(c) \/ AddWrite(c) \/ AddReload(c)
    \/ EditSection
    \/ EditServer
    \/ Restart

Spec == Init /\ [][Next]_vars

-----------------------------------------------------------------------------
(* Properties.                                                              *)

(* load and from_config: for every target a running client has a key for    *)
(* whatever it seals, an interval and a backoff that are not zero and in    *)
(* order, an argv that is not empty if there is a command, a usable         *)
(* parameter length, and a status leg of its own, also where the settings   *)
(* are inherited.  The command's timeout is not among them                  *)
(* (CommandHasTimeout), nor is the address or the server's own id.          *)
TargetsUsable ==
    \A t \in targets :
        /\ t.wire \/ t.cmd # NoEntry => t.key = "good"
        /\ t.interval >= 1 /\ t.t1 >= 1 /\ t.t1 <= t.t2
        /\ t.cmd # "empty" /\ t.maxLen \in 1 .. LenLimit
        /\ \A u \in targets : u.name = t.name => u = t

(* config.rs: "Mirrors the primary's check: a 0 timeout fails every param   *)
(* pulse."  A running client has no target with a command and no time to    *)
(* run it.                                                                  *)
CommandHasTimeout == \A t \in targets : t.cmd # NoEntry => t.cmdTimeout >= 1

(* load against from_config: a file that loads and whose keys decode is one *)
(* the client comes up with; resolve_target's own checks never fire.        *)
LoadedResolves ==
    Loads(file) /\ (\A t \in TargetsOf(file) : t.key # "bad")
        => \A t \in TargetsOf(file) : Resolves(t)

(* add_server: the text it writes, if it loads, has every target the text   *)
(* it read had, and the new one with the key and interval asked for,        *)
(* whatever the [client] section says; it is sealed only if that was asked  *)
(* for.  (That it is then sealed is AddedIsSealed.)                         *)
AddedAsAsked ==
    [][\A c \in Commands :
          /\ task[c] # NoEntry /\ task[c].pc = "write" /\ task'[c] # task[c]
          /\ Loads(task[c].text) /\ Loads(file')
          => LET args == task[c].args
                 old == TargetsOf(task[c].text)
                 new == TargetsOf(file')
             IN  /\ old \subseteq new
                 /\ \E t \in new :
                       /\ new \ old = {t} /\ t.name = args.name /\ t.key = args.key
                       /\ t.wire => args.wire
                       /\ t.interval = Or(args.interval, file'.base.interval)]_vars

(* cli.rs, add-server: sealed is "the default encrypted mode", and only     *)
(* with --no-encryption "This server speaks cleartext binary instead of     *)
(* sealed datagrams".  What add_server is about to write has a sealed       *)
(* target for a server added in the default mode.                           *)
AddedIsSealed ==
    \A c \in Commands :
        task[c] # NoEntry /\ task[c].pc = "write" /\ task[c].args.wire =>
            LET text == Appended(task[c].text, task[c].args)
            IN  Loads(text) =>
                    \E t \in TargetsOf(text) : t.name = task[c].args.name /\ t.wire

=============================================================================
