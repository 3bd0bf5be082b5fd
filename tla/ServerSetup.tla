---------------------------- MODULE ServerSetup -----------------------------
(***************************************************************************)
(* The server's configuration file: signedpulse-server init and add-client *)
(* write it (cli.rs), the administrator edits it, ServerConfig::load checks*)
(* it (config.rs), and run / Server::from_config build the server from it. *)
(* Commands may overlap; write_config_file replaces the file atomically.   *)
(*                                                                         *)
(* A client id is its 256-bit value (of) in some spelling (as): ClientId:: *)
(* from_hex trims and ignores case, the duplicate checks only ignore case, *)
(* and a line break inside a TOML string makes the file unreadable.  An    *)
(* unset option, and a missing file, is NoEntry.                           *)
(***************************************************************************)
EXTENDS Maps, Sequences

CONSTANTS
    Ids,           \* 256-bit client ids
    PublicKeys,    \* public keys that decode
    Spellings,     \* of "plain", "upper", "padded", "newline"
    LeaseLimit,    \* 31536000, the bound on lease_max_seconds
    PacketLimit,   \* 65535, the bound on max_packet_size
    ParamLimit,    \* 60000, the bound on max_param_len
    Numbers,       \* the numbers edits may write
    Commands,      \* running invocations of init and add-client
    MaxChanges     \* bound on the commands started and edits made

ASSUME SetupAssumption ==
    /\ LeaseLimit \in Nat \ {0} /\ PacketLimit \in Nat \ {0} /\ ParamLimit \in Nat \ {0}
    /\ Numbers \subseteq Nat /\ MaxChanges \in Nat
    /\ Spellings \subseteq {"plain", "upper", "padded", "newline"}
    /\ NoEntry \notin Ids /\ NoEntry \notin PublicKeys /\ "bad" \notin PublicKeys
    /\ NoEntry \notin {"good", "bad", "empty", "set"}

\* The numbers ServerConfig::validate looks at.
Settings == {"max_concurrent", "lease_grace_multiplier", "lease_max_seconds",
             "max_packet_size", "command_timeout_seconds", "nonce_ttl_seconds",
             "hello_max_skew_seconds", "hello_rate_window_seconds", "max_param_len"}

\* Client ids and keys as written; NoEntry: not 64 hex digits, "bad": no key.
WrittenIds == [of : Ids \cup {NoEntry}, as : Spellings]
Entries == [id : WrittenIds, key : PublicKeys \cup {"bad"}]
Secrets == {"good", "bad", NoEntry}
Argvs == {"set", "empty"}

\* toml: the text parses; inline: it says clients = [...] instead of [[clients]].
Files == [toml : BOOLEAN, inline : BOOLEAN, nums : [Settings -> Nat], argv : Argvs,
          revoke : Argvs \cup {NoEntry}, wire : BOOLEAN, secret : Secrets, clients : Seq(Entries)]
AddArgs == [id : WrittenIds, key : PublicKeys \cup {"bad"}]
InitArgs == [clean : BOOLEAN, wire : BOOLEAN]
InitTask == [pc : {"init"}, args : InitArgs]
CheckedTask == [pc : {"read"}, args : AddArgs]
AddTask == [pc : {"write", "reload"}, args : AddArgs, text : Files]
Servers == [nums : [Settings -> Nat], argv : Argvs, revoke : Argvs \cup {NoEntry},
            wire : BOOLEAN, secret : Secrets, clients : [Ids -> PublicKeys \cup {"bad", NoEntry}]]

ASSUME RecordAssumption ==
    /\ NoEntry \notin Files /\ NoEntry \notin Servers
    /\ NoEntry \notin AddArgs /\ NoEntry \notin InitTask /\ NoEntry \notin CheckedTask /\ NoEntry \notin AddTask

VARIABLES
    file,        \* the configuration file
    task,        \* Commands -> the locals of init or add_client
    server,      \* the Server that runs, built by from_config
    told,        \* history: the client add-client last reported, if the file was not written since
    changes      \* number of commands started and edits made so far

vars == <<file, task, server, told, changes>>

TypeOK ==
    /\ file \in Files \cup {NoEntry}
    /\ task \in [Commands -> InitTask \cup CheckedTask \cup AddTask \cup {NoEntry}]
    /\ server \in Servers \cup {NoEntry}
    /\ told \in AddArgs \cup {NoEntry}
    /\ changes \in Nat

Init ==
    /\ file = NoEntry
    /\ task = Empty(Commands)
    /\ server = NoEntry
    /\ told = NoEntry
    /\ changes = 0

-----------------------------------------------------------------------------
(* ServerConfig::load.                                                      *)

InRange(s, n) ==
    /\ n >= 1
    /\ s = "lease_max_seconds" => n <= LeaseLimit
    /\ s = "max_packet_size" => n <= PacketLimit
    /\ s = "max_param_len" => n <= ParamLimit

\* to_lowercase and eq_ignore_ascii_case: case is forgotten, white space is not.
Lowered(w) == [w EXCEPT !.as = IF @ = "upper" THEN "plain" ELSE @]
SameSpelling(v, w) == Lowered(v) = Lowered(w)

\* validate: every id is hex, and none is there twice.
ClientsOk(cs) ==
    /\ \A i \in DOMAIN cs : cs[i].id.of # NoEntry
    /\ \A i, j \in DOMAIN cs : i # j => ~SameSpelling(cs[i].id, cs[j].id)

Loads(f) ==
    /\ f # NoEntry
    /\ f.toml
    /\ f.argv # "empty" /\ f.revoke # "empty"
    /\ \A s \in Settings : InRange(s, f.nums[s])
    /\ ClientsOk(f.clients)
    /\ f.wire => f.secret # NoEntry

-----------------------------------------------------------------------------
(* run and Server::from_config.                                             *)

\* The keys and the secret are decoded at startup.
Startable(f) ==
    /\ Loads(f)
    /\ \A i \in DOMAIN f.clients : f.clients[i].key # "bad"
    /\ f.secret # "bad"

\* A plausible slip: clients.entry(id).or_insert(..), the first entry of an id wins.
MutServed(f) ==
    [d \in Ids |->
        LET at == {i \in DOMAIN f.clients : f.clients[i].id.of = d} IN
        IF at = {} THEN NoEntry
        ELSE f.clients[CHOOSE i \in at : \A j \in at : i <= j].key]

\* clients.insert(id, ..) in the order of the file: the last entry of an id wins.
Served(f) ==
    [d \in Ids |->
        LET at == {i \in DOMAIN f.clients : f.clients[i].id.of = d} IN
        IF at = {} THEN NoEntry
        ELSE f.clients[CHOOSE i \in at : \A j \in at : j <= i].key]

ServerOf(f) ==
    [nums |-> f.nums, argv |-> f.argv, revoke |-> f.revoke, wire |-> f.wire,
     secret |-> f.secret, clients |-> Served(f)]

\* The server is (re)started; binding the socket may fail.
Restart ==
    /\ server' \in IF Startable(file) THEN {ServerOf(file), NoEntry} ELSE {NoEntry}
    /\ UNCHANGED <<file, task, told, changes>>

-----------------------------------------------------------------------------
(* signedpulse-server init and add-client, and the administrator.           *)

\* Bound: MaxChanges.
Counts == changes < MaxChanges /\ changes' = changes + 1

\* init: refuses to overwrite a file, unless with --force; checks --server-id only.
InitCheck(c, args, force) ==
    /\ task[c] = NoEntry
    /\ file = NoEntry \/ force
    /\ task' = [task EXCEPT ![c] = [pc |-> "init", args |-> args]]
    /\ Counts
    /\ UNCHANGED <<file, server, told>>

\* The file init writes; --bind and --hook go into it as they are, so a quote in
\* one (not clean) breaks it.  The numbers stand for the ones it writes.
InitFile(args) ==
    [toml |-> args.clean, inline |-> FALSE, nums |-> [s \in Settings |-> 1], argv |-> "set",
     revoke |-> NoEntry, wire |-> args.wire, secret |-> "good", clients |-> <<>>]

InitWrite(c) ==
    /\ task[c] # NoEntry /\ task[c].pc = "init"
    /\ file' = InitFile(task[c].args)
    /\ task' = [task EXCEPT ![c] = NoEntry]
    /\ told' = NoEntry
    /\ UNCHANGED <<server, changes>>

\* A plausible slip: the public key is left for the server to complain about.
MutAddCheck(c, args) ==
    /\ task[c] = NoEntry
    /\ Loads(file)
    /\ args.id.of # NoEntry
    /\ \A i \in DOMAIN file.clients : ~SameSpelling(file.clients[i].id, args.id)
    /\ task' = [task EXCEPT ![c] = [pc |-> "read", args |-> args]]
    /\ Counts
    /\ UNCHANGED <<file, server, told>>

\* add_client, its checks against the file as it is now.
AddCheck(c, args) ==
    /\ task[c] = NoEntry
    /\ Loads(file)
    /\ args.id.of # NoEntry
    /\ args.key # "bad"
    /\ \A i \in DOMAIN file.clients : ~SameSpelling(file.clients[i].id, args.id)
    /\ task' = [task EXCEPT ![c] = [pc |-> "read", args |-> args]]
    /\ Counts
    /\ UNCHANGED <<file, server, told>>

\* The file is read again; the new entry is appended to that text.
AddRead(c) ==
    /\ task[c] # NoEntry /\ task[c].pc = "read"
    /\ file # NoEntry
    /\ task' = [task EXCEPT ![c] = [pc |-> "write", args |-> task[c].args, text |-> file]]
    /\ UNCHANGED <<file, server, told, changes>>

\* [[clients]] after clients = [...] is not TOML, nor is a line break in a string.
Appended(f, args) ==
    [f EXCEPT !.toml = @ /\ ~f.inline /\ args.id.as # "newline",
              !.clients = Append(@, [id |-> args.id, key |-> args.key])]

AddWrite(c) ==
    /\ task[c] # NoEntry /\ task[c].pc = "write"
    /\ file' = Appended(task[c].text, task[c].args)
    /\ task' = [task EXCEPT ![c].pc = "reload"]
    /\ told' = NoEntry
    /\ UNCHANGED <<server, changes>>

\* The file is loaded once more: success is reported if it loads.
AddReload(c) ==
    /\ task[c] # NoEntry /\ task[c].pc = "reload"
    /\ task' = [task EXCEPT ![c] = NoEntry]
    /\ told' = IF Loads(file) /\ file = Appended(task[c].text, task[c].args)
               THEN task[c].args ELSE told
    /\ UNCHANGED <<file, server, changes>>

\* The administrator's edits, of one item each.
Edit(f) ==
    /\ Counts
    /\ file' = f
    /\ told' = NoEntry
    /\ UNCHANGED <<task, server>>

EditFile ==
    /\ file # NoEntry
    /\ \/ \E s \in Settings, n \in Numbers : Edit([file EXCEPT !.nums[s] = n])
       \/ \E a \in Argvs : Edit([file EXCEPT !.argv = a])
       \/ \E a \in Argvs \cup {NoEntry} : Edit([file EXCEPT !.revoke = a])
       \/ \E w \in BOOLEAN : Edit([file EXCEPT !.wire = w])
       \/ \E k \in Secrets : Edit([file EXCEPT !.secret = k])
       \/ \E e \in Entries : Edit([file EXCEPT !.clients = Append(@, e)])
       \/ Edit([file EXCEPT !.inline = TRUE])

Next ==
    \/ \E c \in Commands, args \in InitArgs, force \in BOOLEAN : InitCheck(c, args, force)
    \/ \E c \in Commands, args \in AddArgs : AddCheck(c, args)
    \/ \E c \in Commands : InitWrite(c) \/ AddRead(c) \/ AddWrite(c) \/ AddReload(c)
    \/ EditFile
    \/ Restart

Spec == Init /\ [][Next]_vars

-----------------------------------------------------------------------------
(* Properties.                                                              *)

(* add_client, however it overlaps with other commands and edits: if a      *)
(* server could be started from the text it read, and the id is not in that *)
(* text in any spelling, then what it writes loads (for an id without white *)
(* space and a text without clients = [...]), and if it loads a server can  *)
(* be started from it that differs only in serving the new client under the *)
(* given key.                                                               *)
AddedIsServed ==
    [][\A c \in Commands :
          LET text == task[c].text
              args == task[c].args
          IN  /\ task[c] # NoEntry /\ task[c].pc = "write" /\ task'[c] # task[c]
              /\ Startable(text) /\ Served(text)[args.id.of] = NoEntry
              => /\ ~text.inline /\ args.id.as \in {"plain", "upper"} => Loads(file')
                 /\ Loads(file') =>
                      /\ Startable(file')
                      /\ ServerOf(file') = [ServerOf(text) EXCEPT !.clients[args.id.of] = args.key]]_vars

(* add_client and run: "Authorized client ... Restart the server ... to     *)
(* apply".  When the file was not written since, a server that comes up     *)
(* serves the client under the key that was given, whatever other entries   *)
(* of the id the file has.                                                  *)
AuthorizedIsServed ==
    [][told # NoEntry /\ server' # server /\ server' # NoEntry =>
          server'.clients[told.id.of] = told.key]_vars

(* config.rs, validate: "client_ids must be valid 256-bit hex and           *)
(* unambiguous"; cli.rs, add_client: "Reject duplicates so client lookups   *)
(* stay unambiguous".  No two entries of a file that loads are of one id.   *)
LookupsUnambiguous ==
    Loads(file) => \A i, j \in DOMAIN file.clients :
        file.clients[i].id.of = file.clients[j].id.of => i = j

(* cli.rs, add_client: "Appending at EOF keeps existing content intact and  *)
(* is always valid TOML".  What it is about to write parses if what it read *)
(* did.                                                                     *)
AppendIsToml ==
    \A c \in Commands : task[c] # NoEntry /\ task[c].pc = "write" /\ task[c].text.toml =>
        Appended(task[c].text, task[c].args).toml

=============================================================================
