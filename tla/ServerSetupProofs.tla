-------------------------- MODULE ServerSetupProofs --------------------------
(***************************************************************************)
(* Proofs about ServerSetup, for any ids, keys, limits and number of       *)
(* commands.  The induction needs the types of the files and of the texts  *)
(* that commands hold, that the arguments a command goes on with were      *)
(* checked, and that a client map has a last entry for every id in it.     *)
(***************************************************************************)
EXTENDS ServerSetup, TLAPS, WellFoundedInduction

(* A non-empty set of numbers of 1..n has a greatest one, so that the last  *)
(* insert of from_config exists.                                            *)
LEMMA Greatest ==
    ASSUME NEW n \in Nat, NEW S \in SUBSET (1 .. n), S # {}
    PROVE  \E i \in S : \A j \in S : j <= i
<1> DEFINE T == {n - i : i \in S}
<1>1. T \subseteq Nat /\ T # {}
  <2>1. \A i \in S : n - i \in Nat
    OBVIOUS
  <2>2. PICK i \in S : TRUE
    OBVIOUS
  <2>3. n - i \in T
    OBVIOUS
  <2> QED BY <2>1, <2>3
<1>2. \E x \in T : \A y \in T : <<y, x>> \notin OpToRel(<, Nat)
  BY <1>1, WFMin, NatLessThanWellFounded
<1>3. PICK x \in T : \A y \in T : ~(y < x)
  <2>1. PICK x \in T : \A y \in T : <<y, x>> \notin OpToRel(<, Nat)
    BY <1>2
  <2>2. \A y \in T : ~(y < x)
    BY <1>1, <2>1 DEF OpToRel
  <2> QED BY <2>2
<1>4. PICK i \in S : x = n - i
  OBVIOUS
<1>5. \A j \in S : j <= i
  <2>1. TAKE j \in S
  <2>2. ~(n - j < n - i)
    BY <1>3, <1>4
  <2>3. i \in Int /\ j \in Int
    OBVIOUS
  <2> QED BY <2>2, <2>3
<1> QED BY <1>5

(* from_config: the client map holds only keys of the file, or nothing.     *)
LEMMA ServedFromFile ==
    ASSUME NEW f \in Files, NEW d \in Ids
    PROVE  \/ Served(f)[d] = NoEntry
           \/ \E i \in DOMAIN f.clients : Served(f)[d] = f.clients[i].key
<1> DEFINE at == {i \in DOMAIN f.clients : f.clients[i].id.of = d}
           last == CHOOSE i \in at : \A j \in at : j <= i
<1>1. CASE at = {}
  BY <1>1 DEF Served
<1>2. CASE at # {}
  <2>1. f.clients \in Seq(Entries)
    BY DEF Files
  <2>2. Len(f.clients) \in Nat /\ at \subseteq 1 .. Len(f.clients)
    BY <2>1
  <2>3. \E i \in at : \A j \in at : j <= i
    BY <1>2, <2>2, Greatest
  <2>4. last \in at
    BY <2>3
  <2>5. Served(f)[d] = f.clients[last].key
    BY <1>2 DEF Served
  <2> QED BY <2>4, <2>5
<1> QED BY <1>1, <1>2

LEMMA CountsTyped == changes \in Nat /\ Counts => changes' \in Nat
  BY DEF Counts

(* from_config: the server built from a file.                               *)
LEMMA ServerTyped ==
    ASSUME NEW f \in Files
    PROVE  ServerOf(f) \in Servers
<1>1. \A i \in DOMAIN f.clients : f.clients[i].key \in PublicKeys \cup {"bad"}
  <2>1. f.clients \in Seq(Entries)
    BY DEF Files
  <2>2. \A i \in DOMAIN f.clients : f.clients[i] \in Entries
    BY <2>1
  <2> QED BY <2>2 DEF Entries
<1>2. \A d \in Ids : Served(f)[d] \in PublicKeys \cup {"bad", NoEntry}
  BY <1>1, ServedFromFile
<1>3. Served(f) \in [Ids -> PublicKeys \cup {"bad", NoEntry}]
  <2>1. Served(f) = [d \in Ids |-> Served(f)[d]]
    BY DEF Served
  <2> QED BY <1>2, <2>1
<1> QED BY <1>3 DEF ServerOf, Servers, Files

LEMMA InitFileTyped ==
    ASSUME NEW args \in InitArgs
    PROVE  InitFile(args) \in Files
  BY DEF InitFile, Files, InitArgs, Settings, Argvs, Secrets

LEMMA AppendedTyped ==
    ASSUME NEW f \in Files, NEW args \in AddArgs
    PROVE  Appended(f, args) \in Files
<1>1. [id |-> args.id, key |-> args.key] \in Entries
  BY DEF AddArgs, Entries
<1>2. f.clients \in Seq(Entries)
  BY DEF Files
<1>3. Append(f.clients, [id |-> args.id, key |-> args.key]) \in Seq(Entries)
  BY <1>1, <1>2
<1> QED BY <1>3 DEF Appended, Files

(* Every step keeps the types.                                              *)
LEMMA NextTyped == TypeOK /\ [Next]_vars => TypeOK'
<1> SUFFICES ASSUME TypeOK, [Next]_vars
             PROVE  TypeOK'
  OBVIOUS
<1> USE DEF TypeOK
<1>1. ASSUME NEW c \in Commands, NEW args \in InitArgs, NEW force \in BOOLEAN,
             InitCheck(c, args, force)
      PROVE  TypeOK'
  BY <1>1, CountsTyped DEF InitCheck, InitTask
<1>2. ASSUME NEW c \in Commands, NEW args \in AddArgs, AddCheck(c, args)
      PROVE  TypeOK'
  BY <1>2, CountsTyped DEF AddCheck, CheckedTask
<1>3. ASSUME NEW c \in Commands, InitWrite(c)
      PROVE  TypeOK'
  <2>1. task[c].args \in InitArgs
    BY <1>3 DEF InitWrite, InitTask, CheckedTask, AddTask
  <2> QED BY <1>3, <2>1, InitFileTyped DEF InitWrite
<1>4. ASSUME NEW c \in Commands, AddRead(c)
      PROVE  TypeOK'
  <2>1. task[c].args \in AddArgs
    BY <1>4 DEF AddRead, InitTask, CheckedTask, AddTask
  <2>2. [pc |-> "write", args |-> task[c].args, text |-> file] \in AddTask
    BY <1>4, <2>1 DEF AddRead, AddTask
  <2> QED BY <1>4, <2>2 DEF AddRead
<1>5. ASSUME NEW c \in Commands, AddWrite(c)
      PROVE  TypeOK'
  <2>1. task[c] \in AddTask
    BY <1>5 DEF AddWrite, InitTask, CheckedTask, AddTask
  <2>2. Appended(task[c].text, task[c].args) \in Files
    BY <2>1, AppendedTyped DEF AddTask
  <2>3. [task[c] EXCEPT !.pc = "reload"] \in AddTask
    BY <2>1 DEF AddTask
  <2> QED BY <1>5, <2>2, <2>3 DEF AddWrite
<1>6. ASSUME NEW c \in Commands, AddReload(c)
      PROVE  TypeOK'
  <2>1. task[c].args \in AddArgs
    BY <1>6 DEF AddReload, InitTask, CheckedTask, AddTask
  <2> QED BY <1>6, <2>1 DEF AddReload
<1>7. CASE EditFile
  <2>1. file \in Files
    BY <1>7 DEF EditFile
  <2>2. ASSUME NEW g \in Files, Edit(g)
        PROVE  TypeOK'
    BY <2>2, CountsTyped DEF Edit
  <2>3. \A s \in Settings, n \in Numbers : [file EXCEPT !.nums[s] = n] \in Files
    BY <2>1, SetupAssumption DEF Files
  <2>4. \A a \in Argvs : [file EXCEPT !.argv = a] \in Files
    BY <2>1 DEF Files
  <2>5. \A a \in Argvs \cup {NoEntry} : [file EXCEPT !.revoke = a] \in Files
    BY <2>1 DEF Files
  <2>6. \A w \in BOOLEAN : [file EXCEPT !.wire = w] \in Files
    BY <2>1 DEF Files
  <2>7. \A k \in Secrets : [file EXCEPT !.secret = k] \in Files
    BY <2>1 DEF Files
  <2>8. \A e \in Entries : [file EXCEPT !.clients = Append(@, e)] \in Files
    <3>1. TAKE e \in Entries
    <3>2. Append(file.clients, e) \in Seq(Entries)
      BY <2>1 DEF Files
    <3> QED BY <2>1, <3>2 DEF Files
  <2>9. [file EXCEPT !.inline = TRUE] \in Files
    BY <2>1 DEF Files
  <2> QED BY <1>7, <2>2, <2>3, <2>4, <2>5, <2>6, <2>7, <2>8, <2>9 DEF EditFile
<1>8. CASE Restart
  <2>1. CASE server' = NoEntry
    BY <1>8, <2>1 DEF Restart
  <2>2. CASE Startable(file) /\ server' = ServerOf(file)
    <3>1. file \in Files
      BY <2>2 DEF Startable, Loads
    <3> QED BY <1>8, <2>2, <3>1, ServerTyped DEF Restart
  <2> QED BY <1>8, <2>1, <2>2 DEF Restart
<1>9. CASE UNCHANGED vars
  BY <1>9 DEF vars
<1> QED BY <1>1, <1>2, <1>3, <1>4, <1>5, <1>6, <1>7, <1>8, <1>9 DEF Next

(* The types, for every instance: what a command still holds of the file it *)
(* read is a file, and the server was built from one.                       *)
THEOREM TypeCorrect == Spec => []TypeOK
<1>1. Init => TypeOK
  BY DEF Init, TypeOK, Empty
<1>2. TypeOK /\ [Next]_vars => TypeOK'
  BY NextTyped
<1> QED BY <1>1, <1>2, PTL DEF Spec

-----------------------------------------------------------------------------
(* add_client.                                                              *)

\* The arguments of add_client were checked.
CheckedInv ==
    \A c \in Commands : task[c] # NoEntry /\ task[c].pc \in {"read", "write", "reload"}
        => task[c].args.key # "bad" /\ task[c].args.id.of # NoEntry
AddInv == TypeOK /\ CheckedInv

(* from_config after add_client: the new entry is the last of its id, and   *)
(* the others stay where they are.                                          *)
LEMMA AppendedServed ==
    ASSUME NEW f \in Files, NEW args \in AddArgs, args.id.of # NoEntry
    PROVE  LET g == Appended(f, args) IN
           /\ g.clients = Append(f.clients, [id |-> args.id, key |-> args.key])
           /\ g.secret = f.secret /\ g.toml = (f.toml /\ ~f.inline /\ args.id.as # "newline")
           /\ ServerOf(g) = [ServerOf(f) EXCEPT !.clients[args.id.of] = args.key]
           /\ Served(g) = [Served(f) EXCEPT ![args.id.of] = args.key]
<1> DEFINE e == [id |-> args.id, key |-> args.key]
           g == Appended(f, args)
           cs == f.clients
           n == Len(cs) + 1
           new == args.id.of
<1>1. /\ g.clients = Append(cs, e) /\ g.secret = f.secret /\ g.nums = f.nums /\ g.argv = f.argv
      /\ g.revoke = f.revoke /\ g.wire = f.wire
      /\ g.toml = (f.toml /\ ~f.inline /\ args.id.as # "newline")
  BY DEF Appended, Files
<1>2. cs \in Seq(Entries) /\ e \in Entries /\ new \in Ids
  BY DEF Files, AddArgs, Entries, WrittenIds
<1> HIDE DEF g
<1>3. /\ Len(cs) \in Nat /\ DOMAIN cs = 1 .. Len(cs) /\ DOMAIN g.clients = 1 .. n
      /\ g.clients[n] = e /\ \A i \in 1 .. Len(cs) : g.clients[i] = cs[i]
  <2> HIDE DEF e, cs
  <2> QED BY <1>1, <1>2
<1> DEFINE At(h, d) == {i \in DOMAIN h.clients : h.clients[i].id.of = d}
           Last(S) == CHOOSE i \in S : \A j \in S : j <= i
           Key(h, d) == IF At(h, d) = {} THEN NoEntry ELSE h.clients[Last(At(h, d))].key
<1>4. \A h : Served(h) = [d \in Ids |-> Key(h, d)]
  BY DEF Served
<1>5. ASSUME NEW d \in Ids, d # new PROVE Key(g, d) = Key(f, d)
  <2>1. At(g, d) = At(f, d)
    <3>1. g.clients[n].id.of = new
      BY <1>3
    <3>2. n \in Nat /\ \A i \in 1 .. n : i = n \/ i \in 1 .. Len(cs)
      BY <1>3
    <3> HIDE DEF n, e, new
    <3>3. 1 .. Len(cs) \subseteq 1 .. n
      BY <1>3 DEF n
    <3> QED BY <1>3, <1>5, <3>1, <3>2, <3>3
  <2>2. CASE At(f, d) = {}
    BY <2>1, <2>2
  <2>3. CASE At(f, d) # {}
    <3>1. At(f, d) \subseteq 1 .. Len(cs)
      BY <1>3
    <3>2. \E i \in At(f, d) : \A j \in At(f, d) : j <= i
      <4> HIDE DEF At
      <4> QED BY <1>3, <2>3, <3>1, Greatest
    <3>3. Last(At(f, d)) \in At(f, d)
      <4> HIDE DEF At
      <4> QED BY <3>2
    <3> HIDE DEF Last, At
    <3>4. g.clients[Last(At(f, d))] = cs[Last(At(f, d))]
      BY <1>3, <3>1, <3>3
    <3> QED BY <2>1, <2>3, <3>4
  <2> QED BY <2>2, <2>3
<1>6. Key(g, new) = args.key
  <2>1. n \in At(g, new) /\ \A j \in At(g, new) : j <= n /\ j \in Nat
    BY <1>3
  <2> HIDE DEF At
  <2>2. Last(At(g, new)) = n
    <3>1. \A i \in At(g, new) : (\A j \in At(g, new) : j <= i) => i = n
      BY <1>3, <2>1
    <3>2. \E i \in At(g, new) : \A j \in At(g, new) : j <= i
      BY <2>1
    <3> QED BY <3>1, <3>2
  <2> HIDE DEF Last
  <2>3. Key(g, new) = g.clients[n].key
    BY <2>1, <2>2
  <2> QED BY <1>3, <2>3
<1> HIDE DEF Key, new, e
<1>7. Served(g) = [Served(f) EXCEPT ![new] = args.key]
  BY <1>2, <1>4, <1>5, <1>6
<1>8. ServerOf(g) = [ServerOf(f) EXCEPT !.clients[new] = args.key]
  BY <1>1, <1>7 DEF ServerOf
<1> QED BY <1>1, <1>7, <1>8 DEF g, new, e

LEMMA NextAdd == AddInv /\ [Next]_vars => AddInv'
<1> SUFFICES ASSUME AddInv, [Next]_vars
             PROVE  CheckedInv'
  BY NextTyped DEF AddInv
<1>0. task \in [Commands -> InitTask \cup CheckedTask \cup AddTask \cup {NoEntry}] /\ CheckedInv
  BY DEF AddInv, TypeOK
<1>1. ASSUME NEW c \in Commands, NEW args \in InitArgs, NEW force \in BOOLEAN,
             InitCheck(c, args, force)
      PROVE  CheckedInv'
  BY <1>0, <1>1 DEF InitCheck, CheckedInv
<1>2. ASSUME NEW c \in Commands, NEW args \in AddArgs, AddCheck(c, args)
      PROVE  CheckedInv'
  BY <1>0, <1>2 DEF AddCheck, CheckedInv
<1>3. ASSUME NEW c \in Commands, InitWrite(c) \/ AddRead(c) \/ AddReload(c)
      PROVE  CheckedInv'
  BY <1>0, <1>3 DEF InitWrite, AddRead, AddReload, CheckedInv
<1>4. ASSUME NEW c \in Commands, AddWrite(c)
      PROVE  CheckedInv'
  <2>1. task[c] \in AddTask
    BY <1>0, <1>4 DEF AddWrite, InitTask, CheckedTask
  <2>2. /\ task' = [task EXCEPT ![c] = [task[c] EXCEPT !.pc = "reload"]]
        /\ task'[c].args = task[c].args
    BY <1>0, <1>4, <2>1 DEF AddWrite, AddTask
  <2> QED BY <1>0, <1>4, <2>2 DEF AddWrite, CheckedInv
<1>5. CASE EditFile \/ Restart \/ UNCHANGED vars
  <2>1. UNCHANGED task
    BY <1>5 DEF EditFile, Edit, Restart, vars
  <2> QED BY <1>0, <2>1 DEF CheckedInv
<1> QED BY <1>1, <1>2, <1>3, <1>4, <1>5 DEF Next

LEMMA AddInvariant == Spec => []AddInv
<1>1. Init => AddInv
  BY DEF Init, AddInv, TypeOK, CheckedInv, Empty
<1> QED BY <1>1, NextAdd, PTL DEF Spec

(* An id that from_config does not find is in no entry, in any spelling.    *)
LEMMA NotServed ==
    ASSUME NEW f \in Files, NEW d \in Ids, Served(f)[d] = NoEntry
    PROVE  \A i \in DOMAIN f.clients : f.clients[i].id.of # d
<1> DEFINE at == {i \in DOMAIN f.clients : f.clients[i].id.of = d}
           last == CHOOSE i \in at : \A j \in at : j <= i
<1>1. SUFFICES ASSUME at # {} PROVE FALSE
  OBVIOUS
<1>2. f.clients \in Seq(Entries)
  BY DEF Files
<1>3. Len(f.clients) \in Nat /\ at \subseteq 1 .. Len(f.clients)
  BY <1>2
<1>4. \E i \in at : \A j \in at : j <= i
  BY <1>1, <1>3, Greatest
<1>5. last \in at /\ last \in 1 .. Len(f.clients)
  BY <1>3, <1>4
<1>6. Served(f)[d] = f.clients[last].key
  BY <1>1 DEF Served
<1>7. f.clients[last] \in Entries
  <2> HIDE DEF last
  <2> QED BY <1>2, <1>5
<1>8. f.clients[last].key # NoEntry
  BY <1>7, SetupAssumption DEF Entries
<1> QED BY <1>6, <1>8

(* validate after add_client: an id that is new in every spelling breaks    *)
(* neither the list of clients nor its keys.                                *)
LEMMA AppendedOk ==
    ASSUME NEW f \in Files, NEW args \in AddArgs, args.id.of # NoEntry, args.key # "bad",
           Startable(f), Served(f)[args.id.of] = NoEntry
    PROVE  LET g == Appended(f, args) IN
           /\ ClientsOk(g.clients)
           /\ \A i \in DOMAIN g.clients : g.clients[i].key # "bad"
<1> DEFINE e == [id |-> args.id, key |-> args.key]
           cs == f.clients
           gs == Append(cs, e)
<1>1. cs \in Seq(Entries) /\ e.id = args.id /\ e.key = args.key /\ args.id.of \in Ids
  BY DEF Files, AddArgs, WrittenIds
<1>2. Appended(f, args).clients = gs
  BY AppendedServed
<1>3. ClientsOk(cs) /\ \A i \in DOMAIN cs : cs[i].key # "bad"
  BY DEF Startable, Loads
<1>4. \A i \in DOMAIN cs : cs[i].id.of # args.id.of
  BY <1>1, NotServed
<1>5. \A i \in DOMAIN cs : cs[i] \in Entries
  BY <1>1
<1>6. \A i \in DOMAIN gs : \/ i \in DOMAIN cs /\ gs[i] = cs[i]
                           \/ i = Len(cs) + 1 /\ gs[i] = e
  <2> HIDE DEF e, cs
  <2> QED BY <1>1
<1>7. \A v, w \in WrittenIds : SameSpelling(v, w) => v.of = w.of
  BY DEF SameSpelling, Lowered, WrittenIds
<1> HIDE DEF e, cs, gs
<1>8. \A i \in DOMAIN gs : gs[i].key # "bad" /\ gs[i].id.of # NoEntry
  BY <1>1, <1>3, <1>6 DEF ClientsOk
<1>9. ASSUME NEW i \in DOMAIN gs, NEW j \in DOMAIN gs, i # j
      PROVE  ~SameSpelling(gs[i].id, gs[j].id)
  <2>1. CASE i \in DOMAIN cs /\ gs[i] = cs[i] /\ j \in DOMAIN cs /\ gs[j] = cs[j]
    BY <1>3, <1>9, <2>1 DEF ClientsOk
  <2>2. args.id \in WrittenIds /\ \A k \in DOMAIN cs : cs[k].id \in WrittenIds
    BY <1>5 DEF AddArgs, Entries
  <2>3. CASE i \in DOMAIN cs /\ gs[i] = cs[i] /\ gs[j] = e
    BY <1>1, <1>4, <1>7, <2>2, <2>3
  <2>4. CASE gs[i] = e /\ j \in DOMAIN cs /\ gs[j] = cs[j]
    BY <1>1, <1>4, <1>7, <2>2, <2>4
  <2> QED BY <1>6, <1>9, <2>1, <2>3, <2>4
<1>10. ClientsOk(gs)
  BY <1>8, <1>9 DEF ClientsOk
<1> QED BY <1>2, <1>8, <1>10

(* add_client, however commands and edits overlap and for any ids and       *)
(* spellings: from a text that a server could be started from and that does *)
(* not have the id, it writes one that loads unless the id has white space  *)
(* or the clients are inline, and if it loads a server can be started that  *)
(* serves the new client under its key and is otherwise the same.           *)
THEOREM AddedIsServedHolds == Spec => AddedIsServed
<1> DEFINE IsServed ==
      \A c \in Commands :
          LET text == task[c].text
              args == task[c].args
          IN  /\ task[c] # NoEntry /\ task[c].pc = "write" /\ task'[c] # task[c]
              /\ Startable(text) /\ Served(text)[args.id.of] = NoEntry
              => /\ ~text.inline /\ args.id.as \in {"plain", "upper"} => Loads(file')
                 /\ Loads(file') =>
                      /\ Startable(file')
                      /\ ServerOf(file') = [ServerOf(text) EXCEPT !.clients[args.id.of] = args.key]
<1>1. ASSUME AddInv, Next PROVE IsServed
  <2> SUFFICES ASSUME NEW c \in Commands, task[c] # NoEntry, task[c].pc = "write",
                      task'[c] # task[c], Startable(task[c].text),
                      Served(task[c].text)[task[c].args.id.of] = NoEntry
               PROVE  LET text == task[c].text
                          args == task[c].args
                      IN  /\ ~text.inline /\ args.id.as \in {"plain", "upper"} => Loads(file')
                          /\ Loads(file') =>
                               /\ Startable(file')
                               /\ ServerOf(file') =
                                     [ServerOf(text) EXCEPT !.clients[args.id.of] = args.key]
    OBVIOUS
  <2>1. task \in [Commands -> InitTask \cup CheckedTask \cup AddTask \cup {NoEntry}]
    BY <1>1 DEF AddInv, TypeOK
  <2>2. AddWrite(c)
    <3>1. \E d \in Commands : InitWrite(d) \/ AddRead(d) \/ AddWrite(d) \/ AddReload(d)
                              \/ (task[d] = NoEntry /\ \E x : task' = [task EXCEPT ![d] = x])
      BY <1>1, <2>1 DEF Next, InitCheck, AddCheck, EditFile, Edit, Restart
    <3> QED BY <2>1, <3>1 DEF InitWrite, AddRead, AddWrite, AddReload
  <2> DEFINE f == task[c].text
             args == task[c].args
  <2>3. f \in Files /\ args \in AddArgs /\ file' = Appended(f, args)
    BY <2>1, <2>2 DEF AddWrite, InitTask, CheckedTask, AddTask
  <2>4. args.key # "bad" /\ args.id.of # NoEntry
    BY <1>1 DEF AddInv, CheckedInv
  <2> HIDE DEF f, args
  <2>5. Startable(f) /\ Served(f)[args.id.of] = NoEntry
    BY DEF f, args
  <2>6. /\ file'.secret = f.secret /\ file'.toml = (f.toml /\ ~f.inline /\ args.id.as # "newline")
        /\ ServerOf(file') = [ServerOf(f) EXCEPT !.clients[args.id.of] = args.key]
    BY <2>3, <2>4, AppendedServed
  <2>7. ClientsOk(file'.clients) /\ \A i \in DOMAIN file'.clients : file'.clients[i].key # "bad"
    BY <2>3, <2>4, <2>5, AppendedOk
  <2>8. ASSUME ~f.inline, args.id.as \in {"plain", "upper"} PROVE Loads(file')
    <3>1. file'.toml
      BY <2>5, <2>6, <2>8 DEF Startable, Loads
    <3>2. /\ file'.argv = f.argv /\ file'.revoke = f.revoke /\ file'.nums = f.nums
          /\ file'.wire = f.wire
      BY <2>3 DEF Appended, Files
    <3>3. file' # NoEntry
      BY <2>3, AppendedTyped, RecordAssumption
    <3> QED BY <2>5, <2>6, <2>7, <3>1, <3>2, <3>3 DEF Startable, Loads
  <2>9. Loads(file') => Startable(file')
    BY <2>5, <2>6, <2>7 DEF Startable
  <2> QED BY <2>6, <2>8, <2>9 DEF f, args
<1>2. AddInv /\ [Next]_vars => [IsServed]_vars
  BY <1>1
<1> QED BY <1>2, AddInvariant, PTL DEF AddedIsServed, Spec

-----------------------------------------------------------------------------
(* The report of add_client, and the server started after it.              *)

ToldInv == told # NoEntry => Served(file)[told.id.of] = told.key

LEMMA NextTold == AddInv /\ ToldInv /\ [Next]_vars => ToldInv'
<1> SUFFICES ASSUME AddInv, ToldInv, [Next]_vars
             PROVE  ToldInv'
  OBVIOUS
<1>1. ASSUME NEW c \in Commands, AddReload(c) PROVE ToldInv'
  <2>1. CASE told' = told
    BY <1>1, <2>1 DEF AddReload, ToldInv
  <2>2. CASE told' = task[c].args /\ file = Appended(task[c].text, task[c].args)
    <3> DEFINE f == task[c].text
               args == task[c].args
    <3>1. task \in [Commands -> InitTask \cup CheckedTask \cup AddTask \cup {NoEntry}]
      BY DEF AddInv, TypeOK
    <3>2. f \in Files /\ args \in AddArgs
      BY <1>1, <3>1 DEF AddReload, InitTask, CheckedTask, AddTask
    <3>3. args.id.of # NoEntry
      BY <1>1 DEF AddReload, AddInv, CheckedInv
    <3> HIDE DEF f, args
    <3>4. Served(file) = [Served(f) EXCEPT ![args.id.of] = args.key]
      BY <2>2, <3>2, <3>3, AppendedServed DEF f, args
    <3>5. args.id.of \in Ids /\ DOMAIN Served(f) = Ids
      BY <3>2, <3>3 DEF AddArgs, WrittenIds, Served
    <3>6. Served(file)[args.id.of] = args.key
      BY <3>4, <3>5
    <3>7. file' = file
      BY <1>1 DEF AddReload
    <3> QED BY <2>2, <3>6, <3>7 DEF ToldInv, args
  <2> QED BY <1>1, <2>1, <2>2 DEF AddReload
<1>2. ASSUME NEW c \in Commands, InitWrite(c) \/ AddWrite(c) PROVE ToldInv'
  BY <1>2 DEF InitWrite, AddWrite, ToldInv
<1>3. CASE EditFile
  BY <1>3 DEF EditFile, Edit, ToldInv
<1>4. CASE UNCHANGED <<file, told>>
  BY <1>4 DEF ToldInv
<1>5. \/ \E c \in Commands : InitWrite(c) \/ AddWrite(c) \/ AddReload(c)
      \/ EditFile \/ UNCHANGED <<file, told>>
  BY DEF Next, InitCheck, AddCheck, AddRead, Restart, vars
<1> QED BY <1>1, <1>2, <1>3, <1>4, <1>5

(* add_client and run: a server that comes up after a success was reported, *)
(* and before the file is written again, serves the client under the key it *)
(* was added with, for any ids, spellings and overlapping commands.         *)
THEOREM AuthorizedIsServedHolds == Spec => AuthorizedIsServed
<1> DEFINE Serves == told # NoEntry /\ server' # server /\ server' # NoEntry =>
                        server'.clients[told.id.of] = told.key
<1>1. ASSUME AddInv, ToldInv, Next PROVE Serves
  <2> SUFFICES ASSUME told # NoEntry, server' # server, server' # NoEntry
               PROVE  server'.clients[told.id.of] = told.key
    OBVIOUS
  <2>1. Restart
    BY <1>1 DEF Next, InitCheck, AddCheck, InitWrite, AddRead, AddWrite, AddReload, EditFile, Edit
  <2>2. server' = ServerOf(file)
    BY <2>1 DEF Restart
  <2>3. server'.clients = Served(file)
    BY <2>2 DEF ServerOf
  <2> QED BY <1>1, <2>3 DEF ToldInv
<1>2. AddInv /\ ToldInv /\ [Next]_vars => [Serves]_vars
  BY <1>1
<1>3. Init => ToldInv
  BY DEF Init, ToldInv
<1> QED BY <1>2, <1>3, AddInvariant, NextTold, PTL DEF AuthorizedIsServed, Spec

=============================================================================
