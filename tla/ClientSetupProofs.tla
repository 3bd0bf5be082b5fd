-------------------------- MODULE ClientSetupProofs --------------------------
(***************************************************************************)
(* Proofs about ClientSetup, for any labels, numbers and number of         *)
(* commands.  That the file is there while add_server is at work, and that *)
(* the targets are those of some file that loaded, is all the induction    *)
(* needs beyond the types.                                                 *)
(***************************************************************************)
EXTENDS ClientSetup, TLAPS

\* add_server started from a file that loaded, and files are never removed.
FileStays ==
    \A c \in Commands : task[c] # NoEntry /\ task[c].pc \in {"read", "write", "reload"}
        => file # NoEntry

\* What the targets of a client that runs were resolved from.
Up(f) == Loads(f) /\ \A t \in TargetsOf(f) : Resolves(t)
FromFile == targets = {} \/ \E f \in Files : Up(f) /\ targets = TargetsOf(f)

(* The types, with the two facts above: what the induction carries.         *)
Inv == TypeOK /\ FileStays /\ FromFile

(* load and resolve_override: the targets of a file are well typed.         *)
LEMMA TargetsTyped ==
    ASSUME NEW f \in Files
    PROVE  TargetsOf(f) \subseteq Targets
<1>1. f.base \in Sections
  BY DEF Files
<1>2. PrimaryTarget(f.base) \in Targets
  BY <1>1 DEF PrimaryTarget, Sections, Targets
<1>3. ASSUME NEW l \in Listed(f)
      PROVE  OverrideTarget(l, f.servers[l], f.base) \in Targets
  <2>1. l \in Labels /\ f.servers[l] \in Overrides
    BY <1>3 DEF Listed, Files
  <2> DEFINE ov == f.servers[l]
             b == f.base
  <2>2. /\ Or(ov.wire, b.wire) \in BOOLEAN /\ Or(ov.interval, b.interval) \in Nat
        /\ Or(ov.t1, b.t1) \in Nat /\ Or(ov.t2, b.t2) \in Nat /\ Or(ov.cmd, b.cmd) \in Argvs
        /\ Or(ov.cmdTimeout, b.cmdTimeout) \in Nat /\ Or(ov.maxLen, b.maxLen) \in Nat
    BY <1>1, <2>1 DEF Or, Sections, Overrides, OptBool, OptNat
  <2>3. ov.key \in Keys
    BY <2>1 DEF Overrides
  <2> QED BY <2>1, <2>2, <2>3 DEF OverrideTarget, Targets
<1> QED BY <1>2, <1>3 DEF TargetsOf

(* resolve_target after load: the checks of a loaded file imply all of its  *)
(* own but that the key decodes.                                            *)
LEMMA LoadedTargets ==
    ASSUME NEW f \in Files, Loads(f), NEW t \in TargetsOf(f)
    PROVE  /\ t.wire \/ t.cmd # NoEntry => t.key # NoEntry
           /\ t.interval >= 1 /\ t.t1 >= 1 /\ t.t1 <= t.t2
           /\ t.cmd # "empty" /\ t.maxLen \in 1 .. LenLimit
<1>1. f.base \in Sections /\ SectionOk(f.base)
  BY DEF Files, Loads
<1>2. CASE t = PrimaryTarget(f.base)
  BY <1>1, <1>2 DEF SectionOk, PrimaryTarget, Sections
<1>3. ASSUME NEW l \in Listed(f), t = OverrideTarget(l, f.servers[l], f.base)
      PROVE  /\ t.wire \/ t.cmd # NoEntry => t.key # NoEntry
             /\ t.interval >= 1 /\ t.t1 >= 1 /\ t.t1 <= t.t2
             /\ t.cmd # "empty" /\ t.maxLen \in 1 .. LenLimit
  <2> DEFINE ov == f.servers[l]
             b == f.base
  <2>1. ov \in Overrides /\ OverrideOk(l, ov, b)
    BY <1>3 DEF Listed, Files, Loads
  <2>2. /\ t.wire = Or(ov.wire, b.wire) /\ t.cmd = Or(ov.cmd, b.cmd) /\ t.key = ov.key
        /\ t.interval = Or(ov.interval, b.interval) /\ t.t1 = Or(ov.t1, b.t1)
        /\ t.t2 = Or(ov.t2, b.t2) /\ t.maxLen = Or(ov.maxLen, b.maxLen)
    BY <1>3 DEF OverrideTarget
  <2>3. t.wire \/ t.cmd # NoEntry => t.key # NoEntry
    BY <2>1, <2>2 DEF OverrideOk
  <2>4. t.t1 >= 1 /\ t.t1 <= t.t2
    BY <2>1, <2>2 DEF OverrideOk
  <2>5. t.interval >= 1
    BY <1>1, <2>1, <2>2 DEF OverrideOk, SectionOk, Or, Sections, Overrides, OptNat
  <2>6. t.cmd # "empty"
    BY <1>1, <2>1, <2>2 DEF OverrideOk, SectionOk, Or
  <2>7. t.maxLen \in 1 .. LenLimit
    BY <1>1, <2>1, <2>2 DEF OverrideOk, SectionOk, Or
  <2> QED BY <2>3, <2>4, <2>5, <2>6, <2>7
<1> QED BY <1>2, <1>3 DEF TargetsOf

(* from_config and load: no two targets of a loaded file share a label.     *)
LEMMA LoadedNames ==
    ASSUME NEW f \in Files, Loads(f), NEW t \in TargetsOf(f), NEW u \in TargetsOf(f),
           u.name = t.name
    PROVE  u = t
<1> DEFINE O(l) == OverrideTarget(l, f.servers[l], f.base)
           P == PrimaryTarget(f.base)
<1>1. P.name = f.base.id
  BY DEF PrimaryTarget
<1>2. \A l \in Listed(f) : O(l).name = l /\ l # f.base.id
  BY DEF OverrideTarget, Loads, OverrideOk
<1>3. \A x \in TargetsOf(f) : x = P \/ \E l \in Listed(f) : x = O(l)
  BY DEF TargetsOf
<1> HIDE DEF O, P
<1> QED BY <1>1, <1>2, <1>3

(* TargetsUsable holds of any targets that came from a file.                *)
LEMMA UsableFromFile ==
    ASSUME FromFile
    PROVE  TargetsUsable
<1>1. CASE targets = {}
  BY <1>1 DEF TargetsUsable
<1>2. ASSUME NEW f \in Files, Up(f), targets = TargetsOf(f)
      PROVE  TargetsUsable
  <2>1. ASSUME NEW t \in targets
        PROVE  /\ t.wire \/ t.cmd # NoEntry => t.key = "good"
               /\ t.interval >= 1 /\ t.t1 >= 1 /\ t.t1 <= t.t2
               /\ t.cmd # "empty" /\ t.maxLen \in 1 .. LenLimit
    <3>1. t.key \in Keys /\ t.key # "bad"
      BY <1>2, <2>1, TargetsTyped DEF Targets, Up, Resolves
    <3> QED BY <1>2, <2>1, <3>1, LoadedTargets DEF Up, Keys
  <2>2. \A t \in targets, u \in targets : u.name = t.name => u = t
    BY <1>2, LoadedNames DEF Up
  <2> QED BY <2>1, <2>2 DEF TargetsUsable
<1> QED BY <1>1, <1>2 DEF FromFile

-----------------------------------------------------------------------------
(* The induction.                                                           *)

(* The file init writes is well typed.                                      *)
LEMMA InitFileTyped ==
    ASSUME NEW args \in InitArgs
    PROVE  InitFile(args) \in Files
<1>1. [id |-> Primary, key |-> args.key, wire |-> args.wire, interval |-> args.interval,
       t1 |-> 1, t2 |-> 1, cmd |-> NoEntry, cmdTimeout |-> 1, maxLen |-> LenLimit] \in Sections
  BY SetupAssumption DEF InitArgs, Sections, Keys, Argvs
<1>2. Empty(Labels) \in [Labels -> Overrides \cup {NoEntry}]
  BY DEF Empty
<1> QED BY <1>1, <1>2 DEF InitFile, Files

(* The file add_server writes is well typed.                                *)
LEMMA AppendedTyped ==
    ASSUME NEW f \in Files, NEW args \in AddArgs
    PROVE  Appended(f, args) \in Files
<1>1. NewTable(args) \in Overrides
  BY DEF NewTable, AddArgs, Overrides, OptBool, OptNat, Argvs
<1> QED BY <1>1 DEF Appended, Files, AddArgs

(* Edits keep the file well typed.                                          *)
LEMMA EditsTyped ==
    ASSUME NEW f \in Files
    PROVE  /\ \A x \in DOMAIN SectionFields : \A v \in SectionFields[x] :
                 [f EXCEPT !.base[x] = v] \in Files
           /\ \A l \in Listed(f), x \in DOMAIN OverrideFields : \A v \in OverrideFields[x] :
                 [f EXCEPT !.servers[l][x] = v] \in Files
<1>1. ASSUME NEW x \in DOMAIN SectionFields, NEW v \in SectionFields[x]
      PROVE  [f EXCEPT !.base[x] = v] \in Files
  <2>1. f.base \in Sections
    BY DEF Files
  <2>2. [f.base EXCEPT ![x] = v] \in Sections
    BY <1>1, <2>1, SetupAssumption DEF SectionFields, Sections
  <2> QED BY <2>2 DEF Files
<1>2. ASSUME NEW l \in Listed(f), NEW x \in DOMAIN OverrideFields, NEW v \in OverrideFields[x]
      PROVE  [f EXCEPT !.servers[l][x] = v] \in Files
  <2>1. l \in Labels /\ f.servers[l] \in Overrides
    BY <1>2 DEF Listed, Files
  <2>2. [f.servers[l] EXCEPT ![x] = v] \in Overrides
    <3>1. OptNumbers \subseteq OptNat
      BY SetupAssumption DEF OptNumbers, OptNat
    <3>2. x \in {"key", "wire", "interval", "t1", "t2", "cmd", "cmdTimeout", "maxLen"}
      BY <1>2 DEF OverrideFields
    <3>3. CASE x \in {"key", "wire", "cmd"}
      BY <1>2, <2>1, <3>3 DEF OverrideFields, Overrides
    <3>4. CASE x \in {"interval", "t1", "t2", "cmdTimeout", "maxLen"}
      <4>1. v \in OptNat
        BY <1>2, <3>1, <3>4 DEF OverrideFields
      <4> QED BY <2>1, <3>4, <4>1 DEF Overrides
    <3> QED BY <3>2, <3>3, <3>4
  <2> QED BY <2>1, <2>2 DEF Files
<1> QED BY <1>1, <1>2

(* Initially there is no file, no command and no client.                    *)
LEMMA InitInv == Init => Inv
<1> SUFFICES ASSUME Init PROVE Inv
  OBVIOUS
<1>1. TypeOK
  BY DEF Init, TypeOK, Empty
<1>2. FileStays
  BY DEF Init, FileStays, Empty
<1> QED BY <1>1, <1>2 DEF Inv, Init, FromFile

(* Every step of a command, of the administrator and of the client keeps    *)
(* Inv.                                                                     *)
LEMMA NextInv == Inv /\ [Next]_vars => Inv'
<1> SUFFICES ASSUME Inv, [Next]_vars PROVE Inv'
  OBVIOUS
<1> USE DEF Inv
<1>t. TypeOK /\ FileStays /\ FromFile
  OBVIOUS
<1>1. ASSUME NEW c \in Commands, NEW key \in Keys, NEW wire \in BOOLEAN,
             NEW interval \in Intervals, NEW force \in BOOLEAN,
             InitCheck(c, [key |-> key, wire |-> wire, interval |-> interval], force)
      PROVE  Inv'
  <2>1. [pc |-> "init", args |-> [key |-> key, wire |-> wire, interval |-> interval]] \in InitTask
    BY <1>1, SetupAssumption DEF InitTask, InitArgs
  <2>2. TypeOK'
    BY <1>1, <2>1 DEF InitCheck, Counts, TypeOK
  <2>3. FileStays'
    BY <1>1 DEF InitCheck, FileStays, TypeOK
  <2> QED BY <1>1, <2>2, <2>3 DEF InitCheck, FromFile
<1>2. ASSUME NEW c \in Commands, NEW name \in Labels, NEW key \in Keys, NEW wire \in BOOLEAN,
             NEW interval \in Intervals \cup {NoEntry},
             AddCheck(c, [name |-> name, key |-> key, wire |-> wire, interval |-> interval])
      PROVE  Inv'
  <2> DEFINE args == [name |-> name, key |-> key, wire |-> wire, interval |-> interval]
  <2>1. [pc |-> "read", args |-> args] \in AddTask
    BY <1>2, SetupAssumption DEF AddTask, AddArgs, OptNat
  <2>2. TypeOK'
    BY <1>2, <2>1 DEF AddCheck, Counts, TypeOK
  <2>3. FileStays'
    BY <1>2 DEF AddCheck, FileStays, TypeOK, Loads
  <2> QED BY <1>2, <2>2, <2>3 DEF AddCheck, FromFile
<1>3. ASSUME NEW c \in Commands, InitWrite(c)
      PROVE  Inv'
  <2>1. task[c] \in InitTask
    BY <1>3 DEF InitWrite, TypeOK, AddTask, WriteTask
  <2>2. file' \in Files
    BY <1>3, <2>1, InitFileTyped DEF InitWrite, InitTask
  <2>3. TypeOK'
    BY <1>3, <2>2 DEF InitWrite, TypeOK
  <2>4. FileStays'
    BY <2>2, RecordAssumption DEF FileStays
  <2> QED BY <1>3, <2>3, <2>4 DEF InitWrite, FromFile
<1>4. ASSUME NEW c \in Commands, AddRead(c)
      PROVE  Inv'
  <2>1. task[c] \in AddTask /\ file \in Files
    BY <1>4 DEF AddRead, TypeOK, InitTask, WriteTask, FileStays
  <2>2. [pc |-> "write", args |-> task[c].args, text |-> file] \in WriteTask
    BY <2>1 DEF AddTask, WriteTask
  <2>3. TypeOK'
    BY <1>4, <2>2 DEF AddRead, TypeOK
  <2>4. FileStays'
    BY <1>4, <2>1, RecordAssumption DEF AddRead, FileStays
  <2> QED BY <1>4, <2>3, <2>4 DEF AddRead, FromFile
<1>5. ASSUME NEW c \in Commands, AddWrite(c)
      PROVE  Inv'
  <2>1. task[c] \in WriteTask
    BY <1>5 DEF AddWrite, TypeOK, InitTask, AddTask
  <2>2. file' \in Files /\ [pc |-> "reload", args |-> task[c].args] \in AddTask
    BY <1>5, <2>1, AppendedTyped DEF AddWrite, WriteTask, AddTask
  <2>3. TypeOK'
    BY <1>5, <2>2 DEF AddWrite, TypeOK
  <2>4. FileStays'
    BY <2>2, RecordAssumption DEF FileStays
  <2> QED BY <1>5, <2>3, <2>4 DEF AddWrite, FromFile
<1>6. ASSUME NEW c \in Commands, AddReload(c)
      PROVE  Inv'
  <2>1. TypeOK'
    BY <1>6 DEF AddReload, TypeOK
  <2>2. FileStays'
    BY <1>6 DEF AddReload, FileStays, TypeOK
  <2> QED BY <1>6, <2>1, <2>2 DEF AddReload, FromFile
<1>7. ASSUME NEW f \in Files, Edit(f)
      PROVE  Inv'
  <2>1. TypeOK'
    BY <1>7 DEF Edit, Counts, TypeOK
  <2>2. FileStays'
    BY <1>7, RecordAssumption DEF Edit, FileStays
  <2> QED BY <1>7, <2>1, <2>2 DEF Edit, FromFile
<1>8. CASE EditSection
  BY <1>7, <1>8, EditsTyped DEF EditSection, TypeOK
<1>9. CASE EditServer
  BY <1>7, <1>9, EditsTyped DEF EditServer, TypeOK
<1>10. CASE Restart
  <2>1. FromFile'
    BY <1>10 DEF Restart, FromFile, Up, TypeOK, Loads
  <2>2. targets' \subseteq Targets
    BY <2>1, TargetsTyped DEF FromFile
  <2>3. TypeOK'
    BY <1>10, <2>2 DEF Restart, TypeOK
  <2>4. FileStays'
    BY <1>10 DEF Restart, FileStays
  <2> QED BY <2>1, <2>3, <2>4
<1>11. CASE UNCHANGED vars
  BY <1>11 DEF vars, TypeOK, FileStays, FromFile
<1> QED BY <1>1, <1>2, <1>3, <1>4, <1>5, <1>6, <1>8, <1>9, <1>10, <1>11 DEF Next

(* The invariant of every behaviour of the configuration file.              *)
LEMMA InvHolds == Spec => []Inv
BY InitInv, NextInv, PTL DEF Spec

(* init, add_server and from_config: the file, the commands at work and the *)
(* running client's targets keep their types.                               *)
THEOREM TypeCorrect == Spec => []TypeOK
<1>1. Inv => TypeOK
  BY DEF Inv
<1> QED BY <1>1, InvHolds, PTL

(* load and from_config: the keys, intervals, backoffs, argvs, parameter    *)
(* lengths and labels of a running client's targets are usable, however its *)
(* settings are inherited and whatever was written to the file.             *)
THEOREM TargetsUsableHolds == Spec => []TargetsUsable
<1>1. Inv => TargetsUsable
  BY UsableFromFile DEF Inv
<1> QED BY <1>1, InvHolds, PTL

(* load against resolve_target: a loaded file whose keys decode resolves.   *)
THEOREM LoadedResolvesHolds == Spec => []LoadedResolves
<1>1. Inv => LoadedResolves
  <2> SUFFICES ASSUME Inv, Loads(file), \A t \in TargetsOf(file) : t.key # "bad",
                      NEW t \in TargetsOf(file)
               PROVE  Resolves(t)
    BY DEF LoadedResolves
  <2>1. file \in Files
    BY DEF Inv, TypeOK, Loads
  <2> QED BY <2>1, LoadedTargets DEF Resolves
<1> QED BY <1>1, InvHolds, PTL

-----------------------------------------------------------------------------
(* add_server.                                                              *)

(* A table of a label the text does not have: what it resolves to, and that *)
(* the targets of the text stay.                                            *)
LEMMA AppendedTargets ==
    ASSUME NEW f \in Files, NEW args \in AddArgs, Loads(Appended(f, args))
    PROVE  LET g == Appended(f, args)
               t == OverrideTarget(args.name, NewTable(args), f.base)
           IN  /\ g.base = f.base
               /\ TargetsOf(g) = TargetsOf(f) \cup {t} /\ t \notin TargetsOf(f)
<1> DEFINE g == Appended(f, args)
           name == args.name
           O(l) == OverrideTarget(l, f.servers[l], f.base)
           t == OverrideTarget(name, NewTable(args), f.base)
<1>1. name \in Labels /\ name \notin Listed(f)
  <2>1. ~g.dup
    BY DEF Loads
  <2>2. name \in Listed(f) => g.dup
    BY DEF Appended, Files
  <2> QED BY <2>1, <2>2 DEF AddArgs
<1>2. g = [f EXCEPT !.servers[name] = NewTable(args)]
  BY <1>1 DEF Appended
<1>3. NewTable(args) # NoEntry
  <2>1. NewTable(args) \in Overrides
    BY DEF NewTable, AddArgs, Overrides, OptBool, OptNat, Argvs
  <2> QED BY <2>1, RecordAssumption
<1>4. /\ g.base = f.base /\ g.servers[name] = NewTable(args)
      /\ \A l \in Labels : l # name => g.servers[l] = f.servers[l]
  BY <1>1, <1>2 DEF Files
<1> HIDE DEF g
<1>5. Listed(g) = Listed(f) \cup {name}
  BY <1>1, <1>3, <1>4 DEF Listed
<1>6. TargetsOf(g) = TargetsOf(f) \cup {t}
  <2>1. \A l \in Listed(f) : OverrideTarget(l, g.servers[l], g.base) = O(l)
    BY <1>1, <1>4 DEF Listed
  <2>2. OverrideTarget(name, g.servers[name], g.base) = t
    BY <1>4
  <2>3. PrimaryTarget(g.base) = PrimaryTarget(f.base)
    BY <1>4
  <2> QED BY <1>5, <2>1, <2>2, <2>3 DEF TargetsOf
<1>7. t \notin TargetsOf(f)
  <2>1. t.name = name /\ \A l \in Listed(f) : O(l).name = l
    BY DEF OverrideTarget
  <2>2. PrimaryTarget(f.base).name = f.base.id
    BY DEF PrimaryTarget
  <2>3. name # f.base.id
    BY <1>4, <1>5 DEF Loads, OverrideOk, g
  <2>4. \A x \in TargetsOf(f) : x = PrimaryTarget(f.base) \/ \E l \in Listed(f) : x = O(l)
    BY DEF TargetsOf
  <2> HIDE DEF t, O
  <2> QED BY <1>1, <2>1, <2>2, <2>3, <2>4
<1> QED BY <1>4, <1>6, <1>7 DEF g

(* add_server: what it writes, if it loads, keeps every target and adds one *)
(* with the key and interval asked for, sealed only if that was asked for,  *)
(* for any labels, and however commands and edits overlap.                  *)
THEOREM AddedAsAskedHolds == Spec => AddedAsAsked
<1> DEFINE Asked ==
      \A c \in Commands :
          /\ task[c] # NoEntry /\ task[c].pc = "write" /\ task'[c] # task[c]
          /\ Loads(task[c].text) /\ Loads(file')
          => LET args == task[c].args
                 old == TargetsOf(task[c].text)
                 new == TargetsOf(file')
             IN  /\ old \subseteq new
                 /\ \E t \in new :
                       /\ new \ old = {t} /\ t.name = args.name /\ t.key = args.key
                       /\ t.wire => args.wire
                       /\ t.interval = Or(args.interval, file'.base.interval)
<1>1. ASSUME Inv, Next PROVE Asked
  <2> SUFFICES ASSUME NEW c \in Commands,
                      task[c] # NoEntry, task[c].pc = "write", task'[c] # task[c], Loads(file')
               PROVE  LET args == task[c].args
                          old == TargetsOf(task[c].text)
                          new == TargetsOf(file')
                      IN  /\ old \subseteq new
                          /\ \E t \in new :
                                /\ new \ old = {t} /\ t.name = args.name /\ t.key = args.key
                                /\ t.wire => args.wire
                                /\ t.interval = Or(args.interval, file'.base.interval)
    OBVIOUS
  <2>1. task \in [Commands -> AddTask \cup WriteTask \cup InitTask \cup {NoEntry}]
    BY <1>1 DEF Inv, TypeOK
  <2>2. AddWrite(c)
    <3>1. \E d \in Commands : InitWrite(d) \/ AddRead(d) \/ AddWrite(d) \/ AddReload(d)
                              \/ (task[d] = NoEntry /\ \E x : task' = [task EXCEPT ![d] = x])
      BY <1>1, <2>1 DEF Next, InitCheck, AddCheck, EditSection, EditServer, Edit, Restart
    <3> QED BY <2>1, <3>1 DEF InitWrite, AddRead, AddWrite, AddReload
  <2> DEFINE f == task[c].text
             args == task[c].args
             t == OverrideTarget(args.name, NewTable(args), f.base)
  <2>3. f \in Files /\ args \in AddArgs /\ file' = Appended(f, args)
    BY <2>1, <2>2 DEF AddWrite, AddTask, WriteTask, InitTask
  <2>4. /\ file'.base = f.base
        /\ TargetsOf(file') = TargetsOf(f) \cup {t} /\ t \notin TargetsOf(f)
    BY <2>3, AppendedTargets
  <2>5. /\ t.name = args.name /\ t.key = args.key
        /\ t.wire = Or(IF args.wire THEN NoEntry ELSE FALSE, f.base.wire)
        /\ t.interval = Or(args.interval, f.base.interval)
    BY DEF OverrideTarget, NewTable
  <2>6. t.wire => args.wire
    <3>1. args.wire \in BOOLEAN
      BY <2>3 DEF AddArgs
    <3> QED BY <2>5, <3>1, SetupAssumption DEF Or
  <2> HIDE DEF t
  <2> QED BY <2>4, <2>5, <2>6
<1>2. Inv /\ [Next]_vars => [Asked]_vars
  BY <1>1
<1> QED BY <1>2, InvHolds, PTL DEF AddedAsAsked, Spec

=============================================================================
