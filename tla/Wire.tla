-------------------------------- MODULE Wire --------------------------------
(***************************************************************************)
(* What a datagram is: the binary packets of protocol.rs, the sealed boxes *)
(* of crypto.rs, and the path of one client cycle through them: client.rs  *)
(* frame_outbound, unframe_inbound and seal_param, server.rs               *)
(* handle_datagram, send_reply, decrypt_param and what handle_response and *)
(* handle_bye do with the parameter.  Datagrams are lost, repeated,        *)
(* delayed, and altered on the way.                                        *)
(*                                                                         *)
(* A fixed-width field is one byte here; only the parameter has a length.  *)
(* Clocks, replay, nonce life and rates are in Handshake and Gate: here a  *)
(* packet whose signature verifies may be answered, or not.                *)
(*                                                                         *)
(* External, the cryptography: a box opens for the key and context it was  *)
(* sealed for, if no byte of it was changed; a signature verifies for the  *)
(* payload it was made over.                                               *)
(***************************************************************************)
EXTENDS Maps, Sequences

CONSTANTS
    Secrets,       \* X25519 key pairs, named by the secret
    Params,        \* parameter texts, sequences of characters
    EarlierParams, \* parameters of a lease from an earlier cycle, or NoEntry
    ParamLimits,   \* values of param_max_len, and of the server's max_param_len
    PacketLimits,  \* values of the server's max_packet_size
    Overhead,      \* what a box adds to its plaintext, 72 bytes
    ReplyOverhead, \* the same of a reply's box, 40 bytes
    LenMod,        \* the length prefix is a u16: 65536
    MaxAttempts,   \* attempts of the cycle
    MaxNonces,     \* bound on the CHALLENGEs sent
    MaxAltered,    \* bound on the datagrams altered
    Me,            \* the client's id
    MAGIC, Cipher, Junk   \* the magic byte, a byte of a ciphertext, any other byte

\* The 60000 that bounds both limits leaves room for the boxes and the header.
ASSUME WireAssumption ==
    /\ Overhead \in Nat \ {0} /\ ReplyOverhead \in Nat \ {0}
    /\ LenMod \in Nat \ {0} /\ \A n \in ParamLimits : n \in Nat \ {0} /\ Overhead + n < LenMod
    /\ Params \subseteq Seq(STRING) /\ EarlierParams \subseteq Params \cup {NoEntry}
    /\ MAGIC # Junk
    /\ PacketLimits \subseteq Nat /\ MaxAttempts \in Nat \ {0}
    /\ MaxNonces \in Nat /\ MaxAltered \in Nat

VARIABLES
    conf,       \* what the two configurations say
    client,     \* the locals of run_cycle and attempt_once
    net,        \* the datagrams on their way to the server and to the client
    issued,     \* the CHALLENGEs sent: nonce -> the hello_nonce of the HELLO answered
    earlier,    \* the client's lease before the cycle: {}, or its parameter in a set
    lease,      \* the client's lease now
    altered,    \* number of datagrams altered
    faulty,     \* the client's own datagrams note_faulty was called for
    sent,       \* history: the datagrams as the client sent them
    built,      \* history: the packets the client built
    accepted,   \* history: the packets whose signature the server verified
    hooks       \* history: the hooks asked for, with their parameter

vars == <<conf, client, net, issued, earlier, lease, altered, faulty, sent, built, accepted, hooks>>

Modes == {"response", "bye"}

-----------------------------------------------------------------------------
(* crypto.rs: sealed boxes.                                                 *)

\* A box as bytes: what it is made from, then ciphertext of its plaintext's length.
Box(made, overhead) ==
    <<made>> \o [i \in 1 .. overhead - 1 + Len(made.inner) |-> Cipher]

IsBox(b) == b # <<>> /\ b[1] \notin {MAGIC, Cipher, Junk}

\* seal: to a public key, from a fresh ephemeral key, for one context.
Seal(pub, eph, inner, context) ==
    Box([to |-> pub, eph |-> eph, context |-> context, inner |-> inner], Overhead)

\* open succeeds; the plaintext is b[1].inner.
Opens(secret, b, context) ==
    IsBox(b) /\ b = Seal(secret, b[1].eph, b[1].inner, context)

\* seal_reply: from the server's static key to the client's ephemeral one, with
\* the HELLO's nonce as associated data.
SealReply(secret, eph, inner, bind) ==
    Box([from |-> secret, eph |-> eph, bind |-> bind, inner |-> inner], ReplyOverhead)

\* A plausible slip: the reply is keyed to the server alone.
MutOpensReply(eph, pub, b, bind) ==
    IsBox(b) /\ b = SealReply(pub, b[1].eph, b[1].inner, b[1].bind)

\* open_reply succeeds; the plaintext is b[1].inner.
OpensReply(eph, pub, b, bind) ==
    IsBox(b) /\ b = SealReply(pub, eph, b[1].inner, bind)

-----------------------------------------------------------------------------
(* protocol.rs: encode and decode.                                          *)

VERSION == 2
Types == {"hello", "challenge"} \cup Modes
Headers == [version : {VERSION, VERSION - 1}, type : Types \cup {"unknown"}]
Header(type) == [version |-> VERSION, type |-> type]

\* A plausible slip: the prefix is too narrow for the parameters allowed.
MutPrefix(param) == [len |-> Len(param) % Overhead]

\* param.len() as u16
Prefix(param) == [len |-> Len(param) % LenMod]
Prefixes == [len : 0 .. LenMod - 1]

\* The sealed parameter is an Option: no parameter is <<>>, which encode writes for
\* it; a box is never empty.
Encode(p) ==
    CASE p.type = "hello" -> <<MAGIC, Header("hello"), p.id, p.time, p.nonce, p.sig>>
      [] p.type = "challenge" -> <<MAGIC, Header("challenge"), p.id, p.nonce, p.exp>>
      [] OTHER -> <<MAGIC, Header(p.type), p.id, p.nonce, p.interval, Prefix(p.param)>>
                  \o p.param \o <<p.sig>>

\* A plausible slip: what follows the packet is ignored.
MutExact(b, n) == Len(b) >= n

\* The reader got everything it asked for and is empty.
Exact(b, n) == Len(b) = n

DecodeAnswer(b) ==
    [type |-> b[2].type, id |-> b[3], nonce |-> b[4], interval |-> b[5],
     param |-> SubSeq(b, 7, 6 + b[6].len), sig |-> b[7 + b[6].len]]

\* The packet, or NoEntry.
Decode(b) ==
    IF Len(b) < 2 \/ b[1] # MAGIC THEN NoEntry
    ELSE CASE b[2] = Header("hello") /\ Exact(b, 6) ->
                [type |-> "hello", id |-> b[3], time |-> b[4], nonce |-> b[5], sig |-> b[6]]
           [] b[2] = Header("challenge") /\ Exact(b, 5) ->
                [type |-> "challenge", id |-> b[3], nonce |-> b[4], exp |-> b[5]]
           [] /\ \E mode \in Modes : b[2] = Header(mode)
              /\ Len(b) >= 7 /\ b[6] \in Prefixes /\ Exact(b, 7 + b[6].len) -> DecodeAnswer(b)
           [] OTHER -> NoEntry

\* hello_signing_payload, response_signing_payload and bye_signing_payload.
HelloPayload(id, time, nonce) == [for |-> "hello", id |-> id, time |-> time, nonce |-> nonce]

\* A plausible slip: RESPONSE and BYE are signed over the same text.
MutAnswerPayload(mode, id, nonce, interval, exp, param) ==
    [for |-> "response", id |-> id, nonce |-> nonce, interval |-> interval, exp |-> exp,
     param |-> param]

AnswerPayload(mode, id, nonce, interval, exp, param) ==
    [for |-> mode, id |-> id, nonce |-> nonce, interval |-> interval, exp |-> exp,
     param |-> param]

-----------------------------------------------------------------------------
(* The values there are.                                                    *)

Keys == Secrets \cup {NoEntry}
Numbers == Nat \cup {Junk}

Confs == [wire : BOOLEAN, pub : Keys, paramMax : ParamLimits,
          serverWire : BOOLEAN, secret : Keys, serverMax : ParamLimits,
          maxPacket : PacketLimits]
Challenges == [nonce : Numbers, exp : Numbers]
Cycle == [pc : {"idle", "hello", "wait", "sign", "done", "failed"}, mode : Modes,
          param : Params \cup {NoEntry}, attempt : 1 .. MaxAttempts,
          challenge : Challenges \cup {NoEntry}]

\* Fresh ephemeral keys: the attempt, and what the box is for.
Ephs == (1 .. MaxAttempts) \X {"hello", "answer", "param"}
ParamBoxes == [to : Keys, eph : Ephs, context : {"param"}, inner : Params]

\* Signing payloads, of an answer with the bytes S in its parameter.
HelloPayloads == [for : {"hello"}, id : {Me}, time : Numbers, nonce : Numbers]
AnswerPayloads(S) ==
    [for : Modes, id : {Me}, nonce : Numbers, interval : Numbers, exp : Numbers, param : Seq(S)]

\* The bytes of a sealed parameter, and those that follow the length prefix.
ParamBytes == ParamBoxes \cup {Cipher}
TailBytes == ParamBytes \cup AnswerPayloads(ParamBytes) \cup {Junk}

Hellos == [type : {"hello"}, id : {Me}, time : Nat, nonce : Nat, sig : HelloPayloads]
ChallengePackets == [type : {"challenge"}, id : {Me}, nonce : Nat, exp : Nat]
Answers == [type : Modes, id : {Me}, nonce : Numbers, interval : Nat, param : Seq(ParamBytes),
            sig : AnswerPayloads(ParamBytes)]

\* The bytes of packets, and what sealed datagrams are made from.
PacketBytes ==
    {MAGIC, Me} \cup Headers \cup Prefixes \cup Numbers \cup HelloPayloads \cup TailBytes
Boxes ==
    [to : Keys, eph : Ephs, context : {"wire"}, inner : Seq(PacketBytes)]
    \cup [from : Keys, eph : Ephs, bind : Nat, inner : Seq(PacketBytes)]

\* A byte that stands for itself is no signature and no box, and NoEntry is no packet.
ASSUME SymbolAssumption ==
    /\ \A byte \in {MAGIC, Cipher, Junk} :
          byte \notin Boxes \cup ParamBoxes \cup HelloPayloads \cup AnswerPayloads(TailBytes)
    /\ NoEntry \notin Hellos \cup ChallengePackets \cup Answers
    /\ NoEntry \notin Params \cup Challenges

TypeOK ==
    /\ conf \in Confs
    /\ client \in Cycle
    /\ issued \in Seq(1 .. MaxAttempts) /\ Len(issued) <= MaxNonces
    /\ built \subseteq Hellos \cup Answers
    /\ altered \in 0 .. MaxAltered
    /\ earlier \subseteq Params \cup {NoEntry} /\ lease \subseteq Params \cup {NoEntry}

-----------------------------------------------------------------------------
(* client.rs.                                                               *)

\* What decrypt_param lets through.
Clean(text) ==
    /\ Len(text) <= conf.serverMax /\ (text = <<>> \/ text[1] # "-")
    /\ \A i \in DOMAIN text : text[i] # "control"

\* The configurations load: sealing needs a key.  The client may hold a lease.
Init ==
    /\ conf \in Confs
    /\ conf.wire => conf.pub # NoEntry
    /\ conf.serverWire => conf.secret # NoEntry
    /\ client = [pc |-> "idle", mode |-> "response", param |-> NoEntry, attempt |-> 1,
                 challenge |-> NoEntry]
    /\ net = [server |-> {}, client |-> {}]
    /\ earlier \in {{}} \cup {{t} : t \in {u \in EarlierParams : u = NoEntry \/ Clean(u)}}
    /\ lease = earlier
    /\ issued = <<>> /\ altered = 0
    /\ faulty = {} /\ sent = {} /\ built = {} /\ accepted = {} /\ hooks = {}

\* validate_param: the limit, and no control characters.
ValidParam(text) == Len(text) <= conf.paramMax /\ \A i \in DOMAIN text : text[i] # "control"

\* run_cycle
Begin(mode, param) ==
    /\ client.pc = "idle"
    /\ param # NoEntry => ValidParam(param)
    /\ client' = [client EXCEPT !.pc = "hello", !.mode = mode, !.param = param]
    /\ UNCHANGED <<conf, net, issued, earlier, lease, altered, faulty, sent, built, accepted, hooks>>

\* A plausible slip: one attempt too many.
MutNextAttempt ==
    IF client.attempt <= MaxAttempts
    THEN [client EXCEPT !.pc = "hello", !.attempt = @ + 1, !.challenge = NoEntry]
    ELSE [client EXCEPT !.pc = "failed"]

\* The attempt failed.
NextAttempt ==
    IF client.attempt < MaxAttempts
    THEN [client EXCEPT !.pc = "hello", !.attempt = @ + 1, !.challenge = NoEntry]
    ELSE [client EXCEPT !.pc = "failed"]

\* Ephemeral keys, fresh for every box.
Eph(use) == <<client.attempt, use>>

\* frame_outbound
Frame(packet, use) ==
    IF conf.wire THEN Seal(conf.pub, Eph(use), Encode(packet), "wire") ELSE Encode(packet)

\* The client sends packet, framed.
Sends(packet, use) ==
    /\ built' = built \cup {packet}
    /\ sent' = sent \cup {Frame(packet, use)}
    /\ net' = [net EXCEPT !.server = @ \cup {Frame(packet, use)}]

\* Steps 1 and 2 of attempt_once; the attempt's number stands for its nonce.
SendHello ==
    /\ client.pc = "hello"
    /\ LET k == client.attempt IN
       Sends([type |-> "hello", id |-> Me, time |-> k, nonce |-> k,
              sig |-> HelloPayload(Me, k, k)], "hello")
    /\ client' = [client EXCEPT !.pc = "wait"]
    /\ UNCHANGED <<conf, issued, earlier, lease, altered, faulty, accepted, hooks>>

\* unframe_inbound and decode: the packet the client makes of a datagram, or NoEntry.
Unframed(d) ==
    IF ~conf.wire THEN Decode(d)
    ELSE IF OpensReply(Eph("hello"), conf.pub, d, client.attempt) THEN Decode(d[1].inner)
    ELSE NoEntry

\* Step 3: the first datagram decides the attempt.
Receive(d) ==
    /\ client.pc = "wait"
    /\ d \in net.client
    /\ LET p == Unframed(d)
       IN  client' = IF p # NoEntry /\ p.type = "challenge" /\ p.id = Me
                     THEN [client EXCEPT !.pc = "sign",
                                         !.challenge = [nonce |-> p.nonce, exp |-> p.exp]]
                     ELSE NextAttempt
    /\ UNCHANGED <<conf, net, issued, earlier, lease, altered, faulty, sent, built, accepted, hooks>>

TimeOut ==
    /\ client.pc = "wait"
    /\ client' = NextAttempt
    /\ UNCHANGED <<conf, net, issued, earlier, lease, altered, faulty, sent, built, accepted, hooks>>

\* Steps 4 to 6.  seal_param fails without the server's key.
SendAnswer ==
    /\ client.pc = "sign"
    /\ IF client.param # NoEntry /\ conf.pub = NoEntry
       THEN client' = NextAttempt /\ UNCHANGED <<net, sent, built>>
       ELSE LET param == IF client.param = NoEntry THEN <<>>
                         ELSE Seal(conf.pub, Eph("param"), client.param, "param")
                c == client.challenge
            IN  /\ Sends([type |-> client.mode, id |-> Me, nonce |-> c.nonce, interval |-> 1,
                          param |-> param,
                          sig |-> AnswerPayload(client.mode, Me, c.nonce, 1, c.exp, param)], "answer")
                /\ client' = [client EXCEPT !.pc = "done"]
    /\ UNCHANGED <<conf, issued, earlier, lease, altered, faulty, accepted, hooks>>

-----------------------------------------------------------------------------
(* server.rs.                                                               *)

\* handle_datagram, its first steps: the packet the server makes of a datagram, or
\* NoEntry: a faulty one.
Parsed(d) ==
    IF ~conf.serverWire THEN Decode(d)
    ELSE IF Opens(conf.secret, d, "wire") THEN Decode(d[1].inner)
    ELSE NoEntry

\* run drops what is longer than max_packet_size, uncounted.
Arrives(d) == d \in net.server /\ Len(d) <= conf.maxPacket

\* note_faulty, remembered for what the client sent.
HandleFaulty(d) ==
    /\ Arrives(d)
    /\ Parsed(d) = NoEntry
    /\ faulty' = faulty \cup ({d} \cap sent)
    /\ UNCHANGED <<conf, client, net, issued, earlier, lease, altered, sent, built, accepted, hooks>>

\* send_reply: sealed if the HELLO was, for the HELLO's ephemeral key and nonce.
Reply(challenge, d, bind) ==
    IF conf.serverWire THEN SealReply(conf.secret, d[1].eph, Encode(challenge), bind)
    ELSE Encode(challenge)

\* handle_hello, for a HELLO it answers.  The nonce is new, and names its expiry.
HandleHello(d) ==
    /\ Arrives(d)
    /\ LET p == Parsed(d)
           n == Len(issued) + 1
       IN  /\ p # NoEntry /\ p.type = "hello" /\ p.id = Me
           /\ p.sig = HelloPayload(p.id, p.time, p.nonce)
           /\ n <= MaxNonces
           /\ issued' = Append(issued, p.nonce)
           /\ accepted' = accepted \cup {p}
           /\ net' = [net EXCEPT !.client =
                 @ \cup {Reply([type |-> "challenge", id |-> p.id, nonce |-> n, exp |-> n], d, p.nonce)}]
    /\ UNCHANGED <<conf, client, earlier, lease, altered, faulty, sent, built, hooks>>

\* A plausible slip: a parameter that is refused counts as none.
MutDecryptParam(blob) ==
    IF blob # <<>> /\ conf.secret # NoEntry /\ Opens(conf.secret, blob, "param") /\ Clean(blob[1].inner)
    THEN {blob[1].inner} ELSE {NoEntry}

\* decrypt_param: the parameter, NoEntry if there is none; {} if it is refused.
DecryptParam(blob) ==
    IF blob = <<>> THEN {NoEntry}
    ELSE IF conf.secret # NoEntry /\ Opens(conf.secret, blob, "param") /\ Clean(blob[1].inner)
    THEN {blob[1].inner}
    ELSE {}

\* handle_response and handle_bye, for a live nonce: the packet that is verified.
Verifies(d, mode) ==
    /\ Arrives(d)
    /\ LET p == Parsed(d) IN
       /\ p # NoEntry /\ p.type = mode /\ p.id = Me
       /\ p.nonce \in DOMAIN issued
       /\ p.sig = AnswerPayload(mode, p.id, p.nonce, p.interval, p.nonce, p.param)
       /\ accepted' = accepted \cup {p}
    /\ UNCHANGED <<conf, client, net, issued, earlier, altered, faulty, sent, built>>

Calls(mode, params) == {[mode |-> mode, param |-> t] : t \in params}

\* handle_response: the lease keeps the parameter; the grant hook is asked for unless
\* the lease is not new and the cooldown runs.
HandleResponse(d) ==
    /\ Verifies(d, "response")
    /\ LET param == DecryptParam(Parsed(d).param) IN
       /\ lease' = IF param = {} THEN lease ELSE param
       /\ \/ hooks' = hooks \cup Calls("response", param)
          \/ lease # {} /\ UNCHANGED hooks

\* bye_param.or(e.param)
RevokeParam(byeParam, stored) == IF byeParam = NoEntry THEN stored ELSE byeParam

\* handle_bye: without a lease there is nothing to revoke, and without a revoke hook
\* the lease ends all the same.
HandleBye(d) ==
    /\ Verifies(d, "bye")
    /\ LET param == DecryptParam(Parsed(d).param) IN
       /\ lease' = IF param = {} THEN lease ELSE {}
       /\ \/ hooks' = hooks \cup Calls("bye", {RevokeParam(t, stored) : t \in param, stored \in lease})
          \/ UNCHANGED hooks

-----------------------------------------------------------------------------
(* The network: a datagram stays and may arrive again; this one arrives     *)
(* shorter, longer or with one byte changed.                                *)

Changes(b, i) ==
    IF i = 2 /\ b[1] = MAGIC THEN Headers
    ELSE IF i = 6 /\ b[1] = MAGIC /\ b[2].type \in Modes THEN Prefixes ELSE {Junk}

Alterations(b) ==
    {SubSeq(b, 1, n) : n \in 0 .. Len(b) - 1} \cup {Append(b, Junk)}
    \cup UNION {{[b EXCEPT ![i] = x] : x \in Changes(b, i)} : i \in DOMAIN b}

Alter ==
    /\ altered < MaxAltered
    /\ altered' = altered + 1
    /\ \/ \E d \in sent : \E b \in Alterations(d) \ {d} :
             net' = [net EXCEPT !.server = @ \cup {b}]
       \/ \E d \in net.client : \E b \in Alterations(d) \ {d} :
             net' = [net EXCEPT !.client = @ \cup {b}]
    /\ UNCHANGED <<conf, client, issued, earlier, lease, faulty, sent, built, accepted, hooks>>

Next ==
    \/ \E mode \in Modes, param \in Params \cup {NoEntry} : Begin(mode, param)
    \/ SendHello \/ TimeOut \/ SendAnswer
    \/ \E d \in net.client : Receive(d)
    \/ \E d \in net.server :
          HandleFaulty(d) \/ HandleHello(d) \/ HandleResponse(d) \/ HandleBye(d)
    \/ Alter

Spec == Init /\ [][Next]_vars

-----------------------------------------------------------------------------
(* Properties.                                                              *)

(* Packet::decode: a packet has one encoding.  Whatever arrived, cut short, *)
(* longer or changed, is exactly the encoding of what decode made of it.    *)
OneEncoding ==
    \A d \in net.server \cup net.client : Decode(d) # NoEntry => Encode(Decode(d)) = d

(* The signing payloads: in cleartext too, what the server verifies is what *)
(* the client built, a BYE as a BYE, with or without its parameter, however *)
(* it was altered on the way and whatever CHALLENGE the client was given.   *)
AcceptedAsBuilt == accepted \subseteq built

(* encode, seal and the limits of the configuration: when both sides agree  *)
(* on encryption and key, nothing the client sends is ever malformed to the *)
(* server, so its own traffic cannot get its IP blacklisted.                *)
Agree == conf.wire = conf.serverWire /\ (conf.wire => conf.pub = conf.secret)
OwnTrafficFaultless == Agree => faulty = {}

(* seal_param, decrypt_param and the hooks: a grant runs with the parameter *)
(* of the client's cycle, an empty one included.  A BYE's revoke runs with  *)
(* the BYE's parameter or, if it has none, with that of the lease it ends,  *)
(* and only if there was one.                                               *)
ParamReachesHook ==
    \A h \in hooks :
        /\ h.mode = client.mode
        /\ h.mode = "response" => h.param = client.param
        /\ h.mode = "bye" =>
              earlier # {} /\ (IF client.param # NoEntry THEN h.param = client.param
                                                        ELSE h.param \in earlier)

(* seal_reply and open_reply: with encryption the CHALLENGE a client signs  *)
(* for is one its server sent, unaltered, for the HELLO of this attempt,    *)
(* however many replies to earlier attempts arrive late.                    *)
ReplyIsForHello ==
    conf.wire /\ client.challenge # NoEntry =>
        LET c == client.challenge IN
        /\ conf.pub = conf.secret
        /\ c.nonce \in DOMAIN issued /\ c.exp = c.nonce
        /\ issued[c.nonce] = client.attempt

=============================================================================
