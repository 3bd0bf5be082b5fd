------------------------------ MODULE Handshake -----------------------------
(***************************************************************************)
(* The authentication half of the server: handle_hello, and handle_response*)
(* / handle_bye up to the point where a pulse or a release is accepted.    *)
(* Datagrams are handled by tasks on a multi-threaded runtime, so one      *)
(* action is the code between two accesses to shared state (the wall       *)
(* clock, the replay cache, the nonce store) and the actions of different  *)
(* tasks, the cleanup tick, clock steps and restarts interleave freely.    *)
(*                                                                         *)
(* The network loses, duplicates, delays and reorders: a datagram that was *)
(* ever signed can be received at any time, from any endpoint, any number  *)
(* of times, and so can one without a valid signature.  Ed25519 is assumed *)
(* unforgeable: a signature verifies only for a payload its owner signed.  *)
(***************************************************************************)
EXTENDS SeenCache, NonceStore, FiniteSets

CONSTANTS
    ClientIds,       \* client ids that appear in packets
    Configured,      \* the ones in self.clients
    Endpoints,       \* UDP source endpoints (IP and port)
    HelloNonces,     \* the clients' 16-byte HELLO nonces
    Nonces,          \* the server's 32-byte challenge nonces
    Bodies,          \* (interval, sealed param) of a RESPONSE or BYE
    BadBodies,       \* the ones decrypt_param rejects
    HelloTasks,      \* tasks handling a HELLO
    AnswerTasks,     \* tasks handling a RESPONSE or a BYE
    Skew,            \* hello_max_skew_seconds
    NonceTtl,        \* nonce_ttl_seconds
    MaxClock,        \* bound on the clock, for TLC
    MaxAnswers,      \* bound on the answers the clients sign, for TLC
    StepBack,        \* whether the wall clock may be set back
    Cleartext        \* wire_encryption = "off": a CHALLENGE is not authenticated

ASSUME ClientsAssumption == Configured \subseteq ClientIds /\ BadBodies \subseteq Bodies
ASSUME TimeAssumption ==
    /\ Skew \in Nat \ {0} /\ NonceTtl \in Nat \ {0}       \* ServerConfig::validate
    /\ MaxClock \in Nat /\ MaxClock <= I64Max
    /\ StepBack \in BOOLEAN /\ Cleartext \in BOOLEAN

HelloKeys == ClientIds \X HelloNonces    \* replay_key: client_id, 0, hello_nonce
Kinds == {"response", "bye"}
Times == 0 .. MaxClock
Expiries == 0 .. MaxClock + NonceTtl

Bindings == [client : ClientIds, peer : Endpoints, hello : HelloKeys, at : I64, exp : I64]
Answers == [kind : Kinds, client : ClientIds, nonce : Nonces, exp : Int, body : Bodies]

HelloTask == [pc : {"fresh", "seen", "issue"}, key : HelloKeys, ts : Int,
              peer : Endpoints, valid : BOOLEAN, now : I64]
AnswerTask == [pc : {"validate", "consume"}, kind : Kinds, client : ClientIds,
               nonce : Nonces, body : Bodies, peer : Endpoints,
               sig : Answers \cup {NoEntry}, exp : I64]
Accepts == [kind : Kinds, client : ClientIds, nonce : Nonces, body : Bodies, peer : Endpoints]

ASSUME RecordAssumption ==
    /\ NoEntry \notin Bindings
    /\ NoEntry \notin Answers
    /\ NoEntry \notin NonceEntries(ClientIds, Endpoints)
    /\ NoEntry \notin HelloTask
    /\ NoEntry \notin AnswerTask

VARIABLES
    clock,       \* SystemTime::now, in seconds
    signedTs,    \* the timestamp each client signed for its HELLO nonce
    answers,     \* the RESPONSE and BYE payloads the clients have signed
    seen,        \* Server.seen_hellos
    nonces,      \* Server.nonce_store
    htask,       \* HelloTasks -> the locals of handle_hello
    atask,       \* AnswerTasks -> the locals of handle_response / handle_bye
    issued,      \* history: what each nonce was issued for
    challenged,  \* history: the nonces sent in a CHALLENGE
    accepted,    \* history: how often each HELLO was accepted since the start
    consumed,    \* history: how often each nonce was consumed
    verified     \* history: the pulses and releases accepted

vars == <<clock, signedTs, answers, seen, nonces, htask, atask,
          issued, challenged, accepted, consumed, verified>>
clientVars == <<signedTs, answers>>
historyVars == <<issued, challenged, accepted, consumed, verified>>

TypeOK ==
    /\ clock \in Times
    /\ signedTs \in [HelloKeys -> Int \cup {NoEntry}]
    /\ answers \subseteq Answers
    /\ seen \in [HelloKeys -> I64 \cup {NoEntry}]
    /\ nonces \in [Nonces -> NonceEntries(ClientIds, Endpoints) \cup {NoEntry}]
    /\ htask \in [HelloTasks -> HelloTask \cup {NoEntry}]
    /\ atask \in [AnswerTasks -> AnswerTask \cup {NoEntry}]
    /\ issued \in [Nonces -> Bindings \cup {NoEntry}]
    /\ challenged \subseteq Nonces
    /\ accepted \in [HelloKeys -> Nat]
    /\ consumed \in [Nonces -> Nat]
    /\ verified \subseteq Accepts

Init ==
    /\ clock = 0
    /\ signedTs = Empty(HelloKeys)
    /\ answers = {}
    /\ seen = Empty(HelloKeys)
    /\ nonces = Empty(Nonces)
    /\ htask = Empty(HelloTasks)
    /\ atask = Empty(AnswerTasks)
    /\ issued = Empty(Nonces)
    /\ challenged = {}
    /\ accepted = [k \in HelloKeys |-> 0]
    /\ consumed = [n \in Nonces |-> 0]
    /\ verified = {}

-----------------------------------------------------------------------------
(* The clients: what they sign.  Each attempt draws a fresh HELLO nonce.    *)

\* response_signing_payload and bye_signing_payload: the canonical payload names
\* its kind and every field; the body is the interval and the sealed parameter.
SigningPayload(kind, c, n, exp, body) ==
    [kind |-> kind, client |-> c, nonce |-> n, exp |-> exp, body |-> body]

SignHello(k, ts) ==
    /\ signedTs[k] = NoEntry
    /\ signedTs' = [signedTs EXCEPT ![k] = ts]
    /\ UNCHANGED <<clock, answers, seen, nonces, htask, atask>>
    /\ UNCHANGED historyVars

\* The CHALLENGE c answers names nonce n and expiry exp.  With sealed replies it
\* is the one the server sent; in cleartext mode anybody can have made it up.
SignAnswer(kind, c, n, exp, body) ==
    /\ Cardinality(answers) < MaxAnswers
    /\ Cleartext \/ (n \in challenged /\ issued[n].client = c /\ issued[n].exp = exp)
    /\ answers' = answers \cup {SigningPayload(kind, c, n, exp, body)}
    /\ UNCHANGED <<clock, signedTs, seen, nonces, htask, atask>>
    /\ UNCHANGED historyVars

-----------------------------------------------------------------------------
(* handle_hello.                                                            *)

\* The receive loop spawns a task.  Bound: enough unissued nonces are left.
RecvHello(t, k, ts, peer, valid) ==
    /\ htask[t] = NoEntry
    /\ valid => signedTs[k] = ts
    /\ Cardinality({n \in Nonces : issued[n] = NoEntry})
          > Cardinality({u \in HelloTasks : htask[u] # NoEntry})
    /\ htask' = [htask EXCEPT ![t] =
          [pc |-> "fresh", key |-> k, ts |-> ts, peer |-> peer, valid |-> valid, now |-> 0]]
    /\ UNCHANGED <<clock, clientVars, seen, nonces, atask>>
    /\ UNCHANGED historyVars

\* note_rejected and return: here, the task only goes away.
HelloReject(t) ==
    /\ htask' = [htask EXCEPT ![t] = NoEntry]
    /\ UNCHANGED seen

\* A plausible slip: the signature is not looked at.
MutHelloAuthentic(h) == h.key[1] \in Configured

\* Steps 2 and 3: a configured client and a valid signature.
HelloAuthentic(h) == h.key[1] \in Configured /\ h.valid

\* A plausible slip: timestamps from the future pass.
MutInWindow(now, ts) == now - ts <= Skew

\* (now - client_timestamp).abs() <= skew, in i128.
InWindow(now, ts) == now - ts <= Skew /\ ts - now <= Skew

\* Steps 1 to 4.  The rate limiter may refuse any HELLO.  The clock read here
\* is the one the replay cache and the nonce expiry use later.
HelloFresh(t) ==
    /\ htask[t] # NoEntry /\ htask[t].pc = "fresh"
    /\ \/ HelloReject(t)
       \/ /\ HelloAuthentic(htask[t])
          /\ InWindow(clock, htask[t].ts)
          /\ htask' = [htask EXCEPT ![t].pc = "seen", ![t].now = clock]
          /\ UNCHANGED seen
    /\ UNCHANGED <<clock, clientVars, nonces, atask>>
    /\ UNCHANGED historyVars

\* A plausible slip: remember a HELLO for one skew only.
MutSeenTtl == Skew

\* hello_max_skew_seconds.saturating_mul(2)
SeenTtl == 2 * Skew

\* Step 5: insert_if_absent, with the clock read in HelloFresh.
HelloSeen(t) ==
    /\ htask[t] # NoEntry /\ htask[t].pc = "seen"
    /\ LET k == htask[t].key
           now == htask[t].now
       IN  \/ /\ SeenLive(seen, k, now)
              /\ HelloReject(t)
              /\ UNCHANGED accepted
           \/ /\ ~SeenLive(seen, k, now)
              /\ seen' = SeenInsert(seen, k, now, SeenTtl)
              /\ accepted' = [accepted EXCEPT ![k] = @ + 1]
              /\ htask' = [htask EXCEPT ![t].pc = "issue"]
    /\ UNCHANGED <<clock, clientVars, nonces, atask, issued, challenged, consumed, verified>>

\* send_reply: sealing or sending the CHALLENGE may fail, which is only logged.
SendReply(n) == challenged' = challenged \/ challenged' = challenged \cup {n}

\* Mint a nonce, store it, send the CHALLENGE.
HelloIssue(t, n) ==
    /\ htask[t] # NoEntry /\ htask[t].pc = "issue"
    /\ issued[n] = NoEntry                       \* Nonce::generate never repeats
    /\ LET h == htask[t]
           exp == Deadline(h.now, NonceTtl)
       IN  /\ nonces' = StoreInsert(nonces, n, h.key[1], h.peer, exp)
           /\ issued' = [issued EXCEPT ![n] =
                 [client |-> h.key[1], peer |-> h.peer, hello |-> h.key,
                  at |-> h.now, exp |-> exp]]
           /\ SendReply(n)
    /\ htask' = [htask EXCEPT ![t] = NoEntry]
    /\ UNCHANGED <<clock, clientVars, seen, atask, accepted, consumed, verified>>

-----------------------------------------------------------------------------
(* handle_response and handle_bye, which authenticate in the same way.      *)

RecvAnswer(t, kind, c, n, body, peer, sig) ==
    /\ atask[t] = NoEntry
    /\ sig \in answers \cup {NoEntry}
    /\ atask' = [atask EXCEPT ![t] =
          [pc |-> "validate", kind |-> kind, client |-> c, nonce |-> n, body |-> body,
           peer |-> peer, sig |-> sig, exp |-> 0]]
    /\ UNCHANGED <<clock, clientVars, seen, nonces, htask>>
    /\ UNCHANGED historyVars

\* A plausible slip: consume the nonce where the code only peeks at it.
MutAnswerValidate(t) ==
    /\ atask[t] # NoEntry /\ atask[t].pc = "validate"
    /\ LET a == atask[t] IN
       /\ a.client \in Configured /\ Consumes(nonces, a.nonce, a.client, a.peer, clock)
       /\ nonces' = StoreConsume(nonces, a.nonce)
       /\ atask' = [atask EXCEPT ![t].pc = "consume", ![t].exp = nonces[a.nonce].exp]
    /\ UNCHANGED <<clock, clientVars, seen, htask>>
    /\ UNCHANGED historyVars

\* Steps 1 and 2: a configured client; peek at the nonce and keep its expiry.
AnswerValidate(t) ==
    /\ atask[t] # NoEntry /\ atask[t].pc = "validate"
    /\ LET a == atask[t]
           ok == a.client \in Configured /\ Validates(nonces, a.nonce, a.client, a.peer, clock)
       IN  atask' = IF ok
                    THEN [atask EXCEPT ![t].pc = "consume", ![t].exp = nonces[a.nonce].exp]
                    ELSE [atask EXCEPT ![t] = NoEntry]
    /\ UNCHANGED <<clock, clientVars, seen, nonces, htask>>
    /\ UNCHANGED historyVars

\* A plausible slip: the body is left out of the signed payload.
MutSigValid(a) ==
    a.sig = SigningPayload(a.kind, a.client, a.nonce, a.exp,
                           IF a.sig = NoEntry THEN a.body ELSE a.sig.body)

\* Step 3: the signature is over the canonical payload of this kind, with the
\* packet's fields and the expiry from the nonce store.
SigValid(a) == a.sig = SigningPayload(a.kind, a.client, a.nonce, a.exp, a.body)

\* decrypt_param: no parameter, or one that opens, is short and clean text and
\* does not start with a dash.
Decrypts(body) == body \notin BadBodies

\* Steps 3 to 5: verify, consume atomically, decrypt the parameter.
AnswerConsume(t) ==
    /\ atask[t] # NoEntry /\ atask[t].pc = "consume"
    /\ LET a == atask[t]
           ok == SigValid(a) /\ Consumes(nonces, a.nonce, a.client, a.peer, clock)
       IN  /\ nonces' = IF ok THEN StoreConsume(nonces, a.nonce) ELSE nonces
           /\ consumed' = IF ok THEN [consumed EXCEPT ![a.nonce] = @ + 1] ELSE consumed
           /\ verified' = IF ok /\ Decrypts(a.body)
                          THEN verified \cup {[kind |-> a.kind, client |-> a.client,
                                 nonce |-> a.nonce, body |-> a.body, peer |-> a.peer]}
                          ELSE verified
    /\ atask' = [atask EXCEPT ![t] = NoEntry]
    /\ UNCHANGED <<clock, clientVars, seen, htask, issued, challenged, accepted>>

-----------------------------------------------------------------------------
(* The clock, the cleanup tick and restarts.                                *)

Tick ==
    /\ clock < MaxClock
    /\ clock' = clock + 1
    /\ UNCHANGED <<clientVars, seen, nonces, htask, atask>>
    /\ UNCHANGED historyVars

\* SystemTime is not monotonic: an administrator or NTP may set it back.
SetBack(now) ==
    /\ StepBack
    /\ now < clock
    /\ clock' = now
    /\ UNCHANGED <<clientVars, seen, nonces, htask, atask>>
    /\ UNCHANGED historyVars

\* The nonce_store and seen_hellos part of the five-second cleanup tick.
Cleanup ==
    /\ nonces' = StorePurge(nonces, clock)
    /\ seen' = SeenPurge(seen, clock)
    /\ UNCHANGED <<clock, clientVars, htask, atask>>
    /\ UNCHANGED historyVars

\* Everything the server keeps is in memory; its tasks die with it.
Restart ==
    /\ seen' = Empty(HelloKeys)
    /\ nonces' = Empty(Nonces)
    /\ htask' = Empty(HelloTasks)
    /\ atask' = Empty(AnswerTasks)
    /\ accepted' = [k \in HelloKeys |-> 0]
    /\ UNCHANGED <<clock, clientVars, issued, challenged, consumed, verified>>

Next ==
    \/ \E k \in HelloKeys, ts \in Times : SignHello(k, ts)
    \/ \E kind \in Kinds, c \in ClientIds, n \in Nonces, exp \in Expiries, body \in Bodies :
          SignAnswer(kind, c, n, exp, body)
    \/ \E t \in HelloTasks, k \in HelloKeys, ts \in Times, peer \in Endpoints, valid \in BOOLEAN :
          RecvHello(t, k, ts, peer, valid)
    \/ \E t \in HelloTasks : HelloFresh(t) \/ HelloSeen(t)
    \/ \E t \in HelloTasks, n \in Nonces : HelloIssue(t, n)
    \/ \E t \in AnswerTasks, kind \in Kinds, c \in ClientIds, n \in Nonces,
          body \in Bodies, peer \in Endpoints, sig \in answers \cup {NoEntry} :
          RecvAnswer(t, kind, c, n, body, peer, sig)
    \/ \E t \in AnswerTasks : AnswerValidate(t) \/ AnswerConsume(t)
    \/ Tick
    \/ \E now \in Times : SetBack(now)
    \/ Cleanup
    \/ Restart

Spec == Init /\ [][Next]_vars

-----------------------------------------------------------------------------
(* Properties.                                                              *)

(* seen_cache.rs and handle_hello step 5: while the clock is still inside a *)
(* HELLO's skew window, that HELLO has been accepted at most once, whatever *)
(* the interleaving of duplicate tasks and cleanup ticks; the clock read    *)
(* that decides is older than the insertion it decides.                     *)
HelloSingleUse ==
    \A k \in HelloKeys : accepted[k] > 1 => clock > signedTs[k] + Skew

(* nonce_store.rs consume: a challenge nonce authorises at most one action, *)
(* a pulse or a release, even for duplicates that both passed validate,     *)
(* across purges, clock steps in both directions and restarts.              *)
NonceSingleUse == \A n \in Nonces : consumed[n] <= 1

(* handle_response and handle_bye: what is accepted was signed by that      *)
(* client as that kind of packet with that body, for a nonce the server     *)
(* issued to that client at the very endpoint it came from.                 *)
AcceptedIsAuthentic ==
    \A v \in verified :
        /\ issued[v.nonce] # NoEntry
        /\ issued[v.nonce].client = v.client
        /\ issued[v.nonce].peer = v.peer
        /\ [kind |-> v.kind, client |-> v.client, nonce |-> v.nonce,
            exp |-> issued[v.nonce].exp, body |-> v.body] \in answers

(* validate before verify before consume: a nonce is burnt only by an       *)
(* answer its own client signed, so a packet without a valid signature      *)
(* cannot take a client's nonce away.                                       *)
BurntBySignerOnly ==
    \A n \in Nonces : nonces[n] # NoEntry /\ nonces[n].used =>
        \E s \in answers : s.nonce = n /\ s.client = nonces[n].client /\ s.exp = nonces[n].exp

(* The silent-drop policy (handle_datagram): a CHALLENGE goes out only for  *)
(* a HELLO that a configured client signed, within the skew window of the   *)
(* clock its expiry is computed from.                                       *)
ChallengeOnlyValidHello ==
    \A n \in challenged :
        LET b == issued[n] IN
        /\ b # NoEntry
        /\ b.client \in Configured /\ b.client = b.hello[1]
        /\ signedTs[b.hello] # NoEntry
        /\ b.at - signedTs[b.hello] \in -Skew .. Skew

-----------------------------------------------------------------------------
(* The contract that handle_hello, handle_response and handle_bye implement. *)

Orders == [kind : Kinds, client : ClientIds, nonce : Nonces, body : Bodies]

OrderOf(a) == [kind |-> a.kind, client |-> a.client, nonce |-> a.nonce, body |-> a.body]

\* A nonce is live while the store holds it unused, and void once the store has
\* dropped it.
LifeOf(n) ==
    CASE issued[n] = NoEntry -> "unissued"
      [] issued[n] # NoEntry /\ consumed[n] > 0 -> "spent"
      [] issued[n] # NoEntry /\ consumed[n] = 0 /\ nonces[n] # NoEntry -> "live"
      [] OTHER -> "void"

HolderOf(n) ==
    IF issued[n] = NoEntry THEN NoEntry ELSE <<issued[n].client, issued[n].peer>>

Contract == INSTANCE NonceContract WITH
    Tickets <- Nonces,
    Clients <- ClientIds,
    life <- [n \in Nonces |-> LifeOf(n)],
    holder <- [n \in Nonces |-> HolderOf(n)],
    signed <- {OrderOf(a) : a \in answers},
    done <- {<<OrderOf(v), v.peer>> : v \in verified}

(* The two-step peek-then-consume of the answer handlers, with duplicates,  *)
(* purges, clock steps and restarts between the steps, does what a single   *)
(* atomic spend of the ticket would do: nothing is accepted but a signed    *)
(* order on a live ticket of its holder, and no ticket comes back to life.  *)
ImplementsContract == Contract!Spec

=============================================================================
