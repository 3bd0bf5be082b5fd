-------------------------- MODULE HandshakeProofs ---------------------------
(***************************************************************************)
(* Proofs about Handshake, for every set of clients, endpoints, nonces and *)
(* tasks and every skew, TTL and clock range.                              *)
(***************************************************************************)
EXTENDS Handshake, TLAPS

-----------------------------------------------------------------------------
(* The inductive invariants.                                               *)

\* An entry of the store is the one HelloIssue made, and its used flag counts
\* the consumptions; a nonce that was never issued was never consumed.
StoreInv ==
    \A n \in Nonces :
        /\ nonces[n] # NoEntry =>
              /\ issued[n] # NoEntry
              /\ nonces[n].client = issued[n].client
              /\ nonces[n].peer = issued[n].peer
              /\ nonces[n].exp = issued[n].exp
              /\ ~nonces[n].used => consumed[n] = 0
        /\ issued[n] = NoEntry => consumed[n] = 0

\* An answer past validate carries the expiry of the nonce it names, and the
\* signature it arrived with is one a client made.
AnswerInv ==
    \A t \in AnswerTasks : atask[t] # NoEntry =>
        /\ atask[t].sig \in answers \cup {NoEntry}
        /\ atask[t].pc = "consume" =>
              /\ issued[atask[t].nonce] # NoEntry
              /\ atask[t].exp = issued[atask[t].nonce].exp

\* A HELLO marked valid was signed with its timestamp, and one past the
\* freshness check is authentic and was in the window when the clock was read.
HelloInv ==
    \A t \in HelloTasks : htask[t] # NoEntry =>
        /\ htask[t].valid => signedTs[htask[t].key] = htask[t].ts
        /\ htask[t].pc # "fresh" =>
              /\ htask[t].valid
              /\ htask[t].key[1] \in Configured
              /\ htask[t].now - htask[t].ts \in -Skew .. Skew

\* Every nonce, sent or not, was issued for an authentic HELLO.
IssueInv ==
    \A n \in Nonces :
        /\ n \in challenged => issued[n] # NoEntry
        /\ issued[n] # NoEntry =>
              /\ issued[n].client \in Configured
              /\ issued[n].client = issued[n].hello[1]
              /\ signedTs[issued[n].hello] # NoEntry
              /\ issued[n].at - signedTs[issued[n].hello] \in -Skew .. Skew

NonceInv ==
    StoreInv /\ AnswerInv /\ NonceSingleUse /\ AcceptedIsAuthentic /\ BurntBySignerOnly

\* A HELLO accepted in this run of the server is still in the replay cache, with
\* an expiry that covers its window, or the clock has left the window; and no
\* task holds a clock reading from the future.
SeenInv ==
    /\ \A k \in HelloKeys : accepted[k] > 0 =>
          /\ signedTs[k] # NoEntry
          /\ \/ clock > signedTs[k] + Skew
             \/ /\ seen[k] # NoEntry
                /\ accepted[k] = 1
                /\ seen[k] >= signedTs[k] + Skew \/ seen[k] = I64Max
    /\ \A t \in HelloTasks : htask[t] # NoEntry => htask[t].now <= clock

-----------------------------------------------------------------------------
(* Lemmas about the operators.                                             *)

(* UnixTime: a deadline computed from an i64 clock is an i64, and is either   *)
(* the exact sum or the largest i64.                                        *)
LEMMA DeadlineLemma ==
    ASSUME NEW now \in I64, NEW ttl \in Nat
    PROVE  /\ Deadline(now, ttl) \in I64
           /\ Deadline(now, ttl) = now + ttl \/ Deadline(now, ttl) = I64Max
  BY I64MaxAssumption DEF Deadline, I64

(* The replay cache's TTL is a natural number.                              *)
LEMMA SeenTtlLemma == SeenTtl \in Nat
  BY TimeAssumption DEF SeenTtl

(* The clock is an i64.                                                     *)
LEMMA ClockLemma == Times \subseteq I64
  BY TimeAssumption, I64MaxAssumption DEF Times, I64

-----------------------------------------------------------------------------
(* Type correctness.                                                       *)

(* The initial state is well typed.                                         *)
LEMMA InitType == Init => TypeOK
  BY TimeAssumption DEF Init, TypeOK, Times, Empty

(* Every step keeps the types.                                              *)
LEMMA NextType == TypeOK /\ [Next]_vars => TypeOK'
  <1> SUFFICES ASSUME TypeOK, [Next]_vars PROVE TypeOK'
      OBVIOUS
  <1> USE DEF TypeOK
  <1>1. ASSUME NEW k \in HelloKeys, NEW ts \in Times, SignHello(k, ts) PROVE TypeOK'
        BY <1>1 DEF SignHello, historyVars, Times
  <1>2. ASSUME NEW kind \in Kinds, NEW c \in ClientIds, NEW n \in Nonces,
               NEW exp \in Expiries, NEW body \in Bodies, SignAnswer(kind, c, n, exp, body)
        PROVE  TypeOK'
    <2>1. exp \in Int
          BY TimeAssumption DEF Expiries
    <2> QED
        BY <1>2, <2>1 DEF SignAnswer, SigningPayload, historyVars, Answers
  <1>3. ASSUME NEW t \in HelloTasks, NEW k \in HelloKeys, NEW ts \in Times,
               NEW peer \in Endpoints, NEW valid \in BOOLEAN, RecvHello(t, k, ts, peer, valid)
        PROVE  TypeOK'
        BY <1>3, I64MaxAssumption DEF RecvHello, historyVars, clientVars, HelloTask, Times, I64
  <1>4. ASSUME NEW t \in HelloTasks, HelloFresh(t) PROVE TypeOK'
        BY <1>4, ClockLemma DEF HelloFresh, HelloReject, historyVars, clientVars, HelloTask
  <1>5. ASSUME NEW t \in HelloTasks, HelloSeen(t) PROVE TypeOK'
    <2>1. htask[t].now \in I64 /\ htask[t].key \in HelloKeys
          BY <1>5 DEF HelloSeen, HelloTask
    <2>2. Deadline(htask[t].now, SeenTtl) \in I64
          BY <2>1, DeadlineLemma, SeenTtlLemma
    <2> QED
        BY <1>5, <2>1, <2>2
        DEF HelloSeen, HelloReject, SeenInsert, clientVars, HelloTask
  <1>6. ASSUME NEW t \in HelloTasks, NEW n \in Nonces, HelloIssue(t, n) PROVE TypeOK'
    <2>1. /\ htask[t].now \in I64 /\ htask[t].key \in HelloKeys
          /\ htask[t].peer \in Endpoints /\ htask[t].key[1] \in ClientIds
          BY <1>6 DEF HelloIssue, SendReply, HelloTask, HelloKeys
    <2>2. Deadline(htask[t].now, NonceTtl) \in I64
          BY <2>1, DeadlineLemma, TimeAssumption
    <2> QED
        BY <1>6, <2>1, <2>2
        DEF HelloIssue, SendReply, StoreInsert, NonceEntries, Bindings, clientVars
  <1>7. ASSUME NEW t \in AnswerTasks, NEW kind \in Kinds, NEW c \in ClientIds,
               NEW n \in Nonces, NEW body \in Bodies, NEW peer \in Endpoints,
               NEW sig \in answers \cup {NoEntry}, RecvAnswer(t, kind, c, n, body, peer, sig)
        PROVE  TypeOK'
        BY <1>7, I64MaxAssumption DEF RecvAnswer, historyVars, clientVars, AnswerTask, I64
  <1>8. ASSUME NEW t \in AnswerTasks, AnswerValidate(t) PROVE TypeOK'
    <2>1. atask[t] \in AnswerTask /\ atask[t].nonce \in Nonces
          BY <1>8 DEF AnswerValidate, AnswerTask
    <2>2. nonces[atask[t].nonce] # NoEntry => nonces[atask[t].nonce].exp \in I64
          BY <2>1 DEF NonceEntries
    <2>3. atask' \in [AnswerTasks -> AnswerTask \cup {NoEntry}]
          BY <1>8, <2>1, <2>2 DEF AnswerValidate, Validates, AnswerTask
    <2> QED
        BY <1>8, <2>3 DEF AnswerValidate, historyVars, clientVars
  <1>9. ASSUME NEW t \in AnswerTasks, AnswerConsume(t) PROVE TypeOK'
    <2>1. atask[t] \in AnswerTask
          BY <1>9 DEF AnswerConsume
    <2>2. nonces' \in [Nonces -> NonceEntries(ClientIds, Endpoints) \cup {NoEntry}]
      <3>1. CASE Consumes(nonces, atask[t].nonce, atask[t].client, atask[t].peer, clock)
        <4>1. atask[t].nonce \in Nonces
              BY <2>1 DEF AnswerTask
        <4>2. nonces[atask[t].nonce] \in NonceEntries(ClientIds, Endpoints)
              BY <3>1, <4>1 DEF Consumes
        <4>3. [nonces[atask[t].nonce] EXCEPT !.used = TRUE] \in NonceEntries(ClientIds, Endpoints)
              BY <4>2 DEF NonceEntries
        <4> QED
            BY <1>9, <4>1, <4>3 DEF AnswerConsume, StoreConsume
      <3>2. CASE ~Consumes(nonces, atask[t].nonce, atask[t].client, atask[t].peer, clock)
            BY <1>9, <3>2 DEF AnswerConsume
      <3> QED
          BY <3>1, <3>2
    <2>3. consumed' \in [Nonces -> Nat] /\ verified' \subseteq Accepts
          BY <1>9, <2>1 DEF AnswerConsume, AnswerTask, Accepts
    <2> QED
        BY <1>9, <2>2, <2>3 DEF AnswerConsume, clientVars
  <1>10. CASE Tick
         BY <1>10, TimeAssumption DEF Tick, historyVars, clientVars, Times
  <1>11. ASSUME NEW now \in Times, SetBack(now) PROVE TypeOK'
         BY <1>11 DEF SetBack, historyVars, clientVars
  <1>12. CASE Cleanup
         BY <1>12 DEF Cleanup, StorePurge, SeenPurge, historyVars, clientVars
  <1>13. CASE Restart
         BY <1>13 DEF Restart, Empty, clientVars
  <1>14. CASE UNCHANGED vars
         BY <1>14 DEF vars
  <1> QED
      BY <1>1, <1>2, <1>3, <1>4, <1>5, <1>6, <1>7, <1>8, <1>9, <1>10, <1>11, <1>12, <1>13,
         <1>14 DEF Next

(* Every variable keeps its type; in particular every deadline the server   *)
(* computes (replay cache, nonce expiry) stays an i64.                      *)
THEOREM TypeCorrect == Spec => []TypeOK
  BY InitType, NextType, PTL DEF Spec

-----------------------------------------------------------------------------
(* A nonce authorises at most one action, and only what its client signed. *)

(* No nonce is issued at the start.                                         *)
LEMMA InitNonce == Init => NonceInv
  BY DEF Init, NonceInv, StoreInv, AnswerInv, NonceSingleUse, AcceptedIsAuthentic,
         BurntBySignerOnly, Empty

(* Every step keeps the life of each nonce in order.                        *)
LEMMA NextNonce == TypeOK /\ NonceInv /\ [Next]_vars => NonceInv'
  <1> SUFFICES ASSUME TypeOK, NonceInv, [Next]_vars PROVE NonceInv'
      OBVIOUS
  <1> USE DEF NonceInv
  \* Steps that touch neither the store, nor an answer task, nor a signature.
  <1>0. ASSUME UNCHANGED <<answers, nonces, atask, issued, consumed, verified>>
        PROVE  NonceInv'
        BY <1>0 DEF StoreInv, AnswerInv, NonceSingleUse, AcceptedIsAuthentic, BurntBySignerOnly
  <1>1. ASSUME NEW k \in HelloKeys, NEW ts \in Times, SignHello(k, ts) PROVE NonceInv'
        BY <1>1, <1>0 DEF SignHello, historyVars
  <1>2. ASSUME NEW kind \in Kinds, NEW c \in ClientIds, NEW n \in Nonces,
               NEW exp \in Expiries, NEW body \in Bodies, SignAnswer(kind, c, n, exp, body)
        PROVE  NonceInv'
    <2>1. /\ answers \subseteq answers'
          /\ UNCHANGED <<nonces, atask, issued, consumed, verified>>
          BY <1>2 DEF SignAnswer, SigningPayload, historyVars
    <2> QED
        BY <2>1 DEF StoreInv, AnswerInv, NonceSingleUse, AcceptedIsAuthentic, BurntBySignerOnly
  <1>3. ASSUME NEW t \in HelloTasks, NEW k \in HelloKeys, NEW ts \in Times,
               NEW peer \in Endpoints, NEW valid \in BOOLEAN, RecvHello(t, k, ts, peer, valid)
        PROVE  NonceInv'
        BY <1>3, <1>0 DEF RecvHello, historyVars, clientVars
  <1>4. ASSUME NEW t \in HelloTasks, HelloFresh(t) PROVE NonceInv'
        BY <1>4, <1>0 DEF HelloFresh, historyVars, clientVars
  <1>5. ASSUME NEW t \in HelloTasks, HelloSeen(t) PROVE NonceInv'
        BY <1>5, <1>0 DEF HelloSeen, clientVars
  <1>6. ASSUME NEW t \in HelloTasks, NEW m \in Nonces, HelloIssue(t, m) PROVE NonceInv'
    <2> DEFINE e == [client |-> htask[t].key[1], peer |-> htask[t].peer,
                     exp |-> Deadline(htask[t].now, NonceTtl), used |-> FALSE]
               b == [client |-> htask[t].key[1], peer |-> htask[t].peer,
                     hello |-> htask[t].key, at |-> htask[t].now,
                     exp |-> Deadline(htask[t].now, NonceTtl)]
    <2>1. /\ issued[m] = NoEntry
          /\ nonces' = [nonces EXCEPT ![m] = e]
          /\ issued' = [issued EXCEPT ![m] = b]
          /\ UNCHANGED <<answers, atask, consumed, verified>>
          BY <1>6 DEF HelloIssue, SendReply, StoreInsert, clientVars
    <2>2. issued'[m] = b /\ nonces'[m] = e
          BY <2>1 DEF TypeOK
    <2>3. \A n \in Nonces : n # m => issued'[n] = issued[n] /\ nonces'[n] = nonces[n]
          BY <2>1 DEF TypeOK
    <2>4. issued'[m] # NoEntry
      <3>1. /\ htask[t].now \in I64 /\ htask[t].key \in HelloKeys
            /\ htask[t].peer \in Endpoints /\ htask[t].key[1] \in ClientIds
            BY <1>6 DEF HelloIssue, SendReply, HelloTask, HelloKeys, TypeOK
      <3>2. Deadline(htask[t].now, NonceTtl) \in I64
            BY <3>1, DeadlineLemma, TimeAssumption
      <3>3. b \in Bindings
            BY <3>1, <3>2 DEF Bindings
      <3> QED
          BY <2>2, <3>3, RecordAssumption
    <2>5. StoreInv'
          BY <2>1, <2>2, <2>3, <2>4 DEF StoreInv
    <2>6. AnswerInv'
          BY <2>1, <2>3 DEF AnswerInv, TypeOK, AnswerTask
    <2>7. AcceptedIsAuthentic'
          BY <2>1, <2>3 DEF AcceptedIsAuthentic, TypeOK, Accepts
    <2>8. BurntBySignerOnly'
          BY <2>1, <2>2, <2>3 DEF BurntBySignerOnly
    <2> QED
        BY <2>1, <2>5, <2>6, <2>7, <2>8 DEF NonceSingleUse
  <1>7. ASSUME NEW t \in AnswerTasks, NEW kind \in Kinds, NEW c \in ClientIds,
               NEW n \in Nonces, NEW body \in Bodies, NEW peer \in Endpoints,
               NEW sig \in answers \cup {NoEntry}, RecvAnswer(t, kind, c, n, body, peer, sig)
        PROVE  NonceInv'
    <2>1. UNCHANGED <<answers, nonces, issued, consumed, verified>>
          BY <1>7 DEF RecvAnswer, historyVars, clientVars
    <2>2. AnswerInv'
          BY <1>7, <2>1 DEF RecvAnswer, AnswerInv, TypeOK
    <2> QED
        BY <2>1, <2>2 DEF StoreInv, NonceSingleUse, AcceptedIsAuthentic, BurntBySignerOnly
  <1>8. ASSUME NEW t \in AnswerTasks, AnswerValidate(t) PROVE NonceInv'
    <2>1. UNCHANGED <<answers, nonces, issued, consumed, verified>>
          BY <1>8 DEF AnswerValidate, historyVars, clientVars
    <2>2. atask[t] # NoEntry /\ atask[t].nonce \in Nonces /\ atask[t].sig \in answers \cup {NoEntry}
          BY <1>8 DEF AnswerValidate, TypeOK, AnswerTask, AnswerInv
    <2>3. nonces[atask[t].nonce] # NoEntry =>
             /\ issued[atask[t].nonce] # NoEntry
             /\ nonces[atask[t].nonce].exp = issued[atask[t].nonce].exp
          BY <2>2 DEF StoreInv
    <2>4. AnswerInv'
          BY <1>8, <2>1, <2>2, <2>3 DEF AnswerValidate, Validates, AnswerInv, TypeOK, AnswerTask
    <2> QED
        BY <2>1, <2>4 DEF StoreInv, NonceSingleUse, AcceptedIsAuthentic, BurntBySignerOnly
  <1>9. ASSUME NEW t \in AnswerTasks, AnswerConsume(t) PROVE NonceInv'
    <2> DEFINE a == atask[t]
               n == a.nonce
               ok == SigValid(a) /\ Consumes(nonces, n, a.client, a.peer, clock)
    <2>1. /\ UNCHANGED <<answers, issued>>
          /\ atask' = [atask EXCEPT ![t] = NoEntry]
          /\ a \in AnswerTask /\ n \in Nonces /\ a.pc = "consume" /\ a # NoEntry
          BY <1>9 DEF AnswerConsume, clientVars, TypeOK, AnswerTask
    <2>2. AnswerInv'
          BY <2>1 DEF AnswerInv, TypeOK
    <2>3. CASE ~ok
      <3>1. UNCHANGED <<nonces, consumed, verified>>
            BY <1>9, <2>3 DEF AnswerConsume
      <3> QED
          BY <2>1, <2>2, <3>1 DEF StoreInv, NonceSingleUse, AcceptedIsAuthentic, BurntBySignerOnly
    <2>4. CASE ok
      <3>1. /\ nonces[n] # NoEntry /\ ~nonces[n].used
            /\ nonces[n].client = a.client /\ nonces[n].peer = a.peer
            /\ nonces[n] \in NonceEntries(ClientIds, Endpoints)
            BY <2>4, <2>1 DEF Consumes, Check, TypeOK
      <3>2. /\ issued[n] # NoEntry /\ issued[n].client = a.client /\ issued[n].peer = a.peer
            /\ a.exp = issued[n].exp /\ nonces[n].exp = a.exp /\ consumed[n] = 0
            BY <2>1, <3>1 DEF StoreInv, AnswerInv
      <3>3. [kind |-> a.kind, client |-> a.client, nonce |-> n, exp |-> a.exp, body |-> a.body]
               \in answers
        <4>1. a.sig # NoEntry
          <5>1. a.kind \in Kinds /\ a.client \in ClientIds /\ a.body \in Bodies /\ a.exp \in Int
                BY <2>1, I64MaxAssumption DEF AnswerTask, I64
          <5>2. a.sig \in Answers
                BY <2>1, <2>4, <5>1 DEF SigValid, SigningPayload, Answers
          <5> QED
              BY <5>2, RecordAssumption
        <4> QED
            BY <2>1, <2>4, <4>1 DEF SigValid, SigningPayload, AnswerInv
      <3>4. nonces' = [nonces EXCEPT ![n].used = TRUE]
            BY <1>9, <2>4 DEF AnswerConsume, StoreConsume
      <3>5. consumed' = [consumed EXCEPT ![n] = @ + 1]
            BY <1>9, <2>4 DEF AnswerConsume
      <3>6. /\ nonces'[n] = [nonces[n] EXCEPT !.used = TRUE]
            /\ consumed'[n] = 1
            /\ \A m \in Nonces : m # n => nonces'[m] = nonces[m] /\ consumed'[m] = consumed[m]
        <4> HIDE DEF n
        <4>1. nonces \in [Nonces -> NonceEntries(ClientIds, Endpoints) \cup {NoEntry}]
              BY DEF TypeOK
        <4>2. consumed \in [Nonces -> Nat]
              BY DEF TypeOK
        <4>3. /\ nonces'[n] = [nonces[n] EXCEPT !.used = TRUE]
              /\ \A m \in Nonces : m # n => nonces'[m] = nonces[m]
              BY <2>1, <3>4, <4>1
        <4>4. consumed'[n] = 1 /\ \A m \in Nonces : m # n => consumed'[m] = consumed[m]
              BY <2>1, <3>2, <3>5, <4>2
        <4> QED
            BY <4>3, <4>4
      <3>7. /\ nonces'[n].used /\ nonces'[n].client = nonces[n].client
            /\ nonces'[n].peer = nonces[n].peer /\ nonces'[n].exp = nonces[n].exp
            BY <3>1, <3>6 DEF NonceEntries
      <3>8. StoreInv'
        <4> HIDE DEF n
        <4> SUFFICES ASSUME NEW m \in Nonces
                     PROVE  /\ nonces'[m] # NoEntry =>
                               /\ issued[m] # NoEntry
                               /\ nonces'[m].client = issued[m].client
                               /\ nonces'[m].peer = issued[m].peer
                               /\ nonces'[m].exp = issued[m].exp
                               /\ ~nonces'[m].used => consumed'[m] = 0
                            /\ issued[m] = NoEntry => consumed'[m] = 0
            BY <2>1 DEF StoreInv
        <4>1. CASE m = n
              BY <4>1, <3>1, <3>2, <3>7
        <4>2. CASE m # n
              BY <4>2, <3>6 DEF StoreInv
        <4> QED
            BY <4>1, <4>2
      <3>9. NonceSingleUse'
            BY <3>6, <2>1 DEF NonceSingleUse
      <3>10. AcceptedIsAuthentic'
        <4>1. verified' \subseteq verified \cup
                {[kind |-> a.kind, client |-> a.client, nonce |-> n, body |-> a.body, peer |-> a.peer]}
              BY <1>9, <2>4 DEF AnswerConsume
        <4> QED
            BY <2>1, <3>2, <3>3, <4>1 DEF AcceptedIsAuthentic
      <3>11. BurntBySignerOnly'
        <4> HIDE DEF n
        <4> SUFFICES ASSUME NEW m \in Nonces, nonces'[m] # NoEntry, nonces'[m].used
                     PROVE  \E s \in answers : /\ s.nonce = m
                                               /\ s.client = nonces'[m].client
                                               /\ s.exp = nonces'[m].exp
            BY <2>1 DEF BurntBySignerOnly
        <4>1. CASE m = n
              BY <4>1, <3>1, <3>2, <3>3, <3>7
        <4>2. CASE m # n
              BY <4>2, <3>6 DEF BurntBySignerOnly
        <4> QED
            BY <4>1, <4>2
      <3> QED
          BY <2>2, <3>8, <3>9, <3>10, <3>11
    <2> QED
        BY <2>3, <2>4
  <1>10. CASE Tick
         BY <1>10, <1>0 DEF Tick, historyVars, clientVars
  <1>11. ASSUME NEW now \in Times, SetBack(now) PROVE NonceInv'
         BY <1>11, <1>0 DEF SetBack, historyVars, clientVars
  <1>12. CASE Cleanup
    <2>1. UNCHANGED <<answers, atask, issued, consumed, verified>>
          BY <1>12 DEF Cleanup, historyVars, clientVars
    <2>2. \A n \in Nonces : nonces'[n] = nonces[n] \/ nonces'[n] = NoEntry
          BY <1>12 DEF Cleanup, StorePurge, TypeOK
    <2> QED
        BY <2>1, <2>2 DEF StoreInv, AnswerInv, NonceSingleUse, AcceptedIsAuthentic, BurntBySignerOnly
  <1>13. CASE Restart
    <2>1. UNCHANGED <<answers, issued, consumed, verified>>
          BY <1>13 DEF Restart, clientVars
    <2>2. /\ \A n \in Nonces : nonces'[n] = NoEntry
          /\ \A t \in AnswerTasks : atask'[t] = NoEntry
          BY <1>13 DEF Restart, Empty
    <2> QED
        BY <2>1, <2>2 DEF StoreInv, AnswerInv, NonceSingleUse, AcceptedIsAuthentic, BurntBySignerOnly
  <1>14. CASE UNCHANGED vars
         BY <1>14, <1>0 DEF vars
  <1> QED
      BY <1>1, <1>2, <1>3, <1>4, <1>5, <1>6, <1>7, <1>8, <1>9, <1>10, <1>11, <1>12, <1>13,
         <1>14 DEF Next

(* NonceInv holds in every reachable state.                                 *)
LEMMA NonceInvariant == Spec => [](TypeOK /\ NonceInv)
  <1>1. Init => TypeOK /\ NonceInv
        BY InitType, InitNonce
  <1>2. (TypeOK /\ NonceInv) /\ [Next]_vars => (TypeOK /\ NonceInv)'
        BY NextType, NextNonce
  <1> QED
      BY <1>1, <1>2, PTL DEF Spec

(* NonceStore.consume: a nonce is consumed at most once, for every number   *)
(* of concurrent duplicates, purges, clock steps in both directions and     *)
(* restarts.                                                                *)
THEOREM NonceSingleUseHolds == Spec => []NonceSingleUse
  BY NonceInvariant, PTL DEF NonceInv

(* handle_response and handle_bye accept only what the bound client signed, *)
(* at the bound endpoint.                                                   *)
THEOREM AcceptedIsAuthenticHolds == Spec => []AcceptedIsAuthentic
  BY NonceInvariant, PTL DEF NonceInv

(* Only an answer signed by its own client uses a nonce up.                 *)
THEOREM BurntBySignerOnlyHolds == Spec => []BurntBySignerOnly
  BY NonceInvariant, PTL DEF NonceInv

-----------------------------------------------------------------------------
(* A CHALLENGE answers only an authentic, fresh HELLO.                      *)

ChallengeInv == HelloInv /\ IssueInv

(* Nothing is challenged at the start.                                      *)
LEMMA InitChallenge == Init => ChallengeInv
  BY DEF Init, Empty, ChallengeInv, HelloInv, IssueInv

(* Every step keeps what a task knows about its HELLO true.                 *)
LEMMA NextChallenge == TypeOK /\ ChallengeInv /\ [Next]_vars => ChallengeInv'
  <1> SUFFICES ASSUME TypeOK, ChallengeInv, [Next]_vars PROVE ChallengeInv'
      OBVIOUS
  <1> USE DEF ChallengeInv
  \* Steps outside the HELLO handler.
  <1>0. ASSUME UNCHANGED <<signedTs, htask, issued, challenged>> PROVE ChallengeInv'
        BY <1>0 DEF HelloInv, IssueInv
  <1>1. ASSUME NEW k \in HelloKeys, NEW ts \in Times, SignHello(k, ts) PROVE ChallengeInv'
    <2>1. /\ UNCHANGED <<htask, issued, challenged>>
          /\ signedTs[k] = NoEntry
          /\ \A j \in HelloKeys : j # k => signedTs'[j] = signedTs[j]
          BY <1>1 DEF SignHello, historyVars, TypeOK
    <2>2. \A t \in HelloTasks : htask[t] # NoEntry => htask[t].key \in HelloKeys /\ htask[t].ts \in Int
          BY DEF TypeOK, HelloTask
    <2>3. \A n \in Nonces : issued[n] # NoEntry => issued[n].hello \in HelloKeys
          BY DEF TypeOK, Bindings
    <2>4. HelloInv'
          BY <2>1, <2>2, NoEntryAssumption DEF HelloInv
    <2>5. IssueInv'
          BY <2>1, <2>3 DEF IssueInv
    <2> QED
        BY <2>4, <2>5
  <1>2. ASSUME NEW kind \in Kinds, NEW c \in ClientIds, NEW n \in Nonces,
               NEW exp \in Expiries, NEW body \in Bodies, SignAnswer(kind, c, n, exp, body)
        PROVE  ChallengeInv'
        BY <1>2, <1>0 DEF SignAnswer, SigningPayload, historyVars
  <1>3. ASSUME NEW t \in HelloTasks, NEW k \in HelloKeys, NEW ts \in Times,
               NEW peer \in Endpoints, NEW valid \in BOOLEAN, RecvHello(t, k, ts, peer, valid)
        PROVE  ChallengeInv'
    <2>1. UNCHANGED <<signedTs, issued, challenged>>
          BY <1>3 DEF RecvHello, historyVars, clientVars
    <2>2. HelloInv'
          BY <1>3, <2>1 DEF RecvHello, HelloInv, TypeOK
    <2> QED
        BY <2>1, <2>2 DEF IssueInv
  <1>4. ASSUME NEW t \in HelloTasks, HelloFresh(t) PROVE ChallengeInv'
    <2>1. UNCHANGED <<signedTs, issued, challenged>>
          BY <1>4 DEF HelloFresh, historyVars, clientVars
    <2>2. CASE HelloReject(t)
          BY <2>1, <2>2 DEF HelloReject, HelloInv, IssueInv, TypeOK
    <2>3. ASSUME HelloAuthentic(htask[t]), InWindow(clock, htask[t].ts),
                 htask' = [htask EXCEPT ![t].pc = "seen", ![t].now = clock]
          PROVE  ChallengeInv'
      <3>1. htask[t] \in HelloTask /\ htask[t] # NoEntry
            BY <1>4 DEF HelloFresh, TypeOK
      <3>2. /\ htask'[t].valid = htask[t].valid /\ htask'[t].key = htask[t].key
            /\ htask'[t].ts = htask[t].ts /\ htask'[t].now = clock
            /\ \A u \in HelloTasks : u # t => htask'[u] = htask[u]
            BY <2>3, <3>1 DEF TypeOK, HelloTask
      <3>3. clock - htask[t].ts \in -Skew .. Skew
            BY <2>3, <3>1, TimeAssumption DEF InWindow, TypeOK, Times, HelloTask
      <3>4. HelloInv'
        <4>1. /\ htask'[t].valid => signedTs[htask'[t].key] = htask'[t].ts
              /\ htask'[t].valid /\ htask'[t].key[1] \in Configured
              /\ htask'[t].now - htask'[t].ts \in -Skew .. Skew
              BY <2>3, <3>1, <3>2, <3>3 DEF HelloInv, HelloAuthentic
        <4> QED
            BY <2>1, <3>2, <4>1 DEF HelloInv
      <3> QED
          BY <2>1, <3>4 DEF IssueInv
    <2> QED
        BY <1>4, <2>2, <2>3 DEF HelloFresh
  <1>5. ASSUME NEW t \in HelloTasks, HelloSeen(t) PROVE ChallengeInv'
    <2>1. UNCHANGED <<signedTs, issued, challenged>>
          BY <1>5 DEF HelloSeen, clientVars
    <2>2. htask[t] \in HelloTask /\ htask[t] # NoEntry /\ htask[t].pc = "seen"
          BY <1>5 DEF HelloSeen, TypeOK
    <2>3. \/ htask' = [htask EXCEPT ![t] = NoEntry]
          \/ htask' = [htask EXCEPT ![t].pc = "issue"]
          BY <1>5 DEF HelloSeen, HelloReject
    <2>4. HelloInv'
          BY <2>1, <2>2, <2>3 DEF HelloInv, TypeOK, HelloTask
    <2> QED
        BY <2>1, <2>4 DEF IssueInv
  <1>6. ASSUME NEW t \in HelloTasks, NEW m \in Nonces, HelloIssue(t, m) PROVE ChallengeInv'
    <2> DEFINE b == [client |-> htask[t].key[1], peer |-> htask[t].peer,
                     hello |-> htask[t].key, at |-> htask[t].now,
                     exp |-> Deadline(htask[t].now, NonceTtl)]
    <2>1. /\ htask' = [htask EXCEPT ![t] = NoEntry]
          /\ issued' = [issued EXCEPT ![m] = b]
          /\ challenged' \in {challenged, challenged \cup {m}}
          /\ UNCHANGED signedTs
          BY <1>6 DEF HelloIssue, SendReply, clientVars
    <2>2. htask[t] # NoEntry /\ htask[t] \in HelloTask /\ htask[t].pc = "issue"
          BY <1>6 DEF HelloIssue, SendReply, TypeOK
    <2>3. /\ htask[t].key[1] \in Configured
          /\ signedTs[htask[t].key] = htask[t].ts
          /\ htask[t].now - htask[t].ts \in -Skew .. Skew
          BY <2>2 DEF HelloInv
    <2>4. htask[t].ts # NoEntry
          BY <2>2, NoEntryAssumption DEF HelloTask
    <2>5. HelloInv'
          BY <2>1 DEF HelloInv, TypeOK
    <2>6. b # NoEntry
      <3>1. /\ htask[t].now \in I64 /\ htask[t].key \in HelloKeys
            /\ htask[t].peer \in Endpoints /\ htask[t].key[1] \in ClientIds
            BY <2>2 DEF HelloTask, HelloKeys
      <3>2. Deadline(htask[t].now, NonceTtl) \in I64
            BY <3>1, DeadlineLemma, TimeAssumption
      <3> QED
          BY <3>1, <3>2, RecordAssumption DEF Bindings
    <2>7. issued'[m] = b /\ \A n \in Nonces : n # m => issued'[n] = issued[n]
          BY <2>1 DEF TypeOK
    <2>8. IssueInv'
          BY <2>1, <2>3, <2>4, <2>6, <2>7 DEF IssueInv
    <2> QED
        BY <2>5, <2>8
  <1>7. ASSUME NEW t \in AnswerTasks, NEW kind \in Kinds, NEW c \in ClientIds,
               NEW n \in Nonces, NEW body \in Bodies, NEW peer \in Endpoints,
               NEW sig \in answers \cup {NoEntry}, RecvAnswer(t, kind, c, n, body, peer, sig)
        PROVE  ChallengeInv'
        BY <1>7, <1>0 DEF RecvAnswer, historyVars, clientVars
  <1>8. ASSUME NEW t \in AnswerTasks, AnswerValidate(t) PROVE ChallengeInv'
        BY <1>8, <1>0 DEF AnswerValidate, historyVars, clientVars
  <1>9. ASSUME NEW t \in AnswerTasks, AnswerConsume(t) PROVE ChallengeInv'
        BY <1>9, <1>0 DEF AnswerConsume, clientVars
  <1>10. CASE Tick
         BY <1>10, <1>0 DEF Tick, historyVars, clientVars
  <1>11. ASSUME NEW now \in Times, SetBack(now) PROVE ChallengeInv'
         BY <1>11, <1>0 DEF SetBack, historyVars, clientVars
  <1>12. CASE Cleanup
         BY <1>12, <1>0 DEF Cleanup, historyVars, clientVars
  <1>13. CASE Restart
         BY <1>13 DEF Restart, Empty, clientVars, HelloInv, IssueInv
  <1>14. CASE UNCHANGED vars
         BY <1>14, <1>0 DEF vars
  <1> QED
      BY <1>1, <1>2, <1>3, <1>4, <1>5, <1>6, <1>7, <1>8, <1>9, <1>10, <1>11, <1>12, <1>13,
         <1>14 DEF Next

(* The silent-drop policy: the only reply the server sends is a CHALLENGE   *)
(* to a configured client's signed HELLO within its skew window.            *)
THEOREM ChallengeOnlyValidHelloHolds == Spec => []ChallengeOnlyValidHello
  <1>1. Init => TypeOK /\ ChallengeInv
        BY InitType, InitChallenge
  <1>2. (TypeOK /\ ChallengeInv) /\ [Next]_vars => (TypeOK /\ ChallengeInv)'
        BY NextType, NextChallenge
  <1>3. TypeOK /\ ChallengeInv => ChallengeOnlyValidHello
        BY DEF TypeOK, ChallengeInv, IssueInv, ChallengeOnlyValidHello
  <1> QED
      BY <1>1, <1>2, <1>3, PTL DEF Spec

-----------------------------------------------------------------------------
(* A HELLO is accepted once while its window is open.                       *)

(* No HELLO is accepted at the start.                                       *)
LEMMA InitSeen == Init => SeenInv
  BY DEF Init, Empty, SeenInv

(* Every step keeps an accepted HELLO remembered while its window is open.  *)
LEMMA NextSeen ==
    ASSUME ~StepBack
    PROVE  TypeOK /\ HelloInv /\ SeenInv /\ [Next]_vars => SeenInv'
  <1> SUFFICES ASSUME TypeOK, HelloInv, SeenInv, [Next]_vars PROVE SeenInv'
      OBVIOUS
  \* Steps that leave the HELLO handler, the replay cache and the clock alone.
  <1>0. ASSUME UNCHANGED <<clock, signedTs, htask, seen, accepted>> PROVE SeenInv'
        BY <1>0 DEF SeenInv
  <1>1. ASSUME NEW k \in HelloKeys, NEW ts \in Times, SignHello(k, ts) PROVE SeenInv'
    <2>1. /\ UNCHANGED <<clock, htask, seen, accepted>>
          /\ signedTs[k] = NoEntry
          /\ \A j \in HelloKeys : j # k => signedTs'[j] = signedTs[j]
          BY <1>1 DEF SignHello, historyVars, TypeOK
    <2> QED
        BY <2>1 DEF SeenInv
  <1>2. ASSUME NEW kind \in Kinds, NEW c \in ClientIds, NEW n \in Nonces,
               NEW exp \in Expiries, NEW body \in Bodies, SignAnswer(kind, c, n, exp, body)
        PROVE  SeenInv'
        BY <1>2, <1>0 DEF SignAnswer, SigningPayload, historyVars
  <1>3. ASSUME NEW t \in HelloTasks, NEW k \in HelloKeys, NEW ts \in Times,
               NEW peer \in Endpoints, NEW valid \in BOOLEAN, RecvHello(t, k, ts, peer, valid)
        PROVE  SeenInv'
    <2>1. UNCHANGED <<clock, signedTs, seen, accepted>>
          BY <1>3 DEF RecvHello, historyVars, clientVars
    <2>2. \A u \in HelloTasks : htask'[u] # NoEntry => htask'[u].now <= clock
          BY <1>3, TimeAssumption DEF RecvHello, SeenInv, TypeOK, Times
    <2> QED
        BY <2>1, <2>2 DEF SeenInv
  <1>4. ASSUME NEW t \in HelloTasks, HelloFresh(t) PROVE SeenInv'
    <2>1. UNCHANGED <<clock, signedTs, seen, accepted>>
          BY <1>4 DEF HelloFresh, HelloReject, historyVars, clientVars
    <2>2. \/ htask' = [htask EXCEPT ![t] = NoEntry]
          \/ htask' = [htask EXCEPT ![t].pc = "seen", ![t].now = clock]
          BY <1>4 DEF HelloFresh, HelloReject
    <2>3. htask[t] \in HelloTask /\ clock \in Int
          BY <1>4, TimeAssumption DEF HelloFresh, TypeOK, Times
    <2>4. \A u \in HelloTasks : htask'[u] # NoEntry => htask'[u].now <= clock
          BY <2>2, <2>3 DEF SeenInv, TypeOK, HelloTask
    <2> QED
        BY <2>1, <2>4 DEF SeenInv
  <1>5. ASSUME NEW t \in HelloTasks, HelloSeen(t) PROVE SeenInv'
    <2> DEFINE k == htask[t].key
               now == htask[t].now
               ts == htask[t].ts
    <2>1. UNCHANGED <<clock, signedTs>>
          BY <1>5 DEF HelloSeen, clientVars
    <2>2. /\ htask[t] \in HelloTask /\ htask[t] # NoEntry /\ htask[t].pc = "seen"
          /\ k \in HelloKeys /\ now \in I64 /\ ts \in Int
          BY <1>5 DEF HelloSeen, TypeOK, HelloTask
    <2>3. signedTs[k] = ts /\ now - ts \in -Skew .. Skew /\ now <= clock
          BY <2>2 DEF HelloInv, SeenInv
    <2>4. CASE HelloReject(t) /\ UNCHANGED accepted
      <3>1. /\ UNCHANGED <<seen, accepted>>
            /\ \A u \in HelloTasks : htask'[u] = htask[u] \/ htask'[u] = NoEntry
            BY <2>4 DEF HelloReject, TypeOK
      <3> QED
          BY <2>1, <3>1 DEF SeenInv
    <2>5. ASSUME ~SeenLive(seen, k, now),
                 seen' = SeenInsert(seen, k, now, SeenTtl),
                 accepted' = [accepted EXCEPT ![k] = @ + 1],
                 htask' = [htask EXCEPT ![t].pc = "issue"]
          PROVE  SeenInv'
      <3>1. \A u \in HelloTasks : htask'[u] # NoEntry => htask'[u].now <= clock
            BY <2>2, <2>5 DEF SeenInv, TypeOK, HelloTask
      <3>2. /\ clock \in 0 .. I64Max /\ I64Max \in Nat /\ Skew \in Nat /\ now \in Int
            /\ accepted \in [HelloKeys -> Nat]
            /\ seen \in [HelloKeys -> I64 \cup {NoEntry}]
            BY <2>2, ClockLemma, TimeAssumption, I64MaxAssumption DEF TypeOK, I64
      <3>3. accepted[k] = 0 \/ clock > ts + Skew
            BY <2>2, <2>3, <2>5, <3>2 DEF SeenInv, SeenLive, I64
      <3>4. /\ Deadline(now, SeenTtl) \in I64
            /\ Deadline(now, SeenTtl) >= ts + Skew \/ Deadline(now, SeenTtl) = I64Max
        <4>1. /\ Deadline(now, SeenTtl) \in I64
              /\ Deadline(now, SeenTtl) = now + SeenTtl \/ Deadline(now, SeenTtl) = I64Max
              BY <2>2, SeenTtlLemma, DeadlineLemma
        <4>2. now + SeenTtl >= ts + Skew
              BY <2>2, <2>3, <3>2 DEF SeenTtl
        <4> QED
            BY <4>1, <4>2
      <3>5. /\ seen'[k] = Deadline(now, SeenTtl)
            /\ \A j \in HelloKeys : j # k => seen'[j] = seen[j] /\ accepted'[j] = accepted[j]
            /\ accepted'[k] = accepted[k] + 1
            BY <2>2, <2>5, <3>2 DEF SeenInsert
      <3>6. seen'[k] # NoEntry
            BY <3>4, <3>5, NoEntryAssumption, I64MaxAssumption DEF I64
      <3>7. ts # NoEntry
            BY <2>2, NoEntryAssumption
      <3>8. ASSUME NEW j \in HelloKeys, accepted'[j] > 0
            PROVE  /\ signedTs[j] # NoEntry
                   /\ \/ clock > signedTs[j] + Skew
                      \/ /\ seen'[j] # NoEntry
                         /\ accepted'[j] = 1
                         /\ seen'[j] >= signedTs[j] + Skew \/ seen'[j] = I64Max
        <4>1. CASE j = k
          <5>1. signedTs[j] = ts
                BY <2>3, <4>1
          <5>2. clock > ts + Skew \/ accepted'[j] = 1
                BY <3>2, <3>3, <3>5, <4>1
          <5> QED
              BY <5>1, <5>2, <3>4, <3>5, <3>6, <3>7, <4>1
        <4>2. CASE j # k
              BY <3>5, <3>8, <4>2 DEF SeenInv
        <4> QED
            BY <4>1, <4>2
      <3> QED
          BY <2>1, <3>1, <3>8 DEF SeenInv
    <2> QED
        BY <1>5, <2>4, <2>5 DEF HelloSeen
  <1>6. ASSUME NEW t \in HelloTasks, NEW m \in Nonces, HelloIssue(t, m) PROVE SeenInv'
    <2>1. /\ UNCHANGED <<clock, signedTs, seen, accepted>>
          /\ \A u \in HelloTasks : htask'[u] = htask[u] \/ htask'[u] = NoEntry
          BY <1>6 DEF HelloIssue, SendReply, clientVars, TypeOK
    <2> QED
        BY <2>1 DEF SeenInv
  <1>7. ASSUME NEW t \in AnswerTasks, NEW kind \in Kinds, NEW c \in ClientIds,
               NEW n \in Nonces, NEW body \in Bodies, NEW peer \in Endpoints,
               NEW sig \in answers \cup {NoEntry}, RecvAnswer(t, kind, c, n, body, peer, sig)
        PROVE  SeenInv'
        BY <1>7, <1>0 DEF RecvAnswer, historyVars, clientVars
  <1>8. ASSUME NEW t \in AnswerTasks, AnswerValidate(t) PROVE SeenInv'
        BY <1>8, <1>0 DEF AnswerValidate, historyVars, clientVars
  <1>9. ASSUME NEW t \in AnswerTasks, AnswerConsume(t) PROVE SeenInv'
        BY <1>9, <1>0 DEF AnswerConsume, clientVars
  <1>10. CASE Tick
    <2>1. UNCHANGED <<signedTs, htask, seen, accepted>> /\ clock' = clock + 1
          BY <1>10 DEF Tick, historyVars, clientVars
    <2>2. /\ clock \in Int /\ Skew \in Int /\ signedTs \in [HelloKeys -> Int \cup {NoEntry}]
          /\ \A u \in HelloTasks : htask[u] # NoEntry => htask[u].now \in Int
          BY TimeAssumption, I64MaxAssumption DEF TypeOK, Times, HelloTask, I64
    <2> QED
        BY <2>1, <2>2 DEF SeenInv
  <1>11. ASSUME NEW now \in Times, SetBack(now) PROVE SeenInv'
         BY <1>11 DEF SetBack
  <1>12. CASE Cleanup
    <2>1. UNCHANGED <<clock, signedTs, htask, accepted>>
          BY <1>12 DEF Cleanup, historyVars, clientVars
    <2>2. \A k \in HelloKeys : seen'[k] = IF SeenLive(seen, k, clock) THEN seen[k] ELSE NoEntry
          BY <1>12 DEF Cleanup, SeenPurge, TypeOK
    <2>3. /\ clock \in 0 .. I64Max /\ I64Max \in Nat /\ Skew \in Nat
          /\ signedTs \in [HelloKeys -> Int \cup {NoEntry}]
          /\ \A k \in HelloKeys : seen[k] # NoEntry => seen[k] \in Int
          BY ClockLemma, TimeAssumption, I64MaxAssumption DEF TypeOK, I64
    <2>4. ASSUME NEW k \in HelloKeys, accepted[k] > 0, ~(clock > signedTs[k] + Skew)
          PROVE  seen'[k] = seen[k]
          BY <2>2, <2>3, <2>4 DEF SeenInv, SeenLive
    <2> QED
        BY <2>1, <2>4 DEF SeenInv
  <1>13. CASE Restart
    <2>1. /\ \A k \in HelloKeys : accepted'[k] = 0
          /\ \A u \in HelloTasks : htask'[u] = NoEntry
          BY <1>13 DEF Restart, Empty
    <2> QED
        BY <2>1 DEF SeenInv
  <1>14. CASE UNCHANGED vars
         BY <1>14, <1>0 DEF vars
  <1> QED
      BY <1>1, <1>2, <1>3, <1>4, <1>5, <1>6, <1>7, <1>8, <1>9, <1>10, <1>11, <1>12, <1>13,
         <1>14 DEF Next

(* The HELLO replay cache: as long as the wall clock is never set back, a   *)
(* HELLO whose window is still open has been accepted at most once by this  *)
(* server process.                                                          *)
THEOREM HelloSingleUseHolds ==
    ASSUME ~StepBack
    PROVE  Spec => []HelloSingleUse
  <1> DEFINE Inv == TypeOK /\ ChallengeInv /\ SeenInv
  <1>1. Init => Inv
        BY InitType, InitChallenge, InitSeen
  <1>2. Inv /\ [Next]_vars => Inv'
        BY NextType, NextChallenge, NextSeen DEF ChallengeInv
  <1>3. Inv => HelloSingleUse
        BY DEF TypeOK, SeenInv, HelloSingleUse
  <1> QED
      BY <1>1, <1>2, <1>3, PTL DEF Spec

-----------------------------------------------------------------------------
(* The handshake implements the contract.                                  *)

(* At the start no ticket is issued, no order signed and none carried out.  *)
LEMMA InitContract == Init => Contract!Init
  BY DEF Init, Empty, Contract!Init, LifeOf, HolderOf

(* A step in which one live nonce is spent, or one is issued, or some are   *)
(* dropped, or an answer is signed, is a step of the contract; every other  *)
(* step changes nothing the contract speaks of.                             *)
LEMMA NextContract ==
    TypeOK /\ NonceInv /\ [Next]_vars => [Contract!Next]_(Contract!vars)
  <1> SUFFICES ASSUME TypeOK, NonceInv, [Next]_vars
               PROVE  Contract!Next \/ UNCHANGED Contract!vars
      OBVIOUS
  <1>0. ASSUME UNCHANGED <<answers, nonces, issued, consumed, verified>>
        PROVE  UNCHANGED Contract!vars
        BY <1>0 DEF Contract!vars, LifeOf, HolderOf, OrderOf
  <1>1. ASSUME NEW kind \in Kinds, NEW c \in ClientIds, NEW n \in Nonces,
               NEW exp \in Expiries, NEW body \in Bodies, SignAnswer(kind, c, n, exp, body)
        PROVE  Contract!Next
    <2> DEFINE a == SigningPayload(kind, c, n, exp, body)
    <2>1. /\ answers' = answers \cup {a}
          /\ UNCHANGED <<nonces, issued, consumed, verified>>
          BY <1>1 DEF SignAnswer, historyVars
    <2>2. OrderOf(a) \in Orders
          BY DEF OrderOf, SigningPayload, Orders
    <2>3. Contract!Sign(OrderOf(a))
      <3>1. {OrderOf(b) : b \in answers'} = {OrderOf(b) : b \in answers} \cup {OrderOf(a)}
        <4> HIDE DEF a
        <4> QED
            BY <2>1
      <3> QED
          BY <2>1, <3>1 DEF Contract!Sign, LifeOf, HolderOf, OrderOf
    <2> QED
        BY <2>2, <2>3 DEF Contract!Next
  <1>2. ASSUME NEW t \in HelloTasks, NEW m \in Nonces, HelloIssue(t, m)
        PROVE  Contract!Next
    <2> DEFINE c == htask[t].key[1]
               e == htask[t].peer
               b == [client |-> c, peer |-> e, hello |-> htask[t].key, at |-> htask[t].now,
                     exp |-> Deadline(htask[t].now, NonceTtl)]
               x == [client |-> c, peer |-> e, exp |-> Deadline(htask[t].now, NonceTtl),
                     used |-> FALSE]
    <2>1. /\ issued[m] = NoEntry
          /\ nonces' = [nonces EXCEPT ![m] = x]
          /\ issued' = [issued EXCEPT ![m] = b]
          /\ UNCHANGED <<answers, consumed, verified>>
          BY <1>2 DEF HelloIssue, StoreInsert, clientVars
    <2>2. /\ htask[t].now \in I64 /\ htask[t].key \in HelloKeys /\ e \in Endpoints
          /\ c \in ClientIds
          BY <1>2 DEF HelloIssue, HelloTask, HelloKeys, TypeOK
    <2>3. Deadline(htask[t].now, NonceTtl) \in I64
          BY <2>2, DeadlineLemma, TimeAssumption
    <2>4. issued'[m] # NoEntry /\ issued'[m].client = c /\ issued'[m].peer = e
      <3>1. b \in Bindings
            BY <2>2, <2>3 DEF Bindings
      <3>2. issued'[m] = b
            BY <2>1 DEF TypeOK
      <3> QED
          BY <3>1, <3>2, RecordAssumption
    <2>5. nonces'[m] # NoEntry
      <3>1. x \in NonceEntries(ClientIds, Endpoints)
            BY <2>2, <2>3 DEF NonceEntries
      <3>2. nonces'[m] = x
            BY <2>1 DEF TypeOK
      <3> QED
          BY <3>1, <3>2, RecordAssumption
    <2>6. \A n \in Nonces : n # m => issued'[n] = issued[n] /\ nonces'[n] = nonces[n]
          BY <2>1 DEF TypeOK
    <2>7. consumed[m] = 0
          BY <2>1 DEF NonceInv, StoreInv
    <2>8. Contract!Issue(m, c, e)
      <3> HIDE DEF c, e
      <3>1. LifeOf(m) = "unissued" /\ LifeOf(m)' = "live" /\ HolderOf(m)' = <<c, e>>
            BY <2>1, <2>4, <2>5, <2>7 DEF LifeOf, HolderOf
      <3>2. \A n \in Nonces : n # m => LifeOf(n)' = LifeOf(n) /\ HolderOf(n)' = HolderOf(n)
            BY <2>1, <2>6 DEF LifeOf, HolderOf
      <3>3. [n \in Nonces |-> LifeOf(n)]' = [[n \in Nonces |-> LifeOf(n)] EXCEPT ![m] = "live"]
            BY <3>1, <3>2
      <3>4. [n \in Nonces |-> HolderOf(n)]'
               = [[n \in Nonces |-> HolderOf(n)] EXCEPT ![m] = <<c, e>>]
            BY <3>1, <3>2
      <3> QED
          BY <2>1, <3>1, <3>3, <3>4 DEF Contract!Issue, OrderOf
    <2> QED
        BY <2>2, <2>8 DEF Contract!Next
  <1>3. ASSUME NEW t \in AnswerTasks, AnswerConsume(t)
        PROVE  Contract!Next \/ UNCHANGED Contract!vars
    <2>0. atask[t] \in AnswerTask /\ atask[t].pc = "consume" /\ atask[t] # NoEntry
          BY <1>3 DEF AnswerConsume, TypeOK
    <2> PICK a \in AnswerTask : a = atask[t]
        BY <2>0
    <2> PICK n \in Nonces : n = a.nonce
        BY DEF AnswerTask
    <2> PICK o : o = OrderOf(a)
        OBVIOUS
    <2> DEFINE ok == SigValid(a) /\ Consumes(nonces, n, a.client, a.peer, clock)
    <2>1. UNCHANGED <<answers, issued>>
          BY <1>3 DEF AnswerConsume, clientVars
    <2>2. CASE ~ok
      <3>1. UNCHANGED <<nonces, consumed, verified>>
            BY <1>3, <2>2 DEF AnswerConsume
      <3> QED
          BY <1>0, <2>1, <3>1
    <2>3. CASE ok
      <3>1. /\ nonces[n] # NoEntry /\ ~nonces[n].used
            /\ nonces[n].client = a.client /\ nonces[n].peer = a.peer
            BY <2>3 DEF Consumes, Check
      <3>2. /\ issued[n] # NoEntry /\ issued[n].client = a.client /\ issued[n].peer = a.peer
            /\ consumed[n] = 0
            BY <3>1 DEF NonceInv, StoreInv
      <3>3. o \in {OrderOf(b) : b \in answers}
        <4> DEFINE p == SigningPayload(a.kind, a.client, a.nonce, a.exp, a.body)
        <4>1. a.kind \in Kinds /\ a.client \in ClientIds /\ a.body \in Bodies /\ a.exp \in Int
              BY I64MaxAssumption DEF AnswerTask, I64
        <4>2. a.sig = p /\ p \in Answers
              BY <2>3, <4>1 DEF SigValid, SigningPayload, Answers
        <4>3. p \in answers
              BY <2>0, <4>2, RecordAssumption DEF NonceInv, AnswerInv
        <4>4. OrderOf(p) = o
              BY DEF OrderOf, SigningPayload
        <4> HIDE DEF p
        <4> QED
            BY <4>3, <4>4
      <3>4. /\ consumed'[n] = 1
            /\ \A m \in Nonces : m # n => nonces'[m] = nonces[m] /\ consumed'[m] = consumed[m]
        <4>1. /\ consumed' = [consumed EXCEPT ![n] = @ + 1]
              /\ nonces' = [nonces EXCEPT ![n].used = TRUE]
              BY <1>3, <2>3 DEF AnswerConsume, StoreConsume
        <4>2. /\ consumed \in [Nonces -> Nat]
              /\ nonces \in [Nonces -> NonceEntries(ClientIds, Endpoints) \cup {NoEntry}]
              BY DEF TypeOK
        <4> QED
            BY <3>2, <4>1, <4>2
      <3>5. LifeOf(n) = "live" /\ LifeOf(n)' = "spent" /\ HolderOf(n) = <<a.client, a.peer>>
            BY <2>1, <3>1, <3>2, <3>4 DEF LifeOf, HolderOf
      <3>6. \A m \in Nonces : m # n => LifeOf(m)' = LifeOf(m)
            BY <2>1, <3>4 DEF LifeOf
      <3>7. [m \in Nonces |-> LifeOf(m)]' = [[m \in Nonces |-> LifeOf(m)] EXCEPT ![n] = "spent"]
            BY <3>5, <3>6
      <3>8. {<<OrderOf(v), v.peer>> : v \in verified'} \in
               {{<<OrderOf(v), v.peer>> : v \in verified},
                {<<OrderOf(v), v.peer>> : v \in verified} \cup {<<o, a.peer>>}}
        <4> DEFINE w == [kind |-> a.kind, client |-> a.client, nonce |-> a.nonce,
                         body |-> a.body, peer |-> a.peer]
        <4>1. verified' = verified \/ verified' = verified \cup {w}
              BY <1>3 DEF AnswerConsume
        <4>2. OrderOf(w) = o /\ w.peer = a.peer
              BY DEF OrderOf
        <4> HIDE DEF w
        <4> QED
            BY <4>1, <4>2
      <3>9. o.nonce = n /\ o.client = a.client /\ o \in Orders /\ a.peer \in Endpoints
            BY DEF OrderOf, Orders, AnswerTask
      <3>10. Contract!Spend(o, a.peer)
             BY <2>1, <3>3, <3>5, <3>7, <3>8, <3>9 DEF Contract!Spend, HolderOf
      <3> QED
          BY <3>9, <3>10 DEF Contract!Next
    <2> QED
        BY <2>2, <2>3
  \* Cleanup and Restart drop entries of the store and nothing else.
  <1>4. ASSUME UNCHANGED <<answers, issued, consumed, verified>>,
               \A n \in Nonces : nonces'[n] = nonces[n] \/ nonces'[n] = NoEntry
        PROVE  Contract!Next
    <2> DEFINE N == {n \in Nonces : LifeOf(n) = "live" /\ nonces'[n] = NoEntry}
    <2>1. \A n \in N : LifeOf(n) = "live" /\ LifeOf(n)' = "void"
          BY <1>4 DEF LifeOf
    <2>2. \A n \in Nonces : n \notin N => LifeOf(n)' = LifeOf(n)
          BY <1>4 DEF LifeOf
    <2>3. N \in SUBSET Nonces
          OBVIOUS
    <2>4. Contract!Void(N)
      <3> HIDE DEF N
      <3>1. [n \in Nonces |-> LifeOf(n)]'
               = [n \in Nonces |-> IF n \in N THEN "void" ELSE LifeOf(n)]
            BY <2>1, <2>2
      <3> QED
          BY <1>4, <2>1, <2>3, <3>1 DEF Contract!Void, HolderOf, OrderOf
    <2> QED
        BY <2>3, <2>4 DEF Contract!Next
  <1>5. CASE Cleanup
    <2>1. \A n \in Nonces : nonces'[n] = nonces[n] \/ nonces'[n] = NoEntry
          BY <1>5 DEF Cleanup, StorePurge, TypeOK
    <2> QED
        BY <1>4, <1>5, <2>1 DEF Cleanup, historyVars, clientVars
  <1>6. CASE Restart
        BY <1>4, <1>6 DEF Restart, Empty, clientVars
  <1>7. CASE UNCHANGED <<answers, nonces, issued, consumed, verified>>
        BY <1>0, <1>7
  <1> QED
      BY <1>1, <1>2, <1>3, <1>5, <1>6, <1>7
      DEF Next, vars, SignHello, RecvHello, HelloFresh, HelloSeen, RecvAnswer, AnswerValidate,
          Tick, SetBack, historyVars, clientVars

(* The server's interleaved, two-step handlers implement the contract for   *)
(* every number of clients, endpoints, nonces and concurrent tasks.         *)
THEOREM ImplementsContractHolds == Spec => ImplementsContract
  <1>1. Spec => [](TypeOK /\ NonceInv)
        BY NonceInvariant
  <1> QED
      BY <1>1, InitContract, NextContract, PTL DEF Spec, ImplementsContract, Contract!Spec

=============================================================================
