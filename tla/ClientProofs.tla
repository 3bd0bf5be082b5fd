---------------------------- MODULE ClientProofs ----------------------------
(***************************************************************************)
(* Proofs about Client, for every set of servers, number of retries,       *)
(* timeouts and number of cycles.                                          *)
(***************************************************************************)
EXTENDS Client, TLAPS

-----------------------------------------------------------------------------
(* Type correctness.                                                       *)

\* The points of a cycle.
CyclePcs == {"param", "hello", "wait", "sign"}

\* Inside a cycle a runner is in one of its attempts, and it signs a CHALLENGE
\* that it has.
Sound(s) ==
    /\ s.pc \in CyclePcs => s.attempt \in 1 .. MaxAttempts
    /\ s.pc = "sign" => s.challenge \in Hellos

TypeInv == TypeOK /\ \A r \in Runners : Sound(run[r])

(* At least one attempt is made.                                            *)
LEMMA MaxAttemptsType == MaxAttempts \in Nat /\ MaxAttempts >= 1
  BY ClientAssumption DEF MaxAttempts

(* No runner has more attempts than the configured ones.                    *)
LEMMA AttemptsBound == ASSUME NEW r PROVE Attempts(r) \in 1 .. MaxAttempts
  BY MaxAttemptsType DEF Attempts

(* No wait is longer than retry_max.                                        *)
LEMMA TimeoutBound == ASSUME NEW k PROVE Timeout(k) \in 0 .. T2
  BY ClientAssumption DEF Timeout

(* A step that gives one runner the locals s, and s is in order.            *)
LEMMA RunnerType ==
    ASSUME TypeInv, NEW r \in Runners, NEW s \in Runner, Sound(s),
           run' = [run EXCEPT ![r] = s]
    PROVE  run' \in [Runners -> Runner] /\ \A q \in Runners : Sound(run'[q])
  BY DEF TypeInv, TypeOK

(* The HELLO of a runner inside a cycle.                                    *)
LEMMA ThisHelloType ==
    ASSUME TypeInv, NEW r \in Runners, run[r].pc \in CyclePcs
    PROVE  ThisHello(r) \in Hellos
  BY DEF TypeInv, TypeOK, Sound, ThisHello, Hellos, Runner

(* The locals of a runner that goes to another point of its cycle.          *)
LEMMA GotoType ==
    ASSUME TypeInv, NEW r \in Runners, run[r].pc \in CyclePcs,
           NEW pc \in {"hello", "wait"}
    PROVE  /\ [run[r] EXCEPT !.pc = pc] \in Runner /\ Sound([run[r] EXCEPT !.pc = pc])
           /\ Awaits(r, pc) \in Runner /\ Sound(Awaits(r, pc))
  <1>1. run[r] \in Runner /\ Sound(run[r]) /\ 0 \in 0 .. T2
        BY ClientAssumption DEF TypeInv, TypeOK
  <1>2. [run[r] EXCEPT !.pc = pc] \in Runner /\ Sound([run[r] EXCEPT !.pc = pc])
        BY <1>1 DEF Runner, Sound, CyclePcs
  <1>3. Awaits(r, pc) \in Runner /\ Sound(Awaits(r, pc))
        BY <1>1 DEF Awaits, Runner, Sound, CyclePcs
  <1> QED
      BY <1>2, <1>3

(* The end of a cycle keeps the types.                                      *)
LEMMA CycleEndsType ==
    ASSUME TypeInv, NEW r \in Runners, NEW ok \in BOOLEAN, CycleEnds(r, ok)
    PROVE  /\ run' \in [Runners -> Runner] /\ \A q \in Runners : Sound(run'[q])
           /\ todo' \subseteq Targets /\ failed' \subseteq Targets
  <1> DEFINE s == [Awaits(r, "sleep") EXCEPT !.attempt = 0, !.challenge = NoEntry]
  <1>1. run[r] \in Runner /\ 0 \in 0 .. T2 /\ 0 \in 0 .. MaxAttempts
        BY ClientAssumption, MaxAttemptsType DEF TypeInv, TypeOK
  <1>2. s \in Runner /\ Sound(s)
        BY <1>1 DEF Awaits, Runner, Sound, CyclePcs
  <1>3. run' = [run EXCEPT ![r] = s]
        BY DEF CycleEnds
  <1>4. run[r].target \in Targets
        BY <1>1 DEF Runner
  <1>5. todo' \subseteq Targets /\ failed' \subseteq Targets
        BY <1>4 DEF CycleEnds, FailedAfter, TypeInv, TypeOK
  <1> HIDE DEF s
  <1> QED
      BY <1>2, <1>3, <1>5, RunnerType

\* The locals of a runner that begins its next attempt.
Retried(r) == [run[r] EXCEPT !.pc = "hello", !.attempt = run[r].attempt + 1, !.challenge = NoEntry]

(* What AttemptFails does, in one assignment to the runner's locals.        *)
LEMMA AttemptFailsCases ==
    ASSUME TypeInv, NEW r \in Runners, AttemptFails(r)
    PROVE  \/ /\ run[r].attempt < Attempts(r)
              /\ run' = [run EXCEPT ![r] = Retried(r)] /\ UNCHANGED <<todo, failed>>
           \/ CycleEnds(r, FALSE)
  <1>1. run \in [Runners -> Runner]
        BY DEF TypeInv, TypeOK
  <1>2. CASE run[r].attempt < Attempts(r)
    <2>1. run' = [run EXCEPT ![r].pc = "hello", ![r].attempt = @ + 1, ![r].challenge = NoEntry]
          BY <1>2 DEF AttemptFails
    <2>2. run' = [run EXCEPT ![r] = Retried(r)]
          BY <1>1, <2>1 DEF Retried, Runner
    <2> QED
        BY <1>2, <2>2 DEF AttemptFails
  <1>3. CASE ~(run[r].attempt < Attempts(r))
        BY <1>3 DEF AttemptFails
  <1> QED
      BY <1>2, <1>3

(* So does the end of an attempt.                                           *)
LEMMA AttemptFailsType ==
    ASSUME TypeInv, NEW r \in Runners, run[r].pc \in CyclePcs, AttemptFails(r)
    PROVE  /\ run' \in [Runners -> Runner] /\ \A q \in Runners : Sound(run'[q])
           /\ todo' \subseteq Targets /\ failed' \subseteq Targets
  <1>1. CASE /\ run[r].attempt < Attempts(r)
             /\ run' = [run EXCEPT ![r] = Retried(r)] /\ UNCHANGED <<todo, failed>>
    <2>1. run[r] \in Runner /\ Sound(run[r])
          BY DEF TypeInv, TypeOK
    <2>2. run[r].attempt + 1 \in 1 .. MaxAttempts
          BY <1>1, <2>1, AttemptsBound, MaxAttemptsType DEF Sound
    <2>3. run[r].attempt + 1 \in 0 .. MaxAttempts
          BY <2>2
    <2>4. Retried(r) \in Runner /\ Sound(Retried(r))
          BY <2>1, <2>2, <2>3 DEF Retried, Runner, Sound
    <2> QED
        BY <1>1, <2>4, RunnerType DEF TypeInv, TypeOK
  <1>2. CASE CycleEnds(r, FALSE)
        BY <1>2, CycleEndsType
  <1> QED
      BY <1>1, <1>2, AttemptFailsCases

(* The client starts with runners that have not run yet.                    *)
LEMMA InitType == Init => TypeInv
  <1> SUFFICES ASSUME Init PROVE TypeInv
      OBVIOUS
  <1>1. \A r \in Runners : Fresh(r) \in Runner /\ Sound(Fresh(r))
    <2> SUFFICES ASSUME NEW r \in Runners PROVE Fresh(r) \in Runner /\ Sound(Fresh(r))
        OBVIOUS
    <2>1. (IF r = Main THEN CHOOSE t \in Targets : TRUE ELSE r) \in Targets
          BY ClientAssumption DEF Runners
    <2>2. 0 \in 0 .. MaxAttempts /\ 0 \in 0 .. T2
          BY ClientAssumption, MaxAttemptsType
    <2> QED
        BY <2>1, <2>2 DEF Fresh, Runner, Sound, Modes, CyclePcs
  <1>2. run \in [Runners -> Runner] /\ \A r \in Runners : Sound(run[r])
        BY <1>1 DEF Init
  <1> QED
      BY <1>2, ClientAssumption DEF Init, TypeInv, TypeOK

(* A cycle begins with its first attempt.                                   *)
LEMMA BeginType ==
    ASSUME TypeInv, NEW r \in Runners, NEW t \in Targets, NEW mode \in Modes, Begin(r, t, mode)
    PROVE  TypeInv'
  <1> DEFINE s == [run[r] EXCEPT !.pc = "param", !.target = t, !.mode = mode,
                                 !.cycle = run[r].cycle + 1, !.attempt = 1]
  <1>1. run \in [Runners -> Runner] /\ run[r] \in Runner /\ 1 \in 0 .. MaxAttempts /\ 1 \in 1 .. MaxAttempts
        BY MaxAttemptsType DEF TypeInv, TypeOK
  <1>2. run' = [run EXCEPT ![r] = s]
    <2>1. run' = [run EXCEPT ![r] = [run[r] EXCEPT !.pc = "param", !.target = t, !.mode = mode,
                                                   !.cycle = @ + 1, !.attempt = 1]]
          BY <1>1 DEF Begin
    <2>2. [run[r] EXCEPT !.pc = "param", !.target = t, !.mode = mode, !.cycle = @ + 1, !.attempt = 1] = s
          BY <1>1 DEF Runner
    <2> QED
        BY <2>1, <2>2
  <1>3. run[r].cycle + 1 \in Nat
        BY <1>1 DEF Runner
  <1>4. s \in Runner
        BY <1>1, <1>3 DEF Runner
  <1>5. Sound(s)
        BY <1>1 DEF Runner, Sound
  <1> HIDE DEF s
  <1> QED
      BY <1>2, <1>4, <1>5, RunnerType DEF Begin, TypeInv, TypeOK

(* A runner's own steps keep the types.                                     *)
LEMMA StepType == ASSUME TypeInv, NEW r \in Runners, Step(r) PROVE TypeInv'
  <1>0. run \in [Runners -> Runner] /\ run[r] \in Runner /\ Sound(run[r])
        BY DEF TypeInv, TypeOK
  <1>1. CASE Prepare(r)
    <2>0. run[r].pc \in CyclePcs
          BY <1>1 DEF Prepare, At, CyclePcs
    <2>1. CASE run' = [run EXCEPT ![r].pc = "hello"] /\ UNCHANGED <<todo, failed>>
      <3>1. run' = [run EXCEPT ![r] = [run[r] EXCEPT !.pc = "hello"]]
            BY <1>0, <2>1
      <3> QED
          BY <1>1, <2>0, <2>1, <3>1, GotoType, RunnerType DEF Prepare, TypeInv, TypeOK
    <2>2. CASE CycleEnds(r, FALSE)
          BY <1>1, <2>2, CycleEndsType DEF Prepare, TypeInv, TypeOK
    <2> QED
        BY <1>1, <2>1, <2>2 DEF Prepare
  <1>2. CASE SendHello(r)
    <2>0. run[r].pc \in CyclePcs
          BY <1>2 DEF SendHello, At, CyclePcs
    <2>1. CASE /\ sent' = sent \cup {ThisHello(r)}
               /\ run' = [run EXCEPT ![r] = Awaits(r, "wait")]
               /\ UNCHANGED <<todo, failed>>
      <3>1. sent' \subseteq Hellos
            BY <2>0, <2>1, ThisHelloType DEF TypeInv, TypeOK
      <3>2. run' \in [Runners -> Runner] /\ \A q \in Runners : Sound(run'[q])
            BY <2>0, <2>1, GotoType, RunnerType
      <3> QED
          BY <1>2, <2>1, <3>1, <3>2 DEF SendHello, TypeInv, TypeOK
    <2>2. CASE UNCHANGED sent /\ AttemptFails(r)
          BY <1>2, <2>0, <2>2, AttemptFailsType DEF SendHello, TypeInv, TypeOK
    <2> QED
        BY <1>2, <2>1, <2>2 DEF SendHello
  <1>3. CASE Wait(r)
    <2> DEFINE s == [run[r] EXCEPT !.waited = run[r].waited + 1]
    <2>1. run' = [run EXCEPT ![r] = s]
          BY <1>0, <1>3 DEF Wait, Runner
    <2>2. run[r].waited + 1 \in 0 .. T2
          BY <1>0, <1>3, TimeoutBound, ClientAssumption DEF Wait, Runner
    <2>3. s \in Runner /\ Sound(s)
          BY <1>0, <2>2 DEF Runner, Sound
    <2> HIDE DEF s
    <2> QED
        BY <1>3, <2>1, <2>3, RunnerType DEF Wait, TypeInv, TypeOK
  <1>4. CASE TimeOut(r)
    <2>1. run[r].pc \in CyclePcs
          BY <1>4 DEF TimeOut, At, CyclePcs
    <2> QED
        BY <1>4, <2>1, AttemptFailsType DEF TimeOut, TypeInv, TypeOK
  <1>5. CASE SendAnswer(r)
    <2>0. run[r].pc \in CyclePcs /\ run[r].pc = "sign"
          BY <1>5 DEF SendAnswer, At, CyclePcs
    <2>1. CASE /\ answers' = answers \cup {[hello |-> ThisHello(r), challenge |-> run[r].challenge]}
               /\ CycleEnds(r, TRUE)
      <3>1. answers' \subseteq Answers
            BY <1>0, <2>0, <2>1, ThisHelloType DEF TypeInv, TypeOK, Sound, Answers
      <3> QED
          BY <1>5, <2>1, <3>1, CycleEndsType DEF SendAnswer, TypeInv, TypeOK
    <2>2. CASE UNCHANGED answers /\ AttemptFails(r)
          BY <1>5, <2>0, <2>2, AttemptFailsType DEF SendAnswer, TypeInv, TypeOK
    <2> QED
        BY <1>5, <2>1, <2>2 DEF SendAnswer
  <1> QED
      BY <1>1, <1>2, <1>3, <1>4, <1>5 DEF Step

(* What the socket brings keeps the types.                                  *)
LEMMA ReceiveType ==
    ASSUME TypeInv, NEW r \in Runners, NEW h \in OnSocket(r), Receive(r, h)
    PROVE  TypeInv'
  <1>0. run \in [Runners -> Runner] /\ run[r] \in Runner /\ Sound(run[r])
        BY DEF TypeInv, TypeOK
  <1>1. run[r].pc \in CyclePcs /\ h \in Hellos
        BY DEF Receive, At, CyclePcs, OnSocket, TypeInv, TypeOK
  <1>2. CASE Opens(r, h)
    <2> DEFINE s == [run[r] EXCEPT !.pc = "sign", !.challenge = h]
    <2>1. run' = [run EXCEPT ![r] = s]
          BY <1>0, <1>2 DEF Receive
    <2>2. s \in Runner /\ Sound(s)
          BY <1>0, <1>1 DEF Runner, Sound, CyclePcs
    <2> HIDE DEF s
    <2> QED
        BY <1>2, <2>1, <2>2, RunnerType DEF Receive, TypeInv, TypeOK
  <1>3. CASE ~Opens(r, h)
        BY <1>1, <1>3, AttemptFailsType DEF Receive, TypeInv, TypeOK
  <1> QED
      BY <1>2, <1>3

(* The shutdown and the end of the process stop runners wherever they are.  *)
LEMMA StopType == ASSUME TypeInv, Shutdown \/ Exit PROVE TypeInv'
  <1>0. run \in [Runners -> Runner] /\ (\A r \in Runners : Sound(run[r])) /\ 0 \in 0 .. T2
        BY ClientAssumption DEF TypeInv, TypeOK
  <1>1. CASE Shutdown
    <2>1. run' \in [Runners -> Runner] /\ \A r \in Runners : Sound(run'[r])
      <3> DEFINE s(r) == [run[r] EXCEPT !.pc = "dead", !.waited = 0]
      <3>1. \A r \in Runners : s(r) \in Runner /\ Sound(s(r))
            BY <1>0 DEF Runner, Sound, CyclePcs
      <3>2. run' = [r \in Runners |-> IF r # Main /\ run[r].pc \in {"sleep", "param", "wait"}
                                     THEN s(r) ELSE run[r]]
            BY <1>1 DEF Shutdown
      <3> HIDE DEF s
      <3> QED
          BY <1>0, <3>1, <3>2
    <2>2. todo' \subseteq Targets
          BY <1>1 DEF Shutdown
    <2> QED
        BY <1>1, <2>1, <2>2 DEF Shutdown, TypeInv, TypeOK
  <1>2. CASE Exit
    <2>1. run' \in [Runners -> Runner] /\ \A r \in Runners : Sound(run'[r])
          BY <1>0, <1>2 DEF Exit, Runner, Sound, CyclePcs
    <2> QED
        BY <1>2, <2>1 DEF Exit, TypeInv, TypeOK
  <1> QED
      BY <1>1, <1>2

(* Every step of the client keeps the types.                                *)
LEMMA NextType == TypeInv /\ [Next]_vars => TypeInv'
  <1> SUFFICES ASSUME TypeInv, [Next]_vars PROVE TypeInv'
      OBVIOUS
  <1>0. Targets \subseteq Runners /\ Main \in Runners
        BY DEF Runners
  <1>1. ASSUME NEW t \in Targets, Pulse(t) PROVE TypeInv'
        BY <1>0, <1>1, BeginType DEF Pulse, Modes
  <1>2. ASSUME NEW t \in Targets, Serve(t) PROVE TypeInv'
        BY <1>0, <1>2, BeginType DEF Serve, Modes
  <1>3. ASSUME NEW r \in Runners, ReceiveNoise(r) PROVE TypeInv'
    <2>1. run[r].pc \in CyclePcs
          BY <1>3 DEF ReceiveNoise, At, CyclePcs
    <2> QED
        BY <1>3, <2>1, AttemptFailsType DEF ReceiveNoise, TypeInv, TypeOK
  <1>4. CASE UNCHANGED vars
        BY <1>4 DEF vars, TypeInv, TypeOK
  <1> QED
      BY <1>1, <1>2, <1>3, <1>4, StepType, ReceiveType, StopType DEF Next

LEMMA TypeInvariant == Spec => []TypeInv
  BY InitType, NextType, PTL DEF Spec

(* The runners, the targets still to be served and the HELLOs and answers   *)
(* keep their types; the attempts stay within the configured retries and    *)
(* the waits within retry_max.                                              *)
THEOREM TypeCorrect == Spec => []TypeOK
  BY TypeInvariant, PTL DEF TypeInv

-----------------------------------------------------------------------------
(* What a step does to the locals of the runners.                          *)

\* Of all runners only r moves, to one of the points pcs of the same cycle or
\* out of it.
Moves(r, pcs) ==
    /\ \A q \in Runners : q # r => run'[q] = run[q]
    /\ run'[r].pc \in pcs
    /\ run'[r].cycle = run[r].cycle /\ run'[r].target = run[r].target /\ run'[r].mode = run[r].mode

(* The end of a cycle leaves its number, target and mode alone.             *)
LEMMA CycleEndsMoves ==
    ASSUME TypeInv, NEW r \in Runners, NEW ok, CycleEnds(r, ok)
    PROVE  Moves(r, {"sleep", "dead"}) /\ (r = Main => run'[r].pc = "sleep")
  <1>1. run \in [Runners -> Runner] /\ run[r] \in Runner
        BY DEF TypeInv, TypeOK
  <1>2. run' = [run EXCEPT ![r] = [Awaits(r, "sleep") EXCEPT !.attempt = 0, !.challenge = NoEntry]]
        BY DEF CycleEnds
  <1> QED
      BY <1>1, <1>2 DEF Moves, Awaits, Alive, Runner

(* A failed attempt is followed by another one or by the end of the cycle.  *)
LEMMA AttemptFailsMoves ==
    ASSUME TypeInv, NEW r \in Runners, AttemptFails(r)
    PROVE  Moves(r, {"hello", "sleep", "dead"})
  <1>1. run \in [Runners -> Runner] /\ run[r] \in Runner
        BY DEF TypeInv, TypeOK
  <1>2. CASE run' = [run EXCEPT ![r] = Retried(r)]
        BY <1>1, <1>2 DEF Moves, Retried, Runner
  <1>3. CASE CycleEnds(r, FALSE)
        BY <1>3, CycleEndsMoves DEF Moves
  <1> QED
      BY <1>2, <1>3, AttemptFailsCases

(* The other steps of a cycle.                                              *)
LEMMA StepMoves ==
    ASSUME TypeInv, NEW r \in Runners, Step(r) \/ ReceiveNoise(r)
    PROVE  Moves(r, {"hello", "wait", "sleep", "dead"})
  <1>0. run \in [Runners -> Runner] /\ run[r] \in Runner
        BY DEF TypeInv, TypeOK
  <1>1. CASE Prepare(r)
    <2>1. CASE run' = [run EXCEPT ![r].pc = "hello"]
          BY <1>0, <2>1 DEF Moves, Runner
    <2>2. CASE CycleEnds(r, FALSE)
          BY <2>2, CycleEndsMoves DEF Moves
    <2> QED
        BY <1>1, <2>1, <2>2 DEF Prepare
  <1>2. CASE SendHello(r)
    <2>1. CASE run' = [run EXCEPT ![r] = Awaits(r, "wait")]
          BY <1>0, <2>1 DEF Moves, Awaits, Runner
    <2>2. CASE AttemptFails(r)
          BY <2>2, AttemptFailsMoves DEF Moves
    <2> QED
        BY <1>2, <2>1, <2>2 DEF SendHello
  <1>3. CASE Wait(r)
    <2>1. run' = [run EXCEPT ![r].waited = @ + 1] /\ run[r].pc = "wait"
          BY <1>3 DEF Wait, At
    <2> QED
        BY <1>0, <2>1 DEF Moves, Runner
  <1>4. CASE TimeOut(r) \/ ReceiveNoise(r)
        BY <1>4, AttemptFailsMoves DEF TimeOut, ReceiveNoise, Moves
  <1>5. CASE SendAnswer(r)
        BY <1>5, AttemptFailsMoves, CycleEndsMoves DEF SendAnswer, Moves
  <1> QED
      BY <1>1, <1>2, <1>3, <1>4, <1>5 DEF Step

-----------------------------------------------------------------------------
(* What is signed.                                                         *)

\* A HELLO is of its runner's cycle or of an earlier one, and one of the cycle
\* has the cycle's target and mode.
SentInv ==
    \A h \in sent :
        /\ h.cycle <= run[h.by].cycle
        /\ h.cycle = run[h.by].cycle => h.target = run[h.by].target /\ h.mode = run[h.by].mode

\* A runner that is about to sign has a CHALLENGE that came to its socket and
\* that it could open.
SignInv ==
    \A r \in Runners : At(r, "sign") =>
        run[r].challenge \in OnSocket(r) /\ Opens(r, run[r].challenge)

OwnInv == SentInv /\ SignInv /\ AnswersOwnHello

(* A step of a cycle that sends its own HELLO or nothing, and that does not *)
(* come to the point of signing.                                            *)
LEMMA OwnStep ==
    ASSUME TypeInv, SentInv, SignInv, NEW r \in Runners, NEW pcs, Moves(r, pcs), "sign" \notin pcs,
           sent' = sent \/ sent' = sent \cup {ThisHello(r)}
    PROVE  SentInv' /\ SignInv'
  <1>1. \A h \in sent : h.by \in Runners /\ h.cycle \in Nat
        BY DEF TypeInv, TypeOK, Hellos
  <1>2. \A q \in Runners : /\ run'[q].cycle = run[q].cycle
                           /\ run'[q].target = run[q].target /\ run'[q].mode = run[q].mode
        BY DEF Moves
  <1>3. /\ ThisHello(r).by = r /\ ThisHello(r).cycle = run[r].cycle
        /\ ThisHello(r).target = run[r].target /\ ThisHello(r).mode = run[r].mode
        BY DEF ThisHello
  <1>4. run[r].cycle \in Nat
        BY DEF TypeInv, TypeOK, Runner
  <1>5. SentInv'
    <2> SUFFICES ASSUME NEW h \in sent'
                 PROVE  /\ h.cycle <= run'[h.by].cycle
                        /\ h.cycle = run'[h.by].cycle =>
                              h.target = run'[h.by].target /\ h.mode = run'[h.by].mode
        BY DEF SentInv
    <2>1. CASE h \in sent
          BY <1>1, <1>2, <2>1 DEF SentInv
    <2>2. CASE h = ThisHello(r)
          BY <1>2, <1>3, <1>4, <2>2
    <2> QED
        BY <2>1, <2>2
  <1>6. SignInv'
    <2> SUFFICES ASSUME NEW q \in Runners, At(q, "sign")'
                 PROVE  (run[q].challenge \in OnSocket(q) /\ Opens(q, run[q].challenge))'
        BY DEF SignInv
    <2>1. q # r /\ run'[q] = run[q]
          BY DEF Moves, At
    <2>2. run[q].challenge \in OnSocket(q) /\ Opens(q, run[q].challenge)
          BY <2>1 DEF SignInv, At
    <2> QED
        BY <2>1, <2>2 DEF OnSocket, Opens, ThisHello
  <1> QED
      BY <1>5, <1>6

(* What was answered before stays answered rightly.                         *)
LEMMA AnswersStay ==
    ASSUME AnswersOwnHello, sent \subseteq sent', UNCHANGED answers
    PROVE  AnswersOwnHello'
  BY DEF AnswersOwnHello

LEMMA OwnInit == Init => OwnInv
  <1>1. Init => \A r \in Runners : run[r].pc = "sleep"
        BY DEF Init, Fresh
  <1> QED
      BY <1>1 DEF Init, OwnInv, SentInv, SignInv, AnswersOwnHello, At

(* A cycle begins: the HELLOs sent before are of an earlier one.            *)
LEMMA OwnBegin ==
    ASSUME TypeInv, OwnInv, NEW r \in Runners, NEW t, NEW mode, Begin(r, t, mode)
    PROVE  OwnInv'
  <1>1. /\ run \in [Runners -> Runner] /\ run[r] \in Runner
        /\ \A h \in sent : h.by \in Runners /\ h.cycle \in Nat
        BY DEF TypeInv, TypeOK, Hellos
  <1>2. /\ \A q \in Runners : q # r => run'[q] = run[q]
        /\ run'[r].pc = "param" /\ run'[r].cycle = run[r].cycle + 1
        /\ run[r].cycle \in Nat
        BY <1>1 DEF Begin, Runner
  <1>3. UNCHANGED <<sent, answers>>
        BY DEF Begin
  <1>4. SentInv'
        BY <1>1, <1>2, <1>3 DEF OwnInv, SentInv
  <1>5. SignInv'
    <2> SUFFICES ASSUME NEW q \in Runners, At(q, "sign")'
                 PROVE  (run[q].challenge \in OnSocket(q) /\ Opens(q, run[q].challenge))'
        BY DEF SignInv
    <2>1. q # r /\ run'[q] = run[q]
          BY <1>2 DEF At
    <2>2. run[q].challenge \in OnSocket(q) /\ Opens(q, run[q].challenge)
          BY <2>1 DEF OwnInv, SignInv, At
    <2> QED
        BY <1>3, <2>1, <2>2 DEF OnSocket, Opens, ThisHello
  <1> QED
      BY <1>3, <1>4, <1>5, AnswersStay DEF OwnInv

(* A runner's own steps.  What it signs is the CHALLENGE it was brought to  *)
(* the point of signing with.                                               *)
LEMMA OwnOfStep ==
    ASSUME TypeInv, OwnInv, NEW r \in Runners, Step(r) \/ ReceiveNoise(r)
    PROVE  OwnInv'
  <1>1. Moves(r, {"hello", "wait", "sleep", "dead"})
        BY StepMoves
  <1>2. sent' = sent \/ sent' = sent \cup {ThisHello(r)}
        BY DEF Step, ReceiveNoise, Prepare, SendHello, Wait, TimeOut, SendAnswer
  <1>3. SentInv' /\ SignInv'
        BY <1>1, <1>2, OwnStep DEF OwnInv
  <1>4. CASE UNCHANGED answers
        BY <1>2, <1>3, <1>4, AnswersStay DEF OwnInv
  <1>5. CASE /\ At(r, "sign") /\ UNCHANGED sent
             /\ answers' = answers \cup {[hello |-> ThisHello(r), challenge |-> run[r].challenge]}
    <2> DEFINE c == run[r].challenge
               a == [hello |-> ThisHello(r), challenge |-> c]
    <2>1. c \in sent /\ c.by = r /\ c.cycle = run[r].cycle /\ Opens(r, c)
          BY <1>5 DEF OwnInv, SignInv, OnSocket
    <2>2. c.target = run[r].target /\ c.mode = run[r].mode
          BY <2>1 DEF OwnInv, SentInv
    <2>3. /\ a.challenge = c /\ a.hello = ThisHello(r) /\ ThisHello(r).by = r
          /\ ThisHello(r).cycle = run[r].cycle /\ ThisHello(r).target = run[r].target
          /\ ThisHello(r).mode = run[r].mode
          BY DEF ThisHello
    <2>4. answers' = answers \cup {a}
          BY <1>5
    <2> HIDE DEF a, c
    <2>5. AnswersOwnHello'
          BY <1>5, <2>1, <2>2, <2>3, <2>4 DEF OwnInv, AnswersOwnHello, Opens
    <2> QED
        BY <1>3, <2>5 DEF OwnInv
  <1> QED
      BY <1>4, <1>5 DEF Step, ReceiveNoise, Prepare, SendHello, Wait, TimeOut, SendAnswer

(* A reply that opens is one to a HELLO of this cycle.                      *)
LEMMA OwnReceive ==
    ASSUME TypeInv, OwnInv, NEW r \in Runners, NEW h \in OnSocket(r), Receive(r, h)
    PROVE  OwnInv'
  <1>0. run \in [Runners -> Runner] /\ run[r] \in Runner
        BY DEF TypeInv, TypeOK
  <1>1. UNCHANGED <<sent, answers>>
        BY DEF Receive
  <1>2. CASE Opens(r, h)
    <2>1. run' = [run EXCEPT ![r].pc = "sign", ![r].challenge = h]
          BY <1>2 DEF Receive
    <2>2. /\ \A q \in Runners : q # r => run'[q] = run[q]
          /\ run'[r] = [run[r] EXCEPT !.pc = "sign", !.challenge = h]
          BY <1>0, <2>1
    <2>3. /\ run'[r].challenge = h /\ run'[r].cycle = run[r].cycle /\ run'[r].attempt = run[r].attempt
          /\ run'[r].target = run[r].target /\ run'[r].mode = run[r].mode
          BY <1>0, <2>2 DEF Runner
    <2>4. SentInv'
      <3>1. \A g \in sent : g.by \in Runners
            BY DEF TypeInv, TypeOK, Hellos
      <3>2. \A q \in Runners : /\ run'[q].cycle = run[q].cycle
                               /\ run'[q].target = run[q].target /\ run'[q].mode = run[q].mode
            BY <2>2, <2>3
      <3> QED
          BY <1>1, <3>1, <3>2 DEF OwnInv, SentInv
    <2>5. SignInv'
      <3> SUFFICES ASSUME NEW q \in Runners, At(q, "sign")'
                   PROVE  (run[q].challenge \in OnSocket(q) /\ Opens(q, run[q].challenge))'
          BY DEF SignInv
      <3>1. CASE q = r
            BY <1>1, <1>2, <2>3, <3>1 DEF OnSocket, Opens, ThisHello
      <3>2. CASE q # r
        <4>1. run[q].challenge \in OnSocket(q) /\ Opens(q, run[q].challenge)
              BY <2>2, <3>2 DEF OwnInv, SignInv, At
        <4> QED
            BY <1>1, <2>2, <3>2, <4>1 DEF OnSocket, Opens, ThisHello
      <3> QED
          BY <3>1, <3>2
    <2> QED
        BY <1>1, <2>4, <2>5, AnswersStay DEF OwnInv
  <1>3. CASE ~Opens(r, h)
    <2>1. Moves(r, {"hello", "sleep", "dead"})
          BY <1>3, AttemptFailsMoves DEF Receive
    <2> QED
        BY <1>1, <2>1, OwnStep, AnswersStay DEF OwnInv
  <1> QED
      BY <1>2, <1>3

(* A shutdown and the end of the process send nothing.                      *)
LEMMA OwnStop == ASSUME TypeInv, OwnInv, Shutdown \/ Exit PROVE OwnInv'
  <1>1. UNCHANGED <<sent, answers>> /\ \A h \in sent : h.by \in Runners
        BY DEF Shutdown, Exit, TypeInv, TypeOK, Hellos
  <1>2. run \in [Runners -> Runner]
        BY DEF TypeInv, TypeOK
  <1>3. \A q \in Runners : /\ run'[q].cycle = run[q].cycle
                           /\ run'[q].target = run[q].target /\ run'[q].mode = run[q].mode
                           /\ run'[q].pc = "sign" => run'[q] = run[q]
    <2>1. CASE Shutdown
          BY <1>2, <2>1 DEF Shutdown, Runner
    <2>2. CASE Exit
          BY <1>2, <2>2 DEF Exit, Runner
    <2> QED
        BY <2>1, <2>2
  <1>4. SentInv'
        BY <1>1, <1>3 DEF OwnInv, SentInv
  <1>5. SignInv'
    <2> SUFFICES ASSUME NEW q \in Runners, At(q, "sign")'
                 PROVE  (run[q].challenge \in OnSocket(q) /\ Opens(q, run[q].challenge))'
        BY DEF SignInv
    <2>1. run'[q] = run[q]
          BY <1>3 DEF At
    <2>2. run[q].challenge \in OnSocket(q) /\ Opens(q, run[q].challenge)
          BY <2>1 DEF OwnInv, SignInv, At
    <2> QED
        BY <1>1, <2>1, <2>2 DEF OnSocket, Opens, ThisHello
  <1> QED
      BY <1>1, <1>4, <1>5, AnswersStay DEF OwnInv

LEMMA OwnNext == TypeInv /\ OwnInv /\ [Next]_vars => OwnInv'
  <1> SUFFICES ASSUME TypeInv, OwnInv, [Next]_vars PROVE OwnInv'
      OBVIOUS
  <1>0. Targets \subseteq Runners /\ Main \in Runners
        BY DEF Runners
  <1>1. ASSUME NEW t \in Targets, Pulse(t) \/ Serve(t) PROVE OwnInv'
        BY <1>0, <1>1, OwnBegin DEF Pulse, Serve
  <1>2. CASE UNCHANGED vars
        BY <1>2 DEF vars, OwnInv, SentInv, SignInv, AnswersOwnHello, At, OnSocket, Opens, ThisHello
  <1> QED
      BY <1>1, <1>2, OwnOfStep, OwnReceive, OwnStop DEF Next

(* attempt_once and unframe_inbound: for any number of servers, retries and *)
(* cycles, what a runner signs answers a CHALLENGE for a HELLO of its own   *)
(* cycle, target and mode, and with wire encryption the HELLO of that very  *)
(* attempt.                                                                 *)
THEOREM AnswersOwnHelloHolds == Spec => []AnswersOwnHello
  <1>1. Spec => []OwnInv
        BY TypeInvariant, OwnInit, OwnNext, PTL DEF Spec
  <1> QED
      BY <1>1, PTL DEF OwnInv

-----------------------------------------------------------------------------
(* The exit code of a one-shot command.                                    *)

\* Main sent its RESPONSE or BYE to t.
Answered(t) == \E a \in answers : a.hello.by = Main /\ a.hello.target = t

\* Of a one-shot command: the server Main is busy with is still to be served, one
\* that is still to be served has neither failed nor been answered, and of the
\* others each has either failed or been answered.
ServeInv ==
    command # "run" =>
        /\ phase \in {"oneshot", "done"}
        /\ phase = "done" => todo = {}
        /\ run[Main].pc \in CyclePcs => run[Main].target \in todo
        /\ \A t \in todo : t \notin failed /\ ~Answered(t)
        /\ \A t \in Targets \ todo : t \in failed <=> ~Answered(t)

(* A step that serves no target.                                            *)
LEMMA ServeStays ==
    ASSUME ServeInv, UNCHANGED <<command, phase, todo, failed>>,
           run'[Main].pc \in CyclePcs => run[Main].pc \in CyclePcs /\ run'[Main].target = run[Main].target,
           \A t : Answered(t)' <=> Answered(t)
    PROVE  ServeInv'
  BY DEF ServeInv

(* Main ends the cycle of a target: it has been answered, or it failed.     *)
LEMMA ServeEnds ==
    ASSUME TypeInv, ServeInv, UNCHANGED <<command, phase>>, run[Main].pc \in CyclePcs,
           NEW ok \in BOOLEAN, CycleEnds(Main, ok),
           \A t : Answered(t)' <=> Answered(t) \/ (ok /\ t = run[Main].target)
    PROVE  ServeInv'
  <1>1. Main \in Runners
        BY DEF Runners
  <1>2. run'[Main].pc = "sleep"
        BY <1>1, CycleEndsMoves
  <1>3. /\ todo' = todo \ {run[Main].target}
        /\ failed' = IF ok THEN failed ELSE failed \cup {run[Main].target}
        BY DEF CycleEnds, FailedAfter
  <1> QED
      BY <1>2, <1>3 DEF ServeInv, CyclePcs

(* A failed attempt of Main, after which it tries again or gives up.        *)
LEMMA ServeFails ==
    ASSUME TypeInv, ServeInv, UNCHANGED <<command, phase, answers>>, run[Main].pc \in CyclePcs,
           AttemptFails(Main)
    PROVE  ServeInv'
  <1>1. Main \in Runners /\ \A t : Answered(t)' <=> Answered(t)
        BY DEF Runners, Answered
  <1>2. CASE run' = [run EXCEPT ![Main] = Retried(Main)] /\ UNCHANGED <<todo, failed>>
    <2>1. run'[Main].target = run[Main].target
          BY <1>1, <1>2 DEF Retried, TypeInv, TypeOK, Runner
    <2> QED
        BY <1>1, <1>2, <2>1, ServeStays
  <1>3. CASE CycleEnds(Main, FALSE)
        BY <1>1, <1>3, ServeEnds
  <1> QED
      BY <1>1, <1>2, <1>3, AttemptFailsCases

(* A pulse loop leaves Main's account alone.                                *)
LEMMA ServeOther ==
    ASSUME TypeInv, ServeInv, NEW r \in Targets,
           \/ Step(r) \/ ReceiveNoise(r)
           \/ \E h \in OnSocket(r) : Receive(r, h)
    PROVE  ServeInv'
  <1>0. r \in Runners /\ r # Main /\ Main \in Runners /\ run \in [Runners -> Runner]
        BY ClientAssumption DEF Runners, TypeInv, TypeOK
  <1>1. UNCHANGED <<command, phase>>
        BY DEF Step, ReceiveNoise, Receive, Prepare, SendHello, Wait, TimeOut, SendAnswer
  <1>2. CycleEnds(r, TRUE) \/ CycleEnds(r, FALSE) \/ AttemptFails(r) => UNCHANGED <<todo, failed>>
        BY <1>0 DEF CycleEnds, AttemptFails
  <1>3. UNCHANGED <<todo, failed>>
    <2>1. CASE Step(r) \/ ReceiveNoise(r)
          BY <1>2, <2>1 DEF Step, ReceiveNoise, Prepare, SendHello, Wait, TimeOut, SendAnswer
    <2>2. CASE \E h \in OnSocket(r) : Receive(r, h)
          BY <1>2, <2>2 DEF Receive
    <2> QED
        BY <2>1, <2>2
  <1>4. run'[Main] = run[Main]
    <2>1. CASE Step(r) \/ ReceiveNoise(r)
          BY <1>0, <2>1, StepMoves DEF Moves
    <2>2. CASE \E h \in OnSocket(r) : Receive(r, h)
      <3>1. PICK h \in OnSocket(r) : Receive(r, h)
            BY <2>2
      <3>2. CASE Opens(r, h)
            BY <1>0, <3>1, <3>2 DEF Receive
      <3>3. CASE ~Opens(r, h)
            BY <1>0, <3>1, <3>3, AttemptFailsMoves DEF Receive, Moves
      <3> QED
          BY <3>2, <3>3
    <2> QED
        BY <2>1, <2>2
  <1>5. \A t : Answered(t)' <=> Answered(t)
    <2>1. \/ UNCHANGED answers
          \/ answers' = answers \cup {[hello |-> ThisHello(r), challenge |-> run[r].challenge]}
          BY DEF Step, ReceiveNoise, Receive, Prepare, SendHello, Wait, TimeOut, SendAnswer
    <2>2. ThisHello(r).by # Main
          BY <1>0 DEF ThisHello
    <2> QED
        BY <2>1, <2>2 DEF Answered
  <1> QED
      BY <1>1, <1>3, <1>4, <1>5, ServeStays

(* A step of Main.                                                          *)
LEMMA ServeMain ==
    ASSUME TypeInv, ServeInv,
           \/ Step(Main) \/ ReceiveNoise(Main)
           \/ \E h \in OnSocket(Main) : Receive(Main, h)
    PROVE  ServeInv'
  <1>0. Main \in Runners /\ run \in [Runners -> Runner] /\ run[Main] \in Runner
        BY DEF Runners, TypeInv, TypeOK
  <1>a. ASSUME UNCHANGED answers PROVE \A t : Answered(t)' <=> Answered(t)
        BY <1>a DEF Answered
  <1>1. CASE Prepare(Main)
    <2>0. run[Main].pc \in CyclePcs /\ UNCHANGED <<command, phase, answers>>
          BY <1>1 DEF Prepare, At, CyclePcs
    <2>1. CASE run' = [run EXCEPT ![Main].pc = "hello"] /\ UNCHANGED <<todo, failed>>
      <3>1. run'[Main].target = run[Main].target
            BY <1>0, <2>1 DEF Runner
      <3> QED
          BY <1>a, <2>0, <2>1, <3>1, ServeStays
    <2>2. CASE CycleEnds(Main, FALSE)
          BY <1>a, <2>0, <2>2, ServeEnds
    <2> QED
        BY <1>1, <2>1, <2>2 DEF Prepare
  <1>2. CASE SendHello(Main)
    <2>0. run[Main].pc \in CyclePcs /\ UNCHANGED <<command, phase, answers>>
          BY <1>2 DEF SendHello, At, CyclePcs
    <2>1. CASE run' = [run EXCEPT ![Main] = Awaits(Main, "wait")] /\ UNCHANGED <<todo, failed>>
      <3>1. run'[Main].target = run[Main].target
            BY <1>0, <2>1 DEF Awaits, Runner
      <3> QED
          BY <1>a, <2>0, <2>1, <3>1, ServeStays
    <2>2. CASE AttemptFails(Main)
          BY <2>0, <2>2, ServeFails
    <2> QED
        BY <1>2, <2>1, <2>2 DEF SendHello
  <1>3. CASE Wait(Main)
    <2>1. run[Main].pc \in CyclePcs /\ UNCHANGED <<command, phase, todo, failed, answers>>
          BY <1>3 DEF Wait, At, CyclePcs
    <2>2. run'[Main].target = run[Main].target
          BY <1>0, <1>3 DEF Wait, Runner
    <2> QED
        BY <1>a, <2>1, <2>2, ServeStays
  <1>4. CASE TimeOut(Main) \/ ReceiveNoise(Main)
    <2>1. run[Main].pc \in CyclePcs /\ UNCHANGED <<command, phase, answers>> /\ AttemptFails(Main)
          BY <1>4 DEF TimeOut, ReceiveNoise, At, CyclePcs
    <2> QED
        BY <2>1, ServeFails
  <1>5. CASE SendAnswer(Main)
    <2>0. run[Main].pc \in CyclePcs /\ UNCHANGED <<command, phase>>
          BY <1>5 DEF SendAnswer, At, CyclePcs
    <2>1. CASE /\ answers' = answers \cup {[hello |-> ThisHello(Main), challenge |-> run[Main].challenge]}
               /\ CycleEnds(Main, TRUE)
      <3>1. ThisHello(Main).by = Main /\ ThisHello(Main).target = run[Main].target
            BY DEF ThisHello
      <3>2. \A t : Answered(t)' <=> Answered(t) \/ t = run[Main].target
        <4> DEFINE b == [hello |-> ThisHello(Main), challenge |-> run[Main].challenge]
        <4>1. b.hello.by = Main /\ b.hello.target = run[Main].target
              BY <3>1
        <4>2. answers' = answers \cup {b}
              BY <2>1
        <4> HIDE DEF b
        <4> QED
            BY <4>1, <4>2 DEF Answered
      <3> QED
          BY <2>0, <2>1, <3>2, ServeEnds
    <2>2. CASE UNCHANGED answers /\ AttemptFails(Main)
          BY <2>0, <2>2, ServeFails
    <2> QED
        BY <1>5, <2>1, <2>2 DEF SendAnswer
  <1>6. ASSUME NEW h \in OnSocket(Main), Receive(Main, h) PROVE ServeInv'
    <2>0. run[Main].pc \in CyclePcs /\ UNCHANGED <<command, phase, answers>>
          BY <1>6 DEF Receive, At, CyclePcs
    <2>1. CASE Opens(Main, h)
      <3>1. UNCHANGED <<todo, failed>> /\ run'[Main].target = run[Main].target
            BY <1>0, <1>6, <2>1 DEF Receive, Runner
      <3> QED
          BY <1>a, <2>0, <3>1, ServeStays
    <2>2. CASE ~Opens(Main, h)
          BY <1>6, <2>0, <2>2, ServeFails DEF Receive
    <2> QED
        BY <2>1, <2>2
  <1> QED
      BY <1>1, <1>2, <1>3, <1>4, <1>5, <1>6 DEF Step

LEMMA ServeNext == TypeInv /\ ServeInv /\ [Next]_vars => ServeInv'
  <1> SUFFICES ASSUME TypeInv, ServeInv, [Next]_vars PROVE ServeInv'
      OBVIOUS
  <1>0. Main \in Runners /\ Main \notin Targets /\ Targets \subseteq Runners /\ run \in [Runners -> Runner]
        BY ClientAssumption DEF Runners, TypeInv, TypeOK
  <1>a. ASSUME UNCHANGED answers PROVE \A t : Answered(t)' <=> Answered(t)
        BY <1>a DEF Answered
  <1>1. ASSUME NEW t \in Targets, Pulse(t) PROVE ServeInv'
    <2>1. run'[Main] = run[Main] /\ UNCHANGED <<command, phase, todo, failed, answers>>
          BY <1>0, <1>1 DEF Pulse, Begin
    <2> QED
        BY <1>a, <2>1, ServeStays
  <1>2. ASSUME NEW t \in Targets, Serve(t) PROVE ServeInv'
    <2>1. UNCHANGED <<command, phase, todo, failed, answers>> /\ t \in todo
          BY <1>2 DEF Serve, Begin
    <2>2. run'[Main].target = t
          BY <1>0, <1>2 DEF Serve, Begin, Runner
    <2> QED
        BY <1>a, <2>1, <2>2 DEF ServeInv
  <1>3. CASE Shutdown
        BY <1>3 DEF Shutdown, ServeInv
  <1>4. CASE Exit
    <2>1. run'[Main].pc = "dead"
          BY <1>0, <1>4 DEF Exit, Runner
    <2>2. phase' = "done" /\ todo = {} /\ UNCHANGED <<command, todo, failed, answers>>
          BY <1>4 DEF Exit
    <2> QED
        BY <1>a, <2>1, <2>2 DEF ServeInv, CyclePcs
  <1>5. CASE UNCHANGED vars
        BY <1>a, <1>5, ServeStays DEF vars
  <1>6. \A r \in Runners : r = Main \/ r \in Targets
        BY DEF Runners
  <1> QED
      BY <1>1, <1>2, <1>3, <1>4, <1>5, <1>6, ServeMain, ServeOther DEF Next

LEMMA ServeInit == Init => ServeInv
  <1> SUFFICES ASSUME Init PROVE ServeInv
      OBVIOUS
  <1>1. run[Main].pc = "sleep"
        BY DEF Init, Fresh, Runners
  <1> QED
      BY <1>1 DEF Init, ServeInv, Answered, CyclePcs

(* run_targets: a one-shot command, whatever its servers answer, reports    *)
(* success exactly if it sent its RESPONSE or BYE to every one of them.     *)
THEOREM ExitCodeTellsHolds == Spec => []ExitCodeTells
  <1>1. TypeInv /\ ServeInv => ExitCodeTells
    <2> SUFFICES ASSUME TypeInv, ServeInv, phase = "done", command # "run"
                 PROVE  failed = {} <=> \A t \in Targets : Answered(t)
        BY DEF ExitCodeTells, Answered
    <2>1. todo = {} /\ failed \subseteq Targets
          BY DEF ServeInv, TypeInv, TypeOK
    <2> QED
        BY <2>1 DEF ServeInv
  <1>2. Spec => []ServeInv
        BY TypeInvariant, ServeInit, ServeNext, PTL DEF Spec
  <1> QED
      BY <1>1, <1>2, TypeInvariant, PTL

=============================================================================
