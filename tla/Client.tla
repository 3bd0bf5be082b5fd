------------------------------- MODULE Client -------------------------------
(***************************************************************************)
(* The client (client.rs): one pulse loop per server target, the retries   *)
(* of a handshake on one socket, the BYEs of a clean shutdown, and the     *)
(* one-shot commands pulse, ping and bye.  A runner is a pulse loop (named *)
(* by its target) or Main, which runs the one-shot and shutdown cycles one *)
(* after the other.                                                        *)
(*                                                                         *)
(* The server is whatever answers a HELLO, late, twice or never.  A reply  *)
(* reaches only the socket its HELLO left from, and each cycle binds a new *)
(* one.  A CHALLENGE is named by the HELLO it answers: its sealed form is  *)
(* bound to that HELLO's nonce, which is fresh in every attempt.           *)
(***************************************************************************)
EXTENDS Maps, FiniteSetsExt

CONSTANTS
    Targets,        \* the resolved servers
    SealedTargets,  \* the ones with wire_encryption
    Main,           \* the main task
    Commands,       \* of "run" (the daemon), "pulse", "ping", "bye"
    ByeModes,       \* whether bye_on_shutdown may be on (TRUE) or off
    Retries,        \* retries
    T1,             \* retry_initial_ms
    T2,             \* retry_max_ms
    Noise,          \* whether datagrams that are no CHALLENGE reach the socket
    MaxCycles       \* bound on the cycles of the pulse loops together

ASSUME ClientAssumption ==
    /\ Main \notin Targets /\ SealedTargets \subseteq Targets
    /\ IsFiniteSet(Targets) /\ Targets # {}            \* the primary is always there
    /\ Commands \subseteq {"run", "pulse", "ping", "bye"} /\ ByeModes \subseteq BOOLEAN
    /\ Retries \in Nat /\ Noise \in BOOLEAN /\ MaxCycles \in Nat
    /\ T1 \in Nat \ {0} /\ T2 \in Nat /\ T1 <= T2       \* ClientConfig::validate

ASSUME HelloAssumption == NoEntry \notin [by : Targets \cup {Main}, cycle : Nat, attempt : Nat,
                                          target : Targets, mode : {"renew", "release"}]

VARIABLES
    command,     \* what the process was started for
    phase,       \* "running", "stopping", "oneshot" or "done"
    run,         \* the locals of each runner
    todo,        \* the targets Main has still to serve
    failed,      \* the targets Main has failed to serve
    sent,        \* the HELLOs sent so far
    answers      \* history: the RESPONSEs and BYEs sent

vars == <<command, phase, run, todo, failed, sent, answers>>

Runners == Targets \cup {Main}
Modes == {"renew", "release"}

\* The configured retries, at least one.
MaxAttempts == IF Retries > 1 THEN Retries ELSE 1

Hellos == [by : Runners, cycle : Nat, attempt : 1 .. MaxAttempts, target : Targets, mode : Modes]
Runner == [pc : {"sleep", "param", "hello", "wait", "sign", "dead"}, target : Targets,
           mode : Modes, cycle : Nat, attempt : 0 .. MaxAttempts, waited : 0 .. T2,
           challenge : Hellos \cup {NoEntry}]
Answers == [hello : Hellos, challenge : Hellos]

TypeOK ==
    /\ command \in {"run", "pulse", "ping", "bye"}
    /\ phase \in {"running", "stopping", "oneshot", "done"}
    /\ run \in [Runners -> Runner]
    /\ todo \subseteq Targets /\ failed \subseteq Targets
    /\ sent \subseteq Hellos
    /\ answers \subseteq Answers

\* A runner that has not run yet; Main's target is a placeholder.
Fresh(r) ==
    [pc |-> "sleep", target |-> IF r = Main THEN CHOOSE t \in Targets : TRUE ELSE r,
     mode |-> "renew", cycle |-> 0, attempt |-> 0, waited |-> 0, challenge |-> NoEntry]

Init ==
    /\ command \in Commands
    /\ phase = IF command = "run" THEN "running" ELSE "oneshot"
    /\ run = [r \in Runners |-> Fresh(r)]
    /\ todo = IF command = "run" THEN {} ELSE Targets
    /\ failed = {} /\ sent = {} /\ answers = {}

At(r, pc) == run[r].pc = pc

-----------------------------------------------------------------------------
(* run_cycle.                                                               *)

\* A pulse loop that was aborted goes no further than its next await.
Alive(r) == r = Main \/ phase = "running"

\* The runner's state at an await.
Awaits(r, pc) == [run[r] EXCEPT !.pc = IF Alive(r) THEN pc ELSE "dead", !.waited = 0]

\* The HELLO of the attempt r is in.
ThisHello(r) == [by |-> r, cycle |-> run[r].cycle, attempt |-> run[r].attempt,
                 target |-> run[r].target, mode |-> run[r].mode]

\* max_attempts: a pulse loop and ping retry, pulse and BYEs are single shots.
Attempts(r) == IF r # Main \/ command = "ping" THEN MaxAttempts ELSE 1

\* retry_initial * 2^(k-1), with the shift capped, and at most retry_max.
Timeout(k) ==
    LET wait == T1 * 2 ^ (IF k - 1 > 31 THEN 31 ELSE k - 1)
    IN  IF wait \in 0 .. T2 THEN wait ELSE T2

\* A slip: a target that is served wipes out the failures before it.
MutFailedAfter(r, ok) == IF ok THEN {} ELSE failed \cup {run[r].target}

\* run_targets counts the servers that failed.
FailedAfter(r, ok) == IF ok THEN failed ELSE failed \cup {run[r].target}

\* The cycle returns: a pulse loop sleeps, Main goes on to its next target.
CycleEnds(r, ok) ==
    /\ run' = [run EXCEPT ![r] = [Awaits(r, "sleep") EXCEPT !.attempt = 0, !.challenge = NoEntry]]
    /\ IF r = Main
       THEN todo' = todo \ {run[r].target} /\ failed' = FailedAfter(r, ok)
       ELSE UNCHANGED <<todo, failed>>

\* A slip: one attempt too many.
MutAttemptFails(r) ==
    IF run[r].attempt <= Attempts(r)
    THEN /\ run' = [run EXCEPT ![r].pc = "hello", ![r].attempt = @ + 1, ![r].challenge = NoEntry]
         /\ UNCHANGED <<todo, failed>>
    ELSE CycleEnds(r, FALSE)

\* An attempt that fails is only logged: the next HELLO goes out at once.
AttemptFails(r) ==
    IF run[r].attempt < Attempts(r)
    THEN /\ run' = [run EXCEPT ![r].pc = "hello", ![r].attempt = @ + 1, ![r].challenge = NoEntry]
         /\ UNCHANGED <<todo, failed>>
    ELSE CycleEnds(r, FALSE)

\* A cycle begins: a pulse loop wakes up, or Main turns to its next target.
Begin(r, t, mode) ==
    /\ At(r, "sleep")
    /\ run' = [run EXCEPT ![r] = [run[r] EXCEPT !.pc = "param", !.target = t, !.mode = mode,
                                                !.cycle = @ + 1, !.attempt = 1]]
    /\ UNCHANGED <<command, phase, todo, failed, sent, answers>>

\* run_loop.  Bound: MaxCycles.
Pulse(t) ==
    /\ phase = "running" /\ MapThenSumSet(LAMBDA u : run[u].cycle, Targets) < MaxCycles
    /\ Begin(t, t, "renew")

\* run_targets and send_bye_all.
Serve(t) ==
    /\ phase \in {"oneshot", "stopping"} /\ t \in todo
    /\ Begin(Main, t, IF command \in {"pulse", "ping"} THEN "renew" ELSE "release")

\* The parameter is there and the socket bound and connected, or the cycle ends.
Prepare(r) ==
    /\ At(r, "param")
    /\ \/ run' = [run EXCEPT ![r].pc = "hello"] /\ UNCHANGED <<todo, failed>>
       \/ CycleEnds(r, FALSE)
    /\ UNCHANGED <<command, phase, sent, answers>>

-----------------------------------------------------------------------------
(* attempt_once.                                                            *)

\* Steps 1 and 2: a fresh nonce, sign, send, and await the CHALLENGE.
SendHello(r) ==
    /\ At(r, "hello")
    /\ \/ /\ sent' = sent \cup {ThisHello(r)}
          /\ run' = [run EXCEPT ![r] = Awaits(r, "wait")]
          /\ UNCHANGED <<todo, failed>>
       \/ UNCHANGED sent /\ AttemptFails(r)
    /\ UNCHANGED <<command, phase, answers>>

\* The HELLOs whose replies come to the socket of r's cycle.
OnSocket(r) == {h \in sent : h.by = r /\ h.cycle = run[r].cycle}

\* A slip: the reply is not bound to the HELLO it answers.
MutOpens(r, h) == TRUE

\* unframe_inbound: a sealed reply opens only with this attempt's secret and
\* nonce; a cleartext one is taken as it is.
Opens(r, h) == run[r].target \in SealedTargets => h = ThisHello(r)

\* Step 3: the server's reply to HELLO h arrives.  The first datagram on the
\* socket decides the attempt.
Receive(r, h) ==
    /\ At(r, "wait")
    /\ h \in OnSocket(r)
    /\ IF Opens(r, h)
       THEN run' = [run EXCEPT ![r].pc = "sign", ![r].challenge = h] /\ UNCHANGED <<todo, failed>>
       ELSE AttemptFails(r)
    /\ UNCHANGED <<command, phase, sent, answers>>

\* A datagram that is not a CHALLENGE for this client, or a socket error.
ReceiveNoise(r) ==
    /\ Noise
    /\ At(r, "wait")
    /\ AttemptFails(r)
    /\ UNCHANGED <<command, phase, sent, answers>>

Wait(r) ==
    /\ At(r, "wait")
    /\ run[r].waited < Timeout(run[r].attempt)
    /\ run' = [run EXCEPT ![r].waited = @ + 1]
    /\ UNCHANGED <<command, phase, todo, failed, sent, answers>>

\* A slip: the wait for the CHALLENGE has no end.
MutTimeOut(r) == FALSE /\ UNCHANGED vars

TimeOut(r) ==
    /\ At(r, "wait")
    /\ run[r].waited = Timeout(run[r].attempt)
    /\ AttemptFails(r)
    /\ UNCHANGED <<command, phase, sent, answers>>

\* Steps 4 to 6: sign and send the RESPONSE or the BYE, or fail to.
SendAnswer(r) ==
    /\ At(r, "sign")
    /\ \/ /\ answers' = answers \cup {[hello |-> ThisHello(r), challenge |-> run[r].challenge]}
          /\ CycleEnds(r, TRUE)
       \/ UNCHANGED answers /\ AttemptFails(r)
    /\ UNCHANGED <<command, phase, sent>>

-----------------------------------------------------------------------------
(* run_forever and the end of the process.                                  *)

\* abort_all and drop: a pulse loop that awaits is gone; one that is running
\* goes on to its next await.  Then a BYE for each target, if so configured.
Shutdown ==
    /\ phase = "running"
    /\ phase' = "stopping"
    /\ run' = [r \in Runners |->
          IF r # Main /\ run[r].pc \in {"sleep", "param", "wait"}
          THEN [run[r] EXCEPT !.pc = "dead", !.waited = 0] ELSE run[r]]
    /\ \E bye \in ByeModes : todo' = IF bye THEN Targets ELSE {}
    /\ UNCHANGED <<command, failed, sent, answers>>

Exit ==
    /\ phase \in {"oneshot", "stopping"}
    /\ todo = {} /\ At(Main, "sleep")
    /\ phase' = "done"
    /\ run' = [r \in Runners |-> [run[r] EXCEPT !.pc = "dead"]]
    /\ UNCHANGED <<command, todo, failed, sent, answers>>

\* What r does by itself, whatever the network does.
Step(r) == Prepare(r) \/ SendHello(r) \/ Wait(r) \/ TimeOut(r) \/ SendAnswer(r)

Next ==
    \/ \E t \in Targets : Pulse(t) \/ Serve(t)
    \/ \E r \in Runners : Step(r) \/ ReceiveNoise(r)
    \/ \E r \in Runners : \E h \in OnSocket(r) : Receive(r, h)
    \/ Shutdown
    \/ Exit

Spec == Init /\ [][Next]_vars

(* The runtime polls every task that is ready and its timers fire.          *)
FairSpec ==
    /\ Spec
    /\ \A r \in Runners : WF_vars(Step(r))
    /\ WF_vars(\E t \in Targets : Serve(t))
    /\ WF_vars(Exit)

-----------------------------------------------------------------------------
(* Properties.                                                              *)

(* attempt_once and unframe_inbound: what a runner signs answers a          *)
(* CHALLENGE for a HELLO of its own cycle, target and mode, and with wire   *)
(* encryption the HELLO of that very attempt, however late and often the    *)
(* replies to its other attempts arrive.                                    *)
AnswersOwnHello ==
    \A a \in answers :
        /\ a.challenge \in sent
        /\ a.challenge.by = a.hello.by /\ a.challenge.cycle = a.hello.cycle
        /\ a.challenge.target = a.hello.target /\ a.challenge.mode = a.hello.mode
        /\ a.hello.target \in SealedTargets => a.challenge = a.hello

(* run_targets: a one-shot command reports success exactly if it sent its   *)
(* RESPONSE or BYE to every server.                                         *)
ExitCodeTells ==
    phase = "done" /\ command # "run" =>
        (failed = {} <=> \A t \in Targets : \E a \in answers : a.hello.by = Main /\ a.hello.target = t)

(* run_forever, send_bye_all and run_targets: a shutdown and a one-shot     *)
(* command come to an end, whatever the servers and the network do.         *)
StopsInTheEnd == phase \in {"stopping", "oneshot"} ~> phase = "done"

=============================================================================
