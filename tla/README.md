# signedpulse: a TLA+ verification project

signedpulse is a signed UDP heartbeat. A client that holds a configured Ed25519
key proves itself with HELLO → CHALLENGE → RESPONSE; the server then runs an
operator-supplied *grant* hook with the packet's source IP (typically: open a
firewall pinhole) and keeps a *lease* alive while pulses keep coming. When the
lease runs out, or the client says BYE, the server runs the *revoke* hook.

This directory models the protocol and the state machines of the server and the
client in TLA+, checks them with TLC on small instances, and proves the central results for every value
of the constants with TLAPS. Paths below are relative to `src/`; `server/`,
`client/` and `common/` stand for `crates/signedpulse-<name>/src/`.

## 1. Inventory

| Component (source) | State | Operations | Interacts with |
|---|---|---|---|
| Receive loop (`server/server.rs` `run`, `handle_datagram`) | in-flight semaphore | receive, gate, spawn a task per datagram, dispatch | all gates, the handlers |
| HELLO handler (`handle_hello`) | task locals: one clock reading | rate-limit, authenticate, freshness, replay check, mint and store a nonce, send a CHALLENGE | rate limiter, replay cache, nonce store, active IPs |
| RESPONSE and BYE handlers (`handle_response`, `handle_bye`) | task locals: the peeked nonce entry | validate (peek), verify, consume, decrypt the parameter; then renew + cooldown + grant, or release + revoke | nonce store, leases, cooldown, executors |
| Nonce store (`server/nonce_store.rs`) | map nonce → client, endpoint, expiry, used | insert, validate, consume, purge | the handlers, the cleanup tick |
| Replay cache (`server/seen_cache.rs`) | map (client, hello nonce) → deadline | insert_if_absent, purge | `handle_hello`, the cleanup tick |
| Lease tracker (`server/rate_limit.rs` `LeaseTracker`) | map client → IP, port, parameter, expiry | renew, release, take_expired, others_on_ip | the handlers, the lease scan |
| Cooldown (`CooldownTracker`) | map client → last mark | in_cooldown, mark, purge | `handle_response`, the cleanup tick |
| Executors (`server/command_runner.rs`) | one semaphore each for grant and revoke | execute: acquire or refuse, spawn, wait or kill | child processes, the firewall |
| Rate limiter (`HelloRateLimiter`) | map IP → window start, count | check, purge | `handle_hello`, the cleanup tick |
| Blacklist and lockdown (`Blacklist`) | fault entries by IP; event and rejection times; lockdown deadline; drop window | is_blocked, record_faulty, note_rejection, note_lockdown_drop, under_attack, purge | the receive loop, every rejection |
| Active IPs (`ActiveIps`) | map IP → last mark | mark, is_active, purge | the receive loop, the handlers |
| Cleanup task (`run`) | — | every 5 s: purge everything, then the lease scan | all maps |
| Client (`client/client.rs`) | per target: attempt, timeout, mode; failures of a one-shot | attempt, retry with backoff, pulse loop, one-shot commands, BYE on shutdown | the server, over UDP |
| Client configuration (`common/config.rs`, `client/cli.rs`, `client/client.rs`) | the file; the resolved targets | init, add-server, load, resolve with inheritance | the client |
| Wire codec (`common/protocol.rs`), cryptography (`common/crypto.rs`) | none | encode/decode, sign/verify, seal/open, seal_reply/open_reply | both ends |
| Server configuration (`common/config.rs`, `server/cli.rs`, `server/server.rs`) | the file; the server built from it | init, add-client, load with validate, from_config | the server |
| Status (`common/status.rs`, both event loops) | pid file, state file, temporary files, pending signal | write pid, dump on SIGUSR1, probe, signal and poll | the daemons, the operating system |
| Services, CLIs, xtask | files | unit files, argument parsing, printing | outside the protocol |

What makes each of them correct:

* **Handshake**: a nonce authorises one action; what is accepted was signed by
  that client, as that kind, for that nonce and endpoint; nobody else can burn a
  nonce; a HELLO is accepted once while it is fresh; only a valid HELLO is ever
  answered.
* **Leases and hooks**: a session asks for its grant; an ended lease is revoked
  once; `{ip_clients}` is exact when a lease ends; leases are bounded in number
  and in time; silence eventually ends access.
* **Gates**: the budget holds across window boundaries and purges; only faulty
  packets blacklist; a block runs its time; lockdown has a cause inside its window.
* **Wire**: a packet has one encoding; what is verified is what was built; a
  sealed reply belongs to its HELLO; a parameter arrives as it was given or not at
  all; a client's own traffic is never malformed.
* **Status**: readers see whole, fresh snapshots; a signal that a daemon handles is
  answered.
* **Server configuration**: a client that was added is served, and nothing else
  changes.
* **Client**: a late CHALLENGE never makes it answer for another attempt, attempts
  and waits are bounded so that a shutdown ends, and the exit code is honest.
* **Client configuration**: what `load` accepts, `from_config` can resolve, with
  keys, intervals, backoff and command that are usable also where they are
  inherited; a server is added as it was asked for.

What is hard here: every datagram is a task on a multi-threaded runtime, so two
handlers interleave between any two lock acquisitions; UDP loses, duplicates,
delays and reorders; the wall clock (handshake) may step back while the monotonic
clock (leases, gates) does not; hooks are slow, may be refused, fail or be
killed; the lease scan decides under a lock and acts much later; a restart
forgets everything while the firewall and running children survive. The full
list, each item at its line, is `hazards` in `PROJECT.json`.

## 2. Modules

| Module | Models | Role |
|---|---|---|
| `Maps`, `UnixTime` | empty maps, `i64` seconds with clamped sums | operators |
| `NonceStore`, `SeenCache`, `LeaseTracker` | the three maps, one operator per locked section | operators |
| `Handshake` | `handle_hello`, and `handle_response`/`handle_bye` up to the consumed nonce | component |
| `NonceContract` | one-shot tickets: what the handshake promises | abstract specification, implemented by `Handshake` |
| `Access` | what follows a verified RESPONSE or BYE: leases, cooldown, lease scan, executors, hooks, firewall | component |
| `LeaseLedger` | every lease that ends is settled by one revoke | abstract specification, implemented by `Access` |
| `HelloRateLimiter`, `Blacklist` | limiter windows; fault entries and rolling windows | operators |
| `Gate` | receive-loop gates, limiter, blacklist, lockdown, active IPs, permits | component |
| `Client` | pulse loops, retries on one socket, one-shot commands, shutdown with BYEs | component |
| `Wire` | encode/decode, sealed boxes, signing payloads, and one client cycle's datagrams through both ends | component, composes client and server at the level of bytes |
| `ClientSetup` | the client's configuration file, `init`, `add-server`, `load`, `from_config` | component |
| `ServerSetup` | the server's configuration file, `init`, `add-client`, `load`, `from_config` | component |
| `Status` | pid files, SIGUSR1 dumps, `status` commands | component |
| `HandshakeProofs`, `AccessProofs`, `GateProofs`, `ClientProofs`, `ClientSetupProofs`, `ServerSetupProofs`, `StatusProofs`, `WireProofs` | — | theorems |
| `MCHandshake`, `MCAccess`, `MCGate`, `MCClient`, `MCWire`, `MCClientSetup`, `MCServerSetup`, `MCStatus` | — | TLC instances (symmetry sets, parameter texts) |

### Handshake

`htask` and `atask` hold the locals of a handler task; an action is the code
between two accesses to shared state. `HelloFresh` (steps 1–4) reads the clock
once and keeps it; `HelloSeen` (step 5) and `HelloIssue` use that possibly old
reading, as the code does, while `Cleanup` purges with the current clock.
`AnswerValidate` peeks, `AnswerConsume` verifies and consumes. The network is
implicit: any signed datagram can be received any number of times, from any
endpoint, at any time, as can one without a valid signature. `SignAnswer` is
what a client signs in reply to a CHALLENGE; with `Cleartext` a CHALLENGE may be
made up. `Restart` empties the maps and kills the tasks; `SetBack` steps the
clock back. `issued`, `challenged`, `accepted`, `consumed`, `verified` are
history.

Abstractions: signatures are symbolic; a nonce never repeats; the interval and
the sealed parameter are one `body`; `now_unix()` and the locked section that
uses it are one step in `validate` and `consume`; storing the nonce and sending
its CHALLENGE are one step (nobody knows the nonce before it is sent); the
limiter refuses any HELLO it likes (`Gate` has the real one).

`ImplementsContract` is the refinement of `NonceContract`: a nonce is a ticket,
*live* while the store holds it unused, *spent* once it was consumed and *void*
once a purge or a restart dropped it; a signed answer is an order. The abstract
`Spend` is one atomic step, the code peeks, verifies and consumes in several, with
duplicates, purges and clock steps between.

### Access

`task` follows one verified answer: RESPONSE `renew → cooldown → count → hook`,
BYE `release → hook`. Time is the monotonic clock. `ScanTick` is the cleanup
tick's cooldown purge and `take_expired`, one critical section; the drained
revokes sit in `todo` with the `{ip_clients}` counted then, and `ScanNext` runs
them one at a time. A hook is `ready`, then either `Refuse` (AtCapacity or spawn
failure, only logged) or `Start` (permit taken), `Apply` (its effect on `open`,
taken from `examples/signedpulse-hook.sh`), `Finish` (exit, timeout kill before
or after the effect, wait error; a grant that ends marks the cooldown unless
waiting failed). `Restart` keeps `open` and turns running children into
`orphans`, and may start with or without a revoke hook (`hasRevoke`). `session`,
the IPs a client's session has asked a grant for, is history. A task that has renewed
its lease and not yet looked at the cooldown is `Undecided`, one that goes on to ask
is a `GrantPending`.

`KeepsLedger` is the refinement of `LeaseLedger`: `held` is the clients tracked,
`due` the revokes that are queued by a scan or handed to an executor that has not
answered, `crashes` the restarts, so that no other step may lose an entry. The README's "always runs when a client's lease ends" is thereby *asked
for once*: a refused hook is only logged, as in the code.

Abstractions: the source port travels to the hook only and is left out; a
permit's release and the cooldown mark after it are one step; logging and status
counters are left out.

### Gate

`task` follows one datagram from `Recv` through `Decode`, the handler (`Hello`,
`Answer`, `HookEnds`) and the accounting (`Reject`, then for faulty packets
`Fault` under the state lock and `Event` under the events lock). Whether a packet
decrypts and authenticates is a free choice. The receive loop is a single task,
so its gates and the permit are one step. Time does not pass between the two
locks of `record_faulty`, which uses one reading. A datagram that is blocked, too
long or finds no permit leaves no trace in the code and is no step here. History,
which the properties measure the code's windows and counters against: `passed`, the
times of each IP's HELLOs past the limiter; `faulty`, how many faulty packets of each
IP were recorded; `trips`, the times at which blocks began; `rejectedAt` and `shedAt`,
the times of the packets rejected and shed.

### Client

`run[r]` holds the locals of a runner: the pulse loop of a target, or `Main`, the
main task that serves the targets one after the other in the one-shot commands
and in `send_bye_all`. A cycle goes `param → hello → wait → sign` and back to
`sleep`; every failure of an attempt is the same `AttemptFails`, which sends the
next HELLO at once or ends the cycle. `Receive` takes the reply to any HELLO of
this cycle, in any order and any number of times; it opens only for this
attempt's HELLO if the target is sealed. `Shutdown` is `abort_all`: a loop that
awaits is gone, one between two awaits still runs to the next (`Awaits`), beside
the BYEs of `Main`. `sent` and `answers` are the datagrams that left.

Abstractions: the server is whatever replies to a HELLO; the order of the targets
is free; a parameter is resolved or not; the status legs, the status dump and a
leg that panics are left out.

### Wire

Datagrams are sequences of bytes, with one byte for each fixed-width field, so that
lengths, truncation, trailing bytes and the `u16` prefix (`LenMod`) are real. A box
is its first byte, which stands for everything it is made from, followed by
ciphertext of the plaintext's length: it opens for one key, context, ephemeral key
and associated data and only if no byte was changed. `conf` holds what the two
configurations say, agreeing or not. `Begin … SendAnswer` is one cycle of the
client, `HandleFaulty`, `HandleHello`, `HandleResponse`, `HandleBye` are
`handle_datagram` and the handlers up to the hook; clocks, replay and nonce life are in
`Handshake`, so any verified packet may be handled again. `lease` is the parameter
kept with the client's lease, which a BYE without one falls back to (`RevokeParam`);
at first it is that of an `earlier` cycle, or there is no lease and a BYE runs no hook.
That a lease expires is in `Access`. `Alter` is the network: it keeps everything,
and cuts, extends or changes a datagram.

Abstractions: the server has one client; the interval is a constant; a parameter is
a sequence of characters of which `-` in front and control characters matter. The
`Option` of a sealed parameter is the empty sequence when there is none: `encode`
writes nothing for it, `decode` reads a length of 0 as none, and a box is never
empty. That the bytes are symbols is an assumption, `SymbolAssumption`: a magic byte,
a byte of ciphertext or a corrupted one is no signature and nothing a box is made
from.

### Status

`proc` is the process under a pid: a daemon, another signedpulse command or a
stranger. A daemon goes `start → truncated → written → loop` (pid file truncated,
written, signal handler installed), a dump `create → fill → rename`, each a file
operation of `write_snapshot`. A request is the locals of `refresh_and_read`.
`Signal` to a process without a handler ends it. Pids are used again at any moment,
also between a request's check of a process and its signal, and without `/proc`
(`HasProc` is false) the check passes every live process: the models promise nothing
about who is signalled, as the comment of `process_is_signedpulse` ("best-effort")
does not. `published` and `unheard`, the requests whose signal no snapshot has been
captured for, are history.

### ServerSetup

Like `ClientSetup`: `InitCheck`, `InitWrite`, `AddCheck`, `AddRead`, `AddWrite`,
`AddReload` are the accesses to the file of the two commands, which overlap. An id
is its value and its spelling, because the duplicate checks and the parser compare
different things. `Loads` is `ServerConfig::load`, `Startable` and `Served` are
`from_config`. `told` (history) is what the last add-client has reported while nobody
has written the file since.

Abstractions: a number stands for a range of values; a key decodes or not; labels
and `server_id` are well-formed; settings without a check are left out.

### ClientSetup

`file` is the parsed configuration, `NoEntry` where a field is unset; `dup` says
that a table occurs twice, which is no TOML. `add_server` is its four accesses to
the file: `AddCheck` (load and check), `AddRead`, `AddWrite` (an atomic rename),
`AddReload`; two commands interleave between them. `Loads` is
`ClientConfig::load`, `TargetsOf` and `Resolves` are `from_config`, and `Restart`
is a client that comes up with the targets or not at all. `EditSection` and
`EditServer` are the administrator, field by field.

Abstractions: a number stands for a range of values; an argv is set, empty or
unset; a key decodes or not; addresses, labels and the client's own id and key
are well-formed.

## 3. Runs

Passing runs:

| Run | Instance | Shows |
|---|---|---|
| `hello` | one client and a stranger, one HELLO key each, two HELLO tasks, two nonces, clock 0..5, skew 1 | `HelloSingleUse`, `ChallengeOnlyValidHello` |
| `nonce` | one nonce, two answer tasks, two endpoints, a good and a bad body, clock 0..2 with steps back, `I64Max` = 2 | `TypeOK`, `NonceSingleUse`, `BurntBySignerOnly`, `AcceptedIsAuthentic`, `ImplementsContract` |
| `sessions` | two clients on one IP, room for one lease, two tasks, two overlapping scans, one permit, cooldown 2, intervals 0 and 5 against a maximum of 1 | `TypeOK`, `SessionAsksGrant`, `LeaseCap`, `LeaseBounded` |
| `live` | two clients, two IPs, one restart, with and without a revoke hook, fairness | `EventuallyAllRevoked`, `IpClientsExact`, `KeepsLedger` |
| `gate` | two IPs, two tasks, four datagrams, budgets and thresholds of 1, windows of 2, clock 0..4 | `TypeOK`, `RateBounded`, `OnlyFaultyBlocked`, `LockdownHasCause`, `BlockRunsOut` |
| `client` | a sealed and a cleartext target, every command, two attempts, backoff 1 then 2, two pulse cycles, fairness | `TypeOK`, `AnswersOwnHello`, `ExitCodeTells`, `StopsInTheEnd` |
| `setup` | two labels, two commands at once, four commands and edits, edits to numbers below and above every limit | `TargetsUsable`, `LoadedResolves`, `AddedAsAsked` |
| `config` | two ids in four spellings, two keys and one that does not decode, two commands at once, three commands and edits | `AddedIsServed`, `AuthorizedIsServed` |
| `status` | two pids on one state path, servers and strangers, no `/proc`, two `status` commands at once, two processes started, two dumps, fairness | `TypeOK`, `PublishedWhole`, `NoticedIsFresh`, `SignalAnswered` |
| `wire` | every pair of configurations over two keys and two parameter limits, a packet limit the longest sealed RESPONSE exceeds; two attempts, two CHALLENGEs, one altered datagram; no lease, or one with a parameter | `TypeOK`, `OneEncoding`, `AcceptedAsBuilt`, `OwnTrafficFaultless`, `ParamReachesHook`, `ReplyIsForHello` |

The properties in words:

* `NonceSingleUse`: of duplicates that all pass `validate`, one is acted on, also
  a RESPONSE against a BYE, across purges, restarts and clock steps.
* `BurntBySignerOnly`: peek, verify, then consume; a packet without a valid
  signature never uses up a nonce.
* `AcceptedIsAuthentic`: client, kind, body, nonce, expiry and endpoint of an
  accepted answer are those that client signed and the server issued.
* `ChallengeOnlyValidHello`: the silent-drop policy.
* `HelloSingleUse`: while a HELLO's skew window is open it has been accepted at
  most once; 2·skew is exactly long enough (the mutant with 1·skew fails).
* `SessionAsksGrant`: no cooldown left over from an earlier session suppresses
  the grant of a new one, whatever interleaves.
* `ImplementsContract`, `KeepsLedger`: the refinements described above. In the
  first, nothing is carried out but a signed order on a live ticket of its holder,
  and no ticket comes back; in the second, each lease that ends asks for exactly
  one revoke, and only a restart loses any.
* `IpClientsExact`: also for clients that expire in the same tick.
* `LeaseBounded`, `LeaseCap`: whatever interval a client advertises, however many
  clients come.
* `EventuallyAllRevoked`: once clients fall silent, all leases end and every
  revoke is asked for.
* `RateBounded`: at most twice the budget in any window's length, that is, of one
  IP's HELLOs that pass, one and the 2·`hello_rate_max`-th after it are at least a
  window apart. It is about a limiter with room for every IP: a full one lets HELLOs
  of new IPs pass uncounted.
* `OnlyFaultyBlocked`: authentication failures, replays and rate-limited HELLOs
  do not add up to a block.
* `BlockRunsOut`: no tick, packet of another IP or handler already past the gate
  cuts a block short.
* `LockdownHasCause`: lockdown is armed or extended only by more rejections, blocks
  begun or shed packets inside the last window than the threshold of that trigger.
  It is what the code counts: one IP may begin several blocks in a window when
  `blacklist_seconds` is short, and a blacklist threshold of 0 is exceeded by the
  first (`ZeroDisablesTrigger` below).
* `AnswersOwnHello`: a RESPONSE or BYE answers a CHALLENGE for a HELLO of the same
  cycle, target and mode, and with sealed replies of the same attempt.
* `ExitCodeTells`: a one-shot command succeeds exactly if it answered every
  server. (The server never confirms, so "answered" is all a client can know.)
* `StopsInTheEnd`: a shutdown and a one-shot command end, whatever the servers
  and the network do.
* `TargetsUsable`: every target of a client that runs has a decodable key for what
  it seals, a positive interval, an ordered backoff, no empty command, a usable
  parameter length and a label of its own, inherited or not. The timeout of the
  command is not among them (`CommandHasTimeout` below).
* `LoadedResolves`: the checks of `load` on inherited settings are no weaker than
  those of `resolve_target`.
* `AddedAsAsked`: `add-server` adds one target with the key and interval asked for
  to those of the text it read, and changes none of these; it seals only if that was
  asked for. (That it always does then is `AddedIsSealed` below, and false.)
* `AddedIsServed`: what `add-client` writes for an id that is new to the text it read
  starts the server of that text, with the one client more; it loads if the id has no
  white space and the clients are in tables, whatever other commands do meanwhile.
* `AuthorizedIsServed`: after "Authorized client …" a server that comes up on the file
  serves the client under that key, whatever other entries of the id there are.
* `PublishedWhole`, `NoticedIsFresh`, `SignalAnswered`: a state file is never
  half-written, also with daemons that share its path or crash; a change that was
  noticed is a new snapshot; a signal is followed by a dump that begins after it, also
  if it comes during another that then fails, unless the daemon goes away.
* `OneEncoding`: whatever arrives and decodes is exactly the encoding of the result.
* `AcceptedAsBuilt`: what the server verifies is a packet the client built.
* `OwnTrafficFaultless`: with both sides agreeing on encryption and key, nothing the
  client sends is malformed to the server, so it never blocks itself.
* `ParamReachesHook`: a grant runs with the parameter given or not at all; the revoke
  of a BYE runs with the BYE's own or, if it has none, that of the lease it ends, and
  not at all without a lease.
* `ReplyIsForHello`: the CHALLENGE a sealed client signs for was sent by its server
  for this attempt's HELLO.

Violated runs, each a sentence of the documentation the code does not keep:

| Run | Claim | What happens |
|---|---|---|
| `recheck` | `RevokeRechecksLease` (comment of `run_lease_scan`) | the scan's task runs queued revokes without looking at the leases again; a client that pulsed meanwhile is granted, then revoked |
| `moved` | `LeasedIpGranted` (comment of `handle_response`: the IP stays authorized while it keeps pulsing) | a client that roams to another IP inside its live lease and its cooldown has its lease moved there (`is_new` is false), and the grant hook is skipped: a live lease on an IP that was never granted |

Further instances, kept beside the runs and started by hand
(`tlc -config <cfg> <module>`). The first five end in a counterexample, again to a
sentence of the repository:

| Instance | Claim | What happens |
|---|---|---|
| `MCGate_zero.cfg` | `ZeroDisablesTrigger` (`common/config.rs:87` "0 disables lockdown", `README.md:373`) | with the rejection trigger on, `record_faulty` compares with the threshold 0 all the same: the first blacklisted IP arms lockdown |
| `MCClientSetup_timeout.cfg` | `CommandHasTimeout` (`common/config.rs:607` "a 0 timeout fails every param pulse") | a `[client]` without a command may have the timeout 0; a server table with a `param_command` of its own inherits it unchecked |
| `MCClientSetup_sealed.cfg` | `AddedIsSealed` (`client/cli.rs:106`, `:118`) | `add-server` never writes `wire_encryption = true`, so a server added in the default encrypted mode to a client set up with `--no-encryption` is pulsed in the clear |
| `MCServerSetup_lookups.cfg` | `LookupsUnambiguous` (`common/config.rs:319`, `server/cli.rs:609` "so client lookups stay unambiguous") | the duplicate checks compare spellings: an id with white space around it passes them and takes over the id of an earlier entry |
| `MCServerSetup_append.cfg` | `AppendIsToml` (`server/cli.rs:618` "always valid TOML") | an id with a line break in it, or a file with an inline `clients = [...]`, leaves a file that does not load |
| `MCStatus_paths.cfg` | `TypeOK`, `PublishedWhole`, `NoticedIsFresh` | passes: two state paths, with `/proc`, other signedpulse commands among the processes |

Other behaviour of the code that the models contain and no instance is about. A
sealed CHALLENGE that comes after its
attempt timed out ends the next attempt at once, before its backoff time. A
`{ip_clients}` of 0 is counted when the lease ends, and a sibling that pulses
before the revoke runs loses the IP. A session whose grant was refused is
throttled by the mark of the session before it. An `add-server` whose table does not
validate fails after it has replaced the file. Two at once may lose a table or write a
label twice. Every cleanup tick forgets the fault counts of all IPs that are not
blocked yet. A `status` may signal, and end, a stranger: its pid may be handed out
again after the check, and outside Linux the check does not tell. A `status` that arrives between the pid file and the
signal handler ends the daemon; one that times out shows the old snapshot. A server
that stops removes the pid file of another on the same path. A parameter with a
leading `-` is accepted by the client and refused by the server, whose nonce is then
spent. The old IP of a client that moves is never revoked; scan and BYE revokes compete for the same permits, so either may be
refused; the cooldown is tested before and marked after the hook, so two pulses
may both run it; a grant hook still running when a BYE releases the lease may
reopen the IP after the revoke; a task that read the clock before it was
descheduled may accept a copy of a HELLO after its window has closed and the purge
has forgotten it (its nonce is fresh, nothing is replayed).

**Bounds.** The races are between two tasks on one shared entry, so two tasks and
one nonce, lease or IP show each; two clients overfill a lease map of one, and with
two IPs tell "the others on my IP" from "everyone but me". Clocks run
past every window in the instance (skew, TTL, lease, cooldown, attack window), so
entries are seen live, expired, and expired but not purged. `I64Max` = 2 puts the
clamp of `expires_at` inside the `nonce` instance. `Horizon`, `MaxAnswers`,
`MaxRestarts`, `MaxPackets`, `MaxClock` (4 in `gate`, where three HELLOs of one IP
pass, in two windows and after a purge), `MaxCycles`, `MaxChanges` and the number of unissued nonces only
stop inputs from arriving; that is also why these runs may come to rest.
Two attempts suffice for a late or repeated reply; two pulse cycles (in one loop
or in two) for replies to an earlier socket. Four changes are an init, an
add-server and one edit each to `[client]` and to the table, or two overlapping
add-servers and an edit; three on the server's side are an init, an add-client and
one edit or a second add-client. With an attack window of 2 a lockdown is re-armed by
shed packets before it ends. In `status` a client's clean stop is left to
`Exit`, which leaves the pid file as it does. In `wire`, boxes of two bytes more
than their plaintext and a prefix modulo 5 keep the longest parameter one byte
below the wrap, as 60000 + 72 is below 65536 by design; one altered datagram reaches
every byte of every packet. The handshake with made-up CHALLENGEs (`Cleartext`) is
too large for TLC together with two endpoints and two tasks; the theorems cover it,
and `wire` has altered cleartext CHALLENGEs. Symmetry is used over interchangeable ids and never in
the liveness runs. The `client`, `status` and `wire` runs do not check deadlock: the
process, the commands and the cycle end.

**Fairness** (`FairSpec` of `Access`). Weak fairness of time; of the scan (tokio's
interval ticks recur); of each handler task and scan task (the runtime polls
ready tasks); of start, refusal and end of each hook (`execute` acquires or
refuses at once and `command_timeout_seconds` ends every child). Nothing is
assumed about clients, about hooks taking effect, or about restarts, which stop.

`FairSpec` of `Client`: weak fairness of each runner's own steps (the runtime polls
ready tasks, `tokio::time::timeout` and `param_command_timeout_seconds` end every
wait) and of `Main` going on to its next target and to the exit. Nothing is assumed
about the network: no reply need ever come.

`FairSpec` of `Status`: weak fairness of each daemon's `Capture` (the event loop's
`select!` polls the signal stream, its branches return to it) and of the steps of a
dump (`write_status` ends, in a snapshot or an error). Nothing is assumed about the
`status` commands, or about a daemon that is still starting.

## 4. Proofs

All leaves are checked by `tlapm`. The assumptions are the `ASSUME`s of the
component modules: the ranges `ServerConfig::validate` enforces, subsets among the
constant sets, a client with at least one target, finiteness of what is counted
(clients, tasks, scans, IPs, pids), and that the marker `NoEntry` is none of the
records and values it stands beside. For `Wire` the assumptions are those of symbolic
cryptography (`SymbolAssumption`, and signatures and boxes as in section 2) and that a
sealed parameter within the limits fits the length prefix, which the bound of 60000 on
both limits gives. One theorem has a hypothesis of its own, given in the table.

| Theorem | Along which argument |
|---|---|
| `HandshakeProofs!TypeCorrect` | inductive; rests on `DeadlineLemma` (the clamped sum stays in `i64`) |
| `NonceSingleUseHolds`, `AcceptedIsAuthenticHolds`, `BurntBySignerOnlyHolds` | one inductive invariant, `NonceInv` |
| `ImplementsContractHolds` | `NonceInv`, then one step of `NonceContract` or a stutter for each action (`InitContract`, `NextContract`) |
| `ChallengeOnlyValidHelloHolds` | inductive invariant `ChallengeInv` |
| `HelloSingleUseHolds` | `ASSUME ~StepBack`; inductive invariant `SeenInv` |
| `AccessProofs!TypeCorrect` | inductive; cardinalities behind `{ip_clients}` by `OthersType` and `RemainingType` |
| `SessionAsksGrantHolds` | inductive invariant `SessionInv` |
| `LeaseBoundedHolds` | inductive itself, with `TtlType` for the clamp |
| `LeaseCapHolds` | inductive with the type invariant; `RenewTracks` and `OthersTrack` say which clients a step tracks |
| `IpClientsExactHolds` | step by step from the type invariant |
| `KeepsLedgerHolds` | `LedgerInv`, then one step of `LeaseLedger` or a stutter for each action (`InitLedger`, `NextLedger`) |
| `GateProofs!TypeCorrect` | inductive |
| `OnlyFaultyBlockedHolds`, `BlockRunsOutHolds` | inductive invariant `BlockInv` |
| `RateBoundedHolds` | inductive invariant `RateInv` |
| `LockdownHasCauseHolds` | inductive invariant `CauseInv` |
| `ClientProofs!TypeCorrect` | inductive, with what `Main` and the loops may be doing in each phase |
| `AnswersOwnHelloHolds` | inductive invariant `OwnInv` |
| `ExitCodeTellsHolds` | inductive invariant `ServeInv` |
| `StatusProofs!TypeCorrect` | inductive with `CountInv`, the dumps under way |
| `PublishedWholeHolds`, `NoticedIsFreshHolds` | inductive invariants `WholeInv`, `FreshInv` |
| `ClientSetupProofs!TypeCorrect` | inductive, with `FileStays` |
| `TargetsUsableHolds`, `LoadedResolvesHolds` | inductive invariant `Inv`; `LoadedTargets` and `LoadedNames` |
| `AddedAsAskedHolds` | an action property, from `Inv`; `AppendedTargets` |
| `ServerSetupProofs!TypeCorrect` | inductive, with `Greatest` (the last entry of an id exists) and `AppendedTyped` |
| `AddedIsServedHolds`, `AuthorizedIsServedHolds` | action properties, from the inductive invariant `AddInv`; `AppendedServed` |
| `WireProofs!TypeCorrect`, `AcceptedAsBuiltHolds`, `ParamReachesHookHolds`, `ReplyIsForHelloHolds` | one inductive invariant, `Inv`, with `WireInv` |
| `OneEncodingHolds` | `WireInv` and `DecodeExact` (what decodes is its own encoding) |
| `OwnTrafficFaultlessHolds` | `WireInv` and `HelloBytes`, `AnswerBytes` (what is encoded decodes to it) |

*`NonceInv`*. `consumed[n] <= 1` says nothing about why a second consume fails.
`StoreInv` ties the store to the history: an entry carries the client, endpoint
and expiry its nonce was issued with, one that is not marked used was never
consumed, and neither was a nonce that was never issued; a purged nonce is never
inserted again, because only unissued ones are. `AnswerInv` ties a task that has peeked to that history: the expiry
it will check the signature against is the issued one, even if the entry has been
purged since. With the two, consuming an unused entry means it was never
consumed, and an accepted payload is the one that was signed.

*`ChallengeInv`*. A task past step 4 remembers a configured client, a signed
timestamp and a clock reading within the skew of it (`HelloInv`); what was issued
inherits them (`IssueInv`).

*`SeenInv`*. While the window of an accepted HELLO is open its cache entry is
there and reaches at least one skew past its timestamp, whichever task's clock
reading wrote it; a task that could accept it again holds a reading no later than
the clock, hence finds the entry live.

*`SessionInv`*. `SessionAsksGrant` is inductive once a task's position and the
hook it runs are tied together (`TaskHookInv`): a task in `hook` that runs a
grant runs it for its own client.

*`ClientSetup`'s `Inv`*. The targets that run may be older than the file, so
`TargetsUsable` is not inductive by itself; `FromFile` remembers that they were
resolved from some file that loaded. `LoadedTargets` then goes field by field
through what a table sets or inherits, `LoadedNames` shows that labels differ, and
`FileStays` says that a running `add_server` has a file to append to.

*`ImplementsContractHolds`*. `LifeOf` reads a ticket's state off the store and the
history. Only `HelloIssue` makes an unissued ticket live, only `AnswerConsume`
spends one, and `NonceInv` gives what the abstract `Spend` asks for: the entry that
was consumed is unused, so its ticket is live, it is bound to the answer's client and
endpoint, and the answer was signed. `Cleanup` and `Restart` void sets of tickets;
everything else is a stutter or signs an order.

*`LedgerInv` and the ledger*. The abstract `due` of a client is a cardinality: the
entries of the scans' lists and the executors that hold a revoke of it. It moves by
one only if each list holds at most one revoke of a client (`TodoInv`), so that an
entry is determined by its scan; by the same injection the set is finite, for any
number of scans. `TaskHookInv` of `SessionInv` says whose hook a BYE task runs.
`ScanEnds` and `ReleaseEnds` are the abstract *end*, `HookMoves` the *settling* of one
revoke, `ScanHands` a stutter, in which an entry goes from a list to an executor.

*`LeaseCap`, `IpClientsExact`*. `renew` admits a new client only below the cap and
after the expired ones are gone, so the tracked set grows by one at most; the counted
others of a lease that ends are the clients still tracked on that IP after the step,
also those that expire in the same tick.

*`BlockInv`*. An entry counts no more than the faulty packets recorded, and one with a
deadline counts more than `max_faulty_packets` and ends at most one block from now;
so a later faulty packet can only move the deadline forward, and a purge drops no
entry whose deadline is ahead.

*`RateInv`*. The limiter forgets: a new window, or a purge, drops the count. What
remains true is `Before`: the HELLOs a window does not count passed no later than its
start, and all but the last `hello_rate_max` of them a window's length before it. So
any 2·`hello_rate_max` + 1 in a row span a window (`Spaced`).

*`CauseInv`*. The code counts in pruned deques and a fixed window; the invariant ties
each to the history. `rejections` is an end of `rejectedAt` (`RejectInv`), the drop
window's count are the last packets shed (`ShedInv`), and `events` are the last trips
but those whose task is between its two locks, which happened now (`EventInv`). No
threshold or block time is assumed.

*`OwnInv`*. What a runner has sent in its present cycle is for its present target and
mode (`SentInv`), and a runner about to sign holds a CHALLENGE for a HELLO of its
socket that it could open (`SignInv`); a later cycle has a later number.

*`ServeInv`*. In a one-shot command a server still to be served has neither failed nor
been answered, and every other one exactly one of the two; with an empty list at the
end, the exit code is the failures.

*Status*. `CountInv` bounds the snapshots under way, so that their numbers stay in
range. A half-filled temporary file carries its writer's pid in its name
(`TmpInv`), so what is renamed is whole, also with two daemons on one path. `WaitInv`
follows the file from the modification time a command noted to what it loads.

*`WireInv`*. A verified packet was built, although the server may read it from bytes
the network made. The invariant says what those bytes can be. To the server
(`ServerFine`): a datagram that begins like a box was sealed by the client around a
packet it built, and in cleartext a signature, wherever a packet has one, is that of a
packet built, for every length prefix the network may have put in (`ClearByte`). To
the client (`ClientFine`): what begins like a sealed reply holds the `n`-th CHALLENGE
and is bound to the nonce of the HELLO it was issued for. `AlterFine` and
`ClientAlterFine` carry both over any cut, extension or change of a byte
(`AlteredBytes`). `HelloBuilt` and `AnswerBuilt` then read off that a packet whose
signature covers its fields is the one built: the payload determines every field, the
parameter's bytes included. For the hooks, `LeaseInv` says that in a cycle that ends in
a BYE the lease, while there is one, is the earlier one. The codec lemmas need no induction: the three packet
shapes are compared element by element.

*`AddedAsAsked`, `AddedIsServed`, `AuthorizedIsServed`*. A text that loads has no table twice, so the new
label was not in it, and load refuses the primary's label: the new target is none of
the old ones (`AppendedTargets`). On the server `AddInv` carries the checked arguments
to the end of the command; the appended entry is the last of its id, whichever spelling
earlier entries of that id have, and the last entries of all other ids stay
(`AppendedServed`, with `Greatest`: a non-empty set of positions of a finite sequence
has a last one). `ToldInv` says that this is so of the file until somebody writes it.

Only model-checked: liveness (`EventuallyAllRevoked`, `StopsInTheEnd`,
`SignalAnswered`: fairness and `ENABLED` are outside the prover's reach), and the violated claims. Every invariant and
every action property that a passing run checks is a theorem.

## 5. Not modelled

The cryptographic primitives (assumed to do their job), key generation and the text
forms of keys; argv substitution and the shell option of the command runner;
what a status snapshot says and how it is printed; service installation; argument
parsing, logging and `xtask`: text, I/O and wiring without protocol state. A panic
(an overflowing `blacklist_seconds`, a pulse loop that dies) is no step of the
models.

## 6. Plan

Done, in this order: `Handshake` with its stores and proofs; `Access` with leases
and hooks; `Gate` with limiter and blacklist; `Client`; `ClientSetup` with its proofs;
the abstract specifications `NonceContract` and `LeaseLedger`; `Status`; `ServerSetup`
with its proofs; `Wire`; then the proofs of the safety of `Access` with its refinement
of `LeaseLedger`, of `Gate`, `Client`, `Status` and `Wire`, and of the two commands
that add to a configuration file.

Next: deeper properties where a hazard has none yet, and lemmas that several proofs
share.
