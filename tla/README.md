# Roammand: TLA+ models, model checking and proofs

Roammand is remote desktop software: a *Host* agent (Rust) runs on the machine
that is controlled, a *Controller* (Flutter) runs on the machine or phone that
controls it, and a *signaling service* (Go) introduces the two and relays opaque
envelopes. Video and input travel peer to peer over WebRTC. This directory holds
the specifications of the parts whose correctness depends on interleavings,
failures and limits. Every definition is translated from the source;
`PROJECT.json` maps each one to its lines.

## 1. Inventory

| Component | State | Operations | What is hard |
|---|---|---|---|
| Rendezvous store (`services/signaling/internal/state/rendezvous.go`) | primary map, code index, member index, per-Host counter, expiry heap | Create, JoinByID, JoinByCode, Peer, Complete, RemoveForDevice, Sweep | five structures must agree after any sequence; the expiry boundary; two limits |
| Signaling handlers (`service/*.go`, `state/presence.go`) | routes (device to connection), active connections, per-connection device | accept, register, heartbeat, query, create, join, relay, complete, cleanup, sweep, Shutdown | goroutines meet between critical sections; a device reconnects while its old connection is cleaned up; Closed notices from four paths; Shutdown racing Accept |
| Transport (`transport/connection.go`, `byte_budget.go`, `service/outbound_budget.go`) | queue, slots, closed flag, byte use per connection, per source IP and per process | Send, TrySend, RunWriter, closeWith, Read, acquire and release of an IP | three budgets with three mutexes and rollback; enqueueing against closing; entry of an IP deleted and created again |
| Rate limiters (`state/limiter.go`, `traffic_limiter.go`) | token buckets | Allow | arithmetic over time |
| Host session coordinator (`crates/host-agent/src/remote_session.rs`, `remote_reconnect.rs`, `remote_session_state.rs`) | pending attempt, active session, reconnect window, last failed attempt | handle_routed, poll_peer_events, handle_termination, signaling_lost, shutdown | the window, its deadline and late peer events; one of several start steps failing |
| Host runtime loop (`remote_runtime.rs`) | connection, backoff | connect_remote, run_registered_connection, await_offline_operation | stops and deadlines must be served while signaling is down |
| Host registry and service (`sessions.rs`, `authorization.rs`, `service.rs`) | sessions, grants, bounded termination broadcast, status | register, terminate_controller, terminate_all, revoke, emergency_stop | local threads race the session task; check against use of a grant; an overflowing broadcast |
| Host pairing coordinator (`pairing.rs`, `pairing_crypto.rs`) and signaling client (`signaling.rs`) | one invitation with its handshake, frames to send; one rendezvous of the connection | start, accept, reject, cancel, tick, every frame of the service | the local user's threads and the task share the coordinator; frames wait while the protocol below moves on; replies overtaken by closures |
| Host agent process (`runtime.rs`, `identity.rs`, `authorization.rs`, `grant_store.rs`, `host-platform/src/restricted_fs.rs`) | identity seed, grant file, registry, local clients and their requests | start, create, revoke, record a session, stop | a kill or a power failure between write, rename and sync; a request that times out and commits later |
| Offer verifier (`session_auth.rs`) | nonce cache | verify | expiry boundary, capacity |
| Host peer session (`crates/host-webrtc/src/session.rs`) | state, sequences, pressed keys | handle_reliable, begin_reconnect, mark_connected, close | nothing may stay pressed; sequences across a reconnect |
| Controller input (`apps/client_flutter/lib/desktop/remote/input_sender.dart`) | queue, envelope in flight, sequence, release flag | send, releaseAll, suspend, resume, abort, close | cancellation against numbering; uncertain native sends |
| Controller reconnect policy and pairing engine | attempts, timers | schedule, expire | late answers |
| Privileged bridge (`crates/privileged-bridge`) | Host proxy, broker with one lease, Helper with its native peer and indicator, event queues at both hops | probe, acquire, start, restart, candidate, input, renew, close, release, events, local Stop | three loops and a user interface thread; calls that time out while they are executed; events queued past calls; any of the three ends |
| Local IPC (`crates/ipc`) | one nonce and one proof per connection | authenticate | a proof made for another channel |
| Packaging, generated schema, operating-system integration | | | I/O, not modelled |

How they interact: Controller and Host each hold one WebSocket to the signaling
service; the service pairs them through a rendezvous and later relays session
envelopes. The Host's session task answers an authenticated offer, registers the
session, and then consumes native peer events. Local IPC threads of the Host
change grants and terminate sessions through the registry's broadcast channel.
Input goes over an ordered data channel that survives an ICE restart. On a locked or
secure desktop the peer lives in a Helper process instead, which the Host agent
reaches through a privileged broker.

What makes them correct, in one line each: the store's indexes are a function of
its primary map; a route belongs to one connection and no rendezvous outlives a
member's connection; every reserved slot and byte comes back; a session that runs
can be found and stopped; a suspended session has a deadline and a connected one
none; no key stays pressed when nobody holds it; a grant exists only for a Controller
that proved itself and was accepted, and what was reported about it survives a crash;
the protected desktop is controlled only under a lease. The hazards, with their lines and the
properties aimed at them, are listed in `PROJECT.json`.

## 2. Modules

    RendezvousOps ------> RendezvousStore  --implements--> RendezvousPromise
         |                     |
         |           RendezvousStoreProofs
         |                     |
         +--> SignalingServer --> SignalingServerProofs
    TransportConnection --> TransportConnectionProofs
    HostSession --> HostSessionProofs
    RemoteInput --> RemoteInputProofs
    HostPairing --> HostPairingProofs
    ChannelAuth --> HostAgent --> HostAgentProofs
         \--------> BridgeOps --> PrivilegedBridge --> PrivilegedBridgeProofs
    MC*: the instances for TLC

* **RendezvousOps**: each operation of the store is a pure operator from a store
  value to `[store, removed, err, rdv, peer]`, because each runs under one mutex.
  `deleteLocked`, `insertLocked` and the sweep update every structure separately,
  as the code does. Code hashing is an injective abstract value; typed codes keep
  the upper-casing. The heap is the set of its entries.
* **RendezvousStore** calls any operation at any time. **RendezvousPromise** says
  the same service over live rendezvous alone: limits are counted, codes searched.
  The refinement mapping (`Promise`, `ImplementsPromise`) is in RendezvousStore. Its
  variables and specification have names of their own (`table`, `time`, `StoreSpec`),
  so that the server's proofs can extend the store's.
* **SignalingServer** has one label per critical section of a connection's
  goroutine (`pc`), the sweeper and Shutdown. `TrySend` may fail. Handlers keep
  the time they read when they started (`work[c].now`), since the code reads the
  clock once. The history
  variables `issued`, `owner` and `told` record identifiers ever used, the connections
  behind each rendezvous and the Closed notices; no guard of the code's steps but the
  freshness of identifiers reads them.
* **TransportConnection** has the mutexes of the three budget levels as separate
  steps and `queueMu` explicit. A panic of the code (release below zero, missing
  IP entry) is the state property `NoPanic` looks for.
* **HostSession** is the session task (`task.at`) with every await or lock as a
  boundary, the IPC threads, the registry and the broadcast channel. Verification,
  SDP handling, input release and closing a peer may each fail.
* **RemoteInput** composes the Controller's input sender with its page and
  controller, the ordered channel, the Host's event queue and the Host's peer
  session. Each side learns of an interruption independently, from signaling or
  from its own end of the peer. Sending and its completion are separate steps; a
  failed send may or may not have left.

* **HostPairing** is the coordinator (`co`) with the client protocol below it
  (`sp`), the task that flushes and receives, the local user's threads, and as
  environment the service and Controllers that relay anything they can build. The
  service's handlers commit first and queue their frame afterwards (`late`), so a
  closure overtakes a reply, as `SignalingServer`'s goroutines allow.
  Cryptography is symbolic: a key is the transcript it was derived with, and a
  sealed body opens under the same key, direction, sequence and associated data.
* **ChannelAuth** has the proofs of `ipc/src/auth.rs`, bound to a token, a channel,
  a server instance and the nonces.
* **HostAgent** is the process: start (identity, grants, listener), local clients
  with authentication, requests on blocking threads, the registry that persists
  before it changes, the replacement of the grant file in its three steps (each
  may fail), offers and authenticated sessions, stop, kill and power failure.
  `file` is what a process reads, `durable` what survives a power failure.
* **BridgeOps** has the bridge's data types as operators: leases, the session state
  machine, the Helper's gate, event queues, the replay guard, the indicator.
  **PrivilegedBridge** runs them in three processes joined by sockets. A handshake
  is one step, because both ends do nothing else meanwhile; a call is a request, its
  forwarding, the Helper's work and the answer, each of its own, so every timeout
  can fall in between. The Host agent first probes the bridge, as its start does.

Mutants are operators defined just before the definition they alter, each marked
"Mutant of"; nothing else uses them. They exist to show that a property can fail.

## 3. Runs

| Run | Instance | Checks | Shows |
|---|---|---|---|
| `store` | 3 devices, 3 identifiers, 1 code, limits 1 and 2, times 0..2 with TTL 1 | TypeOK, IndexesAgree, CapacityBounds, ImplementsPromise | derived structures follow the primary map; the store implements its promise; both limits bind and expiry is met exactly and passed |
| `frames` | 2 connections, 2 identifiers for 1 place, every frame | OneRoutePerDevice, MembersOnline, ClosureReported, PurgesOwnOnly | no rendezvous outlives a member; closures are reported, through completions, relays, invalid frames and sweeps inside Create; a connection's cleanup touches its own rendezvous only |
| `liveness` | 2 connections, Shutdown possible | DownMeansEmpty, ShutdownReturns, SilentClientsReaped | Shutdown returns with nothing left; silent clients are reaped |
| `transport` | 2 connections of 2 IPs, 2 senders, limits 3/2/3, reads | SlotsConserved, NothingAfterClose, NoPanic, WithinLimits, NothingLeaks | every level refuses in some behaviour; nothing is lost or leaked |
| `host` | 1 Controller, 1 session, 1 local thread, channel of 1, all envelopes and requests, times 0..1 | Stoppable, RevocationNoticed, RegistryTracksSession, WindowBounded, StatusFollows, StopsTakeEffect, WindowResolves, ShutdownCompletes | stops and revocations against starting, suspended and closing sessions; deadlines and shutdown take effect with signaling down |
| `host_survives` | as above, without shutdown | RuntimeSurvives: **violated** | finding 1 |
| `input` | 2 keys, queue of 2, 3 envelopes, 2 connection events | WireContiguous, NoStuckKeys, NoDoublePress | numbering and releases across focus, suspension, abort and close |
| `input_recovery` | as `input` | RecoveredInputAccepted: **violated** | finding 2 |
| `pairing` | 1 Controller, 2 invitations, 2 envelopes each, 1 fault, times 0..1 | GrantVerified, DecisionTruthful, NonceOnce, LayersAgree, NoLostWakeup | a grant exists only for a verified, accepted Controller; decisions are true; coordinator and protocol agree; nothing waits unsent |
| `agent` | 2 clients, 2 Controllers, 3 requests, 2 failing steps or crashes, a genuine and an altered offer | ReportedHolds, Restartable, OffersOnce, AgentStops | what was reported holds after a crash; the file can always be loaded; stopping ends |
| `bridge` | 1 Helper, a probe and a session, control and view-only, current and outdated credentials, lease of 3, a fast and a critical event | PeerUnderLease, EventsInOrder, RenewalsInTime, ControlEnds | the protected desktop is controlled only under a lease and never without a Host |
| `bridge_stop` | as `bridge`, one context | StopNotDismissed: **violated** | finding 3 |

Why the bounds are enough: what goes wrong in these components needs a pair of
actors and one repetition. Two connections let one device hold an old and a new
connection; two senders and two connections let budgets interleave at each level
with a refusal at each. In `host` the session identifier is used again after it
ended, so a termination of the earlier session is still in the channel of one place,
its smallest legal value, when the next one is stopped; the single Controller is at
any time a stranger, granted or revoked. Three envelopes are a press, its release and a
second press; two connection events are a loss and a recovery. Two invitations let
frames of the first reach the second, with one connection lost or one stray error in
between. Two faults let a write fail and the process be killed afterwards. In
`bridge` the second connection is the session after the probe of the agent's start; the
lease expires at 3 unless a renewal, due at 1, is accepted. A Helper serves one session
in its life, so one Helper shows a whole session; that a second one replaces it in the
broker's slot is in the model and outside this instance, but not outside the proofs. Clocks stop at a bound past the
longest lifetime of the instance. In the liveness instances of the server and the Host clients stop
acting after `LastInput`: the properties promise something only once they do.

`Stoppable` needs at least as many channel places as there are local threads.
The code has 4 (`MAX_LOCAL_CLIENTS`, runtime.rs:63) and 32
(`TERMINATION_EVENT_CAPACITY`, sessions.rs:12), and `HostAssumption` states it;
with fewer places than threads TLC finds a running session whose termination was
overwritten.

### Fairness

* Go: a runnable goroutine runs, timers fire, time passes (weak fairness of each
  connection, of sweeper and Shutdown, and of `Tick`). Clients owe nothing.
  `SweepExit` is an alternative of a loop that is ready again and again (`select`
  chooses at random): strong fairness.
* Tokio: weak fairness of the task, of connection attempts (bounded by
  `REMOTE_OPERATION_TIMEOUT`), of the backoff sleep and of the blocking threads.
  `select!` polls its branches in random order, so a branch that is ready again
  and again is taken: strong fairness of the deadline, shutdown and termination
  branches, and of no others. Peer, Controllers and the network owe nothing:
  signaling may stay down for ever.
* The agent process: blocking threads run, a file operation returns, with success or an
  error, and a connection notices the cancellation at its next wait: weak fairness.
  Clients, offers, crashes and the clock owe nothing.
* The bridge: the loops of broker and Helper run, and a receive with a timeout returns:
  weak fairness of their steps. The Host, the clock and the local user owe nothing, so
  `ControlEnds` does not rest on the lease's expiry.

## 4. Proofs

Every theorem holds for every value of the constants that satisfies the named
assumptions of the module that declares them, and TLC evaluates those on every run:

* `StoreAssumption`, `ServerAssumption`, `TimeAssumption`: finite identifiers, positive
  limits and lifetimes, `Nil` outside the sets it stands beside.
* `TransportAssumption`: finite sets, limits are numbers, and a frame's size is not zero. An
  encoded envelope is never empty; with a frame of no bytes a source IP's entry could be
  deleted while its frame is still queued, and the release would panic.
* `HostAssumption`: as above, and the termination channel has at least as many places as
  there are local clients (the code has 32 and 4).
* `AgentAssumption`: limits and times are numbers. Nothing is assumed of their order.
* `PairingAssumption`: the Host is no Controller, and the service's clock is behind
  by less than a lifetime.
* `InputAssumption`: the queue has room for an event, the bounds are numbers, and
  `Nil` is no key and no reason for closing.
* `BridgeOpsAssumption`, `BridgeAssumption`: intervals, limits and bounds are numbers, a
  lease lasts longer than its renewal interval, generations and connections are not zero
  (zero is "none" in the code too), the installed credentials are some process's, contexts
  have permissions and a name, and native events are critical or fast.

Proofs are by inductive invariant: `Init => Inv`, one lemma per action or group of actions
that leaves the same state alone, and a last step that combines them. TLC checked the
invariants on the runs' instances before they were proved, the bridge's with two Helpers
as well.

* **The store** (`RendezvousStoreProofs`). `StoreOK` (types,
  exact indexes, both limits) is preserved by deleting, inserting, joining, sweeping,
  creating, completing and removing a device (`DeleteOK`, `InsertOK`, `CreateOK`,
  `JoinOK`, ...); what each may change is stated by `DeleteShrinks`, `CreateEffect`,
  `JoinEffect` and their like. Neither limit is inductive alone: counters are
  compared, so they must be exact. The counter per Host is the cardinality of a set,
  so the arithmetic rests on the library's facts about finite sets.
  `StoreKeepsPromise` is the refinement: with exact indexes, a counter is what the
  promise counts, a code's entry is what it searches, and what the sweep leaves is what
  is alive at the time of the call; so each call is the same call of the promise.
* **The server** (`SignalingServerProofs`). `ServerInv` gives `OneRoutePerDevice`,
  `MembersOnline` and the action property `PurgesOwnOnly`. It needs `StoreOK` (a cleanup that
  trusts an inexact member index would leave a rendezvous behind) and `WorkOK` (a
  connection that registers holds no device yet; a handler's frame has the fields its
  operation uses). `StatusInv` adds what each label says of a connection and of Shutdown,
  and gives `DownMeansEmpty`. `ReportInv` gives `ClosureReported`: the owner's
  device stays a member as long as its rendezvous is stored, and an open connection
  holds its own device's route, so whoever removes the rendezvous finds the route its
  notice has to go to.
* **The transport** (`TransportConnectionProofs`). A slot or a byte is always
  somebody's: `TransportInv` says whose, at every label, and that each level's counter
  is the sum of them. Sums over queues and senders are cardinalities of areas (a column of
  height f[s] over every s), so no induction over data is needed. From it follow
  `SlotsConserved`, `NothingAfterClose`, `NoPanic`, `WithinLimits`, `NothingLeaks`, and
  `RoomForHolders`: a goroutine that sends on a channel with `queueMu` held finds room.
* **The Host's sessions** (`HostSessionProofs`). `HostInv` gives `Stoppable`,
  `RevocationNoticed`, `RegistryTracksSession`, `WindowBounded` and `StatusFollows`.
  `Stoppable` is a counting argument: at most one session is registered, so a local
  client has at most one termination to send; behind the one the running session
  needs there can be fewer events than there are clients, and the channel holds as many.
* **The agent** (`HostAgentProofs`). `AgentInv` gives `ReportedHolds`,
  `Restartable` and `OffersOnce`. While a write is under way, nothing is claimed of
  the Controller it is about; what is written differs from the registry in that
  Controller only. The cache keeps a nonce at least as long as its offer's times are
  accepted.
* **Pairing** (`HostPairingProofs`). `PairingInv` gives `GrantVerified`,
  `DecisionTruthful`, `NonceOnce`, `LayersAgree` and `NoLostWakeup`. `Good` is the
  coordinator's part, stated of any coordinator, transcript of envelopes, service and
  ledger, so that each method is treated once, wherever it is called from: an active
  pairing is the last one started and is whom it verified, and what is queued is true and
  in order. `RequestsOK` and `FramesOK` say the same of what is on its way to the service
  and back: each statement in flight is one that stays true (`Later`: who joined
  stays known, what ended stays so), and a success follows its decision. `LayerOK`
  relates coordinator and client protocol: a new creation is still in the queue
  (`Pristine`), or the protocol is exactly where the pairing is and the queue is empty
  (`InStep`). Draining the queue is a recursive function; that it runs to the end or to the
  first refusal is proved from the least index at which it would not (`LeastNumber`), in
  place of an induction.
* **Input** (`RemoteInputProofs`). `InputInv` gives `WireContiguous`, `NoStuckKeys` and
  `NoDoublePress`. The Host's event queue, the channel and the sender's queue are one
  line of events (`Line`): the sender adds to its end, cancels its last part or closes it
  with a release, the Host takes from its front, a connection event enters in the middle.
  None of the three is inductive by itself. `NoDoublePress` needs `NoRepress` of the whole
  line (a press is preceded by the release of whatever pressed that key before, in
  the line or at the Host), and to queue a press, that every key the user does not hold is
  `Settled`, or that everything is (`AllLifted`) once a release was sent. `NoStuckKeys`
  is `AllLifted` of a sender that owes no release. `WireContiguous` needs to know
  the last number in the line (`Tip`), which is the one the sender counts from; the number
  the Host expects grows with what it applies and with what it drops.
* **The bridge** (`PrivilegedBridgeProofs`). `BridgeInv` gives `PeerUnderLease`,
  `EventsInOrder` and `RenewalsInTime`, for any Helpers and connections.
  Nothing in a Helper says that its lease is alive; what does is where the one
  request of an exchange is. `HelperInv` says it: a Helper the broker does not serve was
  never asked for anything (`Untouched`), or its socket is closed; when the broker waits for
  nothing, no request or answer is left (`Quiet`); in an exchange the request is on its
  way, being handled, or answered (`InExchange`). So a late start cannot open a peer
  after the broker gave up: giving up closes the socket. `CallInv` is the same for
  the Host's calls, over each of its connections. `CadenceInv` compares the two
  records of the last renewal: once an answer was read the Host's is not before the
  broker's, so an interval on the Host's clock is at least one on the broker's. `EventInv`
  says that every event in a socket or a queue is `Genuine`, the one its Helper emitted
  under its number, and that the broker's leases and the Helpers' gates are of
  the Helper's own generation; with the Host's check of the number that is
  `EventsInOrder`, whatever the hops drop. The steps of each process have one form:
  `HelperTurn`, `HostTurn`, `BrokerTurn` and, where a session ends, `RestTurn` state what its
  next state and sockets must satisfy for the whole invariant to hold again, and
  each action is shown to have such an outcome.

Only model-checked:

* every liveness property (`ShutdownReturns`, `SilentClientsReaped`, `StopsTakeEffect`,
  `WindowResolves`, `ShutdownCompletes`, `AgentStops`, `ControlEnds`): fairness and
  ENABLED are out of the prover's reach;
* the three findings of section 5, which are violations.

## 5. Findings

1. **A failed close during backoff ends the agent** (`host_survives`).
   `await_offline_operation` reports a failed close, or a lagging termination
   receiver; `run_remote_sessions` logs it during a connection attempt
   (remote_runtime.rs:486-493) but propagates it during the backoff sleep (:511),
   and `try_join` (runtime.rs:560) then ends the agent. The comments at
   remote_session.rs:577 and remote_runtime.rs:527 expect the runtime to go on.
2. **Input dropped in the reconnect window breaks the recovered session**
   (`input_recovery`). The Host drops reliable envelopes inside its window without
   advancing the sequence it expects (remote_session.rs:373-380,
   host-webrtc/src/session.rs:235); the Controller's own release-all on suspension
   is such an envelope. After the peer is connected again the next input has a gap
   and the Host closes the session, although docs/architecture/reconnect-v1.md:49
   says that a successful recovery re-enables input.
3. **A local Stop can be dismissed by a restart** (`bridge_stop`). The Helper handles a
   received request before it polls the flag of the local Stop (runtime.rs:449-465), and
   the end of StartPeer and RestartPeer shows the indicator again, which clears that
   flag (native_indicator.rs:72). A Stop pressed during such a request is forgotten and
   control goes on, although docs/architecture/privileged-session-bridge-v1.md:93-94
   says that no remote IPC command can hide or dismiss it.

Behaviour worth knowing that no document contradicts: an emergency stop between
verifying an offer and registering its session stops nothing, and `emergency_stop`
publishes Idle without looking again; an authentication for another session from the active
Controller suspends the running one; when the Host alone loses signaling, only a
native Connected event clears its window, so a healthy session is closed when the
deadline passes; a Host whose queue refused the Joined notice is not told that its
rendezvous was deleted; the sweeper may close a client that sent a heartbeat after its
snapshot was taken. Any error frame of the service fails the active
invitation, also one that answers a session relay. The Helper numbers fast and critical
events in one sequence, both hops take critical events first and keep only the newest
fast one (rpc.rs:63-72, framing.rs:204-210), and the Host demands the sequence without a
hole (proxy.rs:473-480): a pointer event followed by a critical event, or by another
pointer event, during one call ends the session, closed but intact. A view-only session cannot have its input released
through the bridge, because the release is an InputCommand that the broker refuses
without ControlInput (broker.rs:222-228). The probe of an agent's start takes the waiting
Helper for its duration.

## 6. Not modelled

SDP, field lengths and encodings (a check may fail at any time; the cryptography of
pairing, offers and channels is symbolic); HTTP, metrics, logging; the lossy pointer
channel of the peer; rate limiters (a refusal may happen at any time); media; heartbeats of
the Host's signaling client; bytes of the local framing. `privileged_route_changed` of the session
coordinator, `migrate` of the proxy and `apply_unavailable` of the session state machine are
called by tests only. Endpoint, token and discovery files of the local socket are not
modelled: only one agent exists in `HostAgent`. (The listener's Drop removes them by path,
unix_transport.rs:137-165, so an agent that starts while another ends may lose its own.)
Nor are the operating system's key stores, Windows pipes and services, secure attention,
installers, the generated schema and the Controller's pairing and reconnect engines, which are
environments that may send anything.

## 7. Plan

Order of the work, most important behaviour first:

1. Rendezvous store, signaling server, transport; store and server proofs. Done.
2. Host session and runtime, remote input. Done.
3. Pairing, the agent process with its files and the offer verifier, the privileged
   bridge. Done.
4. The Controller's reconnect policy with late answers and generations, composed with
   `HostSession`'s restart; rate limiters as pure functions checked against a reference.
5. Proofs of every safety property above, with the refinement of the store. Done.
