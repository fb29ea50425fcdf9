---------------------------- MODULE HostSession ----------------------------
(***************************************************************************)
(* The Host agent's remote session coordinator and the runtime that drives *)
(* it (crates/host-agent/src: remote_session.rs, remote_reconnect.rs,      *)
(* remote_runtime.rs, sessions.rs and the parts of service.rs and          *)
(* authorization.rs they share with local IPC).                            *)
(*                                                                         *)
(* One asynchronous task owns the coordinator: it selects among signaling  *)
(* frames, native peer events, termination events and timers, and runs one *)
(* handler at a time.  Local IPC requests (grant, revoke, emergency stop)  *)
(* run on blocking threads beside it.  They meet in the grant registry,    *)
(* the active session registry, the termination channel and the published  *)
(* status, each behind its own lock: one critical section is one step.     *)
(***************************************************************************)
EXTENDS Integers, Sequences, FiniteSets

CONSTANTS
    Controllers, Sessions, Nil,
    Clients,               \* threads that serve local IPC: MAX_LOCAL_CLIENTS
    TerminationCapacity,   \* TERMINATION_EVENT_CAPACITY
    MaxPendingIce,         \* MAX_PENDING_ICE_CANDIDATES
    PendingLifetime,       \* PENDING_SESSION_LIFETIME_MS
    ReconnectLifetime,     \* ACTIVE_RECONNECT_LIFETIME_MS
    MaxGeneration,         \* u32::MAX
    EnvelopeKinds,         \* bound: the kinds of envelopes Controllers send
    LocalRequests,         \* bound: the requests local clients make
    MayShutdown,           \* bound: whether the agent is asked to stop
    LastInput,             \* bound: nobody but the agent acts after this time
    MaxTime                \* bound: the clock stops here, outside a window

(* PendingSession, and ActiveSession with the state of its peer: records,  *)
(* which Nil is not, so that Nil can stand for None.                       *)
PendingSessions ==
    [c : Controllers, s : Sessions, auth : BOOLEAN, desc : BOOLEAN, ice : Nat, at : Nat]
ActiveSessions ==
    [c : Controllers, s : Sessions, peer : {"Negotiating", "Connected", "Reconnecting"},
     reconnect : PendingSessions \cup {Nil}, gen : Nat, deadline : Nat \cup {Nil}]

ASSUME HostAssumption ==
    /\ Nil \notin Controllers /\ Nil \notin Sessions /\ Nil \notin Nat
    /\ Nil \notin PendingSessions /\ Nil \notin ActiveSessions
    /\ IsFiniteSet(Clients)
    /\ TerminationCapacity \in Nat \ {0} /\ Cardinality(Clients) <= TerminationCapacity
    /\ MaxPendingIce \in Nat /\ PendingLifetime \in Nat
    /\ ReconnectLifetime \in Nat \ {0} /\ MaxGeneration \in Nat
    /\ MayShutdown \in BOOLEAN /\ LastInput \in Nat /\ MaxTime \in Nat

VARIABLES
    grants,     \* AuthorizationRegistry: the Controllers that have a grant
    registry,   \* SessionRegistry.sessions
    terms,      \* the termination channel as the task's receiver sees it
    lagged,     \* the receiver has missed events: the next recv says Lagged
    status,     \* remote_status: the state and session the local user is shown
    ipc,        \* where each local client's request is
    pending,    \* coordinator.pending
    failed,     \* coordinator.failed_attempt
    active,     \* coordinator.active
    task,       \* where the task is
    stop,       \* the shutdown watch
    clock

serviceVars == <<grants, registry, terms, lagged, status, ipc>>
sharedVars == <<grants, registry, terms, lagged, ipc>>       \* but for status
coordinatorVars == <<pending, failed, active>>
vars == <<serviceVars, coordinatorVars, task, stop, clock>>

Status(state, s) == [state |-> state, s |-> s]
IdleStatus == Status("idle", Nil)

(* The task: at, the handler's session and candidates, the envelope it     *)
(* handles, the time it read; for close_active the final status and where  *)
(* to go on when the peer closed cleanly and when it did not.              *)
At(label) ==
    [at |-> label, c |-> Nil, s |-> Nil, ice |-> 0, env |-> Nil, now |-> 0,
     final |-> Nil, ok |-> Nil, err |-> Nil]
Goto(label) == task' = At(label)
Advance(label) == task' = [task EXCEPT !.at = label]

Resting == {"online", "connecting", "backoff"}

(* Where an error that a handler returns takes the task: the registered    *)
(* connection and the connection attempt end and are retried; the backoff  *)
(* sleep hands it on with `?` and so ends the runtime.                     *)
OnError(label) == IF label = "backoff" THEN "dropping" ELSE "failing"

Envelopes == [kind : EnvelopeKinds, c : Controllers, s : Sessions]

----------------------------------------------------------------------------
(* PendingSession: the parts of an offer, collected in any order.          *)

NewPending(c, s, now) ==
    [c |-> c, s |-> s, auth |-> FALSE, desc |-> FALSE, ice |-> 0, at |-> now]

(* The pending session after e: a repeated part replaces the earlier one,  *)
(* although the envelope is then rejected; candidates are bounded.         *)
Absorb(p, e) ==
    CASE e.kind = "auth" -> [p EXCEPT !.auth = TRUE]
      [] e.kind = "desc" -> [p EXCEPT !.desc = TRUE]
      [] e.kind = "ice"  -> [p EXCEPT !.ice = IF @ < MaxPendingIce THEN @ + 1 ELSE @]
      [] OTHER           -> p

Ready(p, e) == Absorb(p, e).auth /\ Absorb(p, e).desc /\ Absorb(p, e) # p

Aged(now, at) == now - at > PendingLifetime

(* expire_pending.                                                         *)
expire_pending(now) ==
    /\ pending' = IF pending # Nil /\ Aged(now, pending.at) THEN Nil ELSE pending
    /\ failed' = IF failed # Nil /\ Aged(now, failed.at) THEN Nil ELSE failed

----------------------------------------------------------------------------
(* close_active: take the session and publish Closing, close the peer and  *)
(* unregister, publish the final status.  The session is gone from the     *)
(* coordinator even when closing the peer fails.                           *)

close_active(final, ok, err) ==
    /\ active' = Nil
    /\ status' = Status("closing", active.s)
    /\ task' = [task EXCEPT !.at = "unregister", !.c = active.c, !.s = active.s,
                            !.final = final, !.ok = ok, !.err = err]

CloseUnregister ==
    /\ task.at = "unregister"
    /\ registry' = [registry EXCEPT ![task.s] = Nil]
    /\ \E closed \in BOOLEAN :
          task' = [task EXCEPT !.at = "finish", !.ok = IF closed THEN @ ELSE task.err,
                               !.err = Nil]
    /\ UNCHANGED <<grants, terms, lagged, status, ipc, coordinatorVars, stop, clock>>

(* Mutant of CloseFinish: the final status is not published.               *)
CloseFinishSilent ==
    /\ task.at = "finish"
    /\ task' = IF task.ok = "dispatch"
               THEN [At("dispatch") EXCEPT !.env = task.env, !.now = task.now]
               ELSE At(task.ok)
    /\ UNCHANGED <<status, sharedVars, coordinatorVars, stop, clock>>

CloseFinish ==
    /\ task.at = "finish"
    /\ status' = IF task.final = "idle" THEN IdleStatus ELSE Status(task.final, task.s)
    /\ task' = IF task.ok = "dispatch"
               THEN [At("dispatch") EXCEPT !.env = task.env, !.now = task.now]
               ELSE At(task.ok)
    /\ UNCHANGED <<sharedVars, coordinatorVars, stop, clock>>

----------------------------------------------------------------------------
(* The reconnect window.                                                   *)

Expired(now) == active # Nil /\ active.deadline # Nil /\ now >= active.deadline

(* The states of HostPeerSession and what each allows.                     *)
accept_offer(c, s) == [c |-> c, s |-> s, peer |-> "Negotiating",
                       reconnect |-> Nil, gen |-> 0, deadline |-> Nil]
mark_connected(a) == [a EXCEPT !.peer = "Connected"]
accept_reconnect_offer(a) == [a EXCEPT !.peer = "Negotiating"]
TakesCandidates(a) == a.peer \in {"Negotiating", "Connected"}
require_input_ready(a) == a.peer = "Connected"

(* begin_active_reconnect: input is released once, the deadline is set     *)
(* once.  The result when the release works; it is not needed again while  *)
(* the peer is already Reconnecting.                                       *)
Suspended(now) ==
    [active EXCEPT !.peer = "Reconnecting",
                   !.deadline = IF @ = Nil THEN now + ReconnectLifetime ELSE @]
MayRelease == IF active.peer = "Reconnecting" THEN {TRUE} ELSE BOOLEAN

ReconnectPending(now) ==
    IF active.reconnect = Nil THEN NewPending(active.c, active.s, now)
    ELSE active.reconnect

(* handle_active_reconnect_envelope for an envelope of the active session's *)
(* Controller.  An authentication suspends the session before its session  *)
(* identifier is looked at.                                                *)
Suspend(e) ==
    \E released \in MayRelease :
       \/ /\ ~released
          /\ Goto("failing")
          /\ UNCHANGED <<active, status>>
       \/ /\ released
          /\ LET p     == ReconnectPending(task.now)
                 mine  == e.s = active.s
                 ready == mine /\ Ready(p, e)
                 after == [Suspended(task.now) EXCEPT
                             !.reconnect = IF ready THEN Nil ELSE IF mine THEN Absorb(p, e) ELSE p]
             IN  /\ active' = after
                 /\ task' = IF ready THEN [At("restart") EXCEPT !.ice = Absorb(p, e).ice]
                            ELSE At("online")
          /\ status' = Status("reconnecting", active.s)

AddIce(e) ==
    /\ UNCHANGED status
    /\ \/ /\ active.reconnect = Nil /\ TakesCandidates(active)
          /\ Goto("online") \/ Goto("failing")
          /\ UNCHANGED active
       \/ /\ active.reconnect # Nil \/ ~TakesCandidates(active)
          /\ active' = [active EXCEPT !.reconnect = Absorb(ReconnectPending(task.now), e)]
          /\ Goto("online")

Ignore == Goto("online") /\ UNCHANGED <<active, status>>

handle_active_envelope(e) ==
    \/ e.c # active.c /\ Ignore                                   \* device busy
    \/ /\ e.c = active.c
       /\ \/ (e.kind = "auth" \/ (e.kind = "desc" /\ e.s = active.s)) /\ Suspend(e)
          \/ e.kind = "ice" /\ e.s = active.s /\ AddIce(e)
          \/ e.kind = "closing" /\ e.s = active.s /\ close_active("idle", "online", "failing")
          \/ e.kind = "end" /\ Ignore
          \/ e.kind # "auth" /\ e.s # active.s /\ Ignore

(* restart_active: verify against the grant, restart the peer, sign, add   *)
(* the candidates; only a complete restart counts as a generation.         *)
restart_active ==
    /\ task.at = "restart"
    /\ \/ UNCHANGED active                                       \* refused or failed
       \/ /\ active.c \in grants /\ active.gen < MaxGeneration
          /\ \E complete \in BOOLEAN :
                active' = [accept_reconnect_offer(active) EXCEPT
                              !.gen = IF complete THEN @ + 1 ELSE @]
    /\ Goto("online")
    /\ UNCHANGED <<serviceVars, pending, failed, stop, clock>>

----------------------------------------------------------------------------
(* handle_routed.                                                          *)

ReceiveEnvelope(e) ==
    /\ task.at = "online" /\ clock <= LastInput
    /\ expire_pending(clock)
    /\ \/ /\ Expired(clock)
          /\ active' = Nil
          /\ status' = Status("closing", active.s)
          /\ task' = [At("unregister") EXCEPT !.c = active.c, !.s = active.s, !.env = e,
                        !.now = clock, !.final = "failed", !.ok = "dispatch", !.err = "failing"]
       \/ /\ ~Expired(clock)
          /\ task' = [At("dispatch") EXCEPT !.env = e, !.now = clock]
          /\ UNCHANGED <<active, status>>
    /\ UNCHANGED <<sharedVars, stop, clock>>

Silenced(e) == e.kind # "closing" /\ failed # Nil /\ failed.c = e.c /\ failed.s = e.s

Owns(p, e) == p.c = e.c /\ p.s = e.s

handle_pending_envelope(e) ==
    LET p == IF pending = Nil THEN NewPending(e.c, e.s, task.now) ELSE pending
    IN  \/ /\ e.kind = "closing"
           /\ pending' = IF pending # Nil /\ Owns(pending, e) THEN Nil ELSE pending
           /\ Goto("online")
        \/ /\ e.kind # "closing" /\ ~Owns(p, e)                  \* device busy
           /\ Goto("online")
           /\ UNCHANGED pending
        \/ /\ e.kind # "closing" /\ Owns(p, e)
           /\ pending' = IF Ready(p, e) THEN Nil ELSE Absorb(p, e)
           /\ task' = IF Ready(p, e)
                      THEN [At("authenticate") EXCEPT !.c = e.c, !.s = e.s,
                               !.ice = Absorb(p, e).ice, !.now = task.now]
                      ELSE At("online")

Dispatch ==
    LET e == task.env
    IN  /\ task.at = "dispatch"
        /\ \/ Silenced(e) /\ Ignore /\ UNCHANGED pending
           \/ ~Silenced(e) /\ active # Nil /\ handle_active_envelope(e) /\ UNCHANGED pending
           \/ /\ ~Silenced(e) /\ active = Nil
              /\ handle_pending_envelope(e)
              /\ UNCHANGED <<active, status>>
        /\ UNCHANGED <<sharedVars, failed, stop, clock>>

----------------------------------------------------------------------------
(* start_pending and activate_verified_session: authenticate, verify the   *)
(* offer against the grant, build the peer, register, check the grant      *)
(* again, add the candidates, publish.                                     *)

startVars == <<terms, lagged, ipc, pending, stop, clock>>

Authenticate ==
    /\ task.at = "authenticate"
    /\ status' = Status("authenticating", task.s)
    /\ Advance("verify")
    /\ UNCHANGED <<grants, registry, failed, active, startVars>>

(* verify_remote_offer; the peer is built and the answer signed after it.  *)
verify_remote_offer ==
    /\ task.at = "verify"
    /\ \/ task.c \in grants /\ Advance("register")
       \/ Advance("report")
    /\ UNCHANGED <<grants, registry, status, failed, active, startVars>>

register ==
    /\ task.at = "register"
    /\ \/ /\ registry[task.s] # Nil
          /\ Advance("report")
          /\ UNCHANGED registry
       \/ /\ registry[task.s] = Nil
          /\ registry' = [registry EXCEPT ![task.s] = task.c]
          /\ Advance("record")
    /\ UNCHANGED <<grants, status, failed, active, startVars>>

(* Mutant of record_authenticated_session: the grant is not checked again. *)
record_unchecked ==
    /\ task.at = "record"
    /\ Advance("connect") \/ Advance("undo")
    /\ UNCHANGED <<grants, registry, status, failed, active, startVars>>

(* Mutant of record_authenticated_session: an error skips the undo.        *)
record_without_undo ==
    /\ task.at = "record"
    /\ \/ task.c \in grants /\ Advance("connect")
       \/ Advance("report")
    /\ UNCHANGED <<grants, registry, status, failed, active, startVars>>

(* record_authenticated_session, then the candidates.                      *)
record_authenticated_session ==
    /\ task.at = "record"
    /\ \/ task.c \in grants /\ Advance("connect")
       \/ Advance("undo")
    /\ UNCHANGED <<grants, registry, status, failed, active, startVars>>

Undo ==
    /\ task.at = "undo"
    /\ registry' = [registry EXCEPT ![task.s] = Nil]
    /\ Advance("report")
    /\ UNCHANGED <<grants, status, failed, active, startVars>>

Activate ==
    /\ task.at = "connect"
    /\ active' = accept_offer(task.c, task.s)
    /\ status' = Status("connecting", task.s)
    /\ Goto("online")
    /\ UNCHANGED <<grants, registry, failed, startVars>>

Report ==
    /\ task.at = "report"
    /\ failed' = [c |-> task.c, s |-> task.s, at |-> task.now]
    /\ status' = Status("failed", task.s)
    /\ Goto("online")
    /\ UNCHANGED <<grants, registry, active, startVars>>

----------------------------------------------------------------------------
(* Native peer events, polled only while signaling is up; each poll first  *)
(* expires the reconnect window.                                           *)

Polling == task.at = "online" /\ active # Nil
pollVars == <<sharedVars, pending, failed, stop, clock>>

ExpireOnline ==
    /\ Polling /\ Expired(clock)
    /\ close_active("failed", "online", "failing")
    /\ UNCHANGED pollVars

(* Mutant of PeerConnected: the reconnect deadline is not cleared.         *)
PeerConnectedKeepsDeadline ==
    /\ Polling /\ ~Expired(clock) /\ clock <= LastInput
    /\ active' = [mark_connected(active) EXCEPT !.reconnect = Nil]
    /\ status' = Status("connected", active.s)
    /\ UNCHANGED <<task, pollVars>>

PeerConnected ==
    /\ Polling /\ ~Expired(clock) /\ clock <= LastInput
    /\ active' = [mark_connected(active) EXCEPT !.reconnect = Nil, !.deadline = Nil]
    /\ status' = Status("connected", active.s)
    /\ UNCHANGED <<task, pollVars>>

PeerLost ==
    /\ Polling /\ ~Expired(clock) /\ clock <= LastInput
    /\ \E released \in MayRelease :
          \/ ~released /\ Goto("failing") /\ UNCHANGED <<active, status>>
          \/ /\ released
             /\ active' = Suspended(clock)
             /\ status' = Status("reconnecting", active.s)
             /\ UNCHANGED task
    /\ UNCHANGED pollVars

(* Reliable or fast input.  Inside the window it is dropped; before the    *)
(* peer is connected it is an error, and so is input that fails.           *)
PeerInput ==
    /\ Polling /\ ~Expired(clock) /\ clock <= LastInput
    /\ active.deadline = Nil
    /\ \/ close_active("failed", "failing", "failing")
       \/ require_input_ready(active) /\ close_active("idle", "online", "failing")
    /\ UNCHANGED pollVars

LocalStop ==
    /\ Polling /\ ~Expired(clock) /\ clock <= LastInput
    /\ close_active("idle", "online", "failing")
    /\ UNCHANGED pollVars

(* The bounded event queue overflowed or its sender is gone.               *)
EventQueueFails ==
    /\ Polling /\ ~Expired(clock) /\ clock <= LastInput
    /\ close_active("failed", "failing", "failing")
    /\ UNCHANGED pollVars

----------------------------------------------------------------------------
(* Termination events, received wherever the task waits.                   *)

(* Mutant of TerminationLagged: a lagging receiver subscribes anew and so  *)
(* loses the events that were still in the channel.                        *)
TerminationLaggedResubscribes ==
    /\ task.at \in Resting /\ lagged
    /\ lagged' = FALSE /\ terms' = <<>>
    /\ Goto(OnError(task.at))
    /\ UNCHANGED <<grants, registry, status, ipc, coordinatorVars, stop, clock>>

TerminationLagged ==
    /\ task.at \in Resting /\ lagged
    /\ lagged' = FALSE
    /\ Goto(OnError(task.at))
    /\ UNCHANGED <<grants, registry, terms, status, ipc, coordinatorVars, stop, clock>>

handle_termination ==
    LET e == Head(terms)
    IN  /\ task.at \in Resting /\ ~lagged /\ terms # <<>>
        /\ terms' = Tail(terms)
        /\ IF active # Nil /\ active.s = e.s /\ active.c = e.c
           THEN close_active(IF e.reason = "stop" THEN "idle" ELSE "failed",
                             task.at, OnError(task.at))
           ELSE UNCHANGED <<active, status, task>>
        /\ UNCHANGED <<grants, registry, lagged, ipc, pending, failed, stop, clock>>

----------------------------------------------------------------------------
(* run_remote_sessions: connect, run the connection, lose it, back off.    *)

(* Mutant of ExpireOffline: the window is watched only while the agent is  *)
(* about to stop.                                                          *)
ExpireOfflineOnlyAtStop ==
    /\ task.at \in {"connecting", "backoff"} /\ Expired(clock) /\ stop
    /\ close_active("failed", task.at, OnError(task.at))
    /\ UNCHANGED pollVars

ExpireOffline ==
    /\ task.at \in {"connecting", "backoff"} /\ Expired(clock)
    /\ close_active("failed", task.at, OnError(task.at))
    /\ UNCHANGED pollVars

ConnectRemote ==
    /\ task.at = "connecting"
    /\ Goto("online") \/ Goto("failing")
    /\ UNCHANGED <<serviceVars, coordinatorVars, stop, clock>>

LoseSignaling ==
    /\ task.at = "online" /\ clock <= LastInput
    /\ Goto("failing")
    /\ UNCHANGED <<serviceVars, coordinatorVars, stop, clock>>

(* signaling_lost keeps the session for the reconnect window; if its input *)
(* cannot be released it is closed, and a failing close is only logged.    *)
signaling_lost ==
    /\ task.at = "failing" /\ ~stop
    /\ pending' = Nil
    /\ \/ active = Nil /\ Goto("backoff") /\ UNCHANGED <<active, status>>
       \/ /\ active # Nil
          /\ \E released \in MayRelease :
                \/ ~released /\ close_active("failed", "backoff", "backoff")
                \/ /\ released
                   /\ active' = Suspended(clock)
                   /\ status' = Status("reconnecting", active.s)
                   /\ Goto("backoff")
    /\ UNCHANGED <<sharedVars, failed, stop, clock>>

BackoffOver ==
    /\ task.at = "backoff"
    /\ Goto("connecting")
    /\ UNCHANGED <<serviceVars, coordinatorVars, stop, clock>>

SeeShutdown ==
    /\ task.at \in Resting \cup {"failing"} /\ stop
    /\ Goto("shutting")
    /\ UNCHANGED <<serviceVars, coordinatorVars, stop, clock>>

(* RemoteSessionCoordinator::shutdown, and the Drop that runs when an      *)
(* error ends the runtime instead.                                         *)
CloseCoordinator(ok, err) ==
    /\ pending' = Nil /\ failed' = Nil
    /\ \/ active # Nil /\ close_active("idle", ok, err)
       \/ active = Nil /\ status' = IdleStatus /\ Goto(ok) /\ UNCHANGED active
    /\ UNCHANGED <<sharedVars, stop, clock>>

(* Mutant of shutdown: the coordinator is closed, its session is not.      *)
shutdown_keeps_active ==
    /\ task.at = "shutting" /\ Goto("stopped")
    /\ pending' = Nil /\ failed' = Nil /\ status' = IdleStatus
    /\ UNCHANGED <<sharedVars, active, stop, clock>>

shutdown == task.at = "shutting" /\ CloseCoordinator("stopped", "dropping")
Drop == task.at = "dropping" /\ CloseCoordinator("dead", "dead")

----------------------------------------------------------------------------
(* Local IPC: each request runs on a thread of its own.                    *)

localVars == <<coordinatorVars, task, stop, clock>>
Idle == [at |-> "idle", c |-> Nil, events |-> {}]
Asks(k, request) == ipc[k].at = "idle" /\ request \in LocalRequests /\ clock <= LastInput

create_controller_grant(k, c) ==
    /\ Asks(k, "grant") /\ c \notin grants
    /\ grants' = grants \cup {c}
    /\ UNCHANGED <<registry, terms, lagged, status, ipc, localVars>>

revoke_controller_grant(k, c) ==
    /\ Asks(k, "revoke") /\ c \in grants
    /\ grants' = grants \ {c}
    /\ ipc' = [ipc EXCEPT ![k] = [Idle EXCEPT !.at = "terminate", !.c = c]]
    /\ UNCHANGED <<registry, terms, lagged, status, localVars>>

Terminated(S, reason) == {[s |-> s, c |-> registry[s], reason |-> reason] : s \in S}
Without(S) == [s \in Sessions |-> IF s \in S THEN Nil ELSE registry[s]]

terminate_controller(k) ==
    LET S == {s \in Sessions : registry[s] = ipc[k].c}
    IN  /\ ipc[k].at = "terminate"
        /\ registry' = Without(S)
        /\ ipc' = [ipc EXCEPT ![k] = [Idle EXCEPT !.at = "broadcast",
                                                  !.events = Terminated(S, "revoked")]]
        /\ UNCHANGED <<grants, terms, lagged, status, localVars>>

emergency_stop(k) ==
    LET S == {s \in Sessions : registry[s] # Nil}
    IN  /\ Asks(k, "stop")
        /\ registry' = Without(S)
        /\ ipc' = [ipc EXCEPT ![k] = [at |-> "broadcastStop", c |-> Nil,
                                      events |-> Terminated(S, "stop")]]
        /\ UNCHANGED <<grants, terms, lagged, status, localVars>>

(* A send that finds the channel full drops the oldest event.              *)
Broadcast(k) ==
    \E e \in ipc[k].events :
       LET sent == Append(terms, e)
       IN  /\ terms' = IF Len(sent) > TerminationCapacity THEN Tail(sent) ELSE sent
           /\ lagged' = (lagged \/ Len(sent) > TerminationCapacity)
           /\ ipc' = [ipc EXCEPT ![k].events = @ \ {e}]
           /\ UNCHANGED <<grants, registry, status, localVars>>

(* The request returns; an emergency stop first publishes Idle.            *)
Respond(k) ==
    /\ ipc[k].at \in {"broadcast", "broadcastStop"} /\ ipc[k].events = {}
    /\ status' = IF ipc[k].at = "broadcastStop" THEN IdleStatus ELSE status
    /\ ipc' = [ipc EXCEPT ![k] = Idle]
    /\ UNCHANGED <<grants, registry, terms, lagged, localVars>>

RequestShutdown ==
    /\ MayShutdown /\ ~stop
    /\ stop' = TRUE
    /\ UNCHANGED <<serviceVars, coordinatorVars, task, clock>>

(* Time goes on past the bound for as long as a reconnect window is open.  *)
Tick ==
    /\ clock < MaxTime \/ (active # Nil /\ active.deadline # Nil /\ clock < active.deadline)
    /\ clock' = clock + 1
    /\ UNCHANGED <<serviceVars, coordinatorVars, task, stop>>

(* The agent may have stopped, or be waiting when the clients have gone    *)
(* quiet at the end of the bounded time: neither is a deadlock.            *)
Rest ==
    /\ task.at \in {"stopped", "dead"} \/ (task.at = "online" /\ clock >= MaxTime)
    /\ UNCHANGED vars

----------------------------------------------------------------------------
Init ==
    /\ grants = {}
    /\ registry = [s \in Sessions |-> Nil]
    /\ terms = <<>> /\ lagged = FALSE
    /\ status = IdleStatus
    /\ ipc = [k \in Clients |-> Idle]
    /\ pending = Nil /\ failed = Nil /\ active = Nil
    /\ task = At("connecting")
    /\ stop = FALSE
    /\ clock = 0

(* What the task does by itself once it has an envelope or an error.       *)
TaskStep ==
    \/ CloseUnregister \/ CloseFinish \/ Dispatch \/ restart_active
    \/ Authenticate \/ verify_remote_offer \/ register
    \/ record_authenticated_session \/ Undo \/ Activate \/ Report
    \/ signaling_lost \/ shutdown \/ Drop

Expire == ExpireOnline \/ ExpireOffline

PeerStep == PeerConnected \/ PeerLost \/ PeerInput \/ LocalStop \/ EventQueueFails

(* Mutant of ReceiveTermination: the select! of a registered connection    *)
(* leaves the terminations out.                                            *)
ReceiveTerminationOffline ==
    task.at # "online" /\ (TerminationLagged \/ handle_termination)
ReceiveTermination == TerminationLagged \/ handle_termination

ServeLocal(k) == terminate_controller(k) \/ Broadcast(k) \/ Respond(k)

Next ==
    \/ TaskStep \/ Expire \/ SeeShutdown \/ PeerStep \/ ReceiveTermination
    \/ ConnectRemote \/ LoseSignaling \/ BackoffOver
    \/ \E e \in Envelopes : ReceiveEnvelope(e)
    \/ \E k \in Clients :
          \/ ServeLocal(k) \/ emergency_stop(k)
          \/ \E c \in Controllers : create_controller_grant(k, c) \/ revoke_controller_grant(k, c)
    \/ RequestShutdown \/ Tick \/ Rest

Spec == Init /\ [][Next]_vars

(* The executor runs the task and the blocking threads; the sleeps end and *)
(* a connection attempt is bounded by REMOTE_OPERATION_TIMEOUT.  select!   *)
(* polls its branches in a random order, so a branch that is ready again   *)
(* and again is taken in the end: that is strong fairness, for the three   *)
(* branches the runtime relies on.                                         *)
FairSpec ==
    /\ Spec
    /\ WF_vars(TaskStep) /\ WF_vars(ConnectRemote) /\ WF_vars(BackoffOver)
    /\ WF_vars(Tick)
    /\ \A k \in Clients : WF_vars(ServeLocal(k))
    /\ SF_vars(Expire) /\ SF_vars(SeeShutdown) /\ SF_vars(ReceiveTermination)

----------------------------------------------------------------------------
(* Properties.                                                             *)

Event(s, c, reason) == [s |-> s, c |-> c, reason |-> reason]
(* A termination of the session (s, c) is on its way to the task: in the   *)
(* channel, or removed from the registry by a thread that has yet to send. *)
Terminating(s, c) ==
    \E reason \in {"stop", "revoked"} :
       LET e == Event(s, c, reason)
       IN  \/ \E i \in DOMAIN terms : terms[i] = e
           \/ \E k \in Clients : e \in ipc[k].events

BeingRevoked(c) == \E k \in Clients : ipc[k].at = "terminate" /\ ipc[k].c = c

(* A running session can always be stopped: it is in the registry that     *)
(* revocation and emergency stop look in, or its termination is on its way *)
(* to the task.  Nobody can forget it, although the channel is bounded,    *)
(* drops its oldest event and carries events of earlier sessions.          *)
Stoppable ==
    active # Nil => registry[active.s] = active.c \/ Terminating(active.s, active.c)

(* No session outlives its grant unnoticed: whenever the Controller of the *)
(* running session has no grant, the thread that revoked it has yet to     *)
(* terminate its sessions or the termination is on its way.  In particular *)
(* a revocation between verify_remote_offer and register is not lost.      *)
RevocationNoticed ==
    active # Nil /\ active.c \notin grants =>
        Terminating(active.s, active.c) \/ BeingRevoked(active.c)

(* The registry never keeps a session the coordinator does not have: an    *)
(* entry is the active session's, or that of the session the task is just  *)
(* starting, undoing or closing.  (A leftover entry would make register    *)
(* refuse the session identifier for ever.)                                *)
RegistryTracksSession ==
    \A s \in Sessions :
       registry[s] # Nil =>
          \/ active # Nil /\ active.s = s /\ active.c = registry[s]
          \/ /\ task.at \in {"record", "connect", "undo", "unregister"}
             /\ task.s = s /\ task.c = registry[s]

(* A suspended session always has a deadline, and a connected one never:   *)
(* input is dropped only inside the window and the window can always end.  *)
WindowBounded ==
    active # Nil =>
        /\ active.peer = "Reconnecting" => active.deadline # Nil
        /\ active.peer = "Connected" => active.deadline = Nil
        /\ active.gen > 0 /\ active.peer = "Negotiating" => active.deadline # Nil
        /\ active.deadline # Nil => active.deadline <= clock + ReconnectLifetime

(* Whenever the task waits, the status shown locally is the session's.     *)
(* Only an emergency stop, which publishes Idle from its own thread after  *)
(* it looked for sessions, may leave a session that has just started       *)
(* hidden behind Idle; a session that is gone is never shown.              *)
StatusFollows ==
    task.at \in Resting =>
        IF active = Nil
        THEN status.state \in {"idle", "failed"}
        ELSE \/ "stop" \in LocalRequests /\ status = IdleStatus
             \/ /\ status.s = active.s
                /\ status.state = IF active.peer = "Connected" THEN "connected"
                                  ELSE IF active.deadline # Nil THEN "reconnecting"
                                  ELSE "connecting"

(* The agent goes on serving until it is told to stop: failures of one     *)
(* session, of its peer or of the signaling connection do not end it.      *)
RuntimeSurvives == task.at \in {"dropping", "dead"} => stop

(* A session that was revoked or stopped ends, wherever the task is: on    *)
(* line, connecting or backing off.                                        *)
StopsTakeEffect ==
    (active # Nil /\ (active.c \notin grants \/ registry[active.s] # active.c)) ~> active = Nil

(* A reconnect window is resolved: the session recovers or is closed, even *)
(* when signaling never comes back.                                        *)
WindowResolves ==
    (active # Nil /\ active.deadline # Nil) ~> (active = Nil \/ active.deadline = Nil)

(* Shutdown ends the task with no session left, registered or active.      *)
ShutdownCompletes ==
    stop ~> (task.at \in {"stopped", "dead"} /\ active = Nil
              /\ \A s \in Sessions : registry[s] = Nil)
============================================================================
