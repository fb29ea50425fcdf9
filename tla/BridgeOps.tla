----------------------------- MODULE BridgeOps -----------------------------
(***************************************************************************)
(* The values the privileged bridge works on (crates/privileged-bridge):   *)
(*   lease.rs      LeaseManager: one Host, one lease, expiry and cadence   *)
(*   session.rs    SessionStateMachine: the graphical session of a route   *)
(*   helper.rs     HelperLeaseGate: the route a Helper obeys               *)
(*   framing.rs    EventQueue: critical events in order, one fast event    *)
(*   auth.rs       NonceReplayGuard and the checks of BridgeAuthenticator  *)
(*   indicator.rs, native_indicator.rs   the local indicator and its Stop  *)
(* Each operation that can refuse has a guard (May...) and an effect.      *)
(***************************************************************************)
EXTENDS Integers, Sequences, ChannelAuth

CONSTANTS
    RenewInterval,   \* RENEW_INTERVAL_MS
    LeaseDuration,   \* LEASE_DURATION_MS
    MaxCritical,     \* MAX_CRITICAL_EVENTS
    ReplayCapacity   \* REPLAY_CAPACITY

ASSUME BridgeOpsAssumption ==
    /\ {RenewInterval, LeaseDuration, MaxCritical, ReplayCapacity} \subseteq Nat \ {0}
    /\ RenewInterval < LeaseDuration

None == [kind |-> "none"]
ProxyRoute(lease, generation) ==
    [kind |-> "route", lease |-> lease, generation |-> generation]

-----------------------------------------------------------------------------
(* Leases.                                                                 *)

NoLeases == [host |-> 0, active |-> None, released |-> None]

MayConnectHost(l, generation) == l.host = 0 /\ generation # 0
ConnectHost(l, generation) == [l EXCEPT !.host = generation]

ValidControllerName(name) == name \notin {"", "control characters", "too long"}

MayAcquire(l, generation, name) ==
    l.host # 0 /\ l.active = None /\ generation = l.host /\ ValidControllerName(name)
Acquire(l, route, name, now) ==
    [l EXCEPT !.active = [kind |-> "lease", route |-> route, name |-> name, command |-> 0,
                          renewed |-> now, expires |-> now + LeaseDuration],
              !.released = None]

\* validate_active_ref
Refers(l, route) == l.active # None /\ l.active.route = route
Expired(l, now) == l.active # None /\ now >= l.active.expires
FreezeActive(l) ==
    IF l.active = None THEN l ELSE [l EXCEPT !.active = None, !.released = l.active.route]

MayRenew(l, route, now) ==
    Refers(l, route) /\ ~Expired(l, now) /\ now >= l.active.renewed + RenewInterval
Renew(l, now) == [l EXCEPT !.active.renewed = now, !.active.expires = now + LeaseDuration]

MayCommand(l, route, sequence, now) ==
    Refers(l, route) /\ ~Expired(l, now) /\ sequence = l.active.command + 1
AuthorizeCommand(l, sequence) == [l EXCEPT !.active.command = sequence]

\* release_or_close: a repeated release of the same lease succeeds
MayRelease(l, route) == Refers(l, route) \/ (l.active = None /\ l.released = route)
Release(l) == FreezeActive(l)

-----------------------------------------------------------------------------
(* The graphical session a broker routes to, and the route a Helper obeys. *)

NoSession == [generation |-> 0, current |-> 0, controlled |-> FALSE, input |-> FALSE]

\* apply_available: generations follow each other, in one operating-system session
MayObserve(s, generation, osSession) ==
    /\ osSession # 0 /\ generation # 0
    /\ s.generation # 0 => generation \in {s.generation, s.generation + 1}
    /\ s.current # 0 \/ generation = s.generation => osSession = s.current
Observe(s, generation, osSession) ==
    IF generation = s.generation THEN s
    ELSE [generation |-> generation, current |-> osSession, controlled |-> FALSE, input |-> FALSE]

MayControl(s, generation) == s.current # 0 /\ generation = s.generation
BeginControl(s) == [s EXCEPT !.controlled = TRUE, !.input = TRUE]

\* attach_or_authorize, over HelperLeaseGate::attach
MayAttach(gate, route) ==
    \/ gate = route
    \/ route.generation # 0 /\ (gate # None => route.generation > gate.generation)
\* HelperLeaseGate::authorize
Gated(gate, route) == gate # None /\ gate = route

-----------------------------------------------------------------------------
(* Events on their way through a hop.                                      *)

NoEvents == [critical |-> <<>>, fast |-> <<>>, failed |-> FALSE]
\* PeerStateChanged, LocalIceCandidate and ReliableInput are critical
IsEvent(frame) == frame.kind \in {"critical", "fast", "stop"}

FailQueue(q) == [NoEvents EXCEPT !.failed = TRUE]
PushCritical(q, e) ==
    IF q.failed THEN q
    ELSE IF Len(q.critical) >= MaxCritical THEN FailQueue(q)
    ELSE [q EXCEPT !.critical = Append(@, e)]
PushFast(q, e) == IF q.failed THEN q ELSE [q EXCEPT !.fast = <<e>>]
EnqueueEvent(q, e) == IF e.kind = "fast" THEN PushFast(q, e) ELSE PushCritical(q, e)

HasQueued(q) == q.critical # <<>> \/ q.fast # <<>>
\* queued_event: critical events first
QueuedEvent(q) == IF q.critical # <<>> THEN Head(q.critical) ELSE Head(q.fast)
PopEvent(q) ==
    IF q.critical # <<>> THEN [q EXCEPT !.critical = Tail(@)] ELSE [q EXCEPT !.fast = <<>>]

-----------------------------------------------------------------------------
(* Who may connect.                                                        *)

AuthChannelOf(role) == IF role = "HostAgent" THEN "PrivilegedHost" ELSE "PrivilegedHelper"

\* claim: the oldest nonce is forgotten at the capacity
MayClaim(replay, nonce) == \A i \in 1..Len(replay) : replay[i] # nonce
Claim(replay, nonce) ==
    Append(IF Len(replay) = ReplayCapacity THEN Tail(replay) ELSE replay, nonce)

\* BridgeAuthenticator::authenticate
MayAuthenticate(token, role, instance, nonces, proof, replay) ==
    /\ nonces.client # nonces.server
    /\ VerifyClientProof(token, AuthChannelOf(role), instance, nonces, proof)
    /\ MayClaim(replay, nonces.client)

-----------------------------------------------------------------------------
(* The indicator: what it shows, and whether Stop was pressed on it.       *)

NoIndicator == [shown |-> "nothing", stopEmitted |-> FALSE, localStop |-> FALSE]

\* IndicatorController::show_controlled gives no action when nothing changes
ShowsAlready(i) == i.shown = "controlled" /\ ~i.stopEmitted
ShowPresentation(i) == [i EXCEPT !.shown = "controlled", !.stopEmitted = FALSE]
\* NativeIndicatorClient::show_controlled: an action forgets an earlier Stop
ShowControlled(i) == IF ShowsAlready(i) THEN i ELSE [ShowPresentation(i) EXCEPT !.localStop = FALSE]
Teardown(i) == [i EXCEPT !.shown = "nothing", !.stopEmitted = FALSE]
\* hide leaves the flag of the Stop alone
Hide(i) == IF i.shown = "nothing" THEN i ELSE Teardown(i)
MayStop(i) == i.shown # "nothing" /\ ~i.stopEmitted
LocalStop(i) == [shown |-> "stopping", stopEmitted |-> TRUE, localStop |-> TRUE]
TakeLocalStop(i) == [i EXCEPT !.localStop = FALSE]
============================================================================
