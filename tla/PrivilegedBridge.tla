-------------------------- MODULE PrivilegedBridge --------------------------
(***************************************************************************)
(* The privileged bridge: a Host agent controls a protected desktop        *)
(* through a broker and a Helper (crates/privileged-bridge/src):           *)
(*   connector.rs, client.rs, proxy.rs, rpc.rs   the Host's end            *)
(*   runtime.rs, broker.rs                       the broker's single loop  *)
(*   runtime.rs, helper.rs, native_helper.rs     a Helper process          *)
(*   native_indicator.rs   the thread of the indicator on that desktop     *)
(*   unix_runtime.rs       the sockets: frames in order, then their end    *)
(* A Host connection holds one lease and calls the Helper through the      *)
(* broker; events come back the same way, past the calls.  Host, broker    *)
(* and Helper each run one loop; any of them may stop, a call may time out *)
(* while its answer is on the way.  A loop receives and then polls; here   *)
(* it does either, whichever is possible, which allows every order the     *)
(* code has.                                                               *)
(***************************************************************************)
EXTENDS BridgeOps

CONSTANTS
    Helpers,      \* bound: Helper processes, named by the generation they register
    Conns,        \* bound: connections the Host makes, 1..n
    Contexts,     \* permissions and display name of the sessions to open
    Credentials,  \* bound: what a process may present when it connects
    Installed,    \* the credentials the broker was configured with
    RenewMargin,  \* RENEW_ATTEMPT_INTERVAL_MS - RENEW_INTERVAL_MS
    MaxOps,       \* bound: operations of a session before it closes
    Events,       \* bound: the native events of a Helper, "critical" or "fast"
    MaxClock      \* bound: the clock

ASSUME BridgeAssumption ==
    /\ Helpers \subseteq Nat \ {0} /\ Conns \subseteq Nat \ {0}
    /\ {RenewMargin, MaxOps, MaxClock} \subseteq Nat
    /\ Installed \in Credentials
    /\ \A x \in Contexts : x \in [kind : {"context"}, permissions : SUBSET {"view", "control"},
                                  name : {x.name}]
    /\ Events \in Seq({"critical", "fast"})

VARIABLES
    host,        \* the Host's connector, wire and proxy
    broker,      \* the broker's loop
    helper,      \* each Helper's loop and native backend
    ui,          \* each Helper's indicator
    hostLink,    \* the socket of each Host connection
    helperLink,  \* the socket of each Helper
    clock        \* time since the lease was granted, 0 without one

vars == <<host, broker, helper, ui, hostLink, helperLink, clock>>

-----------------------------------------------------------------------------
(* Sockets.  in is towards the broker, out from it; an end that closed     *)
(* reads nothing more, the other end reads what was sent and then the end. *)

NewLink == [peer |-> "unused", broker |-> "backlog", in |-> <<>>, out |-> <<>>]
Connect(l) == [l EXCEPT !.peer = "open"]
ToBroker(l, frame) == [l EXCEPT !.in = Append(@, frame)]
FromBroker(l, frame) == [l EXCEPT !.out = Append(@, frame)]
\* fail_closed, or the drop of the transport
ClosePeer(l) == [l EXCEPT !.peer = "closed", !.out = <<>>]
CloseBroker(l) == [l EXCEPT !.broker = "closed", !.in = <<>>,
                            !.out = IF l.peer = "closed" THEN <<>> ELSE @]
PeerEnded(l) == l.peer = "closed" /\ l.in = <<>>
BrokerEnded(l) == l.broker = "closed" /\ l.out = <<>>

Frame(kind, route, sequence) ==
    [kind |-> kind, route |-> route, sequence |-> sequence, context |-> None]
\* a request of the Host, or a lease, names the session it is for
InContext(frame, context) == [frame EXCEPT !.context = context]

-----------------------------------------------------------------------------
(* The handshake.  The broker serves nobody else meanwhile, and the client *)
(* does nothing else: it is one step of the broker.                        *)

Instance == "broker"
Nonces(role, id) == [server |-> <<"server", role, id>>, client |-> <<role, id>>]
\* authenticate_helper, AuthenticatedBridgeConnector::authenticate: the client's proof
ClientProof(role, id, credentials) ==
    ChannelClientProof(credentials.token, AuthChannelOf(role), Instance, Nonces(role, id))
\* authenticate_server
ServerAccepts(role, id, credentials) ==
    /\ credentials.executable = Installed.executable
    /\ credentials.osSession = Installed.osSession
    /\ MayAuthenticate(Installed.token, role, Instance, Nonces(role, id),
                       ClientProof(role, id, credentials), broker.replay)
ServerProof(role, id) ==
    ChannelServerProof(Installed.token, AuthChannelOf(role), Instance, Nonces(role, id))
ClientAccepts(role, id, credentials) ==
    VerifyServerProof(credentials.token, AuthChannelOf(role), Instance, Nonces(role, id),
                      ServerProof(role, id))
Authenticated(role, id, credentials) ==
    ServerAccepts(role, id, credentials) /\ ClientAccepts(role, id, credentials)

-----------------------------------------------------------------------------
(* The Host's end.                                                         *)

NoHost == [phase |-> "idle", conn |-> 0, credentials |-> None, reported |-> 0, context |-> None,
           route |-> None, frame |-> 1, ops |-> 0, op |-> "none", call |-> "none",
           renewed |-> 0, queue |-> NoEvents, delivered |-> <<>>, closed |-> FALSE]
Link == hostLink[host.conn]

\* fail_closed of proxy, wire and transport: nothing is left to do but connect again
FailHost ==
    /\ host' = [NoHost EXCEPT !.conn = host.conn, !.credentials = host.credentials,
                              !.reported = host.reported]
    /\ hostLink' = [hostLink EXCEPT ![host.conn] = ClosePeer(@)]

Open(h) == [h EXCEPT !.phase = "open", !.call = "none", !.op = "none"]

\* one request of ProtobufBridgeWire::call, on the link l
SendRequest(h, l, kind) ==
    IF l.broker = "closed" THEN FailHost
    ELSE LET frame == h.frame + 1 IN
         /\ host' = [h EXCEPT !.phase = "calling", !.call = kind, !.frame = frame]
         /\ hostLink' = [hostLink EXCEPT ![h.conn] =
                ToBroker(l, InContext(Frame(kind, h.route, frame), h.context))]
\* an answer or event was read: the Host and what its link holds now
HostBecomes(h, l) == host' = h /\ hostLink' = [hostLink EXCEPT ![h.conn] = l]
Read(l) == [l EXCEPT !.out = Tail(@)]

\* renew_if_due
RenewDue == clock - host.renewed >= RenewInterval + RenewMargin

Connecting(credentials, context) ==
    LET c == host.conn + 1 IN
    /\ host.phase = "idle" /\ c \in Conns /\ broker.phase # "stopped"
    /\ host' = [NoHost EXCEPT !.phase = "connecting", !.conn = c, !.credentials = credentials,
                              !.reported = host.reported, !.context = context]
    /\ hostLink' = [hostLink EXCEPT ![c] = Connect(@)]
    /\ UNCHANGED <<broker, helper, ui, helperLink, clock>>

\* prepare_bridge_remote: an agent that starts probes the bridge, or does not start
HostProbe(credentials) == host.reported = 0 /\ Connecting(credentials, None)
\* a session of a running agent
HostConnect(context) == host.reported # 0 /\ Connecting(host.credentials, context)

\* update_privileged_bridge_status: a generation that goes back is refused
Report(generation) ==
    /\ host' = [NoHost EXCEPT !.conn = host.conn, !.credentials = host.credentials,
                              !.reported = IF generation < host.reported THEN 0 ELSE generation]
    /\ hostLink' = [hostLink EXCEPT ![host.conn] = ClosePeer(@)]

\* the status that ends authenticate; then the end of the probe, or AcquireLease
HostStatus ==
    /\ host.phase = "connecting" /\ Link.out # <<>>
    /\ LET f == Head(Link.out)
       IN IF f.kind # "ready" THEN FailHost
          ELSE IF host.context = None THEN Report(f.route.generation)
          ELSE SendRequest([host EXCEPT !.route = f.route], Read(Link), "acquire")
    /\ UNCHANGED <<broker, helper, ui, helperLink, clock>>

\* the lease must be the one that was asked for
Leased(f) ==
    /\ f.kind = "lease" /\ f.context = host.context
    /\ f.route.generation = host.route.generation

\* what the session may ask its peer backend and input sink for
PeerOps == IF host.ops = 0 THEN {"start"} ELSE {"restart", "candidate", "close"}
InputOps == IF host.ops = 0 THEN {} ELSE {"input"}

\* ProxyShared::perform; closing does not renew
HostCall(op) ==
    /\ host.phase = "open" /\ ~host.closed /\ op \in PeerOps \cup InputOps
    /\ host.ops < MaxOps \/ op = "close"
    /\ LET h == [host EXCEPT !.op = op, !.ops = @ + 1]
       IN SendRequest(h, Link, IF RenewDue /\ op # "close" THEN "renew" ELSE op)
    /\ UNCHANGED <<broker, helper, ui, helperLink, clock>>

\* Mutant of AfterAnswer: the next interval is measured from when the renewal was due.
IntervalFromDueTime(f, l) ==
    CASE host.call = "acquire" -> HostBecomes(Open([host EXCEPT !.route = f.route,
                                                                !.renewed = clock]), l)
      [] host.call = "renew" ->
            LET h == [host EXCEPT !.renewed = @ + RenewInterval + RenewMargin]
            IN IF h.op = "poll" THEN HostBecomes(Open(h), l) ELSE SendRequest(h, l, h.op)
      [] host.call = "close" -> SendRequest(host, l, "release")
      [] host.call = "release" -> HostBecomes(Open([host EXCEPT !.closed = TRUE]), l)
      [] OTHER -> HostBecomes(Open(host), l)
\* the answer f to each kind of request: what the Host does next.  The next
\* interval starts when the renewal was accepted.
AfterAnswer(f, l) ==
    CASE host.call = "acquire" -> HostBecomes(Open([host EXCEPT !.route = f.route,
                                                                !.renewed = clock]), l)
      [] host.call = "renew" ->
            LET h == [host EXCEPT !.renewed = clock]
            IN IF h.op = "poll" THEN HostBecomes(Open(h), l) ELSE SendRequest(h, l, h.op)
      [] host.call = "close" -> SendRequest(host, l, "release")
      [] host.call = "release" -> HostBecomes(Open([host EXCEPT !.closed = TRUE]), l)
      [] OTHER -> HostBecomes(Open(host), l)

\* peer_answer
PeerAnswer(f) == f.kind = "answer" /\ f.route = host.route
\* the answer a call must have, by accepted, peer_answer and renew_if_due
Answers(f) ==
    /\ f.sequence = host.frame
    /\ CASE host.call = "acquire" -> Leased(f)
         [] host.call = "renew" -> f.kind = "lease" /\ f.route = host.route
         [] host.call \in {"start", "restart"} -> PeerAnswer(f)
         [] OTHER -> f.kind = "accepted" /\ f.route = host.route

\* FramedBridgeRpc::call: events that come before the answer are queued
HostReply ==
    /\ host.phase = "calling" /\ Link.out # <<>>
    /\ LET f == Head(Link.out)
           q == EnqueueEvent(host.queue, f)
       IN IF IsEvent(f)
          THEN IF q.failed THEN FailHost ELSE HostBecomes([host EXCEPT !.queue = q], Read(Link))
          ELSE IF Answers(f) THEN AfterAnswer(f, Read(Link)) ELSE FailHost
    /\ UNCHANGED <<broker, helper, ui, helperLink, clock>>

\* Mutant of Deliver: sequences of events are not compared.
DeliverAny(e, q, l) ==
    HostBecomes([host EXCEPT !.queue = q, !.delivered = Append(@, e)], l)
\* ProxyEvents::try_recv: the next event of this route, or the session fails
Deliver(e, q, l) ==
    IF e.route # host.route \/ e.sequence # Len(host.delivered) + 1 THEN FailHost
    ELSE HostBecomes([host EXCEPT !.queue = q, !.delivered = Append(@, e)], l)

\* ProtobufBridgeWire::try_event over FramedBridgeRpc::try_event
HostPoll ==
    /\ host.phase = "open" /\ ~host.closed
    /\ \/ RenewDue /\ SendRequest([host EXCEPT !.op = "poll"], Link, "renew")
       \/ /\ ~RenewDue /\ HasQueued(host.queue)
          /\ Deliver(QueuedEvent(host.queue), PopEvent(host.queue), Link)
       \/ /\ ~RenewDue /\ ~HasQueued(host.queue) /\ Link.out # <<>>
          /\ IF IsEvent(Head(Link.out)) THEN Deliver(Head(Link.out), host.queue, Read(Link))
             ELSE FailHost
       \/ ~RenewDue /\ ~HasQueued(host.queue) /\ BrokerEnded(Link) /\ FailHost
    /\ UNCHANGED <<broker, helper, ui, helperLink, clock>>

\* a receive that times out or finds the end of the connection
HostReceiveFails ==
    /\ host.phase \in {"connecting", "calling"} /\ FailHost
    /\ UNCHANGED <<broker, helper, ui, helperLink, clock>>

\* the session drops its proxy
HostDrop ==
    /\ host.phase # "idle" /\ FailHost
    /\ UNCHANGED <<broker, helper, ui, helperLink, clock>>

\* the agent stops or is killed; its sockets are closed
HostDies ==
    /\ host.reported # 0 /\ host' = [NoHost EXCEPT !.conn = host.conn]
    /\ hostLink' = [hostLink EXCEPT ![host.conn] = ClosePeer(@)]
    /\ UNCHANGED <<broker, helper, ui, helperLink, clock>>

-----------------------------------------------------------------------------
(* The broker: one thread accepts, waits for a lease request, or serves.   *)

NoSessionAt(slot, replay) ==
    [phase |-> "accepting", conn |-> 0, helper |-> 0, slot |-> slot, leases |-> NoLeases,
     routes |-> NoSession, context |-> None, operation |-> 0, queue |-> NoEvents,
     request |-> None, replay |-> replay]
Serving == broker.phase \in {"serving", "exchanging"}
HostSide == hostLink[broker.conn]
HelperSide == helperLink[broker.helper]

\* authenticate_server, register_helper; a new Helper replaces the one that waits
BrokerAcceptHelper(h) ==
    LET accepted == Authenticated("SessionHelper", h, helper[h].credentials)
    IN
    /\ broker.phase = "accepting" /\ helper[h].phase = "connecting"
    /\ helperLink[h].broker = "backlog"
    /\ IF accepted
       THEN /\ broker' = [broker EXCEPT !.slot = h, !.replay = Claim(@, <<"SessionHelper", h>>)]
            /\ helper' = [helper EXCEPT ![h].phase = "serving"]
            /\ helperLink' = [k \in Helpers |->
                  IF k = h THEN [helperLink[h] EXCEPT !.broker = "open"]
                  ELSE IF k = broker.slot THEN CloseBroker(helperLink[k]) ELSE helperLink[k]]
       ELSE /\ helperLink' = [helperLink EXCEPT ![h] = CloseBroker(@)]
            /\ UNCHANGED <<broker, helper>>
    /\ UNCHANGED <<host, ui, hostLink, clock>>

\* ready_status and unavailable_status_frame, in a status_frame
StatusFrame(h) ==
    IF h = 0 THEN Frame("unavailable", None, 2) ELSE Frame("ready", ProxyRoute(0, h), 2)

\* a Host takes the registered Helper, or hears that there is none
BrokerAcceptHost(c) ==
    LET accepted == /\ hostLink[c].peer = "open"
                    /\ Authenticated("HostAgent", c, host.credentials)
        claimed == Claim(broker.replay, <<"HostAgent", c>>)
        told == FromBroker([hostLink[c] EXCEPT !.broker = "open"], StatusFrame(broker.slot))
    IN
    /\ broker.phase = "accepting" /\ hostLink[c].peer # "unused"
    /\ hostLink[c].broker = "backlog"
    /\ IF ~accepted
       THEN hostLink' = [hostLink EXCEPT ![c] = CloseBroker(@)] /\ UNCHANGED broker
       ELSE IF broker.slot = 0
       THEN /\ hostLink' = [hostLink EXCEPT ![c] = CloseBroker(told)]
            /\ broker' = [broker EXCEPT !.replay = claimed]
       ELSE /\ hostLink' = [hostLink EXCEPT ![c] = told]
            /\ broker' = [broker EXCEPT !.phase = "waiting", !.conn = c, !.slot = 0,
                                        !.helper = broker.slot, !.replay = claimed]
    /\ UNCHANGED <<host, helper, ui, helperLink, clock>>

\* the connection ends before a lease: the Helper goes back to its place
ReturnHelper(l) ==
    /\ broker' = NoSessionAt(broker.helper, broker.replay)
    /\ hostLink' = [hostLink EXCEPT ![broker.conn] = CloseBroker(l)]
    /\ UNCHANGED <<helperLink, clock>>
\* the session ends: both sockets are closed, the Helper is not used again
EndSession(l) ==
    /\ broker' = NoSessionAt(0, broker.replay)
    /\ hostLink' = [hostLink EXCEPT ![broker.conn] = CloseBroker(l)]
    /\ helperLink' = [helperLink EXCEPT ![broker.helper] = CloseBroker(@)]
    /\ clock' = 0
\* error_frame, then the end of the session
Refuse(r, l) == EndSession(FromBroker(l, Frame("error", None, r.sequence)))
Taken(l) == [l EXCEPT !.in = Tail(@)]

\* the session a Helper registered
RouteSession(h) == [generation |-> h, osSession |-> helper[h].credentials.osSession]
\* BrokerCore::new, observe_route and connect_host for a registered Helper
NewCore(session) ==
    [ok |-> /\ MayObserve(NoSession, session.generation, session.osSession)
            /\ MayConnectHost(NoLeases, session.generation),
     leases |-> ConnectHost(NoLeases, session.generation),
     routes |-> Observe(NoSession, session.generation, session.osSession)]

\* acquire and begin_control; lease identifiers are fresh
LeaseFor(r) ==
    LET core == NewCore(RouteSession(broker.helper))
        route == ProxyRoute(broker.conn, r.route.generation)
    IN [ok |-> /\ core.ok
               /\ MayAcquire(core.leases, r.route.generation, r.context.name)
               /\ MayControl(core.routes, r.route.generation),
        route |-> route,
        leases |-> Acquire(core.leases, route, r.context.name, clock),
        routes |-> BeginControl(core.routes)]
LeaseResponse(r, route) == InContext(Frame("lease", route, r.sequence), r.context)

\* run_host_connection up to the loop
BrokerAcquire ==
    /\ broker.phase = "waiting"
    /\ \/ /\ HostSide.in # <<>>
          /\ LET r == Head(HostSide.in)
                 lease == LeaseFor(r)
             IN IF r.kind # "acquire"
                THEN ReturnHelper(FromBroker(Taken(HostSide), Frame("error", None, r.sequence)))
                ELSE IF ~lease.ok \/ HostSide.peer = "closed" THEN Refuse(r, Taken(HostSide))
                ELSE /\ broker' = [broker EXCEPT !.phase = "serving", !.leases = lease.leases,
                                       !.routes = lease.routes, !.context = r.context]
                     /\ hostLink' = [hostLink EXCEPT ![broker.conn] =
                            FromBroker(Taken(@), LeaseResponse(r, lease.route))]
                     /\ UNCHANGED <<helperLink, clock>>
       \/ PeerEnded(HostSide) /\ ReturnHelper(HostSide)
    /\ UNCHANGED <<host, helper, ui>>

\* HostBrokerSession::handle: what a request needs beyond the lease itself
Permitted(r) ==
    /\ r.kind = "input" => "control" \in broker.context.permissions
    /\ r.kind \in {"start", "restart"} => /\ broker.leases.active # None
                                          /\ r.context.name = broker.leases.active.name
\* forward_authorized counts the operation; a release is forwarded as it is
Authorized(r) ==
    \/ r.kind = "release"
    \/ /\ r.kind \in {"start", "restart", "candidate", "input", "close"} /\ Permitted(r)
       /\ MayCommand(broker.leases, r.route, broker.operation + 1, clock)
Counted(r) ==
    IF r.kind = "release" THEN broker
    ELSE [broker EXCEPT !.operation = @ + 1,
                        !.leases = AuthorizeCommand(@, broker.operation + 1)]

BrokerReceive ==
    /\ broker.phase = "serving" /\ HostSide.in # <<>>
    /\ LET r == Head(HostSide.in)
           l == Taken(HostSide)
       IN IF r.kind = "renew" /\ MayRenew(broker.leases, r.route, clock) /\ l.peer = "open"
          THEN /\ broker' = [broker EXCEPT !.leases = Renew(@, clock)]
               /\ hostLink' = [hostLink EXCEPT ![broker.conn] =
                      FromBroker(l, LeaseResponse([r EXCEPT !.context = broker.context], r.route))]
               /\ UNCHANGED <<helperLink, clock>>
          ELSE IF Authorized(r) /\ HelperSide.peer = "open"
          THEN /\ broker' = [Counted(r) EXCEPT !.phase = "exchanging", !.request = r]
               /\ hostLink' = [hostLink EXCEPT ![broker.conn] = l]
               /\ helperLink' = [helperLink EXCEPT ![broker.helper] = FromBroker(@, r)]
               /\ UNCHANGED clock
          ELSE Refuse(r, l)
    /\ UNCHANGED <<host, helper, ui>>

\* after the answer; a release takes effect at the broker only now
Exchanged(r) ==
    LET b == [broker EXCEPT !.phase = "serving", !.request = None]
    IN IF r.kind = "release"
       THEN [b EXCEPT !.leases = Release(@), !.context.permissions = {}] ELSE b

\* FramedBridgeRpc::call towards the Helper, then forward's check of the answer
BrokerReply ==
    /\ broker.phase = "exchanging" /\ HelperSide.in # <<>>
    /\ LET f == Head(HelperSide.in)
           r == broker.request
           q == EnqueueEvent(broker.queue, f)
       IN IF IsEvent(f) /\ ~q.failed
          THEN /\ broker' = [broker EXCEPT !.queue = q]
               /\ helperLink' = [helperLink EXCEPT ![broker.helper] = Taken(@)]
               /\ UNCHANGED <<hostLink, clock>>
          ELSE IF \/ IsEvent(f) \/ f.sequence # r.sequence \/ f.route # r.route
                  \/ r.kind = "release" /\ ~MayRelease(broker.leases, r.route)
          THEN Refuse(r, HostSide)
          ELSE IF HostSide.peer = "closed" THEN EndSession(HostSide)
          ELSE /\ broker' = Exchanged(r)
               /\ hostLink' = [hostLink EXCEPT ![broker.conn] = FromBroker(@, f)]
               /\ helperLink' = [helperLink EXCEPT ![broker.helper] = Taken(@)]
               /\ UNCHANGED clock
    /\ UNCHANGED <<host, helper, ui>>

\* the Helper does not answer in time, or is gone
BrokerExchangeFails ==
    /\ broker.phase = "exchanging" /\ Refuse(broker.request, HostSide)
    /\ UNCHANGED <<host, helper, ui>>

\* Mutant of BrokerHostLost: the broker does not notice the end of the connection.
MissesHostLost == FALSE /\ UNCHANGED vars
BrokerHostLost ==
    /\ broker.phase = "serving" /\ PeerEnded(HostSide) /\ EndSession(HostSide)
    /\ UNCHANGED <<host, helper, ui>>

\* HostBrokerSession::try_event: an event must belong to the active lease
ForwardEvent(e, q, l) ==
    IF ~Refers(broker.leases, e.route) \/ HostSide.peer = "closed" THEN EndSession(HostSide)
    ELSE /\ broker' = [broker EXCEPT !.queue = q]
         /\ hostLink' = [hostLink EXCEPT ![broker.conn] = FromBroker(@, e)]
         /\ helperLink' = [helperLink EXCEPT ![broker.helper] = l]
         /\ UNCHANGED clock

\* Mutant of BrokerExpire: expiry freezes the lease and leaves the Helper alone.
BrokerExpireKeepsHelper ==
    /\ broker.phase = "serving" /\ Expired(broker.leases, clock)
    /\ broker' = [broker EXCEPT !.leases = FreezeActive(@)]
    /\ UNCHANGED <<host, helper, ui, clock, hostLink, helperLink>>
\* HostBrokerSession::expire
BrokerExpire ==
    /\ broker.phase = "serving" /\ Expired(broker.leases, clock) /\ EndSession(HostSide)
    /\ UNCHANGED <<host, helper, ui>>

\* the rest of the loop's iteration
BrokerPoll ==
    /\ broker.phase = "serving" /\ ~Expired(broker.leases, clock)
    /\ \/ /\ HasQueued(broker.queue)
          /\ ForwardEvent(QueuedEvent(broker.queue), PopEvent(broker.queue), HelperSide)
       \/ /\ ~HasQueued(broker.queue) /\ HelperSide.in # <<>>
          /\ IF IsEvent(Head(HelperSide.in))
             THEN ForwardEvent(Head(HelperSide.in), broker.queue, Taken(HelperSide))
             ELSE EndSession(HostSide)
       \/ ~HasQueued(broker.queue) /\ PeerEnded(HelperSide) /\ EndSession(HostSide)
    /\ UNCHANGED <<host, helper, ui>>

\* the shutdown flag is read between two iterations; then the process is started again
BrokerStop ==
    /\ broker.phase \in {"accepting", "waiting", "serving"}
    /\ broker' = [NoSessionAt(0, <<>>) EXCEPT !.phase = "stopped"]
    /\ hostLink' = [c \in Conns |-> IF hostLink[c].peer = "unused" THEN hostLink[c]
                                    ELSE CloseBroker(hostLink[c])]
    /\ helperLink' = [h \in Helpers |-> IF helperLink[h].peer = "unused" THEN helperLink[h]
                                        ELSE CloseBroker(helperLink[h])]
    /\ clock' = 0
    /\ UNCHANGED <<host, helper, ui>>
BrokerStart ==
    /\ broker.phase = "stopped" /\ broker' = NoSessionAt(0, <<>>)
    /\ UNCHANGED <<host, helper, ui, hostLink, helperLink, clock>>

-----------------------------------------------------------------------------
(* A Helper: its loop, its native peer, and the thread of its indicator.   *)

NoHelper == [phase |-> "unborn", credentials |-> Installed, gate |-> None, peer |-> FALSE,
             emitted |-> <<>>, request |-> None]

HelperStart(h, credentials) ==
    /\ helper[h].phase = "unborn" /\ broker.phase # "stopped"
    /\ helper' = [helper EXCEPT ![h].phase = "connecting", ![h].credentials = credentials]
    /\ helperLink' = [helperLink EXCEPT ![h] = Connect(@)]
    /\ UNCHANGED <<host, broker, ui, hostLink, clock>>

\* HelperProtocol::shutdown: gate, peer, input and indicator, then the socket
HelperEnds(h) ==
    /\ helper' = [helper EXCEPT ![h] = [NoHelper EXCEPT !.phase = "dead",
                                                        !.emitted = helper[h].emitted]]
    /\ ui' = [ui EXCEPT ![h] = NoIndicator]
    /\ helperLink' = [helperLink EXCEPT ![h] = ClosePeer(@)]

Respond(h, kind, r, l) ==
    helperLink' = [helperLink EXCEPT ![h] = ToBroker(l, Frame(kind, r.route, r.sequence))]
\* NativeHelperBackend::close
BackendClosed(h) == [helper EXCEPT ![h].peer = FALSE]

\* HelperProtocol::handle_inner: an error ends the process
MayHandle(h, r) ==
    CASE r.kind = "start" -> MayAttach(helper[h].gate, r.route)
      [] r.kind = "restart" -> MayAttach(helper[h].gate, r.route) /\ helper[h].peer
      [] r.kind \in {"candidate", "input"} -> Gated(helper[h].gate, r.route) /\ helper[h].peer
      [] OTHER -> Gated(helper[h].gate, r.route)

\* the native peer is made, closing the one before, or restarted; the indicator follows
CreatePeer(h, r, l) ==
    /\ helper' = [helper EXCEPT ![h] = [@ EXCEPT !.phase = "showing", !.gate = r.route,
                                                 !.peer = TRUE, !.request = r]]
    /\ ui' = [ui EXCEPT ![h] = IF r.kind = "start" THEN Hide(@) ELSE @]
    /\ helperLink' = [helperLink EXCEPT ![h] = l]

HelperReceive(h) ==
    /\ helper[h].phase = "serving" /\ helperLink[h].out # <<>>
    /\ LET r == Head(helperLink[h].out)
           l == Read(helperLink[h])
       IN IF ~MayHandle(h, r) THEN HelperEnds(h)
          ELSE IF r.kind \in {"start", "restart"} THEN CreatePeer(h, r, l)
          ELSE IF l.broker = "closed" THEN HelperEnds(h)
          ELSE IF r.kind \in {"close", "release"}
          THEN /\ helper' = [BackendClosed(h) EXCEPT ![h].gate =
                                IF r.kind = "release" THEN None ELSE @]
               /\ ui' = [ui EXCEPT ![h] = Hide(@)] /\ Respond(h, "accepted", r, l)
          ELSE Respond(h, "accepted", r, l) /\ UNCHANGED <<helper, ui>>
    /\ UNCHANGED <<host, broker, hostLink, clock>>

\* the end of start and restart: show_controlled, and the answer
HelperShow(h) ==
    /\ helper[h].phase = "showing"
    /\ IF helperLink[h].broker = "closed" THEN HelperEnds(h)
       ELSE /\ ui' = [ui EXCEPT ![h] = ShowControlled(@)]
            /\ helper' = [helper EXCEPT ![h] = [@ EXCEPT !.phase = "serving",
                                                         !.request = None]]
            /\ Respond(h, "answer", helper[h].request, helperLink[h])
    /\ UNCHANGED <<host, broker, hostLink, clock>>

\* event_frame: one sequence for all events of a Helper
EventFrame(h, kind) == Frame(kind, helper[h].gate, Len(helper[h].emitted) + 1)
SendEvent(h, kind, next) ==
    IF helper[h].gate = None \/ helperLink[h].broker = "closed" THEN HelperEnds(h)
    ELSE /\ helper' = [next EXCEPT ![h].emitted = Append(@, EventFrame(h, kind))]
         /\ helperLink' = [helperLink EXCEPT ![h] = ToBroker(@, EventFrame(h, kind))]
         /\ ui' = [ui EXCEPT ![h] = IF kind = "stop" THEN Hide(TakeLocalStop(@)) ELSE @]

\* HelperProtocol::try_event over NativeHelperBackend::try_event
HelperPoll(h) ==
    /\ helper[h].phase = "serving"
    /\ \/ ui[h].localStop /\ SendEvent(h, "stop", BackendClosed(h))
       \/ /\ ~ui[h].localStop /\ helper[h].peer /\ Len(helper[h].emitted) < Len(Events)
          /\ SendEvent(h, Events[Len(helper[h].emitted) + 1], helper)
    /\ UNCHANGED <<host, broker, hostLink, clock>>

\* the broker closed the connection
HelperLost(h) ==
    /\ helper[h].phase \in {"connecting", "serving"}
    /\ BrokerEnded(helperLink[h]) /\ HelperEnds(h)
    /\ UNCHANGED <<host, broker, hostLink, clock>>

\* a failed native operation or event queue, the shutdown flag, or a crash
HelperFails(h) ==
    /\ helper[h].phase \in {"connecting", "serving", "showing"} /\ HelperEnds(h)
    /\ UNCHANGED <<host, broker, hostLink, clock>>

\* the local user presses Stop on the indicator
PressStop(h) ==
    /\ MayStop(ui[h]) /\ ui' = [ui EXCEPT ![h] = LocalStop(@)]
    /\ UNCHANGED <<host, broker, helper, hostLink, helperLink, clock>>

\* nothing is measured while there is no lease
Tick ==
    /\ clock < MaxClock /\ broker.leases.active # None /\ clock' = clock + 1
    /\ UNCHANGED <<host, broker, helper, ui, hostLink, helperLink>>

-----------------------------------------------------------------------------
Init ==
    /\ host = NoHost /\ broker = NoSessionAt(0, <<>>) /\ clock = 0
    /\ helper = [h \in Helpers |-> NoHelper] /\ ui = [h \in Helpers |-> NoIndicator]
    /\ hostLink = [c \in Conns |-> NewLink] /\ helperLink = [h \in Helpers |-> NewLink]

HostNext ==
    \/ \E k \in Credentials : HostProbe(k)
    \/ \E x \in Contexts : HostConnect(x)
    \/ HostStatus \/ HostReply \/ HostPoll \/ HostReceiveFails \/ HostDrop \/ HostDies
    \/ \E op \in {"start", "restart", "candidate", "input", "close"} : HostCall(op)
BrokerNext ==
    \/ \E h \in Helpers : BrokerAcceptHelper(h)
    \/ \E c \in Conns : BrokerAcceptHost(c)
    \/ BrokerAcquire \/ BrokerReceive \/ BrokerReply \/ BrokerExchangeFails
    \/ BrokerHostLost \/ BrokerExpire \/ BrokerPoll \/ BrokerStop \/ BrokerStart
HelperNext(h) ==
    \/ \E k \in Credentials : HelperStart(h, k)
    \/ HelperReceive(h) \/ HelperShow(h) \/ HelperPoll(h)
    \/ HelperLost(h) \/ HelperFails(h) \/ PressStop(h)

Next == HostNext \/ BrokerNext \/ (\E h \in Helpers : HelperNext(h)) \/ Tick

Spec == Init /\ [][Next]_vars

\* The loops of broker and Helpers run, and a receive with a timeout returns.
\* Nothing is asked of the Host, the clock or the local user.
FairSpec ==
    /\ Spec
    /\ WF_vars(BrokerReceive) /\ WF_vars(BrokerReply \/ BrokerExchangeFails)
    /\ WF_vars(BrokerHostLost) /\ WF_vars(BrokerExpire) /\ WF_vars(BrokerPoll)
    /\ \A h \in Helpers : /\ WF_vars(HelperReceive(h)) /\ WF_vars(HelperShow(h))
                          /\ WF_vars(HelperPoll(h)) /\ WF_vars(HelperLost(h))

-----------------------------------------------------------------------------
(* Properties.                                                             *)

\* A native peer, and with it capture and input on the protected desktop, is open
\* only under the broker's active lease for exactly the route the Helper obeys, or
\* with the broker's end of the connection closed so that the Helper is about to
\* find out: through releases, expiry, timeouts with the answer still to come,
\* replaced Helpers and stops.
PeerUnderLease ==
    \A h \in Helpers :
        helper[h].peer => \/ helperLink[h].broker = "closed"
                          \/ /\ broker.helper = h /\ Serving
                             /\ Refers(broker.leases, helper[h].gate)

\* What the session is given are the Helper's events, all of them in their order,
\* although both hops queue events past calls, critical ones first, and keep only
\* the newest fast one.
EventsInOrder ==
    \A h \in Helpers :
        host.phase = "open" /\ host.route.generation = h =>
            /\ Len(host.delivered) <= Len(helper[h].emitted)
            /\ \A i \in 1..Len(host.delivered) : host.delivered[i] = helper[h].emitted[i]

\* A renewal never reaches the broker before its strict cadence allows it, however
\* long the one before took: the comment in renew_if_due is about this.
RenewalsInTime ==
    Serving /\ broker.leases.active # None =>
        \A i \in 1..Len(HostSide.in) :
            HostSide.in[i].kind = "renew" => clock >= broker.leases.active.renewed + RenewInterval

\* When the Host that held the lease is gone, the peer on the protected desktop is
\* closed, without help from the lease's expiry.
Abandoned(h) == helper[h].peer /\ (broker.helper = h => HostSide.peer = "closed")
ControlEnds == \A h \in Helpers : Abandoned(h) ~> ~helper[h].peer

\* A Stop pressed on the protected desktop is not forgotten while the peer is open:
\* "its local Stop releases input and closes the route, and no remote IPC command
\* can hide or dismiss it".
StopNotDismissed ==
    [][\A h \in Helpers : ui[h].localStop /\ ~ui'[h].localStop => ~helper'[h].peer]_vars
============================================================================
