---------------------------- MODULE HostPairing ----------------------------
(***************************************************************************)
(* Host pairing, end to end on the Host (crates/host-agent/src):           *)
(*   pairing.rs         the coordinator the local user and signaling drive *)
(*   pairing_crypto.rs  verification and sealing, over gen/rust's          *)
(*   signaling.rs       the client protocol: one rendezvous per connection *)
(*   remote_runtime.rs  the task that owns the connection and flushes      *)
(* with the signaling service and the Controllers as their environment.    *)
(*                                                                         *)
(* The coordinator is behind a mutex and shared by two actors: the task    *)
(* and the threads that serve the local user.  What it wants sent waits in *)
(* co.outbound until the task wakes, so the client protocol may have moved *)
(* on by then.  The service's handlers commit first and queue their frame  *)
(* afterwards (late): a closure can overtake an earlier reply.             *)
(*                                                                         *)
(* Cryptography is symbolic: a transcript is what it lists, a key is the   *)
(* transcript it was derived with, and a sealed body opens under the same  *)
(* key, direction, sequence and associated data only.                      *)
(***************************************************************************)
EXTENDS Integers, Sequences, FiniteSets, Functions

CONSTANTS
    Controllers,  \* the devices that may join
    Host,         \* this device
    Kinds,        \* bound: the invitations, of {"Qr", "DesktopCode"}
    Endpoints,    \* bound: the signaling endpoints the local user names
    DebugLan,     \* insecure_lan_signaling_enabled: a debug build asked for it
    Lifetime,     \* PAIRING_RENDEZVOUS_LIFETIME_MS
    Skew,         \* bound: how far the service's clock is behind
    MaxStarts,    \* bound: invitations
    MaxEnvelopes, \* bound: envelopes a Controller relays in one rendezvous
    MaxInFlight,  \* bound: frames between the service's queue and the Host
    MaxFaults,    \* bound: connections lost, and errors that answer something else
    MaxClock      \* bound: the clock

ASSUME PairingAssumption ==
    /\ Host \notin Controllers /\ DebugLan \in BOOLEAN
    /\ Lifetime \in Nat \ {0} /\ Skew \in 0..(Lifetime - 1)
    /\ {MaxInFlight, MaxStarts, MaxEnvelopes, MaxFaults, MaxClock} \subseteq Nat

VARIABLES
    co,        \* HostPairingCoordinator
    activity,  \* pairing_activity: the permit Notify keeps
    link,      \* the connection: "down", "up", "lost" and not yet reported, or the
               \* task has "ended"
    sp,        \* SignalingProtocol.pairing
    reqs,      \* request_counter of this connection
    toServer,  \* frames the Host has sent
    late,      \* frames the service's handlers hold, with the handler's name
    toHost,    \* frames queued for the Host
    srv,       \* the service's rendezvous
    inbox,     \* what each Controller was relayed
    sent,      \* envelopes the Controllers relayed since the last invitation
    granted,   \* the grants written: <<Controller, rendezvous>>
    sealed,    \* every use of a Host-to-Controller key since then
    faults,    \* so far
    clock

vars == <<co, activity, link, sp, reqs, toServer, late, toHost, srv,
          inbox, sent, granted, sealed, faults, clock>>
wire == <<link, sp, reqs, toServer, late, toHost>>
service == <<srv, inbox, sent>>

Rids == 1..MaxStarts
None == [phase |-> "None"]      \* Option::None of either ActivePairing
Start0 == [conn |-> FALSE, status |-> "Idle", active |-> None, terminal |-> 0,
           cancelled |-> 0, outbound |-> <<>>, starts |-> 0]
Active(s) == s.active # None

-----------------------------------------------------------------------------
(* Symbolic pairing cryptography.                                          *)

Transcript(c, r) == [controller |-> c, host |-> Host, rendezvous |-> r,
                     controllerKey |-> <<c, r>>, hostKey |-> <<Host, r>>]
\* x25519 and HKDF: the shared secret of two ephemeral keys, salted with the transcript
SharedSecret(t) == {t.controllerKey, t.hostKey}
PairingKeys(t) == [secret |-> SharedSecret(t), salt |-> t]
PairingNonce(e) == <<e.dir, e.seq>>
PairingAad(dir, seq, r, c) == [dir |-> dir, seq |-> seq, rendezvous |-> r,
                               controller |-> c, host |-> Host]
Sealed(key, dir, seq, r, c, body) ==
    [t |-> "sealed", key |-> key, dir |-> dir, seq |-> seq, rid |-> r,
     aad |-> PairingAad(dir, seq, r, c), body |-> body]
Opens(e, key, dir, seq, r, c) ==
    /\ e.t = "sealed" /\ e.rid = r /\ e.dir = dir /\ e.seq = seq
    /\ e.key = key /\ e.aad = PairingAad(dir, seq, r, c)

Hello(c, r, signedFor) == [t |-> "hello", rid |-> r, identity |-> c,
                           transcript |-> Transcript(c, signedFor), signedBy |-> c]
\* Mutant of VerifyHello: the signature is not checked.
VerifyHelloUnsigned(e, sender, r) ==
    e.t = "hello" /\ e.rid = r /\ e.identity = sender /\ e.identity # Host
VerifyHello(e, sender, r) ==
    /\ e.t = "hello" /\ e.rid = r
    /\ e.identity = sender /\ e.identity # Host
    /\ e.transcript = Transcript(e.identity, r) /\ e.signedBy = e.identity
Ready(c, r) == Sealed(PairingKeys(Transcript(c, r)), "c2h", 1, r, c,
                      [t |-> "ready", transcript |-> Transcript(c, r)])
VerifyReady(e, a) ==
    /\ Opens(e, a.key, "c2h", 1, a.rid, a.controller)
    /\ e.body.t = "ready" /\ e.body.transcript = a.transcript
HostSealed(a, seq, body) == Sealed(a.key, "h2c", seq, a.rid, a.controller, body)

\* validate_signaling_endpoint_with_policy: TLS, loopback, or a private
\* address in a debug build that asked for it; never credentials
ValidEndpoint(e) ==
    /\ ~e.oversized /\ ~e.credentials
    /\ \/ e.scheme = "wss"
       \/ e.scheme = "ws" /\ (e.host = "loopback" \/ (DebugLan /\ e.host = "private"))

-----------------------------------------------------------------------------
(* The coordinator: each operator is one method, from state to state.      *)

Push(s, m) == [s EXCEPT !.outbound = Append(@, m)]
Create(a) == [t |-> "create", rid |-> a.rid, kind |-> a.kind,
              code |-> a.kind = "DesktopCode"]
Relay(r, e) == [t |-> "relay", rid |-> r, envelope |-> e]
Complete(r, how) == [t |-> "complete", rid |-> r, how |-> how]

Finish(s, status) ==
    [s EXCEPT !.active = None, !.status = status,
              !.terminal = IF Active(s) THEN s.active.rid ELSE @]
FailActive(s) ==
    Finish(IF Active(s) /\ s.active.phase # "Creating"
           THEN Push(s, Complete(s.active.rid, "Rejected")) ELSE s, "Failed")
\* what cancel and tick share: nothing can be completed before it is created
Abandon(s, status) ==
    Finish(IF s.active.phase = "Creating"
           THEN [s EXCEPT !.cancelled = s.active.rid]
           ELSE Push(s, Complete(s.active.rid, "Rejected")), status)
Tick(s) == IF Active(s) /\ clock >= s.active.exp THEN Abandon(s, "Expired") ELSE s

ReturnToIdle(s) ==
    IF s.status = "Idle" THEN s ELSE [s EXCEPT !.status = "Idle", !.terminal = 0]
Start(s, kind, ok) ==
    LET idle == ReturnToIdle(s)
        a == [phase |-> "Creating", rid |-> s.starts + 1, kind |-> kind,
              exp |-> clock + Lifetime, serverExp |-> 0,
              peer |-> Host, controller |-> Host, transcript |-> None, key |-> None]
    IN IF ~s.conn \/ Active(s) THEN s
       ELSE IF ~ok THEN idle
       ELSE Push([idle EXCEPT !.active = a, !.terminal = 0, !.status = "Creating",
                              !.starts = @ + 1], Create(a))

HandleCreated(s, f) ==
    LET a == s.active
    IN CASE ~Active(s) /\ s.cancelled = f.rid ->
              Push([s EXCEPT !.cancelled = 0], Complete(f.rid, "Rejected"))
         [] /\ a.phase = "Creating" /\ a.rid = f.rid
            /\ a.kind = f.kind /\ f.exp > clock ->
              [s EXCEPT !.status = "Inviting",
                        !.active = [a EXCEPT !.phase = "Inviting", !.serverExp = f.exp,
                                             !.exp = IF f.exp < @ THEN f.exp ELSE @]]
         [] OTHER -> s
HandleJoined(s, f) ==
    LET a == s.active
        joined == [s EXCEPT !.status = "VerifyingController",
                            !.active = [a EXCEPT !.phase = "WaitingHello", !.peer = f.peer]]
    IN IF \/ a.phase # "Inviting"
          \/ a.rid # f.rid \/ a.serverExp # f.exp \/ a.exp <= clock \/ f.peer = Host
       THEN s
       ELSE IF a.kind = "DesktopCode"
            THEN Push(joined, Relay(f.rid, [t |-> "invitation"])) ELSE joined

HandleHello(s, f) ==
    LET c == f.envelope.identity
        a == [s.active EXCEPT !.phase = "WaitingReady", !.controller = c,
                              !.transcript = Transcript(c, f.rid),
                              !.key = PairingKeys(Transcript(c, f.rid))]
    IN Push([s EXCEPT !.active = a],
            Relay(f.rid, HostSealed(a, 1, [t |-> "proof"])))
HandleReady(s) ==
    [s EXCEPT !.active.phase = "WaitingDecision", !.status = "WaitingLocalDecision"]
\* any envelope that is not the next of this rendezvous ends it
HandleRouted(s, f) ==
    LET a == s.active
        ours == Active(s) /\ a.rid = f.rid /\ a.peer = f.sender
    IN CASE ours /\ a.phase = "WaitingHello" /\ VerifyHello(f.envelope, f.sender, a.rid) ->
              HandleHello(s, f)
         [] ours /\ a.phase = "WaitingReady" /\ VerifyReady(f.envelope, a) -> HandleReady(s)
         [] OTHER -> IF Active(s) THEN FailActive(s) ELSE s

ClosedAs == [Rejected |-> "Rejected", Expired |-> "Expired",
             Disconnected |-> "Failed", Succeeded |-> "Failed"]
HandleClosed(s, f) ==
    IF s.terminal # f.rid /\ Active(s) /\ s.active.rid = f.rid
    THEN Finish(s, ClosedAs[f.how]) ELSE s

HandleEvent(s0, f) ==
    LET s == Tick(s0)
    IN CASE f.t = "created" -> HandleCreated(s, f)
         [] f.t = "joined" -> HandleJoined(s, f)
         [] f.t = "routed" -> HandleRouted(s, f)
         [] f.t = "closed" -> HandleClosed(s, f)
         [] f.t = "error" -> IF Active(s) THEN FailActive(s) ELSE s

WaitingDecision(s, r, c) ==
    s.active.phase = "WaitingDecision" /\ s.active.rid = r /\ s.active.controller = c
Decision(s, status) ==
    HostSealed(s.active, 2, [t |-> "decision", status |-> status,
                             transcript |-> s.active.transcript])
Decide(s, status, how) ==
    Finish(Push(Push(s, Relay(s.active.rid, Decision(s, status))),
                Complete(s.active.rid, how)), status)
\* Mutant of Accept: the decision is sealed although the grant was not stored.
AcceptUnstored(s0, r, c, stored) ==
    LET s == Tick(s0)
    IN IF WaitingDecision(s, r, c) THEN Decide(s, "Accepted", "Succeeded") ELSE s
Accept(s0, r, c, stored) ==
    LET s == Tick(s0)
    IN IF ~WaitingDecision(s, r, c) THEN s
       ELSE IF ~stored THEN FailActive(s) ELSE Decide(s, "Accepted", "Succeeded")
\* Mutant of Reject: the pairing stays active and can be decided again.
RejectKeepsActive(s0, r, c) ==
    LET s == Tick(s0)
    IN IF WaitingDecision(s, r, c)
       THEN Push(s, Relay(s.active.rid, Decision(s, "Rejected"))) ELSE s
Reject(s0, r, c) ==
    LET s == Tick(s0)
    IN IF WaitingDecision(s, r, c) THEN Decide(s, "Rejected", "Rejected") ELSE s
Cancel(s, r) == IF Active(s) /\ s.active.rid = r THEN Abandon(s, "Cancelled") ELSE s
SignalingLost(s) ==
    LET t == [s EXCEPT !.conn = FALSE, !.cancelled = 0]
    IN IF Active(s) THEN Finish(t, "Failed") ELSE t
Shutdown(s) ==
    LET t == [s EXCEPT !.conn = FALSE, !.cancelled = 0, !.outbound = <<>>]
    IN IF Active(s) THEN Finish(t, "Cancelled") ELSE t

-----------------------------------------------------------------------------
(* SignalingProtocol: what may be sent and received in which phase.        *)

ValidPairingCode(o) == o.code = (o.kind = "DesktopCode")
CanSend(p, o) ==
    CASE o.t = "create" -> p = None /\ ValidPairingCode(o)
      [] o.t = "relay" -> p.phase = "Joined" /\ p.rid = o.rid
      [] o.t = "complete" -> p.phase \in {"Inviting", "Joined"} /\ p.rid = o.rid
AfterSend(p, o, q) ==
    CASE o.t = "create" -> [phase |-> "Creating", rid |-> o.rid, kind |-> o.kind,
                            exp |-> 0, req |-> q, peer |-> Host, how |-> "none"]
      [] o.t = "relay" -> p
      [] o.t = "complete" -> [p EXCEPT !.phase = "Completing", !.req = q, !.how = o.how]

CreatedFits(p, f) ==
    p.phase = "Creating" /\ p.req = f.req /\ p.rid = f.rid /\ p.kind = f.kind
JoinedFits(p, f) ==
    p.phase = "Inviting" /\ p.rid = f.rid /\ p.exp = f.exp /\ f.peer # Host
RoutedFits(p, f) == p.phase = "Joined" /\ p.rid = f.rid /\ p.peer = f.sender
ClosedFits(p, f) ==
    /\ p # None /\ p.rid = f.rid
    /\ \/ p.phase = "Completing" /\ f.req = p.req /\ f.how = p.how
       \/ /\ p.phase \in {"Inviting", "Joined"} /\ f.req = 0
          /\ f.how \in {"Expired", "Disconnected"}
Fits(p, f) ==
    CASE f.t = "created" -> CreatedFits(p, f)
      [] f.t = "joined" -> JoinedFits(p, f)
      [] f.t = "routed" -> RoutedFits(p, f)
      [] f.t = "closed" -> ClosedFits(p, f)
      [] f.t = "error" -> TRUE
\* Mutant of AfterFrame: the protocol does not remember who joined.
AfterFrameForgetsPeer(p, f) ==
    CASE f.t = "created" -> [p EXCEPT !.phase = "Inviting", !.exp = f.exp]
      [] f.t = "joined" -> [p EXCEPT !.phase = "Joined"]
      [] f.t = "routed" -> p
      [] f.t = "closed" -> None
      [] f.t = "error" -> IF p # None THEN None ELSE p
AfterFrame(p, f) ==
    CASE f.t = "created" -> [p EXCEPT !.phase = "Inviting", !.exp = f.exp]
      [] f.t = "joined" -> [p EXCEPT !.phase = "Joined", !.peer = f.peer]
      [] f.t = "routed" -> p
      [] f.t = "closed" -> None
      [] f.t = "error" -> IF p.phase \in {"Creating", "Completing"} /\ p.req = f.req
                          THEN None ELSE p

Open(r) == srv[r].state \in {"open", "joined"}   \* at the service

-----------------------------------------------------------------------------
(* The task.  Draining the coordinator's queue is one critical section;    *)
(* only this task sends, so the frames of one drain go out together, up to *)
(* the first the protocol refuses, which ends the connection.              *)

Offered(acc, o) ==
    IF ~acc.ok \/ ~CanSend(acc.p, o) THEN [acc EXCEPT !.ok = FALSE]
    ELSE [acc EXCEPT !.p = AfterSend(@, o, acc.q + 1), !.q = @ + 1,
                     !.frames = Append(@, [o |-> o, req |-> acc.q + 1])]
Flushed(p, q, out) ==
    LET run[i \in 0..Len(out)] ==
          IF i = 0 THEN [p |-> p, q |-> q, frames |-> <<>>, ok |-> TRUE]
          ELSE Offered(run[i - 1], out[i])
    IN run[Len(out)]

\* Mutant of Notified: notify_waiters keeps no permit for a task that is not waiting.
NotifiedWaiters(s, t) == link = "up" /\ (activity \/ t.status # s.status \/ t.outbound # <<>>)
\* publish_pairing_snapshot: every revision changes the published state
Notified(s, t) == activity \/ t.status # s.status \/ t.outbound # <<>>

SealedIn(out) == {out[i].envelope : i \in {j \in DOMAIN out :
                     out[j].t = "relay" /\ out[j].envelope.t = "sealed"}}
\* every coordinator step: the state, its notification, and the keys it used
Coordinate(s) ==
    /\ co' = s
    /\ activity' = Notified(co, s)
    /\ sealed' = sealed \cup SealedIn(s.outbound)

\* poll_pairing_outbound and send_pairing_outbound, in state s with protocol p
Flush(s, p, notified) ==
    LET t == Tick(s)
        r == Flushed(p, reqs, t.outbound)
    IN /\ co' = [t EXCEPT !.outbound = <<>>]
       /\ activity' = notified
       /\ sealed' = sealed \cup SealedIn(t.outbound)
       /\ sp' = r.p /\ reqs' = r.q
       /\ toServer' = toServer \o r.frames
       /\ link' = IF r.ok THEN link ELSE "lost"

\* wait_for_deadline(pairing_deadline_unix_ms)
DeadlinePassed == Active(co) /\ clock >= co.active.exp

TaskFlush ==
    /\ link = "up"
    /\ activity \/ DeadlinePassed
    /\ Flush(co, sp, co.status # Tick(co).status)
    /\ UNCHANGED <<late, toHost, service, granted, faults, clock>>

TaskReceive ==
    /\ link = "up" /\ toHost # <<>>
    /\ LET f == Head(toHost)
       IN IF Fits(sp, f)
          THEN LET s == HandleEvent(co, f)
               IN Flush(s, AfterFrame(sp, f), Notified(co, s))
          ELSE /\ link' = "lost"
               /\ UNCHANGED <<co, activity, sealed, sp, reqs, toServer>>
    /\ toHost' = Tail(toHost)
    /\ UNCHANGED <<late, service, granted, faults, clock>>

\* the connection is gone with its protocol and its frames, and the service ends
\* every rendezvous it had open
Disconnected(next) ==
    /\ link' = next /\ sp' = None /\ reqs' = 0
    /\ toServer' = <<>> /\ toHost' = <<>> /\ late' = {}
    /\ srv' = [r \in Rids |-> IF Open(r) THEN [srv[r] EXCEPT !.state = "gone"] ELSE srv[r]]
    /\ UNCHANGED <<inbox, sent, granted, faults, clock>>

\* pairing_signaling_lost
TaskLost ==
    /\ link = "lost"
    /\ Coordinate(SignalingLost(co))
    /\ Disconnected("down")

\* a connection starts with an empty protocol and registers the device
Registration == link = "down" /\ sp = None /\ link' = "up"
SignalingConnected(s) == [s EXCEPT !.conn = TRUE]

\* connect_remote, then pairing_signaling_connected
TaskConnect ==
    /\ Registration
    /\ co' = SignalingConnected(co)
    /\ UNCHANGED <<activity, sp, reqs, toServer, late, toHost, service, granted, sealed, faults, clock>>

TaskShutdown ==
    /\ link \in {"up", "down"}
    /\ Coordinate(Shutdown(co))
    /\ Disconnected("ended")

NetworkDrop ==
    /\ link = "up" /\ faults < MaxFaults
    /\ link' = "lost"
    /\ faults' = faults + 1
    /\ UNCHANGED <<co, activity, sp, reqs, toServer, late, toHost, service, granted, sealed, clock>>

-----------------------------------------------------------------------------
(* The local user, through HostService on a blocking thread.               *)

UserStep(s) ==
    /\ Coordinate(s)
    /\ UNCHANGED <<wire, service, faults, clock>>

UserStart(kind, endpoint, random) ==
    /\ link # "ended" /\ co.starts < MaxStarts /\ clock + Lifetime <= MaxClock
    /\ LET s == Start(co, kind, ValidEndpoint(endpoint) /\ random)
       IN /\ co' = s /\ activity' = Notified(co, s)
          /\ IF s.starts > co.starts THEN sent' = <<>> /\ sealed' = {}
             ELSE UNCHANGED <<sent, sealed>>
    /\ UNCHANGED <<wire, srv, inbox, granted, faults, clock>>
UserAccept(r, c, stored) ==
    /\ co.starts >= r
    /\ granted' = IF WaitingDecision(Tick(co), r, c) /\ stored
                  THEN granted \cup {<<c, r>>} ELSE granted
    /\ UserStep(Accept(co, r, c, stored))
UserReject(r, c) == co.starts >= r /\ UserStep(Reject(co, r, c)) /\ UNCHANGED granted
UserCancel(r) == co.starts >= r /\ UserStep(Cancel(co, r)) /\ UNCHANGED granted
UserStatus == UserStep(Tick(co)) /\ UNCHANGED granted       \* GetHostPairingStatus

-----------------------------------------------------------------------------
(* The service and the Controllers.                                        *)

Idle(actor) == \A m \in late : m.by # actor
Hold(actor, f) == late' = late \cup {[by |-> actor, f |-> f]}
Closed(q, r, how) == [t |-> "closed", req |-> q, rid |-> r, how |-> how]
Error(q) == [t |-> "error", req |-> q]
hostSide == <<co, activity, link, sp, reqs, granted, sealed, faults, clock>>

ServeHost ==
    /\ link \in {"up", "lost"} /\ toServer # <<>> /\ Idle(Host)
    /\ LET m == Head(toServer)
           r == m.o.rid
       IN \/ /\ m.o.t = "create"
             /\ \E exp \in {clock + Lifetime, clock + Lifetime - Skew} :
                  /\ srv' = [srv EXCEPT ![r] = [state |-> "open", exp |-> exp,
                                                peer |-> Host, how |-> "none"]]
                  /\ Hold(Host, [t |-> "created", req |-> m.req, rid |-> r,
                                 kind |-> m.o.kind, exp |-> exp])
             /\ UNCHANGED inbox
          \/ m.o.t = "create" /\ Hold(Host, Error(m.req)) /\ UNCHANGED <<srv, inbox>>
          \/ /\ m.o.t = "relay"
             /\ IF srv[r].state = "joined"
                THEN /\ inbox' = [inbox EXCEPT ![srv[r].peer] = @ \cup {<<r, m.o.envelope>>}]
                     /\ UNCHANGED late
                ELSE Hold(Host, Error(m.req)) /\ UNCHANGED inbox
             /\ UNCHANGED srv
          \/ /\ m.o.t = "complete"
             /\ IF Open(r) /\ clock < srv[r].exp
                THEN /\ srv' = [srv EXCEPT ![r].state = "gone", ![r].how = m.o.how]
                     /\ Hold(Host, Closed(m.req, r, m.o.how))
                ELSE Hold(Host, Error(m.req)) /\ UNCHANGED srv
             /\ UNCHANGED inbox
    /\ toServer' = Tail(toServer)
    /\ UNCHANGED <<hostSide, toHost, sent>>

ServeJoin(c, r) ==
    /\ link = "up" /\ srv[r].state = "open" /\ clock < srv[r].exp /\ Idle(c)
    /\ srv' = [srv EXCEPT ![r].state = "joined", ![r].peer = c]
    /\ Hold(c, [t |-> "joined", rid |-> r, peer |-> c, exp |-> srv[r].exp])
    /\ UNCHANGED <<hostSide, toServer, toHost, inbox, sent>>

\* what a Controller may relay: a greeting for this or for another rendezvous,
\* and its confirmation once it has the proof
ControllerEnvelopes(c, r) ==
    {Hello(c, r, k) : k \in Rids} \cup
    {Ready(c, r) : m \in {n \in inbox[c] : n[1] = r /\ n[2].t = "sealed"}}
ServeRelay(c, r, e) ==
    /\ link = "up" /\ srv[r].state = "joined" /\ srv[r].peer = c
    /\ clock < srv[r].exp /\ Idle(c) /\ Len(sent) < MaxEnvelopes
    /\ sent' = Append(sent, e)
    /\ Hold(c, [t |-> "routed", rid |-> r, sender |-> c, envelope |-> e])
    /\ UNCHANGED <<hostSide, toServer, toHost, srv, inbox>>

ServeExpiry(r) ==
    /\ link = "up" /\ Open(r) /\ clock >= srv[r].exp
    /\ srv' = [srv EXCEPT ![r].state = "gone"]
    /\ Hold("sweeper", Closed(0, r, "Expired"))
    /\ UNCHANGED <<hostSide, toServer, toHost, inbox, sent>>
ServePeerGone(c, r) ==
    /\ link = "up" /\ srv[r].state = "joined" /\ srv[r].peer = c /\ Idle(c)
    /\ srv' = [srv EXCEPT ![r].state = "gone"]
    /\ Hold(c, Closed(0, r, "Disconnected"))
    /\ UNCHANGED <<hostSide, toServer, toHost, inbox, sent>>

\* the answer to a session relay whose recipient is offline
StrayError ==
    /\ link = "up" /\ faults < MaxFaults /\ Idle(Host)
    /\ faults' = faults + 1
    /\ Hold(Host, Error(-1))
    /\ UNCHANGED <<co, activity, link, sp, reqs, granted, sealed, clock,
                   toServer, toHost, service>>

Queue(m) ==
    /\ Len(toHost) < MaxInFlight
    /\ late' = late \ {m}
    /\ toHost' = Append(toHost, m.f)
    /\ UNCHANGED <<hostSide, toServer, service>>

Advance ==
    /\ clock < MaxClock /\ clock' = clock + 1
    /\ UNCHANGED <<co, activity, wire, service, granted, sealed, faults>>

-----------------------------------------------------------------------------
Init ==
    /\ co = Start0 /\ activity = FALSE
    /\ link = "down" /\ sp = None /\ reqs = 0
    /\ toServer = <<>> /\ late = {} /\ toHost = <<>>
    /\ srv = [r \in Rids |-> [state |-> "absent", exp |-> 0, peer |-> Host, how |-> "none"]]
    /\ inbox = [c \in Controllers |-> {}] /\ sent = <<>>
    /\ granted = {} /\ sealed = {}
    /\ faults = 0 /\ clock = 0

User ==
    \/ \E k \in Kinds, e \in Endpoints, x \in BOOLEAN : UserStart(k, e, x)
    \/ \E r \in Rids, c \in Controllers, x \in BOOLEAN : UserAccept(r, c, x)
    \/ \E r \in Rids, c \in Controllers : UserReject(r, c)
    \/ \E r \in Rids : UserCancel(r)
    \/ UserStatus
Service ==
    \/ ServeHost
    \/ \E c \in Controllers, r \in Rids :
         \/ ServeJoin(c, r)
         \/ \E e \in ControllerEnvelopes(c, r) : ServeRelay(c, r, e)
         \/ ServePeerGone(c, r)
    \/ \E r \in Rids : ServeExpiry(r)
    \/ StrayError
    \/ \E m \in late : Queue(m)
Task == TaskFlush \/ TaskReceive \/ TaskLost \/ TaskConnect \/ TaskShutdown
Next == User \/ Service \/ Task \/ NetworkDrop \/ Advance
Spec == Init /\ [][Next]_vars

-----------------------------------------------------------------------------
\* A grant is written only for a Controller that greeted the Host under its own
\* signature and confirmed the same transcript, in the very rendezvous the local
\* user accepted, whatever the service reordered or relayed besides (accept).
GrantVerified ==
    \A c \in Controllers : <<c, co.starts>> \in granted =>
        {Hello(c, co.starts, co.starts), Ready(c, co.starts)} \subseteq Range(sent)

\* A Controller is told "accepted" only once its grant is stored, and the
\* service records a success only after the Controller was told: accept persists
\* first, then queues the decision ahead of the completion.
DecisionTruthful ==
    /\ \A c \in Controllers : \A m \in inbox[c] :
         (m[2].t = "sealed" /\ m[2].body.t = "decision" /\ m[2].body.status = "Accepted")
            => <<c, m[1]>> \in granted
    /\ \A r \in Rids : srv[r].how = "Succeeded" =>
         \E m \in inbox[srv[r].peer] :
            m[1] = r /\ m[2].t = "sealed" /\ m[2].body.t = "decision"

\* No AES-GCM nonce is used twice under one key: a key and a sequence number
\* determine what was sealed (the nonce is the direction and the sequence).
NonceOnce ==
    \A x, y \in sealed : (x.key = y.key /\ PairingNonce(x) = PairingNonce(y)) => x = y

\* While the connection is up, a pairing the local user sees past its creation
\* is the rendezvous the client protocol has open, in the matching phase and
\* with the same peer: neither layer is ever behind the other.
LayersAgree ==
    (link = "up" /\ Active(co) /\ co.active.phase # "Creating") =>
        /\ sp # None /\ sp.rid = co.active.rid
        /\ sp.phase = IF co.active.phase = "Inviting" THEN "Inviting" ELSE "Joined"
        /\ co.active.phase # "Inviting" => sp.peer = co.active.peer

\* No lost wakeup: what the coordinator wants sent never waits for a task that
\* has nothing to wake it, although it is queued from the local user's threads
\* and while the connection is down.
NoLostWakeup == co.outbound # <<>> => activity \/ link = "ended"
============================================================================
