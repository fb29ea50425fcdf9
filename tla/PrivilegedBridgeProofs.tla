----------------------- MODULE PrivilegedBridgeProofs -----------------------
(***************************************************************************)
(* The privileged bridge keeps its promises for any number of Helpers and  *)
(* connections, any events, and any times: a native peer is open only      *)
(* under the broker's active lease, events reach the session in order,     *)
(* and a renewal never comes too early.                                    *)
(*                                                                         *)
(* Each of the three has an inductive invariant over the part of the state *)
(* it is about:                                                            *)
(*   HelperInv   broker, Helpers and their sockets: where the one request  *)
(*               of an exchange is, and what that says of the Helper       *)
(*   CallInv     Host, its sockets and broker: where the one request of a  *)
(*               call is; CadenceInv adds the two ends' idea of the last   *)
(*               renewal                                                   *)
(*   EventInv    every event on its way is the one the Helper emitted      *)
(* TypeInv holds the types all of them need.                               *)
(***************************************************************************)
EXTENDS PrivilegedBridge, SequenceTheorems, TLAPS

-----------------------------------------------------------------------------
(* Types.                                                                  *)

Routes == [kind : {"route"}, lease : Nat, generation : Nat]
MaybeRoute == Routes \cup {None}
Names == {x.name : x \in Contexts}
SessionContexts == [kind : {"context"}, permissions : SUBSET {"view", "control"}, name : Names]
MaybeContext == SessionContexts \cup {None}
Ops == {"none", "poll", "start", "restart", "candidate", "input", "close"}
RequestKinds == Ops \cup {"acquire", "renew", "release"}
Kinds == RequestKinds \cup {"ready", "unavailable", "error", "lease", "answer", "accepted",
                            "critical", "fast", "stop"}
PlainFrames == [kind : Kinds, route : MaybeRoute, sequence : Nat, context : MaybeContext]
Frames == {f \in PlainFrames : /\ f.kind = "ready" => f.route \in Routes
                               /\ f.kind = "acquire" => f.context \in SessionContexts}
Links == [peer : {"unused", "open", "closed"}, broker : {"backlog", "open", "closed"},
          in : Seq(Frames), out : Seq(Frames)]
Queues == [critical : Seq(Frames), fast : Seq(Frames), failed : BOOLEAN]
LeaseRecords == [kind : {"lease"}, route : Routes, name : Names, command : Nat,
                 renewed : Nat, expires : Nat]
LeaseStates == [host : Nat, active : LeaseRecords \cup {None}, released : MaybeRoute]
OsSessions == {k.osSession : k \in Credentials} \cup {0}
SessionStates == [generation : Nat, current : OsSessions, controlled : BOOLEAN,
                  input : BOOLEAN]
ClientNonces == {"SessionHelper", "HostAgent"} \X Nat

HostStates ==
    [phase : {"idle", "connecting", "calling", "open"}, conn : Nat,
     credentials : Credentials \cup {None}, reported : Nat, context : SessionContexts \cup {None},
     route : MaybeRoute, frame : Nat, ops : Nat, op : Ops, call : RequestKinds,
     renewed : Nat, queue : Queues, delivered : Seq(Frames), closed : BOOLEAN]
BrokerStates ==
    [phase : {"accepting", "waiting", "serving", "exchanging", "stopped"},
     conn : Conns \cup {0}, helper : Helpers \cup {0}, slot : Helpers \cup {0},
     leases : LeaseStates, routes : SessionStates, context : MaybeContext,
     operation : Nat, queue : Queues, request : Frames \cup {None}, replay : Seq(ClientNonces)]
HelperStates ==
    [phase : {"unborn", "connecting", "serving", "showing", "dead"}, credentials : Credentials,
     gate : MaybeRoute, peer : BOOLEAN, emitted : Seq(Frames), request : Frames \cup {None}]

\* a connection of the Host is being served
Connected == broker.phase \in {"waiting", "serving", "exchanging"}

TypeInv ==
    /\ host \in HostStates
    /\ (host.phase # "idle" \/ host.reported # 0 => host.conn \in Conns)
    /\ broker \in BrokerStates /\ (Connected => broker.conn \in Conns /\ broker.helper \in Helpers)
    /\ (broker.phase = "exchanging" => broker.request \in Frames)
    /\ (broker.leases.active # None => Serving)
    /\ (Serving => broker.context \in SessionContexts)
    /\ helper \in [Helpers -> HelperStates]
    /\ \A h \in Helpers : helper[h].phase = "showing" => helper[h].request \in Frames
    /\ hostLink \in [Conns -> Links] /\ helperLink \in [Helpers -> Links]
    /\ clock \in Nat

-----------------------------------------------------------------------------
(* Answers among events.                                                   *)

NoAnswer(s) == \A i \in 1..Len(s) : IsEvent(s[i])
OneAnswer(s) == \A i, j \in 1..Len(s) : ~IsEvent(s[i]) /\ ~IsEvent(s[j]) => i = j

-----------------------------------------------------------------------------
(* A Helper and the broker.  x is the Helper, l its socket, b the broker.  *)

\* nothing was asked of the Helper
Untouched(x, l) ==
    x.gate = None /\ ~x.peer /\ x.phase # "showing" /\ l.in = <<>> /\ l.out = <<>>

\* the broker waits for nothing: every answer was read
Quiet(x, l) == l.out = <<>> /\ x.phase # "showing" /\ NoAnswer(l.in)

\* the one request r of an exchange is on its way, being handled, or answered
InExchange(b, x, l) ==
    LET r == b.request IN
    /\ r.kind \in {"start", "restart"} => Refers(b.leases, r.route)
    /\ l.out # <<>> => l.out = <<r>> /\ x.phase # "showing" /\ NoAnswer(l.in)
    /\ x.phase = "showing" => r.kind \in {"start", "restart"} /\ NoAnswer(l.in)
    /\ l.out = <<>> /\ r.kind = "release" => ~x.peer
    /\ OneAnswer(l.in)

InService(b, h) == b.helper = h /\ b.phase \in {"serving", "exchanging"}
HelperOK(b, h, x, l) ==
    /\ l.peer = "unused" => x.phase = "unborn" /\ Untouched(x, l)
    /\ l.broker # "closed" /\ ~InService(b, h) => Untouched(x, l)
    /\ l.broker # "closed" /\ InService(b, h) =>
           /\ x.peer => Refers(b.leases, x.gate)
           /\ b.phase = "serving" => Quiet(x, l)
           /\ b.phase = "exchanging" => InExchange(b, x, l)
HelperInv == \A h \in Helpers : HelperOK(broker, h, helper[h], helperLink[h])

-----------------------------------------------------------------------------
(* The Host and the broker.  x is the Host, l a socket, b the broker.      *)

\* the connections the Host did not make yet
FreshLinks == \A c \in Conns : c > host.conn => hostLink[c] = NewLink

\* the broker serves one connection; in the backlog nothing was said
LinkOK(b, x, c, l) ==
    /\ Len(l.in) <= 1
    /\ l.broker = "open" => /\ b.phase \in {"waiting", "serving", "exchanging"} /\ b.conn = c
                            /\ l.peer # "unused"
    /\ l.broker = "backlog" => /\ l.in = <<>> /\ l.out = <<>>
                               /\ c = x.conn => x.phase \in {"idle", "connecting"}

\* the one request of a call is on its way, with the broker, or answered
InCall(b, x, l) ==
    l.broker # "closed" =>
        /\ OneAnswer(l.out)
        /\ l.in # <<>> => /\ x.phase = "calling" /\ l.in[1].kind = x.call
                          /\ NoAnswer(l.out) /\ b.phase # "exchanging"
        /\ x.phase = "open" => NoAnswer(l.out)
        /\ l.broker = "open" /\ b.phase = "exchanging" => x.phase = "calling" /\ NoAnswer(l.out)
CallInv ==
    /\ FreshLinks
    /\ \A c \in Conns : LinkOK(broker, host, c, hostLink[c])
    /\ Connected => HostSide.broker = "open"
    /\ broker.phase = "exchanging" => HostSide.in = <<>>
    /\ host.phase # "idle" => InCall(broker, host, Link)

\* a call that needs the lease as it is
Using(x) == x.phase = "calling" /\ x.call \notin {"acquire", "renew"}
\* what broker and Host take for the last renewal, at time t
Cadence(b, x, l, t) ==
    b.leases.active # None =>
        /\ b.leases.active.renewed <= t
        /\ \A i \in 1..Len(l.in) :
               l.in[i].kind = "renew" => t >= b.leases.active.renewed + RenewInterval
        /\ x.conn = b.conn /\ (x.phase = "open" \/ Using(x)) => x.renewed >= b.leases.active.renewed
CadenceInv == Connected => Cadence(broker, host, HostSide, clock)

-----------------------------------------------------------------------------
(* Events.                                                                 *)

\* the event is what the Helper of its route emitted under its number; H holds the Helpers
Genuine(H, e) ==
    /\ e.route \in Routes /\ e.route.generation \in Helpers
    /\ e.sequence \in 1..Len(H[e.route.generation].emitted)
    /\ e = H[e.route.generation].emitted[e.sequence]
GenuineEvents(H, s) == \A i \in 1..Len(s) : IsEvent(s[i]) => Genuine(H, s[i])
QueueOK(H, q) ==
    /\ NoAnswer(q.critical) /\ GenuineEvents(H, q.critical)
    /\ NoAnswer(q.fast) /\ GenuineEvents(H, q.fast)

\* a Helper obeys routes of its own generation
RouteOK(h, x, l) ==
    /\ x.gate # None => x.gate.generation = h
    /\ \A i \in 1..Len(l.out) : l.out[i].kind \in {"start", "restart"} =>
                                  l.out[i].route \in Routes /\ l.out[i].route.generation = h
LeaseRouteOK(b) == b.leases.active # None => b.leases.active.route.generation = b.helper

\* what the session was given so far
DeliveredOK(x) ==
    /\ NoAnswer(x.delivered)
    /\ \A i \in 1..Len(x.delivered) :
           x.delivered[i].sequence = i /\ x.delivered[i].route = x.route
    /\ x.phase = "connecting" \/ (x.phase = "calling" /\ x.call = "acquire") => x.delivered = <<>>

EventInv ==
    /\ \A h \in Helpers : /\ RouteOK(h, helper[h], helperLink[h])
                          /\ GenuineEvents(helper, helperLink[h].in)
    /\ LeaseRouteOK(broker) /\ DeliveredOK(host)
    /\ QueueOK(helper, broker.queue) /\ QueueOK(helper, host.queue)
    /\ GenuineEvents(helper, host.delivered)
    /\ \A c \in Conns : GenuineEvents(helper, hostLink[c].out)

BridgeInv == TypeInv /\ HelperInv /\ CallInv /\ CadenceInv /\ EventInv

-----------------------------------------------------------------------------
(* What the constants are.                                                 *)

(* The numbers the model is instantiated with.                             *)
LEMMA Limits ==
    /\ Helpers \subseteq Nat /\ 0 \notin Helpers /\ Conns \subseteq Nat /\ 0 \notin Conns
    /\ RenewInterval \in Nat /\ LeaseDuration \in Nat /\ RenewMargin \in Nat
    /\ ReplayCapacity \in Nat /\ ReplayCapacity > 0
    /\ Installed \in Credentials /\ Contexts \subseteq SessionContexts
    /\ Events \in Seq({"critical", "fast"})
  <1>1. Contexts \subseteq SessionContexts
    <2> SUFFICES ASSUME NEW x \in Contexts
                 PROVE  x \in SessionContexts
      OBVIOUS
    <2>1. x \in [kind : {"context"}, permissions : SUBSET {"view", "control"}, name : {x.name}]
      BY BridgeAssumption DEF BridgeAssumption
    <2>2. x.name \in Names
      BY DEF Names
    <2> QED
      BY <2>1, <2>2 DEF SessionContexts
  <1> QED
    BY <1>1, BridgeAssumption, BridgeOpsAssumption DEF BridgeAssumption, BridgeOpsAssumption

(* None is neither a route nor a context, a lease or a frame.              *)
LEMMA NoneIsNothing ==
    None \notin Routes /\ None \notin SessionContexts /\ None \notin LeaseRecords
  BY DEF None, Routes, SessionContexts, LeaseRecords

-----------------------------------------------------------------------------
(* Sequences of frames.                                                    *)

(* The empty sequence is a sequence of frames without an answer.           *)
LEMMA NothingSent ==
    <<>> \in Seq(Frames) /\ Len(<<>>) = 0 /\ NoAnswer(<<>>) /\ OneAnswer(<<>>)
  <1>1. <<>> \in Seq(Frames) /\ Len(<<>>) = 0
    OBVIOUS
  <1> QED
    BY <1>1 DEF NoAnswer, OneAnswer

(* Sending a frame.                                                        *)
LEMMA Sent ==
    ASSUME NEW s \in Seq(Frames), NEW f \in Frames
    PROVE  /\ Append(s, f) \in Seq(Frames) /\ Append(s, f) # <<>>
           /\ Len(Append(s, f)) = Len(s) + 1
           /\ \A i \in 1..Len(s) : Append(s, f)[i] = s[i]
           /\ Append(s, f)[Len(s) + 1] = f
           /\ s = <<>> => Append(s, f) = <<f>>
  <1>1. /\ Append(s, f) \in Seq(Frames) /\ Len(Append(s, f)) = Len(s) + 1
        /\ \A i \in 1..Len(s) : Append(s, f)[i] = s[i]
        /\ Append(s, f)[Len(s) + 1] = f
    OBVIOUS
  <1>2. Append(s, f) # <<>>
    BY AppendProperties
  <1>3. s = <<>> => Append(s, f) = <<f>>
    OBVIOUS
  <1> QED
    BY <1>1, <1>2, <1>3

(* Reading a frame.                                                        *)
LEMMA Received ==
    ASSUME NEW s \in Seq(Frames), s # <<>>
    PROVE  /\ Tail(s) \in Seq(Frames) /\ Head(s) \in Frames /\ Head(s) = s[1]
           /\ Len(s) \in Nat /\ Len(s) >= 1 /\ Len(Tail(s)) = Len(s) - 1
           /\ \A i \in 1..Len(Tail(s)) : i + 1 \in 1..Len(s) /\ Tail(s)[i] = s[i + 1]
  <1>1. Len(s) \in Nat /\ Len(s) >= 1
    BY EmptySeq
  <1>2. Tail(s) \in Seq(Frames) /\ Head(s) \in Frames /\ Head(s) = s[1] /\ Len(Tail(s)) = Len(s) - 1
    BY <1>1
  <1>3. ASSUME NEW i \in 1..Len(Tail(s))
        PROVE  i + 1 \in 1..Len(s) /\ Tail(s)[i] = s[i + 1]
    BY <1>1, <1>2
  <1> QED
    BY <1>1, <1>2, <1>3

(* A single frame.                                                         *)
LEMMA Singleton ==
    ASSUME NEW s \in Seq(Frames), Len(s) <= 1, s # <<>>
    PROVE  Tail(s) = <<>> /\ Len(s) = 1
  <1>1. /\ Len(s) \in Nat /\ Len(s) >= 1 /\ Len(Tail(s)) = Len(s) - 1
        /\ Tail(s) \in Seq(Frames)
    BY Received
  <1>2. Len(s) = 1
    BY <1>1
  <1>3. PICK t \in Seq(Frames) : t = Tail(s)
    BY <1>1
  <1>4. Len(t) = 0
    BY <1>1, <1>2, <1>3
  <1>5. t = <<>>
    BY <1>4, EmptySeq
  <1> QED
    BY <1>2, <1>3, <1>5

(* Answers stay where they are when frames are sent and read.              *)
LEMMA AnswersSent ==
    ASSUME NEW s \in Seq(Frames), NEW f \in Frames, NoAnswer(s)
    PROVE  /\ OneAnswer(s) /\ OneAnswer(Append(s, f))
           /\ IsEvent(f) => NoAnswer(Append(s, f))
  <1>1. \A i \in 1..Len(Append(s, f)) : i \in 1..Len(s) \/ i = Len(s) + 1
    BY Sent
  <1>2. \A i \in 1..Len(Append(s, f)) : ~IsEvent(Append(s, f)[i]) => i = Len(s) + 1
    BY <1>1, Sent DEF NoAnswer
  <1>3. IsEvent(f) => NoAnswer(Append(s, f))
    BY <1>1, Sent DEF NoAnswer
  <1> QED
    BY <1>2, <1>3 DEF OneAnswer, NoAnswer

(* An event sent after an answer leaves it the only one.                   *)
LEMMA EventSent ==
    ASSUME NEW s \in Seq(Frames), NEW f \in Frames, IsEvent(f), OneAnswer(s)
    PROVE  OneAnswer(Append(s, f))
  <1>1. \A i \in 1..Len(Append(s, f)) : ~IsEvent(Append(s, f)[i]) =>
                                            i \in 1..Len(s) /\ ~IsEvent(s[i])
    BY Sent
  <1> QED
    BY <1>1 DEF OneAnswer

(* After the only answer, or before it, the rest.                          *)
LEMMA AnswersReceived ==
    ASSUME NEW s \in Seq(Frames), s # <<>>
    PROVE  /\ NoAnswer(s) => NoAnswer(Tail(s)) /\ IsEvent(Head(s))
           /\ OneAnswer(s) => OneAnswer(Tail(s))
           /\ OneAnswer(s) /\ ~IsEvent(Head(s)) => NoAnswer(Tail(s))
  <1>1. NoAnswer(s) => NoAnswer(Tail(s)) /\ IsEvent(Head(s))
    BY Received DEF NoAnswer
  <1>2. OneAnswer(s) => OneAnswer(Tail(s))
    <2> SUFFICES ASSUME OneAnswer(s), NEW i \in 1..Len(Tail(s)), NEW j \in 1..Len(Tail(s)),
                        ~IsEvent(Tail(s)[i]), ~IsEvent(Tail(s)[j])
                 PROVE  i = j
      BY DEF OneAnswer
    <2>1. i + 1 = j + 1
      BY Received DEF OneAnswer
    <2> QED
      BY <2>1
  <1>3. OneAnswer(s) /\ ~IsEvent(Head(s)) => NoAnswer(Tail(s))
    <2> SUFFICES ASSUME OneAnswer(s), ~IsEvent(Head(s)), NEW i \in 1..Len(Tail(s)),
                        ~IsEvent(Tail(s)[i])
                 PROVE  FALSE
      BY DEF NoAnswer
    <2>1. i + 1 = 1
      BY Received DEF OneAnswer
    <2> QED
      BY <2>1
  <1> QED
    BY <1>1, <1>2, <1>3

-----------------------------------------------------------------------------
(* Sockets.                                                                *)

(* A connection is made.                                                   *)
LEMMA ConnectLink ==
    ASSUME NEW l \in Links
    PROVE  /\ Connect(l) \in Links /\ Connect(l).peer = "open"
           /\ Connect(l).broker = l.broker /\ Connect(l).in = l.in /\ Connect(l).out = l.out
  BY DEF Links, Connect

(* A frame is sent to the broker.                                          *)
LEMMA ToBrokerLink ==
    ASSUME NEW l \in Links, NEW f \in Frames
    PROVE  /\ ToBroker(l, f) \in Links /\ ToBroker(l, f).peer = l.peer
           /\ ToBroker(l, f).broker = l.broker /\ ToBroker(l, f).out = l.out
           /\ ToBroker(l, f).in = Append(l.in, f)
  <1>1. Append(l.in, f) \in Seq(Frames)
    BY Sent DEF Links
  <1> QED
    BY <1>1 DEF Links, ToBroker

(* A frame is sent by the broker.                                          *)
LEMMA FromBrokerLink ==
    ASSUME NEW l \in Links, NEW f \in Frames
    PROVE  /\ FromBroker(l, f) \in Links /\ FromBroker(l, f).peer = l.peer
           /\ FromBroker(l, f).broker = l.broker /\ FromBroker(l, f).in = l.in
           /\ FromBroker(l, f).out = Append(l.out, f)
  <1>1. Append(l.out, f) \in Seq(Frames)
    BY Sent DEF Links
  <1> QED
    BY <1>1 DEF Links, FromBroker

(* The peer's end closes.                                                  *)
LEMMA ClosePeerLink ==
    ASSUME NEW l \in Links
    PROVE  /\ ClosePeer(l) \in Links /\ ClosePeer(l).peer = "closed"
           /\ ClosePeer(l).broker = l.broker /\ ClosePeer(l).in = l.in
           /\ ClosePeer(l).out = <<>>
  BY NothingSent DEF Links, ClosePeer

(* The broker's end closes.                                                *)
LEMMA CloseBrokerLink ==
    ASSUME NEW l \in Links
    PROVE  /\ CloseBroker(l) \in Links /\ CloseBroker(l).peer = l.peer
           /\ CloseBroker(l).broker = "closed" /\ CloseBroker(l).in = <<>>
           /\ CloseBroker(l).out \in {l.out, <<>>}
  <1>1. PICK o \in Seq(Frames) : o = (IF l.peer = "closed" THEN <<>> ELSE l.out)
    BY NothingSent DEF Links
  <1>2. CloseBroker(l) = [l EXCEPT !.broker = "closed", !.in = <<>>, !.out = o]
    BY <1>1 DEF CloseBroker
  <1>3. o \in {l.out, <<>>}
    BY <1>1
  <1> QED
    BY <1>2, <1>3, NothingSent DEF Links

(* The peer reads a frame.                                                 *)
LEMMA ReadLink ==
    ASSUME NEW l \in Links, l.out # <<>>
    PROVE  /\ Read(l) \in Links /\ Read(l).peer = l.peer
           /\ Read(l).broker = l.broker /\ Read(l).in = l.in
           /\ Read(l).out = Tail(l.out) /\ Head(l.out) \in Frames
  <1>1. Tail(l.out) \in Seq(Frames) /\ Head(l.out) \in Frames
    BY Received DEF Links
  <1> QED
    BY <1>1 DEF Links, Read

(* The broker reads a frame.                                               *)
LEMMA TakenLink ==
    ASSUME NEW l \in Links, l.in # <<>>
    PROVE  /\ Taken(l) \in Links /\ Taken(l).peer = l.peer
           /\ Taken(l).broker = l.broker /\ Taken(l).out = l.out
           /\ Taken(l).in = Tail(l.in) /\ Head(l.in) \in Frames
  <1>1. Tail(l.in) \in Seq(Frames) /\ Head(l.in) \in Frames
    BY Received DEF Links
  <1> QED
    BY <1>1 DEF Links, Taken

(* The broker accepts a connection.                                        *)
LEMMA OpenLink ==
    ASSUME NEW l \in Links
    PROVE  /\ [l EXCEPT !.broker = "open"] \in Links
           /\ [l EXCEPT !.broker = "open"].peer = l.peer
           /\ [l EXCEPT !.broker = "open"].broker = "open"
           /\ [l EXCEPT !.broker = "open"].in = l.in
           /\ [l EXCEPT !.broker = "open"].out = l.out
  BY DEF Links

-----------------------------------------------------------------------------
(* Frames.                                                                 *)

(* A frame without a context.                                              *)
LEMMA PlainFrame ==
    ASSUME NEW kind \in Kinds \ {"ready", "acquire"}, NEW route \in MaybeRoute,
           NEW sequence \in Nat
    PROVE  /\ Frame(kind, route, sequence) \in Frames
           /\ Frame(kind, route, sequence).kind = kind
           /\ Frame(kind, route, sequence).route = route
           /\ Frame(kind, route, sequence).sequence = sequence
  <1>1. Frame(kind, route, sequence) \in PlainFrames
    BY DEF Frame, PlainFrames, MaybeContext
  <1> QED
    BY <1>1 DEF Frame, Frames

(* A frame that names its session.                                         *)
LEMMA ContextFrame ==
    ASSUME NEW kind \in Kinds \ {"ready"}, NEW route \in MaybeRoute, NEW sequence \in Nat,
           NEW context \in MaybeContext,
           kind = "acquire" => context \in SessionContexts
    PROVE  /\ InContext(Frame(kind, route, sequence), context) \in Frames
           /\ InContext(Frame(kind, route, sequence), context).kind = kind
           /\ InContext(Frame(kind, route, sequence), context).route = route
           /\ InContext(Frame(kind, route, sequence), context).sequence = sequence
  <1>1. InContext(Frame(kind, route, sequence), context)
            = [kind |-> kind, route |-> route, sequence |-> sequence, context |-> context]
    BY DEF Frame, InContext
  <1>2. InContext(Frame(kind, route, sequence), context) \in PlainFrames
    BY <1>1 DEF PlainFrames
  <1> QED
    BY <1>1, <1>2 DEF Frames

(* The status of the broker.                                               *)
LEMMA StatusFrames ==
    ASSUME NEW h \in Helpers \cup {0}
    PROVE  StatusFrame(h) \in Frames /\ ~IsEvent(StatusFrame(h))
  <1>1. CASE h = 0
    <2>1. Frame("unavailable", None, 2) \in Frames
      BY PlainFrame DEF Kinds, MaybeRoute
    <2> QED
      BY <1>1, <2>1 DEF StatusFrame, IsEvent, Frame
  <1>2. CASE h # 0
    <2>1. ProxyRoute(0, h) \in Routes
      BY <1>2, Limits DEF ProxyRoute, Routes
    <2>2. Frame("ready", ProxyRoute(0, h), 2) \in PlainFrames
      BY <2>1 DEF Frame, PlainFrames, Kinds, MaybeRoute, MaybeContext
    <2>3. Frame("ready", ProxyRoute(0, h), 2) \in Frames
      BY <2>1, <2>2 DEF Frames, Frame
    <2> QED
      BY <1>2, <2>3 DEF StatusFrame, IsEvent, Frame
  <1> QED
    BY <1>1, <1>2

(* What a frame is made of.                                                *)
LEMMA FrameParts ==
    ASSUME NEW f \in Frames
    PROVE  /\ f.kind \in Kinds /\ f.route \in MaybeRoute /\ f.sequence \in Nat
           /\ f.context \in MaybeContext
           /\ f.kind = "ready" => f.route \in Routes
           /\ f.kind = "acquire" => f.context \in SessionContexts
  BY DEF Frames, PlainFrames

-----------------------------------------------------------------------------
(* Queues of events.                                                       *)

(* No events.                                                              *)
LEMMA EmptyQueue ==
    NoEvents \in Queues /\ NoEvents.critical = <<>> /\ NoEvents.fast = <<>>
  BY NothingSent DEF NoEvents, Queues

(* What the next event is, and what is left.                               *)
LEMMA PoppedQueue ==
    ASSUME NEW q \in Queues, HasQueued(q)
    PROVE  /\ PopEvent(q) \in Queues /\ QueuedEvent(q) \in Frames
           /\ \/ /\ q.critical # <<>> /\ QueuedEvent(q) = Head(q.critical)
                 /\ PopEvent(q).critical = Tail(q.critical) /\ PopEvent(q).fast = q.fast
              \/ /\ q.fast # <<>> /\ QueuedEvent(q) = Head(q.fast)
                 /\ PopEvent(q).critical = q.critical /\ PopEvent(q).fast = <<>>
  <1>0. q.critical \in Seq(Frames) /\ q.fast \in Seq(Frames)
    BY DEF Queues
  <1>1. CASE q.critical # <<>>
    <2>1. Tail(q.critical) \in Seq(Frames) /\ Head(q.critical) \in Frames
      BY <1>0, <1>1, Received
    <2> QED
      BY <1>1, <2>1 DEF Queues, PopEvent, QueuedEvent
  <1>2. CASE q.critical = <<>>
    <2>1. q.fast # <<>> /\ Head(q.fast) \in Frames
      BY <1>0, <1>2, Received DEF HasQueued
    <2> QED
      BY <1>2, <2>1, NothingSent DEF Queues, PopEvent, QueuedEvent
  <1> QED
    BY <1>1, <1>2

(* An event is queued.                                                     *)
LEMMA EnqueuedQueue ==
    ASSUME NEW q \in Queues, NEW e \in Frames
    PROVE  /\ EnqueueEvent(q, e) \in Queues
           /\ EnqueueEvent(q, e).critical \in {q.critical, <<>>, Append(q.critical, e)}
           /\ EnqueueEvent(q, e).fast \in {q.fast, <<>>, <<e>>}
  <1>1. Append(q.critical, e) \in Seq(Frames) /\ <<e>> \in Seq(Frames)
    BY Sent DEF Queues
  <1>2. /\ FailQueue(q) \in Queues /\ FailQueue(q).critical = <<>> /\ FailQueue(q).fast = <<>>
    BY EmptyQueue DEF FailQueue, Queues
  <1>3. /\ [q EXCEPT !.critical = Append(@, e)] \in Queues
        /\ [q EXCEPT !.critical = Append(@, e)].critical = Append(q.critical, e)
        /\ [q EXCEPT !.critical = Append(@, e)].fast = q.fast
    BY <1>1 DEF Queues
  <1>4. /\ [q EXCEPT !.fast = <<e>>] \in Queues /\ [q EXCEPT !.fast = <<e>>].fast = <<e>>
        /\ [q EXCEPT !.fast = <<e>>].critical = q.critical
    BY <1>1 DEF Queues
  <1>5. EnqueueEvent(q, e) \in {q, FailQueue(q), [q EXCEPT !.critical = Append(@, e)],
                                [q EXCEPT !.fast = <<e>>]}
    BY DEF EnqueueEvent, PushFast, PushCritical
  <1> QED
    BY <1>2, <1>3, <1>4, <1>5

-----------------------------------------------------------------------------
(* Events that are genuine stay so.                                        *)

\* Helpers only add to what they emitted
Grows(H, G) ==
    \A g \in Helpers :
        /\ Len(H[g].emitted) <= Len(G[g].emitted)
        /\ \A i \in 1..Len(H[g].emitted) : G[g].emitted[i] = H[g].emitted[i]

(* Nothing was emitted.                                                    *)
LEMMA GrowsNot ==
    ASSUME NEW H \in [Helpers -> HelperStates], NEW G \in [Helpers -> HelperStates],
           \A g \in Helpers : G[g].emitted = H[g].emitted
    PROVE  Grows(H, G)
  <1>1. \A g \in Helpers : Len(H[g].emitted) \in Nat
    BY DEF HelperStates
  <1> QED
    BY <1>1 DEF Grows

(* What was emitted stays at its place.                                    *)
LEMMA GenuineKept ==
    ASSUME NEW H \in [Helpers -> HelperStates], NEW G \in [Helpers -> HelperStates],
           Grows(H, G), NEW e, Genuine(H, e)
    PROVE  Genuine(G, e)
  <1>1. PICK g \in Helpers : g = e.route.generation
    BY DEF Genuine
  <1>2. Len(H[g].emitted) \in Nat /\ Len(G[g].emitted) \in Nat
    BY DEF HelperStates
  <1>3. e.sequence \in 1..Len(H[g].emitted) /\ e = H[g].emitted[e.sequence] /\ e.route \in Routes
    BY <1>1 DEF Genuine
  <1>4. PICK n \in Nat, m \in Nat : n = Len(H[g].emitted) /\ m = Len(G[g].emitted)
    BY <1>2
  <1>5. n <= m
    BY <1>4 DEF Grows
  <1>6. e.sequence \in 1..Len(G[g].emitted)
    BY <1>3, <1>4, <1>5
  <1>7. G[g].emitted[e.sequence] = H[g].emitted[e.sequence]
    BY <1>3 DEF Grows
  <1> QED
    BY <1>1, <1>3, <1>6, <1>7 DEF Genuine

(* The same for all events of a sequence.                                  *)
LEMMA GenuineEventsKept ==
    ASSUME NEW H \in [Helpers -> HelperStates], NEW G \in [Helpers -> HelperStates],
           Grows(H, G), NEW s, GenuineEvents(H, s)
    PROVE  GenuineEvents(G, s)
  BY GenuineKept DEF GenuineEvents

(* The same for a queue.                                                   *)
LEMMA QueueKept ==
    ASSUME NEW H \in [Helpers -> HelperStates], NEW G \in [Helpers -> HelperStates],
           Grows(H, G), NEW q, QueueOK(H, q)
    PROVE  QueueOK(G, q)
  BY GenuineEventsKept DEF QueueOK

(* Nothing is genuine.                                                     *)
LEMMA GenuineNothing ==
    ASSUME NEW H
    PROVE  GenuineEvents(H, <<>>) /\ QueueOK(H, NoEvents)
  <1>1. GenuineEvents(H, <<>>)
    BY NothingSent DEF GenuineEvents
  <1> QED
    BY <1>1, NothingSent, EmptyQueue DEF QueueOK

(* A frame is sent after genuine events.                                   *)
LEMMA GenuineSent ==
    ASSUME NEW H, NEW s \in Seq(Frames), NEW f \in Frames, GenuineEvents(H, s),
           IsEvent(f) => Genuine(H, f)
    PROVE  GenuineEvents(H, Append(s, f))
  <1>1. \A i \in 1..Len(Append(s, f)) : i \in 1..Len(s) \/ i = Len(s) + 1
    BY Sent
  <1> QED
    BY <1>1, Sent DEF GenuineEvents

(* The first of genuine events is read.                                    *)
LEMMA GenuineReceived ==
    ASSUME NEW H, NEW s \in Seq(Frames), s # <<>>, GenuineEvents(H, s)
    PROVE  GenuineEvents(H, Tail(s)) /\ (IsEvent(Head(s)) => Genuine(H, Head(s)))
  <1>1. 1 \in 1..Len(s)
    BY Received
  <1> QED
    BY <1>1, Received DEF GenuineEvents

(* The next event of a queue.                                              *)
LEMMA GenuinePopped ==
    ASSUME NEW H, NEW q \in Queues, HasQueued(q), QueueOK(H, q)
    PROVE  /\ QueueOK(H, PopEvent(q)) /\ IsEvent(QueuedEvent(q)) /\ Genuine(H, QueuedEvent(q))
  <1>0. q.critical \in Seq(Frames) /\ q.fast \in Seq(Frames)
    BY DEF Queues
  <1>1. CASE /\ q.critical # <<>> /\ QueuedEvent(q) = Head(q.critical)
             /\ PopEvent(q).critical = Tail(q.critical) /\ PopEvent(q).fast = q.fast
    <2>1. /\ NoAnswer(Tail(q.critical)) /\ IsEvent(Head(q.critical))
          /\ GenuineEvents(H, Tail(q.critical)) /\ Genuine(H, Head(q.critical))
      BY <1>0, <1>1, AnswersReceived, GenuineReceived DEF QueueOK
    <2> QED
      BY <1>1, <2>1 DEF QueueOK
  <1>2. CASE /\ q.fast # <<>> /\ QueuedEvent(q) = Head(q.fast)
             /\ PopEvent(q).critical = q.critical /\ PopEvent(q).fast = <<>>
    <2>1. IsEvent(Head(q.fast)) /\ Genuine(H, Head(q.fast))
      BY <1>0, <1>2, AnswersReceived, GenuineReceived DEF QueueOK
    <2> QED
      BY <1>2, <2>1, NothingSent, GenuineNothing DEF QueueOK
  <1> QED
    BY <1>1, <1>2, PoppedQueue

(* An event joins a queue.                                                 *)
LEMMA GenuineEnqueued ==
    ASSUME NEW H, NEW q \in Queues, NEW e \in Frames, QueueOK(H, q), IsEvent(e), Genuine(H, e)
    PROVE  QueueOK(H, EnqueueEvent(q, e))
  <1>0. q.critical \in Seq(Frames) /\ q.fast \in Seq(Frames)
    BY DEF Queues
  <1>1. NoAnswer(Append(q.critical, e)) /\ GenuineEvents(H, Append(q.critical, e))
    BY <1>0, AnswersSent, GenuineSent DEF QueueOK
  <1>2. NoAnswer(<<e>>) /\ GenuineEvents(H, <<e>>)
    <2>1. Append(<<>>, e) = <<e>>
      BY Sent, NothingSent
    <2>2. NoAnswer(Append(<<>>, e)) /\ GenuineEvents(H, Append(<<>>, e))
      BY NothingSent, AnswersSent, GenuineSent, GenuineNothing
    <2> QED
      BY <2>1, <2>2
  <1>3. PICK c \in {q.critical, <<>>, Append(q.critical, e)}, f \in {q.fast, <<>>, <<e>>} :
            EnqueueEvent(q, e).critical = c /\ EnqueueEvent(q, e).fast = f
    BY EnqueuedQueue
  <1>4. NoAnswer(c) /\ GenuineEvents(H, c)
    BY <1>1, NothingSent, GenuineNothing DEF QueueOK
  <1>5. NoAnswer(f) /\ GenuineEvents(H, f)
    BY <1>2, NothingSent, GenuineNothing DEF QueueOK
  <1> QED
    BY <1>3, <1>4, <1>5 DEF QueueOK

-----------------------------------------------------------------------------
(* A step of a Helper: what it must keep.                                  *)

HelperMoves(h, x, l) ==
    /\ helper' = [helper EXCEPT ![h] = x] /\ helperLink' = [helperLink EXCEPT ![h] = l]
    /\ UNCHANGED <<host, broker, hostLink, clock>>
\* either nothing is emitted, or an event that goes to the broker
Emits(h, x, l) ==
    \E e \in Frames :
        /\ x.emitted = Append(helper[h].emitted, e) /\ l.in = Append(helperLink[h].in, e)
        /\ e.route \in Routes /\ e.route.generation = h
        /\ e.sequence = Len(helper[h].emitted) + 1
HelperOutcome(h, x, l) ==
    /\ x \in HelperStates /\ l \in Links /\ (x.phase = "showing" => x.request \in Frames)
    /\ HelperOK(broker, h, x, l) /\ RouteOK(h, x, l)
    /\ (x.emitted = helper[h].emitted /\ GenuineEvents(helper, l.in)) \/ Emits(h, x, l)

(* An emitted event is genuine.                                            *)
LEMMA EmittedGenuine ==
    ASSUME TypeInv, EventInv, NEW h \in Helpers, NEW x \in HelperStates, NEW l \in Links,
           helper' = [helper EXCEPT ![h] = x],
           (x.emitted = helper[h].emitted /\ GenuineEvents(helper, l.in)) \/ Emits(h, x, l)
    PROVE  Grows(helper, helper') /\ GenuineEvents(helper', l.in)
  <1>0. /\ helper \in [Helpers -> HelperStates] /\ helper' \in [Helpers -> HelperStates]
        /\ helperLink[h].in \in Seq(Frames) /\ helper'[h] = x
        /\ \A g \in Helpers \ {h} : helper'[g] = helper[g]
    BY DEF TypeInv, Links
  <1>1. PICK H \in [Helpers -> HelperStates], G \in [Helpers -> HelperStates],
             old \in Seq(Frames), was \in Seq(Frames) :
             H = helper /\ G = helper' /\ old = helper[h].emitted /\ was = helperLink[h].in
    BY <1>0 DEF HelperStates
  <1>2. GenuineEvents(H, was)
    BY <1>1 DEF EventInv
  <1>3. CASE x.emitted = helper[h].emitted /\ GenuineEvents(helper, l.in)
    <2>1. \A g \in Helpers : G[g].emitted = H[g].emitted
      BY <1>0, <1>1, <1>3
    <2>2. Grows(H, G)
      BY <2>1, GrowsNot
    <2>3. PICK s : s = l.in
      OBVIOUS
    <2>4. GenuineEvents(H, s)
      BY <1>1, <1>3, <2>3
    <2>5. GenuineEvents(G, s)
      BY <2>2, <2>4, GenuineEventsKept
    <2> QED
      BY <1>1, <2>2, <2>3, <2>5
  <1>4. CASE Emits(h, x, l)
    <2>1. PICK e \in Frames : /\ x.emitted = Append(old, e) /\ l.in = Append(was, e)
                              /\ e.route \in Routes /\ e.route.generation = h
                              /\ e.sequence = Len(old) + 1
      BY <1>1, <1>4 DEF Emits
    <2>2. G[h].emitted = Append(old, e) /\ H[h].emitted = old
      BY <1>0, <1>1, <2>1
    <2>3. PICK n \in Nat : n = Len(old)
      OBVIOUS
    <2>4. /\ Len(Append(old, e)) = n + 1 /\ Append(old, e)[n + 1] = e
          /\ \A i \in 1..Len(old) : Append(old, e)[i] = old[i]
      BY <2>3, Sent
    <2>5. Grows(H, G)
      <3> SUFFICES ASSUME NEW g \in Helpers
                   PROVE  /\ Len(H[g].emitted) <= Len(G[g].emitted)
                          /\ \A i \in 1..Len(H[g].emitted) : G[g].emitted[i] = H[g].emitted[i]
        BY DEF Grows
      <3>1. CASE g = h
        <4>1. H[g].emitted = old /\ G[g].emitted = Append(old, e)
          BY <2>2, <3>1
        <4>2. Len(H[g].emitted) = n /\ Len(G[g].emitted) = n + 1
          BY <2>3, <2>4, <4>1
        <4>3. \A i \in 1..Len(H[g].emitted) : G[g].emitted[i] = H[g].emitted[i]
          BY <2>4, <4>1
        <4> QED
          BY <4>2, <4>3
      <3>2. CASE g # h
        <4>1. Len(H[g].emitted) \in Nat
          BY DEF HelperStates
        <4> QED
          BY <1>0, <1>1, <3>2, <4>1
      <3> QED
        BY <3>1, <3>2
    <2>6. Genuine(G, e)
      <3>1. n + 1 \in 1..(n + 1)
        OBVIOUS
      <3> QED
        BY <2>1, <2>2, <2>3, <2>4, <3>1 DEF Genuine
    <2>7. GenuineEvents(G, was)
      BY <1>2, <2>5, GenuineEventsKept
    <2>8. GenuineEvents(G, Append(was, e))
      BY <2>6, <2>7, GenuineSent
    <2> QED
      BY <1>1, <2>1, <2>5, <2>8
  <1> QED
    BY <1>3, <1>4

(* Nothing between Host and broker changes.                                *)
LEMMA CallsStay ==
    ASSUME CallInv, CadenceInv, UNCHANGED <<host, broker, hostLink, clock>>
    PROVE  CallInv' /\ CadenceInv'
  BY DEF CallInv, CadenceInv, FreshLinks, Connected, HostSide, Link

(* What was emitted before stays genuine everywhere else.                  *)
LEMMA EventsElsewhere ==
    ASSUME TypeInv, EventInv, helper' \in [Helpers -> HelperStates], Grows(helper, helper'),
           UNCHANGED <<host, broker, hostLink>>
    PROVE  /\ LeaseRouteOK(broker)' /\ DeliveredOK(host)'
           /\ QueueOK(helper, broker.queue)' /\ QueueOK(helper, host.queue)'
           /\ GenuineEvents(helper, host.delivered)'
           /\ \A c \in Conns : GenuineEvents(helper, hostLink[c].out)'
           /\ \A g \in Helpers : GenuineEvents(helper', helperLink[g].in)
  <1>1. PICK H \in [Helpers -> HelperStates], G \in [Helpers -> HelperStates] :
             H = helper /\ G = helper'
    BY DEF TypeInv
  <1>2. \A s : GenuineEvents(H, s) => GenuineEvents(G, s)
    BY <1>1, GenuineEventsKept
  <1>3. \A q : QueueOK(H, q) => QueueOK(G, q)
    BY <1>1, QueueKept
  <1> QED
    BY <1>1, <1>2, <1>3 DEF EventInv

(* A step of a Helper with such an outcome keeps the invariant.            *)
LEMMA HelperTurn ==
    ASSUME BridgeInv, NEW h \in Helpers, NEW x, NEW l, HelperMoves(h, x, l),
           HelperOutcome(h, x, l)
    PROVE  BridgeInv'
  <1>0. /\ x \in HelperStates /\ l \in Links
        /\ helper \in [Helpers -> HelperStates] /\ helperLink \in [Helpers -> Links]
        /\ helper' = [helper EXCEPT ![h] = x] /\ helperLink' = [helperLink EXCEPT ![h] = l]
        /\ UNCHANGED <<host, broker, hostLink, clock>>
    BY DEF BridgeInv, TypeInv, HelperMoves, HelperOutcome
  <1>1. /\ helper' \in [Helpers -> HelperStates] /\ helperLink' \in [Helpers -> Links]
        /\ helper'[h] = x /\ helperLink'[h] = l
        /\ \A g \in Helpers \ {h} : helper'[g] = helper[g] /\ helperLink'[g] = helperLink[g]
    BY <1>0
  <1>2. TypeInv'
    <2>1. \A g \in Helpers : helper'[g].phase = "showing" => helper'[g].request \in Frames
      BY <1>1 DEF BridgeInv, TypeInv, HelperOutcome
    <2> QED
      BY <1>0, <1>1, <2>1 DEF BridgeInv, TypeInv, Connected, Serving
  <1>3. HelperInv'
    <2> SUFFICES ASSUME NEW g \in Helpers
                 PROVE  HelperOK(broker, g, helper'[g], helperLink'[g])
      BY <1>0 DEF HelperInv
    <2> QED
      BY <1>1 DEF BridgeInv, HelperInv, HelperOutcome
  <1>4. Grows(helper, helper') /\ GenuineEvents(helper', l.in)
    BY <1>0, EmittedGenuine DEF BridgeInv, HelperOutcome
  <1>5. EventInv'
    <2>1. \A g \in Helpers : /\ RouteOK(g, helper'[g], helperLink'[g])
                             /\ GenuineEvents(helper', helperLink'[g].in)
      BY <1>0, <1>1, <1>4, EventsElsewhere DEF BridgeInv, EventInv, HelperOutcome
    <2> QED
      BY <1>0, <1>1, <1>4, <2>1, EventsElsewhere DEF BridgeInv, EventInv
  <1> QED
    BY <1>0, <1>2, <1>3, <1>5, CallsStay DEF BridgeInv

-----------------------------------------------------------------------------
(* The steps of a Helper.                                                  *)

(* What is known of a Helper.                                              *)
LEMMA HelperFacts ==
    ASSUME BridgeInv, NEW h \in Helpers
    PROVE  /\ helper[h] \in HelperStates /\ helperLink[h] \in Links
           /\ HelperOK(broker, h, helper[h], helperLink[h])
           /\ RouteOK(h, helper[h], helperLink[h])
           /\ GenuineEvents(helper, helperLink[h].in)
           /\ helper[h].phase = "showing" => helper[h].request \in Frames
           /\ helper \in [Helpers -> HelperStates] /\ helperLink \in [Helpers -> Links]
  BY DEF BridgeInv, TypeInv, HelperInv, EventInv

(* The Helper's process ends.                                              *)
LEMMA HelperEndsKeeps ==
    ASSUME BridgeInv, NEW h \in Helpers, HelperEnds(h), UNCHANGED <<host, broker, hostLink, clock>>
    PROVE  BridgeInv'
  <1>1. PICK X \in HelperStates, L \in Links : X = helper[h] /\ L = helperLink[h]
    BY HelperFacts
  <1>2. PICK x : x = [NoHelper EXCEPT !.phase = "dead", !.emitted = X.emitted]
    OBVIOUS
  <1>3. PICK l : l = ClosePeer(L)
    OBVIOUS
  <1>4. HelperMoves(h, x, l)
    BY <1>1, <1>2, <1>3 DEF HelperEnds, HelperMoves
  <1>5. /\ x \in HelperStates /\ x.phase = "dead" /\ x.gate = None /\ x.peer = FALSE
        /\ x.emitted = X.emitted
    BY <1>2, Limits DEF HelperStates, NoHelper, MaybeRoute
  <1>6. l \in Links /\ l.peer = "closed" /\ l.broker = L.broker /\ l.in = L.in /\ l.out = <<>>
    BY <1>3, ClosePeerLink
  <1>7. HelperOK(broker, h, x, l)
    <2>1. HelperOK(broker, h, X, L)
      BY <1>1, HelperFacts
    <2>2. NoAnswer(L.in) => OneAnswer(L.in)
      BY DEF NoAnswer, OneAnswer
    <2> QED
      BY <1>5, <1>6, <2>1, <2>2 DEF HelperOK, Untouched, Quiet, InExchange
  <1>8. RouteOK(h, x, l)
    BY <1>5, <1>6, NothingSent DEF RouteOK
  <1>9. HelperOutcome(h, x, l)
    BY <1>1, <1>5, <1>6, <1>7, <1>8, HelperFacts DEF HelperOutcome
  <1> QED
    BY <1>4, <1>9, HelperTurn

(* A Helper connects.                                                      *)
LEMMA HelperStartKeeps ==
    ASSUME BridgeInv, NEW h \in Helpers, NEW k \in Credentials, HelperStart(h, k)
    PROVE  BridgeInv'
  <1>1. PICK X \in HelperStates, L \in Links : X = helper[h] /\ L = helperLink[h]
    BY HelperFacts
  <1>2. PICK x : x = [X EXCEPT !.phase = "connecting", !.credentials = k]
    OBVIOUS
  <1>3. PICK l : l = Connect(L)
    OBVIOUS
  <1>4. HelperMoves(h, x, l)
    BY <1>1, <1>2, <1>3, HelperFacts DEF HelperStart, HelperMoves, HelperStates
  <1>5. /\ x \in HelperStates /\ x.phase = "connecting" /\ x.gate = X.gate /\ x.peer = X.peer
        /\ x.emitted = X.emitted
    BY <1>2 DEF HelperStates
  <1>6. l \in Links /\ l.peer = "open" /\ l.broker = L.broker /\ l.in = L.in /\ l.out = L.out
    BY <1>3, ConnectLink
  <1>7. HelperOK(broker, h, x, l)
    <2>1. HelperOK(broker, h, X, L) /\ X.phase = "unborn"
      BY <1>1, HelperFacts DEF HelperStart
    <2> QED
      BY <1>5, <1>6, <2>1 DEF HelperOK, Untouched, Quiet, InExchange
  <1>8. RouteOK(h, x, l)
    BY <1>1, <1>5, <1>6, HelperFacts DEF RouteOK
  <1>9. HelperOutcome(h, x, l)
    BY <1>1, <1>5, <1>6, <1>7, <1>8, HelperFacts DEF HelperOutcome
  <1> QED
    BY <1>4, <1>9, HelperTurn

(* The Helper answers with a frame that is no event.                       *)
LEMMA Response ==
    ASSUME NEW kind \in {"accepted", "answer"}, NEW r \in Frames
    PROVE  /\ Frame(kind, r.route, r.sequence) \in Frames
           /\ ~IsEvent(Frame(kind, r.route, r.sequence))
  BY PlainFrame, FrameParts DEF Kinds, IsEvent

(* The end of start and restart.                                           *)
LEMMA HelperShowKeeps ==
    ASSUME BridgeInv, NEW h \in Helpers, HelperShow(h)
    PROVE  BridgeInv'
  <1>1. PICK X \in HelperStates, L \in Links : X = helper[h] /\ L = helperLink[h]
    BY HelperFacts
  <1>2. CASE L.broker = "closed"
    BY <1>1, <1>2, HelperEndsKeeps DEF HelperShow
  <1>3. CASE L.broker # "closed"
    <2>1. X.phase = "showing" /\ X.request \in Frames
      BY <1>1, HelperFacts DEF HelperShow
    <2>2. PICK f \in Frames : f = Frame("answer", X.request.route, X.request.sequence) /\ ~IsEvent(f)
      BY <2>1, Response
    <2>3. PICK x : x = [X EXCEPT !.phase = "serving", !.request = None]
      OBVIOUS
    <2>4. PICK l : l = ToBroker(L, f)
      OBVIOUS
    <2>5. HelperMoves(h, x, l)
      BY <1>1, <1>3, <2>2, <2>3, <2>4 DEF HelperShow, HelperMoves, Respond
    <2>6. /\ x \in HelperStates /\ x.phase = "serving" /\ x.gate = X.gate /\ x.peer = X.peer
          /\ x.emitted = X.emitted
      BY <2>3 DEF HelperStates
    <2>7. /\ l \in Links /\ l.peer = L.peer /\ l.broker = L.broker /\ l.in = Append(L.in, f)
          /\ l.out = L.out /\ L.in \in Seq(Frames)
      BY <2>4, ToBrokerLink DEF Links
    <2>8. HelperOK(broker, h, x, l)
      <3>1. HelperOK(broker, h, X, L)
        BY <1>1, HelperFacts
      <3>2. NoAnswer(L.in) => OneAnswer(Append(L.in, f))
        BY <2>7, AnswersSent
      <3> QED
        BY <1>3, <2>1, <2>6, <2>7, <3>1, <3>2 DEF HelperOK, Untouched, Quiet, InExchange
    <2>9. RouteOK(h, x, l)
      BY <1>1, <2>6, <2>7, HelperFacts DEF RouteOK
    <2>10. GenuineEvents(helper, l.in)
      <3>1. PICK H : H = helper
        OBVIOUS
      <3>2. GenuineEvents(H, Append(L.in, f))
        BY <1>1, <2>2, <2>7, <3>1, HelperFacts, GenuineSent
      <3> QED
        BY <2>7, <3>1, <3>2
    <2>11. HelperOutcome(h, x, l)
      BY <1>1, <2>6, <2>7, <2>8, <2>9, <2>10 DEF HelperOutcome
    <2> QED
      BY <2>5, <2>11, HelperTurn
  <1> QED
    BY <1>2, <1>3

(* The request a Helper reads is the one of the exchange, if the broker    *)
(* still waits for it.                                                     *)
LEMMA ReadRequest ==
    ASSUME BridgeInv, NEW h \in Helpers, helper[h].phase = "serving", helperLink[h].out # <<>>
    PROVE  /\ Head(helperLink[h].out) \in Frames
           /\ helperLink[h].peer # "unused"
           /\ Head(helperLink[h].out).kind \in {"start", "restart"} =>
                  /\ Head(helperLink[h].out).route \in Routes
                  /\ Head(helperLink[h].out).route.generation = h
           /\ RouteOK(h, helper[h], Read(helperLink[h]))
           /\ helperLink[h].broker # "closed" =>
                  /\ InService(broker, h) /\ broker.phase = "exchanging"
                  /\ broker.request = Head(helperLink[h].out)
                  /\ Tail(helperLink[h].out) = <<>> /\ NoAnswer(helperLink[h].in)
  <1>1. PICK X \in HelperStates, L \in Links : X = helper[h] /\ L = helperLink[h]
    BY HelperFacts
  <1>2. /\ HelperOK(broker, h, X, L) /\ RouteOK(h, X, L) /\ L.out # <<>> /\ X.phase = "serving"
        /\ L.out \in Seq(Frames)
    BY <1>1, HelperFacts DEF Links
  <1>3. Head(L.out) \in Frames /\ Head(L.out) = L.out[1] /\ 1 \in 1..Len(L.out)
    BY <1>2, Received
  <1>4. L.peer # "unused"
    BY <1>2 DEF HelperOK, Untouched
  <1>5. Head(L.out).kind \in {"start", "restart"} =>
            Head(L.out).route \in Routes /\ Head(L.out).route.generation = h
    BY <1>2, <1>3 DEF RouteOK
  <1>6. RouteOK(h, X, Read(L))
    <2>1. Read(L).out = Tail(L.out)
      BY <1>2, ReadLink
    <2>2. \A i \in 1..Len(Tail(L.out)) : i + 1 \in 1..Len(L.out) /\ Tail(L.out)[i] = L.out[i + 1]
      BY <1>2, Received
    <2> QED
      BY <1>2, <2>1, <2>2 DEF RouteOK
  <1>7. ASSUME L.broker # "closed"
        PROVE  /\ InService(broker, h) /\ broker.phase = "exchanging"
               /\ broker.request = Head(L.out) /\ Tail(L.out) = <<>> /\ NoAnswer(L.in)
    <2>1. InService(broker, h) /\ broker.phase = "exchanging"
      BY <1>2, <1>7 DEF HelperOK, Untouched, Quiet, InService
    <2>2. L.out = <<broker.request>> /\ NoAnswer(L.in)
      BY <1>2, <1>7, <2>1 DEF HelperOK, InExchange
    <2> QED
      BY <2>1, <2>2
  <1> QED
    BY <1>1, <1>3, <1>4, <1>5, <1>6, <1>7

(* The native peer is made or restarted.                                   *)
LEMMA CreatePeerKeeps ==
    ASSUME BridgeInv, NEW h \in Helpers, helper[h].phase = "serving", helperLink[h].out # <<>>,
           Head(helperLink[h].out).kind \in {"start", "restart"},
           CreatePeer(h, Head(helperLink[h].out), Read(helperLink[h])),
           UNCHANGED <<host, broker, hostLink, clock>>
    PROVE  BridgeInv'
  <1>1. PICK X \in HelperStates, L \in Links : X = helper[h] /\ L = helperLink[h]
    BY HelperFacts
  <1>2. PICK r \in Frames : r = Head(L.out)
    BY <1>1, ReadRequest
  <1>3. PICK x : x = [X EXCEPT !.phase = "showing", !.gate = r.route, !.peer = TRUE, !.request = r]
    OBVIOUS
  <1>4. PICK l : l = Read(L)
    OBVIOUS
  <1>5. HelperMoves(h, x, l)
    BY <1>1, <1>2, <1>3, <1>4 DEF CreatePeer, HelperMoves
  <1>6. r.route \in Routes /\ r.route.generation = h /\ r.kind \in {"start", "restart"}
    BY <1>1, <1>2, ReadRequest
  <1>7. /\ x \in HelperStates /\ x.phase = "showing" /\ x.gate = r.route /\ x.request = r
        /\ x.emitted = X.emitted
    BY <1>3, <1>6 DEF HelperStates, MaybeRoute
  <1>8. /\ l \in Links /\ l.peer = L.peer /\ l.broker = L.broker /\ l.in = L.in
        /\ l.out = Tail(L.out)
    BY <1>1, <1>4, ReadLink
  <1>9. HelperOK(broker, h, x, l)
    <2>1. l.peer # "unused"
      BY <1>1, <1>8, ReadRequest
    <2>2. CASE L.broker = "closed"
      BY <1>8, <2>1, <2>2 DEF HelperOK
    <2>3. CASE L.broker # "closed"
      <3>1. /\ InService(broker, h) /\ broker.phase = "exchanging" /\ broker.request = r
            /\ Tail(L.out) = <<>> /\ NoAnswer(L.in)
        BY <1>1, <1>2, <2>3, ReadRequest
      <3>2. Refers(broker.leases, r.route)
        <4>1. HelperOK(broker, h, X, L)
          BY <1>1, HelperFacts
        <4> QED
          BY <1>6, <2>3, <3>1, <4>1 DEF HelperOK, InExchange
      <3>3. OneAnswer(L.in)
        BY <3>1 DEF NoAnswer, OneAnswer
      <3> QED
        BY <1>6, <1>7, <1>8, <2>1, <3>1, <3>2, <3>3 DEF HelperOK, InExchange
    <2> QED
      BY <2>2, <2>3
  <1>10. RouteOK(h, x, l)
    BY <1>1, <1>4, <1>6, <1>7, ReadRequest DEF RouteOK
  <1>11. HelperOutcome(h, x, l)
    BY <1>1, <1>7, <1>8, <1>9, <1>10, HelperFacts DEF HelperOutcome
  <1> QED
    BY <1>5, <1>11, HelperTurn

(* A request is accepted: the peer stays as it is or is closed.            *)
LEMMA AcceptedKeeps ==
    ASSUME BridgeInv, NEW h \in Helpers, helper[h].phase = "serving", helperLink[h].out # <<>>,
           helperLink[h].broker # "closed", NEW x \in HelperStates,
           x.phase = "serving", x.emitted = helper[h].emitted,
           x.gate \in {helper[h].gate, None},
           x.peer => helper[h].peer /\ x.gate = helper[h].gate,
           Head(helperLink[h].out).kind = "release" => x.peer = FALSE,
           helper' = [helper EXCEPT ![h] = x],
           Respond(h, "accepted", Head(helperLink[h].out), Read(helperLink[h])),
           UNCHANGED <<host, broker, hostLink, clock>>
    PROVE  BridgeInv'
  <1>1. PICK X \in HelperStates, L \in Links : X = helper[h] /\ L = helperLink[h]
    BY HelperFacts
  <1>2. PICK r \in Frames : r = Head(L.out)
    BY <1>1, ReadRequest
  <1>3. PICK f \in Frames : f = Frame("accepted", r.route, r.sequence) /\ ~IsEvent(f)
    BY Response
  <1>4. PICK m \in Links : m = Read(L)
    BY <1>1, ReadLink
  <1>5. PICK l : l = ToBroker(m, f)
    OBVIOUS
  <1>6. HelperMoves(h, x, l)
    BY <1>1, <1>2, <1>3, <1>4, <1>5 DEF Respond, HelperMoves
  <1>7. /\ InService(broker, h) /\ broker.phase = "exchanging" /\ broker.request = r
        /\ Tail(L.out) = <<>> /\ NoAnswer(L.in) /\ L.peer # "unused"
    BY <1>1, <1>2, ReadRequest
  <1>8. /\ l \in Links /\ l.peer = L.peer /\ l.broker = L.broker /\ l.in = Append(L.in, f)
        /\ l.out = <<>> /\ L.in \in Seq(Frames)
    <2>1. m.peer = L.peer /\ m.broker = L.broker /\ m.in = L.in /\ m.out = <<>>
      BY <1>1, <1>4, <1>7, ReadLink
    <2>2. /\ l \in Links /\ l.peer = m.peer /\ l.broker = m.broker /\ l.in = Append(m.in, f)
          /\ l.out = m.out
      BY <1>5, ToBrokerLink
    <2>3. L.in \in Seq(Frames)
      BY DEF Links
    <2> QED
      BY <2>1, <2>2, <2>3
  <1>9. HelperOK(broker, h, x, l)
    <2>1. HelperOK(broker, h, X, L) /\ L.broker # "closed"
      BY <1>1, HelperFacts
    <2>2. X.peer => Refers(broker.leases, X.gate)
      BY <1>7, <2>1 DEF HelperOK
    <2>3. x.peer => Refers(broker.leases, x.gate)
      BY <1>1, <2>2
    <2>4. r.kind \in {"start", "restart"} => Refers(broker.leases, r.route)
      BY <1>7, <2>1 DEF HelperOK, InExchange
    <2>5. OneAnswer(Append(L.in, f))
      BY <1>7, <1>8, AnswersSent
    <2>6. r.kind = "release" => ~x.peer
      BY <1>1, <1>2
    <2>7. InExchange(broker, x, l)
      BY <1>7, <1>8, <2>4, <2>5, <2>6 DEF InExchange
    <2> QED
      BY <1>7, <1>8, <2>3, <2>7 DEF HelperOK
  <1>10. RouteOK(h, x, l)
    <2>1. RouteOK(h, X, L)
      BY <1>1, HelperFacts
    <2> QED
      BY <1>1, <1>8, <2>1, NothingSent DEF RouteOK
  <1>11. GenuineEvents(helper, l.in)
    <2>1. PICK H : H = helper
      OBVIOUS
    <2>2. GenuineEvents(H, Append(L.in, f))
      BY <1>1, <1>3, <1>8, <2>1, HelperFacts, GenuineSent
    <2> QED
      BY <1>8, <2>1, <2>2
  <1>12. HelperOutcome(h, x, l)
    BY <1>8, <1>9, <1>10, <1>11 DEF HelperOutcome
  <1> QED
    BY <1>6, <1>12, HelperTurn

(* A Helper handles a request.                                             *)
LEMMA HelperReceiveKeeps ==
    ASSUME BridgeInv, NEW h \in Helpers, HelperReceive(h)
    PROVE  BridgeInv'
  <1>0. /\ helper[h].phase = "serving" /\ helperLink[h].out # <<>>
        /\ UNCHANGED <<host, broker, hostLink, clock>> /\ helper[h] \in HelperStates
        /\ helper \in [Helpers -> HelperStates] /\ helperLink[h] \in Links
    BY HelperFacts DEF HelperReceive
  <1>1. PICK r \in Frames : r = Head(helperLink[h].out)
    BY <1>0, ReadRequest
  <1>2. CASE HelperEnds(h)
    BY <1>0, <1>2, HelperEndsKeeps
  <1>3. CASE r.kind \in {"start", "restart"} /\ CreatePeer(h, r, Read(helperLink[h]))
    BY <1>0, <1>1, <1>3, CreatePeerKeeps
  <1>4. CASE /\ Read(helperLink[h]).broker # "closed" /\ r.kind \in {"close", "release"}
             /\ helper' = [BackendClosed(h) EXCEPT ![h].gate = IF r.kind = "release" THEN None ELSE @]
             /\ Respond(h, "accepted", r, Read(helperLink[h]))
    <2>1. PICK X \in HelperStates : X = helper[h]
      BY <1>0
    <2>2. PICK g \in {X.gate, None} : g = (IF r.kind = "release" THEN None ELSE X.gate)
      OBVIOUS
    <2>3. PICK x : x = [X EXCEPT !.peer = FALSE, !.gate = g]
      OBVIOUS
    <2>4. /\ x \in HelperStates /\ x.phase = X.phase /\ x.emitted = X.emitted /\ x.gate = g
          /\ x.peer = FALSE
      BY <2>2, <2>3 DEF HelperStates, MaybeRoute
    <2>5. helper' = [helper EXCEPT ![h] = x]
      <3>1. helper' = [[helper EXCEPT ![h].peer = FALSE] EXCEPT ![h].gate = g]
        BY <1>0, <1>4, <2>1, <2>2 DEF BackendClosed, HelperStates
      <3> QED
        BY <1>0, <2>1, <2>3, <3>1 DEF HelperStates
    <2>6. helperLink[h].broker # "closed"
      BY <1>0, <1>4, ReadLink
    <2>7. x.peer => helper[h].peer /\ x.gate = helper[h].gate
      BY <2>4
    <2>8. /\ x.phase = "serving" /\ x.emitted = helper[h].emitted /\ x.gate \in {helper[h].gate, None}
          /\ Head(helperLink[h].out).kind = "release" => x.peer = FALSE
      BY <1>0, <2>1, <2>4
    <2>9. Respond(h, "accepted", Head(helperLink[h].out), Read(helperLink[h]))
      BY <1>1, <1>4
    <2> QED
      BY <1>0, <2>4, <2>5, <2>6, <2>7, <2>8, <2>9, AcceptedKeeps
  <1>5. CASE /\ Read(helperLink[h]).broker # "closed" /\ r.kind \notin {"close", "release"}
             /\ Respond(h, "accepted", r, Read(helperLink[h])) /\ UNCHANGED helper
    <2>1. helper' = [helper EXCEPT ![h] = helper[h]]
      BY <1>0, <1>5
    <2>2. PICK x \in HelperStates : x = helper[h]
      BY <1>0
    <2>3. helperLink[h].broker # "closed"
      BY <1>0, <1>5, ReadLink
    <2>4. /\ x.phase = "serving" /\ x.emitted = helper[h].emitted /\ x.gate \in {helper[h].gate, None}
          /\ helper' = [helper EXCEPT ![h] = x]
      BY <1>0, <2>1, <2>2
    <2>5. x.peer => helper[h].peer /\ x.gate = helper[h].gate
      BY <2>2
    <2>6. Head(helperLink[h].out).kind = "release" => x.peer = FALSE
      BY <1>1, <1>5
    <2> QED
      BY <1>0, <1>1, <1>5, <2>3, <2>4, <2>5, <2>6, AcceptedKeeps
  <1> QED
    BY <1>1, <1>2, <1>3, <1>4, <1>5 DEF HelperReceive

(* The event a Helper sends is a frame of its route.                       *)
LEMMA EventFrames ==
    ASSUME BridgeInv, NEW h \in Helpers, NEW kind \in {"critical", "fast", "stop"},
           helper[h].gate # None
    PROVE  /\ EventFrame(h, kind) \in Frames /\ IsEvent(EventFrame(h, kind))
           /\ EventFrame(h, kind).route = helper[h].gate /\ helper[h].gate \in Routes
           /\ helper[h].gate.generation = h
           /\ EventFrame(h, kind).sequence = Len(helper[h].emitted) + 1
  <1>1. helper[h].gate \in Routes /\ helper[h].emitted \in Seq(Frames)
    BY HelperFacts DEF HelperStates, MaybeRoute
  <1>2. helper[h].gate.generation = h
    BY HelperFacts DEF RouteOK
  <1>3. PICK n \in Nat : n = Len(helper[h].emitted) + 1
    BY <1>1
  <1>4. PICK g \in Routes : g = helper[h].gate
    BY <1>1
  <1>5. EventFrame(h, kind) = Frame(kind, g, n)
    BY <1>3, <1>4 DEF EventFrame
  <1>6. /\ Frame(kind, g, n) \in Frames /\ Frame(kind, g, n).kind = kind
        /\ Frame(kind, g, n).route = g /\ Frame(kind, g, n).sequence = n
    <2>1. kind \in Kinds \ {"ready", "acquire"} /\ g \in MaybeRoute
      BY DEF Kinds, MaybeRoute
    <2> QED
      BY <2>1, PlainFrame
  <1> QED
    BY <1>1, <1>2, <1>3, <1>4, <1>5, <1>6 DEF IsEvent

(* A Helper sends an event.                                                *)
LEMMA SendEventKeeps ==
    ASSUME BridgeInv, NEW h \in Helpers, NEW kind \in {"critical", "fast", "stop"}, NEW y \in BOOLEAN,
           helper[h].phase = "serving", y => helper[h].peer,
           SendEvent(h, kind, [helper EXCEPT ![h].peer = y]),
           UNCHANGED <<host, broker, hostLink, clock>>
    PROVE  BridgeInv'
  <1>1. PICK X \in HelperStates, L \in Links : X = helper[h] /\ L = helperLink[h]
    BY HelperFacts
  <1>2. CASE X.gate = None \/ L.broker = "closed"
    BY <1>1, <1>2, HelperEndsKeeps DEF SendEvent
  <1>3. CASE X.gate # None /\ L.broker # "closed"
    <2>1. PICK e \in Frames : /\ e = EventFrame(h, kind) /\ IsEvent(e) /\ e.route = X.gate
                              /\ X.gate \in Routes /\ X.gate.generation = h
                              /\ e.sequence = Len(X.emitted) + 1
      BY <1>1, <1>3, EventFrames
    <2>2. PICK em \in Seq(Frames) : em = Append(X.emitted, e)
      BY Sent DEF HelperStates
    <2>3. PICK x : x = [X EXCEPT !.peer = y, !.emitted = em]
      OBVIOUS
    <2>4. PICK l : l = ToBroker(L, e)
      OBVIOUS
    <2>5. HelperMoves(h, x, l)
      <3>1. helper' = [[helper EXCEPT ![h].peer = y] EXCEPT ![h].emitted = em]
        <4>1. helper' = [[helper EXCEPT ![h].peer = y] EXCEPT
                           ![h].emitted = Append([helper EXCEPT ![h].peer = y][h].emitted, e)]
          BY <1>1, <1>3, <2>1 DEF SendEvent
        <4>2. [helper EXCEPT ![h].peer = y][h].emitted = X.emitted
          BY <1>1, HelperFacts DEF HelperStates
        <4> QED
          BY <2>2, <4>1, <4>2
      <3>2. helper' = [helper EXCEPT ![h] = x]
        BY <1>1, <2>3, <3>1, HelperFacts DEF HelperStates
      <3>3. helperLink' = [helperLink EXCEPT ![h] = l]
        BY <1>1, <1>3, <2>1, <2>4 DEF SendEvent
      <3> QED
        BY <3>2, <3>3 DEF HelperMoves
    <2>6. /\ x \in HelperStates /\ x.phase = X.phase /\ x.gate = X.gate /\ x.peer = y
          /\ x.emitted = em
      BY <2>3 DEF HelperStates
    <2>7. /\ l \in Links /\ l.peer = L.peer /\ l.broker = L.broker /\ l.in = Append(L.in, e)
          /\ l.out = L.out /\ L.in \in Seq(Frames)
      BY <2>4, ToBrokerLink DEF Links
    <2>8. HelperOK(broker, h, x, l)
      <3>1. HelperOK(broker, h, X, L) /\ X.phase = "serving" /\ (y => X.peer)
        BY <1>1, HelperFacts
      <3>2. /\ NoAnswer(L.in) => NoAnswer(Append(L.in, e))
            /\ OneAnswer(L.in) => OneAnswer(Append(L.in, e))
        BY <2>1, <2>7, AnswersSent, EventSent
      <3>3. InService(broker, h) /\ l.peer # "unused"
        BY <1>3, <2>7, <3>1 DEF HelperOK, Untouched
      <3>4. x.peer => Refers(broker.leases, x.gate)
        BY <1>3, <2>6, <3>1, <3>3 DEF HelperOK
      <3>5. broker.phase = "serving" => Quiet(x, l)
        BY <1>3, <2>6, <2>7, <3>1, <3>2, <3>3 DEF HelperOK, Quiet
      <3>6. broker.phase = "exchanging" => InExchange(broker, x, l)
        BY <1>3, <2>6, <2>7, <3>1, <3>2, <3>3 DEF HelperOK, InExchange
      <3> QED
        BY <3>3, <3>4, <3>5, <3>6 DEF HelperOK
    <2>9. RouteOK(h, x, l)
      BY <1>1, <2>6, <2>7, HelperFacts DEF RouteOK
    <2>10. Emits(h, x, l)
      BY <1>1, <2>1, <2>2, <2>6, <2>7 DEF Emits
    <2>11. HelperOutcome(h, x, l)
      BY <1>1, <2>6, <2>7, <2>8, <2>9, <2>10 DEF HelperOutcome
    <2> QED
      BY <2>5, <2>11, HelperTurn
  <1> QED
    BY <1>2, <1>3

(* A Helper polls its peer and its indicator.                              *)
LEMMA HelperPollKeeps ==
    ASSUME BridgeInv, NEW h \in Helpers, HelperPoll(h)
    PROVE  BridgeInv'
  <1>0. /\ helper[h].phase = "serving" /\ UNCHANGED <<host, broker, hostLink, clock>>
        /\ helper \in [Helpers -> HelperStates] /\ helper[h].emitted \in Seq(Frames)
    BY HelperFacts DEF HelperPoll, HelperStates
  <1>1. CASE ui[h].localStop /\ SendEvent(h, "stop", BackendClosed(h))
    <2>1. PICK y \in BOOLEAN : y = FALSE
      OBVIOUS
    <2>2. SendEvent(h, "stop", [helper EXCEPT ![h].peer = y])
      BY <1>1, <2>1 DEF BackendClosed
    <2> QED
      BY <1>0, <2>1, <2>2, SendEventKeeps
  <1>2. CASE /\ helper[h].peer /\ Len(helper[h].emitted) < Len(Events)
             /\ SendEvent(h, Events[Len(helper[h].emitted) + 1], helper)
    <2>1. PICK y \in BOOLEAN : y = helper[h].peer
      BY <1>0 DEF HelperStates
    <2>2. [helper EXCEPT ![h].peer = y] = helper
      BY <1>0, <2>1 DEF HelperStates
    <2>3. PICK n \in Nat : n = Len(helper[h].emitted)
      BY <1>0
    <2>4. Events \in Seq({"critical", "fast"}) /\ n < Len(Events)
      BY <1>2, <2>3, Limits
    <2>5. Events[n + 1] \in {"critical", "fast"}
      BY <2>4
    <2>6. PICK kind \in {"critical", "fast", "stop"} : kind = Events[n + 1]
      BY <2>5
    <2>7. SendEvent(h, kind, [helper EXCEPT ![h].peer = y])
      BY <1>2, <2>2, <2>3, <2>6
    <2> QED
      BY <1>0, <2>1, <2>7, SendEventKeeps
  <1> QED
    BY <1>1, <1>2 DEF HelperPoll

(* The local user presses Stop: only the indicator changes.                *)
LEMMA StaysPut ==
    ASSUME BridgeInv, UNCHANGED <<host, broker, helper, hostLink, helperLink, clock>>
    PROVE  BridgeInv'
  <1>1. TypeInv'
    BY DEF BridgeInv, TypeInv, Connected, Serving
  <1>2. HelperInv'
    BY DEF BridgeInv, HelperInv
  <1>3. EventInv'
    BY DEF BridgeInv, EventInv
  <1> QED
    BY <1>1, <1>2, <1>3, CallsStay DEF BridgeInv

(* Every step of a Helper keeps the invariant.                             *)
LEMMA HelperNextKeeps ==
    ASSUME BridgeInv, NEW h \in Helpers, HelperNext(h)
    PROVE  BridgeInv'
  <1>1. CASE \E k \in Credentials : HelperStart(h, k)
    BY <1>1, HelperStartKeeps
  <1>2. CASE HelperReceive(h)
    BY <1>2, HelperReceiveKeeps
  <1>3. CASE HelperShow(h)
    BY <1>3, HelperShowKeeps
  <1>4. CASE HelperPoll(h)
    BY <1>4, HelperPollKeeps
  <1>5. CASE HelperLost(h) \/ HelperFails(h)
    BY <1>5, HelperEndsKeeps DEF HelperLost, HelperFails
  <1>6. CASE PressStop(h)
    BY <1>6, StaysPut DEF PressStop
  <1> QED
    BY <1>1, <1>2, <1>3, <1>4, <1>5, <1>6 DEF HelperNext

-----------------------------------------------------------------------------
(* A step of the Host: what it must keep.                                  *)

HostMoves(x, l) ==
    /\ host' = x /\ hostLink' = [hostLink EXCEPT ![x.conn] = l]
    /\ UNCHANGED <<broker, helper, helperLink, clock>>
HostOutcome(x, l) ==
    /\ x \in HostStates /\ l \in Links /\ x.conn \in Conns /\ x.conn >= host.conn
    /\ l.broker = hostLink[x.conn].broker /\ LinkOK(broker, x, x.conn, l)
    /\ (broker.phase = "exchanging" /\ broker.conn = x.conn => l.in = <<>>)
    /\ (x.phase # "idle" => InCall(broker, x, l))
    /\ (Connected /\ broker.conn = x.conn => Cadence(broker, x, l, clock))
    /\ QueueOK(helper, x.queue) /\ GenuineEvents(helper, x.delivered) /\ DeliveredOK(x)
    /\ GenuineEvents(helper, l.out)

(* A step of the Host with such an outcome keeps the invariant.            *)
LEMMA HostTurn ==
    ASSUME BridgeInv, NEW x, NEW l, HostMoves(x, l), HostOutcome(x, l)
    PROVE  BridgeInv'
  <1>0. /\ x \in HostStates /\ l \in Links /\ x.conn \in Conns /\ hostLink \in [Conns -> Links]
        /\ host' = x /\ hostLink' = [hostLink EXCEPT ![x.conn] = l]
        /\ UNCHANGED <<broker, helper, helperLink, clock>>
        /\ host.conn \in Nat /\ x.conn \in Nat /\ x.conn >= host.conn
    BY DEF BridgeInv, TypeInv, HostMoves, HostOutcome, HostStates
  <1>1. /\ hostLink' \in [Conns -> Links] /\ hostLink'[x.conn] = l
        /\ \A c \in Conns \ {x.conn} : hostLink'[c] = hostLink[c]
    BY <1>0
  <1>2. TypeInv'
    BY <1>0, <1>1 DEF BridgeInv, TypeInv, Connected, Serving
  <1>3. HelperInv'
    BY <1>0 DEF BridgeInv, HelperInv
  <1>4. Connected => broker.conn \in Conns
    BY DEF BridgeInv, TypeInv
  <1>5. CallInv'
    <2>1. \A c \in Conns : c > x.conn => hostLink'[c] = NewLink
      <3> SUFFICES ASSUME NEW c \in Conns, c > x.conn
                   PROVE  hostLink'[c] = NewLink
        OBVIOUS
      <3>1. c \in Nat
        BY Limits
      <3>2. c > host.conn /\ c # x.conn
        BY <1>0, <3>1
      <3> QED
        BY <1>1, <3>2 DEF BridgeInv, CallInv, FreshLinks
    <2>2. \A c \in Conns : LinkOK(broker, x, c, hostLink'[c])
      <3> SUFFICES ASSUME NEW c \in Conns
                   PROVE  LinkOK(broker, x, c, hostLink'[c])
        OBVIOUS
      <3>1. CASE c = x.conn
        BY <1>1, <3>1 DEF HostOutcome
      <3>2. CASE c # x.conn
        <4>1. LinkOK(broker, host, c, hostLink[c])
          BY DEF BridgeInv, CallInv
        <4> QED
          BY <1>1, <3>2, <4>1 DEF LinkOK
      <3> QED
        BY <3>1, <3>2
    <2>3. Connected => hostLink'[broker.conn].broker = "open"
      BY <1>1, <1>4 DEF BridgeInv, CallInv, HostSide, HostOutcome
    <2>4. broker.phase = "exchanging" => hostLink'[broker.conn].in = <<>>
      BY <1>1, <1>4 DEF BridgeInv, CallInv, HostSide, HostOutcome, Connected
    <2>5. x.phase # "idle" => InCall(broker, x, hostLink'[x.conn])
      BY <1>1 DEF HostOutcome
    <2> QED
      BY <1>0, <2>1, <2>2, <2>3, <2>4, <2>5
         DEF CallInv, FreshLinks, Connected, HostSide, Link
  <1>6. CadenceInv'
    <2> SUFFICES ASSUME Connected
                 PROVE  Cadence(broker, x, hostLink'[broker.conn], clock)
      BY <1>0 DEF CadenceInv, Connected, HostSide
    <2>1. CASE broker.conn = x.conn
      BY <1>1, <2>1 DEF HostOutcome
    <2>2. CASE broker.conn # x.conn
      <3>1. Cadence(broker, host, hostLink[broker.conn], clock)
        BY DEF BridgeInv, CadenceInv, HostSide
      <3>2. hostLink'[broker.conn] = hostLink[broker.conn]
        BY <1>1, <1>4, <2>2
      <3> QED
        BY <2>2, <3>1, <3>2 DEF Cadence
    <2> QED
      BY <2>1, <2>2
  <1>7. EventInv'
    <2>1. \A c \in Conns : GenuineEvents(helper, hostLink'[c].out)
      BY <1>1 DEF BridgeInv, EventInv, HostOutcome
    <2> QED
      BY <1>0, <2>1 DEF BridgeInv, EventInv, HostOutcome
  <1> QED
    BY <1>2, <1>3, <1>5, <1>6, <1>7 DEF BridgeInv

-----------------------------------------------------------------------------
(* The steps of the Host.                                                  *)

(* What is known of the Host and its connection.                           *)
LEMMA HostFacts ==
    ASSUME BridgeInv, host.conn \in Conns
    PROVE  /\ host \in HostStates /\ Link \in Links /\ hostLink \in [Conns -> Links]
           /\ LinkOK(broker, host, host.conn, Link)
           /\ host.phase # "idle" => InCall(broker, host, Link)
           /\ broker.phase = "exchanging" /\ broker.conn = host.conn => Link.in = <<>>
           /\ Connected /\ broker.conn = host.conn => Cadence(broker, host, Link, clock)
           /\ QueueOK(helper, host.queue) /\ GenuineEvents(helper, host.delivered)
           /\ DeliveredOK(host) /\ GenuineEvents(helper, Link.out)
  BY DEF BridgeInv, TypeInv, CallInv, CadenceInv, EventInv, Link, HostSide

(* A Host that is not idle has a connection.                               *)
LEMMA HostConnected ==
    ASSUME BridgeInv, host.phase # "idle" \/ host.reported # 0
    PROVE  host.conn \in Conns
  BY DEF BridgeInv, TypeInv

\* nothing is left of a call or a session
Stopped(x) ==
    /\ x \in HostStates /\ x.phase = "idle" /\ x.conn = host.conn /\ x.call = "none"
    /\ x.queue = NoEvents /\ x.delivered = <<>>

(* What the Host keeps when it gives up, dies or only asked for the status. *)
LEMMA StoppedHost ==
    ASSUME BridgeInv, NEW k \in Credentials \cup {None}, NEW n \in Nat
    PROVE  /\ Stopped([NoHost EXCEPT !.conn = host.conn, !.credentials = k, !.reported = n])
           /\ Stopped([NoHost EXCEPT !.conn = host.conn])
  <1>1. host.conn \in Nat
    BY DEF BridgeInv, TypeInv, HostStates
  <1>2. PICK c \in Nat : c = host.conn
    BY <1>1
  <1>3. Stopped([NoHost EXCEPT !.conn = c, !.credentials = k, !.reported = n])
    BY <1>2, NothingSent, EmptyQueue
       DEF Stopped, HostStates, NoHost, MaybeRoute, Ops, RequestKinds
  <1>4. Stopped([NoHost EXCEPT !.conn = c])
    BY <1>2, NothingSent, EmptyQueue
       DEF Stopped, HostStates, NoHost, MaybeRoute, Ops, RequestKinds
  <1> QED
    BY <1>2, <1>3, <1>4

(* A Host that gave up, stopped or only asked for the status.              *)
LEMMA HostStops ==
    ASSUME BridgeInv, host.conn \in Conns, Stopped(host'),
           hostLink' = [hostLink EXCEPT ![host.conn] = ClosePeer(@)],
           UNCHANGED <<broker, helper, helperLink, clock>>
    PROVE  BridgeInv'
  <1>1. PICK X \in HostStates, L \in Links : X = host /\ L = Link
    BY HostFacts
  <1>2. PICK x : x = host'
    OBVIOUS
  <1>3. PICK l : l = ClosePeer(L)
    OBVIOUS
  <1>4. /\ x \in HostStates /\ x.phase = "idle" /\ x.conn = X.conn /\ x.call = "none"
        /\ x.queue = NoEvents /\ x.delivered = <<>>
    BY <1>1, <1>2 DEF Stopped
  <1>5. l \in Links /\ l.peer = "closed" /\ l.broker = L.broker /\ l.in = L.in /\ l.out = <<>>
    BY <1>3, ClosePeerLink
  <1>6. HostMoves(x, l)
    BY <1>1, <1>2, <1>3, <1>4 DEF HostMoves, Link
  <1>7. LinkOK(broker, x, x.conn, l)
    BY <1>1, <1>4, <1>5, HostFacts DEF LinkOK
  <1>8. Connected /\ broker.conn = x.conn => Cadence(broker, x, l, clock)
    BY <1>1, <1>4, <1>5, HostFacts DEF Cadence, Using
  <1>9. QueueOK(helper, x.queue) /\ GenuineEvents(helper, x.delivered) /\ GenuineEvents(helper, l.out)
    BY <1>4, <1>5, GenuineNothing
  <1>10. DeliveredOK(x)
    BY <1>4, NothingSent DEF DeliveredOK
  <1>11. x.conn >= host.conn
    BY <1>1, <1>4 DEF HostStates
  <1>12. HostOutcome(x, l)
    BY <1>1, <1>4, <1>5, <1>7, <1>8, <1>9, <1>10, <1>11, HostFacts DEF HostOutcome, Link
  <1> QED
    BY <1>6, <1>12, HostTurn

(* The proxy fails closed.                                                 *)
LEMMA FailHostKeeps ==
    ASSUME BridgeInv, host.conn \in Conns, FailHost, UNCHANGED <<broker, helper, helperLink, clock>>
    PROVE  BridgeInv'
  <1>1. PICK k \in Credentials \cup {None}, n \in Nat : k = host.credentials /\ n = host.reported
    BY HostFacts DEF HostStates
  <1>2. Stopped(host')
    BY <1>1, StoppedHost DEF FailHost
  <1> QED
    BY <1>2, HostStops DEF FailHost

(* The Host connects.                                                      *)
LEMMA ConnectingKeeps ==
    ASSUME BridgeInv, NEW k \in Credentials \cup {None}, NEW context \in SessionContexts \cup {None},
           Connecting(k, context)
    PROVE  BridgeInv'
  <1>1. PICK X \in HostStates : X = host
    BY DEF BridgeInv, TypeInv
  <1>2. PICK c \in Conns : c = X.conn + 1
    BY <1>1 DEF Connecting
  <1>3. X.conn \in Nat /\ X.reported \in Nat /\ c \in Nat /\ c > X.conn
    BY <1>2 DEF HostStates
  <1>4. hostLink[c] = NewLink
    BY <1>1, <1>3 DEF BridgeInv, CallInv, FreshLinks
  <1>5. PICK x : x = [NoHost EXCEPT !.phase = "connecting", !.conn = c, !.credentials = k,
                                    !.reported = X.reported, !.context = context]
    OBVIOUS
  <1>6. PICK l : l = Connect(NewLink)
    OBVIOUS
  <1>7. /\ x \in HostStates /\ x.phase = "connecting" /\ x.conn = c /\ x.call = "none"
        /\ x.queue = NoEvents /\ x.delivered = <<>>
    BY <1>3, <1>5, NothingSent, EmptyQueue DEF HostStates, NoHost, MaybeRoute, Ops, RequestKinds
  <1>8. /\ l \in Links /\ l.broker = "backlog" /\ l.in = <<>> /\ l.out = <<>>
    BY <1>6, NothingSent DEF Links, NewLink, Connect
  <1>9. HostMoves(x, l)
    BY <1>1, <1>2, <1>4, <1>5, <1>6, <1>7 DEF HostMoves, Connecting
  <1>10. LinkOK(broker, x, x.conn, l)
    BY <1>7, <1>8, NothingSent DEF LinkOK
  <1>11. InCall(broker, x, l)
    BY <1>7, <1>8, NothingSent DEF InCall
  <1>12. ~(Connected /\ broker.conn = x.conn)
    BY <1>4, <1>7 DEF BridgeInv, CallInv, HostSide, NewLink
  <1>13. QueueOK(helper, x.queue) /\ GenuineEvents(helper, x.delivered) /\ GenuineEvents(helper, l.out)
    BY <1>7, <1>8, GenuineNothing
  <1>14. DeliveredOK(x)
    BY <1>7, NothingSent DEF DeliveredOK
  <1>15. l.broker = hostLink[x.conn].broker /\ x.conn >= host.conn /\ x.conn \in Conns
    BY <1>1, <1>3, <1>4, <1>7, <1>8 DEF NewLink
  <1>16. broker.phase = "exchanging" /\ broker.conn = x.conn => l.in = <<>>
    BY <1>8
  <1>17. HostOutcome(x, l)
    BY <1>7, <1>8, <1>10, <1>11, <1>12, <1>13, <1>14, <1>15, <1>16 DEF HostOutcome
  <1> QED
    BY <1>9, <1>17, HostTurn

(* The request that goes to the broker.                                    *)
LEMMA RequestFrame ==
    ASSUME NEW y \in HostStates, NEW kind \in RequestKinds,
           kind = "acquire" => y.context \in SessionContexts
    PROVE  /\ InContext(Frame(kind, y.route, y.frame + 1), y.context) \in Frames
           /\ InContext(Frame(kind, y.route, y.frame + 1), y.context).kind = kind
  <1>1. kind \in Kinds \ {"ready"}
    BY DEF Kinds, RequestKinds, Ops
  <1>2. /\ y.route \in MaybeRoute /\ y.frame + 1 \in Nat /\ y.context \in MaybeContext
    BY DEF HostStates, MaybeContext
  <1> QED
    BY <1>1, <1>2, ContextFrame

\* the Host may send the request kind from the state y, with the link as in m
MaySend(y, m, kind) ==
    /\ y \in HostStates /\ y.conn = host.conn /\ m \in Links /\ m.broker = Link.broker
    /\ m.peer = Link.peer /\ m.in = <<>> /\ NoAnswer(m.out) /\ GenuineEvents(helper, m.out)
    /\ broker.phase # "exchanging"
    /\ kind \in RequestKinds /\ (kind = "acquire" => y.context \in SessionContexts)
    /\ (kind = "acquire" => y.delivered = <<>>)
    /\ (Connected /\ broker.conn = host.conn /\ broker.leases.active # None =>
           /\ kind = "renew" => clock >= broker.leases.active.renewed + RenewInterval
           /\ kind \notin {"acquire", "renew"} => y.renewed >= broker.leases.active.renewed)
    /\ QueueOK(helper, y.queue) /\ GenuineEvents(helper, y.delivered) /\ NoAnswer(y.delivered)
    /\ \A i \in 1..Len(y.delivered) : y.delivered[i].sequence = i /\ y.delivered[i].route = y.route

(* The Host sends a request, or finds the connection closed.               *)
LEMMA SendKeeps ==
    ASSUME BridgeInv, host.conn \in Conns, NEW y, NEW m, NEW kind,
           m.broker \in {"open", "closed"}, m.broker = "open" => MaySend(y, m, kind),
           SendRequest(y, m, kind), UNCHANGED <<broker, helper, helperLink, clock>>
    PROVE  BridgeInv'
  <1>1. CASE m.broker = "closed"
    BY <1>1, FailHostKeeps DEF SendRequest
  <1>2. CASE m.broker = "open"
    <2>0. /\ y \in HostStates /\ y.conn = host.conn /\ m \in Links /\ m.broker = Link.broker
          /\ m.peer = Link.peer /\ m.in = <<>> /\ NoAnswer(m.out) /\ kind \in RequestKinds
          /\ kind = "acquire" => y.context \in SessionContexts
      BY <1>2 DEF MaySend
    <2>1. PICK n \in Nat : n = y.frame + 1
      BY <2>0 DEF HostStates
    <2>2. PICK f \in Frames : f = InContext(Frame(kind, y.route, n), y.context) /\ f.kind = kind
      BY <2>0, <2>1, RequestFrame
    <2>3. PICK x : x = [y EXCEPT !.phase = "calling", !.call = kind, !.frame = n]
      OBVIOUS
    <2>4. PICK l : l = ToBroker(m, f)
      OBVIOUS
    <2>5. /\ x \in HostStates /\ x.phase = "calling" /\ x.conn = host.conn /\ x.call = kind
          /\ x.renewed = y.renewed /\ x.queue = y.queue /\ x.delivered = y.delivered
          /\ x.route = y.route
      BY <2>0, <2>1, <2>3 DEF HostStates
    <2>6. /\ l \in Links /\ l.broker = m.broker /\ l.in = <<f>> /\ l.out = m.out
          /\ l.peer = m.peer
      <3>1. Append(<<>>, f) = <<f>>
        BY Sent, NothingSent
      <3> QED
        BY <2>0, <2>4, <3>1, ToBrokerLink
    <2>7. HostMoves(x, l)
      BY <2>0, <1>2, <2>1, <2>2, <2>3, <2>4, <2>5 DEF HostMoves, SendRequest
    <2>8. Len(<<f>>) = 1 /\ <<f>>[1] = f
      OBVIOUS
    <2>9. LinkOK(broker, x, x.conn, l)
      <3>1. LinkOK(broker, host, host.conn, Link)
        BY HostFacts
      <3> QED
        BY <1>2, <2>0, <2>5, <2>6, <2>8, <3>1 DEF LinkOK
    <2>10. broker.phase # "exchanging"
      BY <1>2 DEF MaySend
    <2>12. InCall(broker, x, l)
      <3>1. OneAnswer(m.out)
        BY <2>0 DEF NoAnswer, OneAnswer
      <3> QED
        BY <1>2, <2>0, <2>2, <2>5, <2>6, <2>8, <2>10, <3>1 DEF InCall
    <2>13. Connected /\ broker.conn = x.conn => Cadence(broker, x, l, clock)
      <3> SUFFICES ASSUME Connected, broker.conn = x.conn, broker.leases.active # None
                   PROVE  Cadence(broker, x, l, clock)
        BY DEF Cadence
      <3>1. Cadence(broker, host, Link, clock)
        BY <2>5, HostFacts
      <3>2. /\ kind = "renew" => clock >= broker.leases.active.renewed + RenewInterval
            /\ kind \notin {"acquire", "renew"} => y.renewed >= broker.leases.active.renewed
        BY <1>2, <2>5 DEF MaySend
      <3>3. \A i \in 1..Len(l.in) : l.in[i].kind = kind
        BY <2>2, <2>6, <2>8
      <3> QED
        BY <2>5, <3>1, <3>2, <3>3 DEF Cadence, Using
    <2>14. QueueOK(helper, x.queue) /\ GenuineEvents(helper, x.delivered) /\ GenuineEvents(helper, l.out)
      BY <1>2, <2>5, <2>6 DEF MaySend
    <2>15. DeliveredOK(x)
      BY <1>2, <2>5 DEF DeliveredOK, MaySend
    <2>16. x.conn >= host.conn /\ x.conn \in Conns /\ l.broker = hostLink[x.conn].broker
      BY <2>0, <2>5, <2>6 DEF Link, HostStates
    <2>17. broker.phase = "exchanging" /\ broker.conn = x.conn => l.in = <<>>
      BY <2>10
    <2>18. HostOutcome(x, l)
      BY <2>5, <2>6, <2>9, <2>12, <2>13, <2>14, <2>15, <2>16, <2>17 DEF HostOutcome
    <2> QED
      BY <2>7, <2>18, HostTurn
  <1> QED
    BY <1>1, <1>2

(* With nothing to wait for, the broker has nothing from the Host.         *)
LEMMA Settled ==
    ASSUME BridgeInv, host.phase = "open"
    PROVE  /\ host.conn \in Conns /\ Link.broker \in {"open", "closed"}
           /\ Link.broker = "open" =>
                  Link.in = <<>> /\ NoAnswer(Link.out) /\ broker.phase # "exchanging"
  <1>1. host.conn \in Conns
    BY HostConnected
  <1>2. /\ Link \in Links /\ LinkOK(broker, host, host.conn, Link) /\ InCall(broker, host, Link)
    BY <1>1, HostFacts
  <1> QED
    BY <1>1, <1>2 DEF Links, LinkOK, InCall

(* When the answer is here, the broker has nothing from the Host.          *)
LEMMA Answered ==
    ASSUME BridgeInv, host.phase \in {"connecting", "calling"}, Link.out # <<>>,
           ~IsEvent(Head(Link.out))
    PROVE  /\ host.conn \in Conns /\ Link.broker \in {"open", "closed"} /\ Read(Link) \in Links
           /\ Read(Link).broker = Link.broker /\ Head(Link.out) \in Frames
           /\ Read(Link).peer = Link.peer
           /\ GenuineEvents(helper, Read(Link).out)
           /\ Read(Link).in = Link.in /\ Read(Link).out = Tail(Link.out)
           /\ Link.broker = "open" =>
                  Link.in = <<>> /\ NoAnswer(Tail(Link.out)) /\ broker.phase # "exchanging"
  <1>1. host.conn \in Conns
    BY HostConnected
  <1>2. /\ Link \in Links /\ LinkOK(broker, host, host.conn, Link) /\ InCall(broker, host, Link)
        /\ GenuineEvents(helper, Link.out)
    BY <1>1, HostFacts
  <1>h. PICK H : H = helper
    OBVIOUS
  <1>3. PICK L \in Links : L = Link /\ H = helper
    BY <1>h, <1>2
  <1>4. L.out # <<>> /\ ~IsEvent(Head(L.out)) /\ L.out \in Seq(Frames)
    BY <1>3 DEF Links
  <1>5. /\ Read(L) \in Links /\ Read(L).broker = L.broker /\ Read(L).in = L.in
        /\ Read(L).peer = L.peer
        /\ Read(L).out = Tail(L.out) /\ Head(L.out) \in Frames
    BY <1>4, ReadLink
  <1>6. GenuineEvents(H, Tail(L.out))
    BY <1>2, <1>3, <1>4, GenuineReceived
  <1>7. ~NoAnswer(L.out) /\ (OneAnswer(L.out) => NoAnswer(Tail(L.out)))
    BY <1>4, AnswersReceived
  <1>8. L.broker # "backlog"
    BY <1>2, <1>3, <1>4 DEF LinkOK
  <1>9. L.broker = "open" => L.in = <<>> /\ NoAnswer(Tail(L.out)) /\ broker.phase # "exchanging"
    BY <1>2, <1>3, <1>7 DEF InCall
  <1>10. L.broker \in {"open", "closed"}
    BY <1>8 DEF Links
  <1> QED
    BY <1>1, <1>3, <1>5, <1>6, <1>9, <1>10

(* The status arrives.                                                     *)
LEMMA HostStatusKeeps ==
    ASSUME BridgeInv, HostStatus
    PROVE  BridgeInv'
  <1>0. /\ host.phase = "connecting" /\ host.conn \in Conns /\ Link.out # <<>>
        /\ UNCHANGED <<broker, helper, helperLink, clock>>
    BY HostConnected DEF HostStatus
  <1>1. PICK X \in HostStates, L \in Links : X = host /\ L = Link
    BY <1>0, HostFacts
  <1>2. PICK f \in Frames : f = Head(L.out)
    <2>1. L.out \in Seq(Frames) /\ L.out # <<>>
      BY <1>0, <1>1 DEF Links
    <2> QED
      BY <2>1, Received
  <1>3. CASE FailHost
    BY <1>0, <1>3, FailHostKeeps
  <1>4. CASE f.kind = "ready" /\ Report(f.route.generation)
    <2>1. f.route.generation \in Nat /\ X.reported \in Nat
      BY <1>4, FrameParts DEF Routes, HostStates
    <2>2. PICK k \in Credentials \cup {None}, n \in Nat :
              k = X.credentials /\ n = (IF f.route.generation < X.reported THEN 0 ELSE f.route.generation)
      BY <2>1 DEF HostStates
    <2>3. /\ host' = [NoHost EXCEPT !.conn = host.conn, !.credentials = k, !.reported = n]
          /\ hostLink' = [hostLink EXCEPT ![host.conn] = ClosePeer(@)]
      BY <1>1, <1>4, <2>2 DEF Report
    <2>4. Stopped(host')
      BY <2>3, StoppedHost
    <2> QED
      BY <1>0, <2>3, <2>4, HostStops
  <1>5. CASE /\ f.kind = "ready" /\ X.context # None
             /\ SendRequest([host EXCEPT !.route = f.route], Read(Link), "acquire")
    <2>1. PICK y : y = [X EXCEPT !.route = f.route]
      OBVIOUS
    <2>2. PICK m : m = Read(L)
      OBVIOUS
    <2>3. f.route \in MaybeRoute /\ X.context \in SessionContexts
      BY <1>5, FrameParts DEF HostStates
    <2>4. /\ y \in HostStates /\ y.conn = X.conn /\ y.context = X.context
          /\ y.delivered = X.delivered /\ y.queue = X.queue
      BY <2>1, <2>3 DEF HostStates
    <2>5. ~IsEvent(Head(Link.out))
      BY <1>1, <1>2, <1>5 DEF IsEvent
    <2>6. /\ m.broker \in {"open", "closed"} /\ m \in Links /\ m.broker = L.broker
          /\ m.peer = L.peer
          /\ GenuineEvents(helper, m.out)
          /\ m.broker = "open" => m.in = <<>> /\ NoAnswer(m.out) /\ broker.phase # "exchanging"
      BY <1>0, <1>1, <2>2, <2>5, Answered
    <2>7. X.delivered = <<>> /\ QueueOK(helper, X.queue) /\ GenuineEvents(helper, X.delivered)
      BY <1>0, <1>1, HostFacts DEF DeliveredOK
    <2>8. "acquire" \in RequestKinds
      BY DEF RequestKinds
    <2>9. m.broker = "open" => MaySend(y, m, "acquire")
      BY <1>1, <2>3, <2>4, <2>6, <2>7, <2>8, NothingSent DEF MaySend
    <2>10. SendRequest(y, m, "acquire")
      BY <1>1, <1>5, <2>1, <2>2
    <2> QED
      BY <1>0, <2>6, <2>9, <2>10, SendKeeps
  <1> QED
    BY <1>1, <1>2, <1>3, <1>4, <1>5 DEF HostStatus

(* The time of the last renewal the Host knows is the broker's or later.   *)
LEMMA OpenCadence ==
    ASSUME BridgeInv, host.phase = "open", Connected, broker.conn = host.conn,
           broker.leases.active # None
    PROVE  /\ host.renewed >= broker.leases.active.renewed
           /\ RenewDue => clock >= broker.leases.active.renewed + RenewInterval
  <1>1. host.conn \in Conns
    BY Settled
  <1>2. host.renewed >= broker.leases.active.renewed
    BY <1>1, HostFacts DEF Cadence
  <1>3. host.renewed \in Nat /\ clock \in Nat /\ broker.leases.active.renewed \in Nat
    BY DEF BridgeInv, TypeInv, HostStates, BrokerStates, LeaseStates, LeaseRecords
  <1>4. RenewInterval \in Nat /\ RenewMargin \in Nat
    BY Limits
  <1> QED
    BY <1>2, <1>3, <1>4 DEF RenewDue

(* An operation, or a renewal, of an open session.                         *)
LEMMA OpenSends ==
    ASSUME BridgeInv, host.phase = "open", NEW y \in HostStates, NEW kind,
           y.conn = host.conn, y.renewed = host.renewed, y.queue = host.queue,
           y.delivered = host.delivered, y.route = host.route,
           kind \in RequestKinds \ {"acquire"}, kind = "renew" => RenewDue,
           SendRequest(y, Link, kind), UNCHANGED <<broker, helper, helperLink, clock>>
    PROVE  BridgeInv'
  <1>1. /\ host.conn \in Conns /\ Link.broker \in {"open", "closed"}
        /\ Link.broker = "open" =>
                  Link.in = <<>> /\ NoAnswer(Link.out) /\ broker.phase # "exchanging"
    BY Settled
  <1>2. /\ Link \in Links /\ QueueOK(helper, host.queue) /\ GenuineEvents(helper, host.delivered)
        /\ DeliveredOK(host) /\ GenuineEvents(helper, Link.out)
    BY <1>1, HostFacts
  <1>3. Connected /\ broker.conn = host.conn /\ broker.leases.active # None =>
           /\ kind = "renew" => clock >= broker.leases.active.renewed + RenewInterval
           /\ kind \notin {"acquire", "renew"} => y.renewed >= broker.leases.active.renewed
    BY OpenCadence
  <1>4. Link.broker = "open" => MaySend(y, Link, kind)
    BY <1>1, <1>2, <1>3 DEF MaySend, DeliveredOK
  <1>5. PICK m : m = Link
    OBVIOUS
  <1>6. m.broker \in {"open", "closed"} /\ (m.broker = "open" => MaySend(y, m, kind))
    BY <1>1, <1>4, <1>5
  <1>7. SendRequest(y, m, kind)
    BY <1>5
  <1> QED
    BY <1>1, <1>6, <1>7, SendKeeps

(* The session asks for an operation.                                      *)
LEMMA HostCallKeeps ==
    ASSUME BridgeInv, NEW op \in {"start", "restart", "candidate", "input", "close"}, HostCall(op)
    PROVE  BridgeInv'
  <1>1. PICK X \in HostStates : X = host
    BY DEF BridgeInv, TypeInv
  <1>2. PICK y : y = [X EXCEPT !.op = op, !.ops = @ + 1]
    OBVIOUS
  <1>3. PICK kind \in {op, "renew"} : kind = (IF RenewDue /\ op # "close" THEN "renew" ELSE op)
    OBVIOUS
  <1>4. /\ y \in HostStates /\ y.conn = X.conn /\ y.renewed = X.renewed /\ y.queue = X.queue
        /\ y.delivered = X.delivered /\ y.route = X.route
    <2>1. X.ops + 1 \in Nat /\ op \in Ops
      BY DEF HostStates, Ops
    <2> QED
      BY <1>2, <2>1 DEF HostStates
  <1>5. kind \in RequestKinds \ {"acquire"} /\ (kind = "renew" => RenewDue)
    BY <1>3 DEF RequestKinds, Ops
  <1>6. SendRequest(y, Link, kind) /\ host.phase = "open"
    BY <1>1, <1>2, <1>3 DEF HostCall
  <1>7. UNCHANGED <<broker, helper, helperLink, clock>>
    BY DEF HostCall
  <1> QED
    BY <1>1, <1>4, <1>5, <1>6, <1>7, OpenSends

\* the Host may go on from x, with its link as in l
MayBecome(x, l) ==
    /\ x \in HostStates /\ x.conn = host.conn /\ l \in Links /\ l.broker = Link.broker
    /\ l.peer = Link.peer /\ l.broker # "backlog" /\ l.in = Link.in /\ InCall(broker, x, l)
    /\ (Connected /\ broker.conn = host.conn /\ broker.leases.active # None
            /\ (x.phase = "open" \/ Using(x)) => x.renewed >= broker.leases.active.renewed)
    /\ QueueOK(helper, x.queue) /\ GenuineEvents(helper, x.delivered) /\ DeliveredOK(x)
    /\ GenuineEvents(helper, l.out)

(* The Host read something, and has nothing to say.                        *)
LEMMA BecomesKeeps ==
    ASSUME BridgeInv, host.conn \in Conns, NEW x, NEW l, MayBecome(x, l), HostBecomes(x, l),
           UNCHANGED <<broker, helper, helperLink, clock>>
    PROVE  BridgeInv'
  <1>1. HostMoves(x, l)
    BY DEF HostMoves, HostBecomes
  <1>2. LinkOK(broker, x, x.conn, l)
    <2>1. LinkOK(broker, host, host.conn, Link)
      BY HostFacts
    <2> QED
      BY <2>1 DEF LinkOK, MayBecome
  <1>3. Connected /\ broker.conn = x.conn => Cadence(broker, x, l, clock)
    <2> SUFFICES ASSUME Connected, broker.conn = x.conn, broker.leases.active # None
                 PROVE  Cadence(broker, x, l, clock)
      BY DEF Cadence
    <2>1. Cadence(broker, host, Link, clock)
      BY HostFacts DEF MayBecome
    <2> QED
      BY <2>1 DEF Cadence, MayBecome
  <1>4. x.conn >= host.conn /\ l.broker = hostLink[x.conn].broker
    BY DEF Link, HostStates, MayBecome
  <1>5. broker.phase = "exchanging" /\ broker.conn = x.conn => l.in = <<>>
    BY HostFacts DEF MayBecome
  <1>6. HostOutcome(x, l)
    BY <1>2, <1>3, <1>4, <1>5 DEF HostOutcome, MayBecome
  <1> QED
    BY <1>1, <1>6, HostTurn

(* An event comes before the answer.                                       *)
LEMMA QueueEventKeeps ==
    ASSUME BridgeInv, host.phase = "calling", Link.out # <<>>, IsEvent(Head(Link.out)),
           HostBecomes([host EXCEPT !.queue = EnqueueEvent(host.queue, Head(Link.out))], Read(Link)),
           UNCHANGED <<broker, helper, helperLink, clock>>
    PROVE  BridgeInv'
  <1>0. host.conn \in Conns
    BY HostConnected
  <1>h. PICK H : H = helper
    OBVIOUS
  <1>1. PICK X \in HostStates, L \in Links : X = host /\ L = Link /\ H = helper
    BY <1>h, <1>0, HostFacts
  <1>2. /\ L.out # <<>> /\ L.out \in Seq(Frames) /\ X.phase = "calling" /\ X.queue \in Queues
    BY <1>1 DEF Links, HostStates
  <1>3. PICK e \in Frames : e = Head(L.out)
    BY <1>2, Received
  <1>4. PICK q \in Queues : q = EnqueueEvent(X.queue, e)
    BY <1>2, EnqueuedQueue
  <1>5. PICK x : x = [X EXCEPT !.queue = q]
    OBVIOUS
  <1>6. PICK l : l = Read(L)
    OBVIOUS
  <1>7. /\ x \in HostStates /\ x.phase = "calling" /\ x.conn = X.conn /\ x.call = X.call
        /\ x.renewed = X.renewed /\ x.queue = q /\ x.delivered = X.delivered /\ x.route = X.route
    BY <1>2, <1>5 DEF HostStates
  <1>8. /\ l \in Links /\ l.broker = L.broker /\ l.in = L.in /\ l.out = Tail(L.out)
        /\ l.peer = L.peer
    BY <1>2, <1>6, ReadLink
  <1>9. /\ GenuineEvents(H, Tail(L.out)) /\ Genuine(H, e) /\ IsEvent(e)
    BY <1>0, <1>1, <1>2, <1>3, HostFacts, GenuineReceived
  <1>10. QueueOK(H, q)
    BY <1>0, <1>1, <1>2, <1>4, <1>9, HostFacts, GenuineEnqueued
  <1>11. InCall(broker, x, l)
    <2>1. InCall(broker, X, L)
      BY <1>0, <1>1, <1>2, HostFacts
    <2>2. /\ NoAnswer(L.out) => NoAnswer(Tail(L.out))
          /\ OneAnswer(L.out) => OneAnswer(Tail(L.out))
      BY <1>2, AnswersReceived
    <2> QED
      BY <1>2, <1>7, <1>8, <2>1, <2>2 DEF InCall
  <1>12. L.broker # "backlog"
    BY <1>0, <1>1, <1>2, HostFacts DEF LinkOK
  <1>13. DeliveredOK(x)
    BY <1>0, <1>1, <1>2, <1>7, HostFacts DEF DeliveredOK
  <1>14. Connected /\ broker.conn = host.conn /\ broker.leases.active # None
            /\ (x.phase = "open" \/ Using(x)) => x.renewed >= broker.leases.active.renewed
    <2>1. Using(x) => Using(X)
      BY <1>2, <1>7 DEF Using
    <2> QED
      BY <1>0, <1>1, <1>7, <2>1, HostFacts DEF Cadence
  <1>15. MayBecome(x, l)
    BY <1>0, <1>1, <1>7, <1>8, <1>9, <1>10, <1>11, <1>12, <1>13, <1>14, HostFacts DEF MayBecome
  <1>16. HostBecomes(x, l)
    BY <1>1, <1>3, <1>4, <1>5, <1>6
  <1> QED
    BY <1>0, <1>15, <1>16, BecomesKeeps

(* The answer opens the session again: it has a route and a time.          *)
LEMMA OpensKeeps ==
    ASSUME BridgeInv, host.phase = "calling", Link.out # <<>>, ~IsEvent(Head(Link.out)),
           NEW y \in HostStates, y.conn = host.conn, y.queue = host.queue,
           y.delivered = host.delivered,
           y.route = host.route \/ host.call = "acquire",
           y.renewed = clock \/ (Using(host) /\ y.renewed = host.renewed),
           HostBecomes(Open(y), Read(Link)), UNCHANGED <<broker, helper, helperLink, clock>>
    PROVE  BridgeInv'
  <1>1. /\ host.conn \in Conns /\ Link.broker \in {"open", "closed"} /\ Read(Link) \in Links
        /\ Read(Link).broker = Link.broker /\ GenuineEvents(helper, Read(Link).out)
        /\ Read(Link).peer = Link.peer
        /\ Read(Link).in = Link.in /\ Read(Link).out = Tail(Link.out)
        /\ Link.broker = "open" =>
                  Link.in = <<>> /\ NoAnswer(Tail(Link.out)) /\ broker.phase # "exchanging"
    BY Answered
  <1>2. PICK x : x = Open(y)
    OBVIOUS
  <1>3. PICK l : l = Read(Link)
    OBVIOUS
  <1>4. /\ x \in HostStates /\ x.phase = "open" /\ x.conn = y.conn /\ x.renewed = y.renewed
        /\ x.queue = y.queue /\ x.delivered = y.delivered /\ x.route = y.route
    BY <1>2 DEF HostStates, Open, Ops, RequestKinds
  <1>5. InCall(broker, x, l)
    <2>1. Link.broker = "open" => OneAnswer(Tail(Link.out))
      BY <1>1 DEF NoAnswer, OneAnswer
    <2> QED
      BY <1>1, <1>3, <1>4, <2>1 DEF InCall
  <1>6. DeliveredOK(x)
    <2>1. DeliveredOK(host)
      BY <1>1, HostFacts
    <2>2. CASE y.route = host.route
      BY <1>4, <2>1, <2>2 DEF DeliveredOK
    <2>3. CASE host.call = "acquire"
      <3>1. x.delivered = <<>>
        BY <1>4, <2>1, <2>3 DEF DeliveredOK
      <3> QED
        BY <1>4, <3>1, NothingSent DEF DeliveredOK
    <2> QED
      BY <2>2, <2>3
  <1>7. Connected /\ broker.conn = host.conn /\ broker.leases.active # None =>
            x.renewed >= broker.leases.active.renewed
    <2> SUFFICES ASSUME Connected, broker.conn = host.conn, broker.leases.active # None
                 PROVE  x.renewed >= broker.leases.active.renewed
      OBVIOUS
    <2>1. Cadence(broker, host, Link, clock)
      BY <1>1, HostFacts
    <2>2. clock \in Nat /\ broker.leases.active.renewed \in Nat
      BY DEF BridgeInv, TypeInv, BrokerStates, LeaseStates, LeaseRecords
    <2> QED
      BY <1>4, <2>1, <2>2 DEF Cadence
  <1>8. QueueOK(helper, x.queue) /\ GenuineEvents(helper, x.delivered)
    BY <1>1, <1>4, HostFacts
  <1>9. MayBecome(x, l)
    BY <1>1, <1>3, <1>4, <1>5, <1>6, <1>7, <1>8 DEF MayBecome
  <1> QED
    BY <1>1, <1>2, <1>3, <1>9, BecomesKeeps

(* After the answer comes the next request.                                *)
LEMMA NextRequestKeeps ==
    ASSUME BridgeInv, host.phase = "calling", Link.out # <<>>, ~IsEvent(Head(Link.out)),
           NEW y \in HostStates, y.conn = host.conn, y.queue = host.queue,
           y.delivered = host.delivered, y.route = host.route,
           y.renewed = clock \/ (Using(host) /\ y.renewed = host.renewed),
           NEW kind \in RequestKinds \ {"acquire", "renew"},
           SendRequest(y, Read(Link), kind), UNCHANGED <<broker, helper, helperLink, clock>>
    PROVE  BridgeInv'
  <1>1. /\ host.conn \in Conns /\ Link.broker \in {"open", "closed"} /\ Read(Link) \in Links
        /\ Read(Link).broker = Link.broker /\ GenuineEvents(helper, Read(Link).out)
        /\ Read(Link).peer = Link.peer
        /\ Read(Link).in = Link.in /\ Read(Link).out = Tail(Link.out)
        /\ Link.broker = "open" =>
                  Link.in = <<>> /\ NoAnswer(Tail(Link.out)) /\ broker.phase # "exchanging"
    BY Answered
  <1>2. PICK m : m = Read(Link)
    OBVIOUS
  <1>3. Connected /\ broker.conn = host.conn /\ broker.leases.active # None =>
            y.renewed >= broker.leases.active.renewed
    <2> SUFFICES ASSUME Connected, broker.conn = host.conn, broker.leases.active # None
                 PROVE  y.renewed >= broker.leases.active.renewed
      OBVIOUS
    <2>1. Cadence(broker, host, Link, clock)
      BY <1>1, HostFacts
    <2>2. clock \in Nat /\ broker.leases.active.renewed \in Nat
      BY DEF BridgeInv, TypeInv, BrokerStates, LeaseStates, LeaseRecords
    <2> QED
      BY <2>1, <2>2 DEF Cadence
  <1>4. DeliveredOK(host) /\ QueueOK(helper, y.queue) /\ GenuineEvents(helper, y.delivered)
    BY <1>1, HostFacts
  <1>5. m.broker = "open" => MaySend(y, m, kind)
    BY <1>1, <1>2, <1>3, <1>4 DEF MaySend, DeliveredOK
  <1>6. m.broker \in {"open", "closed"} /\ SendRequest(y, m, kind)
    BY <1>1, <1>2
  <1> QED
    BY <1>1, <1>5, <1>6, SendKeeps

(* The answer to a call.                                                   *)
LEMMA AfterAnswerKeeps ==
    ASSUME BridgeInv, host.phase = "calling", Link.out # <<>>, ~IsEvent(Head(Link.out)),
           AfterAnswer(Head(Link.out), Read(Link)), UNCHANGED <<broker, helper, helperLink, clock>>
    PROVE  BridgeInv'
  <1>1. PICK X \in HostStates, t \in Nat : X = host /\ t = clock
    BY DEF BridgeInv, TypeInv
  <1>2. PICK f \in Frames : f = Head(Link.out)
    BY Answered
  <1>3. CASE X.call = "acquire"
    <2>1. PICK y : y = [X EXCEPT !.route = f.route, !.renewed = t]
      OBVIOUS
    <2>2. /\ y \in HostStates /\ y.conn = X.conn /\ y.queue = X.queue /\ y.delivered = X.delivered
          /\ y.renewed = t
      BY <2>1, FrameParts DEF HostStates
    <2>3. HostBecomes(Open(y), Read(Link))
      BY <1>1, <1>2, <1>3, <2>1 DEF AfterAnswer
    <2> QED
      BY <1>1, <1>3, <2>2, <2>3, OpensKeeps
  <1>4. CASE X.call = "renew"
    <2>1. PICK y : y = [X EXCEPT !.renewed = t]
      OBVIOUS
    <2>2. /\ y \in HostStates /\ y.conn = X.conn /\ y.queue = X.queue /\ y.delivered = X.delivered
          /\ y.renewed = t /\ y.route = X.route /\ y.op = X.op
      BY <2>1 DEF HostStates
    <2>3. IF y.op = "poll" THEN HostBecomes(Open(y), Read(Link)) ELSE SendRequest(y, Read(Link), y.op)
      BY <1>1, <1>4, <2>1 DEF AfterAnswer
    <2>4. CASE y.op = "poll"
      BY <1>1, <2>2, <2>3, <2>4, OpensKeeps
    <2>5. CASE y.op # "poll"
      <3>1. PICK kind \in RequestKinds \ {"acquire", "renew"} : kind = y.op
        BY <2>2 DEF HostStates, RequestKinds, Ops
      <3>2. SendRequest(y, Read(Link), kind)
        BY <2>3, <2>5, <3>1
      <3> QED
        BY <1>1, <2>2, <3>2, NextRequestKeeps
    <2> QED
      BY <2>4, <2>5
  <1>5. CASE X.call = "close"
    <2>1. PICK kind \in RequestKinds \ {"acquire", "renew"} : kind = "release"
      BY DEF RequestKinds
    <2>2. SendRequest(X, Read(Link), kind)
      BY <1>1, <1>5, <2>1 DEF AfterAnswer
    <2>3. Using(X)
      BY <1>1, <1>5 DEF Using
    <2> QED
      BY <1>1, <2>2, <2>3, NextRequestKeeps
  <1>6. CASE X.call = "release"
    <2>1. PICK y : y = [X EXCEPT !.closed = TRUE]
      OBVIOUS
    <2>2. /\ y \in HostStates /\ y.conn = X.conn /\ y.queue = X.queue /\ y.delivered = X.delivered
          /\ y.renewed = X.renewed /\ y.route = X.route
      BY <2>1 DEF HostStates
    <2>3. HostBecomes(Open(y), Read(Link))
      BY <1>1, <1>6, <2>1 DEF AfterAnswer
    <2>4. Using(X)
      BY <1>1, <1>6 DEF Using
    <2> QED
      BY <1>1, <2>2, <2>3, <2>4, OpensKeeps
  <1>7. CASE X.call \notin {"acquire", "renew", "close", "release"}
    <2>1. HostBecomes(Open(X), Read(Link))
      BY <1>1, <1>7 DEF AfterAnswer
    <2>2. Using(X)
      BY <1>1, <1>7 DEF Using
    <2> QED
      BY <1>1, <2>1, <2>2, OpensKeeps
  <1> QED
    BY <1>3, <1>4, <1>5, <1>6, <1>7

(* The Host waits for an answer and reads a frame.                         *)
LEMMA HostReplyKeeps ==
    ASSUME BridgeInv, HostReply
    PROVE  BridgeInv'
  <1>0. /\ host.phase = "calling" /\ Link.out # <<>> /\ host.conn \in Conns
        /\ UNCHANGED <<broker, helper, helperLink, clock>>
    BY HostConnected DEF HostReply
  <1>1. CASE FailHost
    BY <1>0, <1>1, FailHostKeeps
  <1>2. CASE /\ IsEvent(Head(Link.out))
             /\ HostBecomes([host EXCEPT !.queue = EnqueueEvent(host.queue, Head(Link.out))], Read(Link))
    BY <1>0, <1>2, QueueEventKeeps
  <1>3. CASE ~IsEvent(Head(Link.out)) /\ AfterAnswer(Head(Link.out), Read(Link))
    BY <1>0, <1>3, AfterAnswerKeeps
  <1> QED
    BY <1>1, <1>2, <1>3 DEF HostReply

(* An event is given to the session.                                       *)
LEMMA DeliverKeeps ==
    ASSUME BridgeInv, host.phase = "open", NEW e \in Frames, NEW q \in Queues, NEW l \in Links,
           IsEvent(e), Genuine(helper, e), QueueOK(helper, q), GenuineEvents(helper, l.out),
           l.peer = Link.peer, l.broker = Link.broker, l.in = Link.in,
           NoAnswer(Link.out) => NoAnswer(l.out),
           Deliver(e, q, l), UNCHANGED <<broker, helper, helperLink, clock>>
    PROVE  BridgeInv'
  <1>0. /\ host.conn \in Conns /\ Link.broker \in {"open", "closed"}
        /\ Link.broker = "open" =>
                  Link.in = <<>> /\ NoAnswer(Link.out) /\ broker.phase # "exchanging"
    BY Settled
  <1>1. CASE FailHost
    BY <1>0, <1>1, FailHostKeeps
  <1>2. CASE /\ e.route = host.route /\ e.sequence = Len(host.delivered) + 1
             /\ HostBecomes([host EXCEPT !.queue = q, !.delivered = Append(@, e)], l)
    <2>h. PICK H : H = helper
      OBVIOUS
    <2>1. PICK X \in HostStates : X = host /\ H = helper
      BY <2>h, <1>0, HostFacts
    <2>2. PICK old \in Seq(Frames) : old = X.delivered
      BY DEF HostStates
    <2>3. PICK d \in Seq(Frames) : d = Append(old, e)
      BY Sent
    <2>4. PICK x : x = [X EXCEPT !.queue = q, !.delivered = d]
      OBVIOUS
    <2>5. /\ x \in HostStates /\ x.phase = X.phase /\ x.conn = X.conn /\ x.call = X.call
          /\ x.renewed = X.renewed /\ x.queue = q /\ x.delivered = d /\ x.route = X.route
      BY <2>4 DEF HostStates
    <2>6. DeliveredOK(X) /\ GenuineEvents(H, old)
      BY <1>0, <2>1, <2>2, HostFacts
    <2>7. GenuineEvents(H, d)
      BY <2>1, <2>3, <2>6, GenuineSent
    <2>8. DeliveredOK(x)
      <3>1. NoAnswer(d)
        BY <2>2, <2>3, <2>6, AnswersSent DEF DeliveredOK
      <3>2. PICK n \in Nat : n = Len(old)
        OBVIOUS
      <3>3. /\ Len(d) = n + 1 /\ \A i \in 1..n : d[i] = old[i]
            /\ d[n + 1] = e
        BY <2>3, <3>2, Sent
      <3>4. \A i \in 1..Len(d) : d[i].sequence = i /\ d[i].route = X.route
        <4> SUFFICES ASSUME NEW i \in 1..(n + 1)
                     PROVE  d[i].sequence = i /\ d[i].route = X.route
          BY <3>3
        <4>1. CASE i \in 1..n
          BY <2>2, <2>6, <3>2, <3>3, <4>1 DEF DeliveredOK
        <4>2. CASE i = n + 1
          BY <1>2, <2>1, <2>2, <3>2, <3>3, <4>2
        <4> QED
          BY <4>1, <4>2
      <3> QED
        BY <2>1, <2>5, <3>1, <3>4 DEF DeliveredOK
    <2>9. InCall(broker, x, l)
      <3>1. Link.broker = "open" => OneAnswer(l.out)
        BY <1>0 DEF NoAnswer, OneAnswer
      <3> QED
        BY <1>0, <2>1, <2>5, <3>1 DEF InCall
    <2>10. Connected /\ broker.conn = host.conn /\ broker.leases.active # None =>
              x.renewed >= broker.leases.active.renewed
      BY <2>1, <2>5, OpenCadence
    <2>11. MayBecome(x, l)
      BY <1>0, <2>1, <2>5, <2>7, <2>8, <2>9, <2>10 DEF MayBecome
    <2>12. HostBecomes(x, l)
      BY <1>2, <2>1, <2>2, <2>3, <2>4
    <2> QED
      BY <1>0, <2>11, <2>12, BecomesKeeps
  <1> QED
    BY <1>1, <1>2 DEF Deliver

(* The Host polls for an event.                                            *)
LEMMA HostPollKeeps ==
    ASSUME BridgeInv, HostPoll
    PROVE  BridgeInv'
  <1>0. /\ host.phase = "open" /\ host.conn \in Conns
        /\ UNCHANGED <<broker, helper, helperLink, clock>>
    BY HostConnected DEF HostPoll
  <1>h. PICK H : H = helper
    OBVIOUS
  <1>1. PICK X \in HostStates, L \in Links : X = host /\ L = Link /\ H = helper
    BY <1>h, <1>0, HostFacts
  <1>2. /\ X.queue \in Queues /\ L.out \in Seq(Frames) /\ QueueOK(H, X.queue)
        /\ GenuineEvents(H, L.out)
    BY <1>0, <1>1, HostFacts DEF HostStates, Links
  <1>3. CASE RenewDue /\ SendRequest([host EXCEPT !.op = "poll"], Link, "renew")
    <2>1. PICK y : y = [X EXCEPT !.op = "poll"]
      OBVIOUS
    <2>2. /\ y \in HostStates /\ y.conn = X.conn /\ y.renewed = X.renewed /\ y.queue = X.queue
          /\ y.delivered = X.delivered /\ y.route = X.route
      BY <2>1 DEF HostStates, Ops
    <2>3. PICK kind \in RequestKinds \ {"acquire"} : kind = "renew"
      BY DEF RequestKinds
    <2>4. SendRequest(y, Link, kind)
      BY <1>1, <1>3, <2>1, <2>3
    <2> QED
      BY <1>0, <1>1, <1>3, <2>2, <2>4, OpenSends
  <1>4. CASE /\ HasQueued(host.queue)
             /\ Deliver(QueuedEvent(host.queue), PopEvent(host.queue), Link)
    <2>1. PICK e \in Frames, q \in Queues : e = QueuedEvent(X.queue) /\ q = PopEvent(X.queue)
      BY <1>1, <1>2, <1>4, PoppedQueue
    <2>2. QueueOK(H, q) /\ IsEvent(e) /\ Genuine(H, e)
      BY <1>1, <1>2, <1>4, <2>1, GenuinePopped
    <2>3. Deliver(e, q, L)
      BY <1>1, <1>4, <2>1
    <2> QED
      BY <1>0, <1>1, <1>2, <2>2, <2>3, DeliverKeeps
  <1>5. CASE /\ Link.out # <<>> /\ IsEvent(Head(Link.out))
             /\ Deliver(Head(Link.out), host.queue, Read(Link))
    <2>1. L.out # <<>>
      BY <1>1, <1>5
    <2>2. PICK e \in Frames, l \in Links, q \in Queues : e = Head(L.out) /\ l = Read(L) /\ q = X.queue
      BY <1>2, <2>1, ReadLink
    <2>3. l.broker = L.broker /\ l.in = L.in /\ l.out = Tail(L.out) /\ l.peer = L.peer
      BY <2>1, <2>2, ReadLink
    <2>4. IsEvent(e) /\ Genuine(H, e) /\ GenuineEvents(H, l.out) /\ QueueOK(H, q)
      BY <1>1, <1>2, <1>5, <2>1, <2>2, <2>3, GenuineReceived
    <2>5. NoAnswer(L.out) => NoAnswer(l.out)
      BY <1>2, <2>1, <2>3, AnswersReceived
    <2>6. Deliver(e, q, l)
      BY <1>1, <1>5, <2>2
    <2> QED
      BY <1>0, <1>1, <2>3, <2>4, <2>5, <2>6, DeliverKeeps
  <1>6. CASE FailHost
    BY <1>0, <1>6, FailHostKeeps
  <1> QED
    BY <1>3, <1>4, <1>5, <1>6 DEF HostPoll

(* The agent stops or is killed.                                           *)
LEMMA HostDiesKeeps ==
    ASSUME BridgeInv, HostDies
    PROVE  BridgeInv'
  <1>1. host.conn \in Conns
    BY HostConnected DEF HostDies
  <1>2. PICK k \in Credentials \cup {None}, n \in Nat : k = None /\ n = 0
    OBVIOUS
  <1>3. Stopped(host')
    BY <1>2, StoppedHost DEF HostDies
  <1>4. /\ hostLink' = [hostLink EXCEPT ![host.conn] = ClosePeer(@)]
        /\ UNCHANGED <<broker, helper, helperLink, clock>>
    BY DEF HostDies
  <1> QED
    BY <1>1, <1>3, <1>4, HostStops

(* Every step of the Host keeps the invariant.                             *)
LEMMA HostNextKeeps ==
    ASSUME BridgeInv, HostNext
    PROVE  BridgeInv'
  <1>1. CASE \E k \in Credentials : HostProbe(k)
    BY <1>1, ConnectingKeeps DEF HostProbe
  <1>2. CASE \E x \in Contexts : HostConnect(x)
    <2>1. PICK x \in SessionContexts : Connecting(host.credentials, x)
      BY <1>2, Limits DEF HostConnect
    <2>2. PICK k \in Credentials \cup {None} : k = host.credentials
      BY DEF BridgeInv, TypeInv, HostStates
    <2> QED
      BY <2>1, <2>2, ConnectingKeeps
  <1>3. CASE HostStatus
    BY <1>3, HostStatusKeeps
  <1>4. CASE HostReply
    BY <1>4, HostReplyKeeps
  <1>5. CASE HostPoll
    BY <1>5, HostPollKeeps
  <1>6. CASE HostReceiveFails \/ HostDrop
    <2>1. host.conn \in Conns /\ FailHost /\ UNCHANGED <<broker, helper, helperLink, clock>>
      BY <1>6, HostConnected DEF HostReceiveFails, HostDrop
    <2> QED
      BY <2>1, FailHostKeeps
  <1>7. CASE HostDies
    BY <1>7, HostDiesKeeps
  <1>8. CASE \E op \in {"start", "restart", "candidate", "input", "close"} : HostCall(op)
    BY <1>8, HostCallKeeps
  <1> QED
    BY <1>1, <1>2, <1>3, <1>4, <1>5, <1>6, <1>7, <1>8 DEF HostNext

-----------------------------------------------------------------------------
(* A step of the broker within a session: what it must keep.               *)

BrokerMoves(b, l, m) ==
    /\ broker' = b /\ hostLink' = [hostLink EXCEPT ![broker.conn] = l]
    /\ helperLink' = [helperLink EXCEPT ![broker.helper] = m]
    /\ UNCHANGED <<host, helper, clock>>
BrokerOutcome(b, l, m) ==
    /\ b \in BrokerStates /\ b.conn = broker.conn /\ b.helper = broker.helper
    /\ b.phase \in {"serving", "exchanging"} /\ (b.phase = "exchanging" => b.request \in Frames)
    /\ b.context \in SessionContexts
    /\ l \in Links /\ l.broker = "open" /\ l.peer # "unused" /\ Len(l.in) <= 1
    /\ GenuineEvents(helper, l.out)
    /\ (b.phase = "exchanging" => l.in = <<>>)
    /\ (host.conn = b.conn /\ host.phase # "idle" => InCall(b, host, l))
    /\ Cadence(b, host, l, clock)
    /\ m \in Links /\ HelperOK(b, b.helper, helper[b.helper], m)
    /\ RouteOK(b.helper, helper[b.helper], m) /\ GenuineEvents(helper, m.in)
    /\ LeaseRouteOK(b) /\ QueueOK(helper, b.queue)

(* A step of the broker with such an outcome keeps the invariant.          *)
LEMMA BrokerTurn ==
    ASSUME BridgeInv, Connected, NEW b, NEW l, NEW m, BrokerMoves(b, l, m), BrokerOutcome(b, l, m)
    PROVE  BridgeInv'
  <1>0. /\ b \in BrokerStates /\ l \in Links /\ m \in Links
        /\ broker.conn \in Conns /\ broker.helper \in Helpers
        /\ hostLink \in [Conns -> Links] /\ helperLink \in [Helpers -> Links]
        /\ broker' = b /\ b.conn = broker.conn /\ b.helper = broker.helper
        /\ hostLink' = [hostLink EXCEPT ![broker.conn] = l]
        /\ helperLink' = [helperLink EXCEPT ![broker.helper] = m]
        /\ UNCHANGED <<host, helper, clock>> /\ b.phase \in {"serving", "exchanging"}
    BY DEF BridgeInv, TypeInv, BrokerMoves, BrokerOutcome
  <1>1. /\ hostLink' \in [Conns -> Links] /\ hostLink'[broker.conn] = l
        /\ \A c \in Conns \ {broker.conn} : hostLink'[c] = hostLink[c]
        /\ helperLink' \in [Helpers -> Links] /\ helperLink'[broker.helper] = m
        /\ \A h \in Helpers \ {broker.helper} : helperLink'[h] = helperLink[h]
    BY <1>0
  <1>2. TypeInv'
    BY <1>0, <1>1 DEF BridgeInv, TypeInv, Connected, Serving, BrokerOutcome
  <1>3. HelperInv'
    <2> SUFFICES ASSUME NEW h \in Helpers
                 PROVE  HelperOK(b, h, helper[h], helperLink'[h])
      BY <1>0 DEF HelperInv
    <2>1. CASE h = broker.helper
      BY <1>0, <1>1, <2>1 DEF BrokerOutcome
    <2>2. CASE h # broker.helper
      <3>1. HelperOK(broker, h, helper[h], helperLink[h])
        BY DEF BridgeInv, HelperInv
      <3>2. ~InService(broker, h) /\ ~InService(b, h)
        BY <1>0, <2>2 DEF InService
      <3> QED
        BY <1>1, <2>2, <3>1, <3>2 DEF HelperOK
    <2> QED
      BY <2>1, <2>2
  <1>4. \A c \in Conns : c # broker.conn => hostLink[c].broker # "open"
    BY DEF BridgeInv, CallInv, LinkOK
  <1>5. CallInv'
    <2>1. \A c \in Conns : c > host.conn => hostLink'[c] = NewLink
      <3> SUFFICES ASSUME NEW c \in Conns, c > host.conn
                   PROVE  hostLink'[c] = NewLink
        OBVIOUS
      <3>1. hostLink[c] = NewLink
        BY DEF BridgeInv, CallInv, FreshLinks
      <3>2. c # broker.conn
        BY <3>1 DEF BridgeInv, CallInv, HostSide, NewLink
      <3> QED
        BY <1>1, <3>1, <3>2
    <2>2. \A c \in Conns : LinkOK(b, host, c, hostLink'[c])
      <3> SUFFICES ASSUME NEW c \in Conns
                   PROVE  LinkOK(b, host, c, hostLink'[c])
        OBVIOUS
      <3>1. CASE c = broker.conn
        BY <1>0, <1>1, <3>1 DEF BrokerOutcome, LinkOK
      <3>2. CASE c # broker.conn
        <4>1. LinkOK(broker, host, c, hostLink[c])
          BY DEF BridgeInv, CallInv
        <4> QED
          BY <1>1, <1>4, <3>2, <4>1 DEF LinkOK
      <3> QED
        BY <3>1, <3>2
    <2>3. hostLink'[b.conn].broker = "open" /\ (b.phase = "exchanging" => hostLink'[b.conn].in = <<>>)
      BY <1>0, <1>1 DEF BrokerOutcome
    <2>4. host.phase # "idle" => InCall(b, host, hostLink'[host.conn])
      <3> SUFFICES ASSUME host.phase # "idle"
                   PROVE  InCall(b, host, hostLink'[host.conn])
        OBVIOUS
      <3>1. CASE host.conn = broker.conn
        BY <1>0, <1>1, <3>1 DEF BrokerOutcome
      <3>2. CASE host.conn # broker.conn
        <4>1. host.conn \in Conns
          BY HostConnected
        <4>2. LinkOK(broker, host, host.conn, hostLink[host.conn])
          BY <4>1 DEF BridgeInv, CallInv
        <4>3. hostLink[host.conn].broker # "open" /\ hostLink[host.conn] \in Links
          BY <1>0, <1>4, <3>2, <4>1
        <4> QED
          BY <1>1, <3>2, <4>1, <4>2, <4>3, NothingSent DEF LinkOK, InCall, Links
      <3> QED
        BY <3>1, <3>2
    <2> QED
      BY <1>0, <2>1, <2>2, <2>3, <2>4 DEF CallInv, FreshLinks, Connected, HostSide, Link
  <1>6. CadenceInv'
    BY <1>0, <1>1 DEF CadenceInv, HostSide, BrokerOutcome
  <1>7. EventInv'
    <2>1. \A c \in Conns : GenuineEvents(helper, hostLink'[c].out)
      BY <1>1 DEF BridgeInv, EventInv, BrokerOutcome
    <2>2. \A h \in Helpers : /\ RouteOK(h, helper[h], helperLink'[h])
                             /\ GenuineEvents(helper, helperLink'[h].in)
      BY <1>0, <1>1 DEF BridgeInv, EventInv, BrokerOutcome
    <2> QED
      BY <1>0, <2>1, <2>2 DEF BridgeInv, EventInv, BrokerOutcome
  <1> QED
    BY <1>2, <1>3, <1>5, <1>6, <1>7 DEF BridgeInv

-----------------------------------------------------------------------------
(* A step after which the broker serves no connection.                     *)

\* the socket of a connection stays, or the broker's end is closed after a last frame
HostLinkRests(old, new) ==
    \/ new = old /\ old.broker # "open"
    \/ old # NewLink /\ \E m \in Links : new = CloseBroker(m) /\ GenuineEvents(helper, m.out)
\* a Helper nobody asked stays or is registered, any other loses its connection
HelperLinkRests(x, y, old, new) ==
    /\ y.gate = x.gate /\ y.emitted = x.emitted
    /\ \/ y = x /\ new = old /\ (old.broker = "closed" \/ Untouched(x, old))
       \/ y = x /\ new = CloseBroker(old)
       \/ y.phase # "showing" /\ Untouched(y, new) /\ new.peer # "unused"
Rests(b) ==
    /\ b \in BrokerStates /\ b.phase \in {"accepting", "stopped"} /\ b.leases.active = None
    /\ b.queue \in {NoEvents, broker.queue}
    /\ helper' \in [Helpers -> HelperStates]
    /\ hostLink' \in [Conns -> Links] /\ helperLink' \in [Helpers -> Links] /\ clock' \in Nat
    /\ \A c \in Conns : HostLinkRests(hostLink[c], hostLink'[c])
    /\ \A h \in Helpers : HelperLinkRests(helper[h], helper'[h], helperLink[h], helperLink'[h])

(* Such a step keeps the invariant.                                        *)
LEMMA RestTurn ==
    ASSUME BridgeInv, NEW b, Rests(b), broker' = b, UNCHANGED host
    PROVE  BridgeInv'
  <1>0. /\ b \in BrokerStates /\ b.phase \in {"accepting", "stopped"} /\ b.leases.active = None
        /\ helper' \in [Helpers -> HelperStates] /\ b.queue \in {NoEvents, broker.queue}
        /\ hostLink' \in [Conns -> Links] /\ helperLink' \in [Helpers -> Links] /\ clock' \in Nat
        /\ hostLink \in [Conns -> Links] /\ helperLink \in [Helpers -> Links]
        /\ helper \in [Helpers -> HelperStates] /\ broker' = b
    BY DEF Rests, BridgeInv, TypeInv
  <1>1. \A h \in Helpers : /\ HelperOK(broker, h, helper[h], helperLink[h])
                           /\ RouteOK(h, helper[h], helperLink[h])
                           /\ HelperLinkRests(helper[h], helper'[h], helperLink[h], helperLink'[h])
    BY DEF BridgeInv, HelperInv, EventInv, Rests
  <1>2. \A h \in Helpers : helper'[h].phase = "showing" => helper'[h].request \in Frames
    BY <1>1 DEF BridgeInv, TypeInv, HelperLinkRests
  <1>3. TypeInv'
    BY <1>0, <1>2 DEF BridgeInv, TypeInv, Connected, Serving
  <1>4. \A h \in Helpers : ~InService(b, h)
    BY <1>0 DEF InService
  <1>5. HelperInv'
    <2> SUFFICES ASSUME NEW h \in Helpers
                 PROVE  HelperOK(b, h, helper'[h], helperLink'[h])
      BY <1>0 DEF HelperInv
    <2>1. PICK x \in HelperStates, y \in HelperStates, old \in Links, new \in Links :
              x = helper[h] /\ y = helper'[h] /\ old = helperLink[h] /\ new = helperLink'[h]
      BY <1>0
    <2>2. HelperOK(broker, h, x, old) /\ HelperLinkRests(x, y, old, new)
      BY <1>1, <2>1
    <2> SUFFICES HelperOK(b, h, y, new)
      BY <2>1
    <2>3. CASE y = x /\ new = old /\ (old.broker = "closed" \/ Untouched(x, old))
      BY <1>4, <2>2, <2>3 DEF HelperOK
    <2>4. CASE y = x /\ new = CloseBroker(old)
      <3>1. new.peer = old.peer /\ new.broker = "closed" /\ new.in = <<>> /\ new.out \in {old.out, <<>>}
        BY <2>4, CloseBrokerLink
      <3> QED
        BY <2>2, <2>4, <3>1 DEF HelperOK, Untouched
    <2>5. CASE Untouched(y, new) /\ new.peer # "unused"
      BY <1>4, <2>5 DEF HelperOK
    <2> QED
      BY <2>2, <2>3, <2>4, <2>5 DEF HelperLinkRests
  <1>6. PICK H \in [Helpers -> HelperStates], G \in [Helpers -> HelperStates] :
            H = helper /\ G = helper'
    BY <1>0
  <1>7. Grows(H, G)
    <2>1. \A h \in Helpers : G[h].emitted = H[h].emitted
      BY <1>1, <1>6 DEF HelperLinkRests
    <2> QED
      BY <2>1, GrowsNot
  <1>8. \A s : GenuineEvents(H, s) => GenuineEvents(G, s)
    BY <1>7, GenuineEventsKept
  <1>9. \A q : QueueOK(H, q) => QueueOK(G, q)
    BY <1>7, QueueKept
  <1>10. ASSUME NEW h \in Helpers
         PROVE  RouteOK(h, helper'[h], helperLink'[h]) /\ GenuineEvents(helper', helperLink'[h].in)
    <2>1. PICK x \in HelperStates, y \in HelperStates, old \in Links, new \in Links :
              x = helper[h] /\ y = helper'[h] /\ old = helperLink[h] /\ new = helperLink'[h]
      BY <1>0
    <2>2. /\ RouteOK(h, x, old) /\ HelperLinkRests(x, y, old, new) /\ GenuineEvents(H, old.in)
          /\ HelperOK(broker, h, x, old)
      BY <1>1, <1>6, <2>1 DEF BridgeInv, EventInv
    <2>3. CASE y = x /\ new = old
      BY <1>6, <1>8, <2>1, <2>2, <2>3
    <2>4. CASE y = x /\ new = CloseBroker(old)
      <3>1. new.in = <<>> /\ new.out \in {old.out, <<>>}
        BY <2>4, CloseBrokerLink
      <3>2. RouteOK(h, y, new)
        BY <2>2, <2>4, <3>1, NothingSent DEF RouteOK
      <3> QED
        BY <1>6, <2>1, <3>1, <3>2, GenuineNothing
    <2>5. CASE Untouched(y, new)
      <3>1. new.in = <<>> /\ new.out = <<>> /\ y.gate = None
        BY <2>5 DEF Untouched
      <3>2. RouteOK(h, y, new)
        BY <3>1, NothingSent DEF RouteOK
      <3> QED
        BY <1>6, <2>1, <3>1, <3>2, GenuineNothing
    <2> QED
      BY <2>2, <2>3, <2>4, <2>5 DEF HelperLinkRests
  <1>11. ASSUME NEW c \in Conns
         PROVE  /\ GenuineEvents(helper', hostLink'[c].out)
                /\ hostLink[c] = NewLink => hostLink'[c] = NewLink
                /\ LinkOK(b, host, c, hostLink'[c])
                /\ c = host.conn => InCall(b, host, hostLink'[c])
    <2>1. PICK old \in Links, new \in Links : old = hostLink[c] /\ new = hostLink'[c]
      BY <1>0
    <2>2. HostLinkRests(old, new) /\ LinkOK(broker, host, c, old) /\ GenuineEvents(H, old.out)
      BY <1>6, <2>1 DEF Rests, BridgeInv, CallInv, EventInv
    <2>3. CASE new = old /\ old.broker # "open"
      <3>1. LinkOK(b, host, c, new)
        BY <2>2, <2>3 DEF LinkOK
      <3>2. c = host.conn => InCall(b, host, new)
        BY <2>2, <2>3, NothingSent DEF LinkOK, InCall, Links
      <3> QED
        BY <1>6, <1>8, <2>1, <2>2, <2>3, <3>1, <3>2
    <2>4. CASE old # NewLink /\ \E m \in Links : new = CloseBroker(m) /\ GenuineEvents(helper, m.out)
      <3>1. PICK m \in Links : new = CloseBroker(m) /\ GenuineEvents(H, m.out)
        BY <1>6, <2>4
      <3>2. new.broker = "closed" /\ new.in = <<>> /\ new.out \in {m.out, <<>>}
        BY <3>1, CloseBrokerLink
      <3>3. GenuineEvents(G, new.out)
        BY <1>8, <3>1, <3>2, GenuineNothing
      <3>4. LinkOK(b, host, c, new) /\ InCall(b, host, new)
        BY <3>2, NothingSent DEF LinkOK, InCall
      <3> QED
        BY <1>6, <2>1, <2>4, <3>3, <3>4
    <2> QED
      BY <2>2, <2>3, <2>4 DEF HostLinkRests
  <1>12. CallInv'
    <2>1. \A c \in Conns : c > host.conn => hostLink'[c] = NewLink
      BY <1>11 DEF BridgeInv, CallInv, FreshLinks
    <2>2. host.phase # "idle" => InCall(b, host, hostLink'[host.conn])
      BY <1>11, HostConnected
    <2>3. ~(b.phase \in {"waiting", "serving", "exchanging"})
      BY <1>0
    <2> QED
      BY <1>0, <1>11, <2>1, <2>2, <2>3 DEF CallInv, FreshLinks, Connected, Link
  <1>13. CadenceInv'
    BY <1>0 DEF CadenceInv, Connected
  <1>14. EventInv'
    <2>1. /\ DeliveredOK(host) /\ QueueOK(G, host.queue) /\ GenuineEvents(G, host.delivered)
      BY <1>6, <1>8, <1>9 DEF BridgeInv, EventInv
    <2>2. QueueOK(G, b.queue) /\ LeaseRouteOK(b)
      BY <1>0, <1>6, <1>9, GenuineNothing DEF LeaseRouteOK, BridgeInv, EventInv
    <2> QED
      BY <1>0, <1>6, <1>10, <1>11, <2>1, <2>2 DEF EventInv
  <1> QED
    BY <1>3, <1>5, <1>12, <1>13, <1>14 DEF BridgeInv

(* A broker without a session.                                             *)
LEMMA NoSessionState ==
    ASSUME NEW slot \in Helpers \cup {0}, NEW replay \in Seq(ClientNonces)
    PROVE  /\ NoSessionAt(slot, replay) \in BrokerStates
           /\ NoSessionAt(slot, replay).phase = "accepting"
           /\ NoSessionAt(slot, replay).leases.active = None
           /\ NoSessionAt(slot, replay).queue = NoEvents
           /\ [NoSessionAt(slot, replay) EXCEPT !.phase = "stopped"] \in BrokerStates
           /\ [NoSessionAt(slot, replay) EXCEPT !.phase = "stopped"].phase = "stopped"
           /\ [NoSessionAt(slot, replay) EXCEPT !.phase = "stopped"].leases.active = None
           /\ [NoSessionAt(slot, replay) EXCEPT !.phase = "stopped"].queue = NoEvents
  <1>1. NoLeases \in LeaseStates /\ NoLeases.active = None
    BY DEF NoLeases, LeaseStates, MaybeRoute
  <1>2. NoSession \in SessionStates
    BY DEF NoSession, SessionStates, OsSessions
  <1>3. None \in MaybeContext
    BY DEF MaybeContext
  <1>4. NoSessionAt(slot, replay) \in BrokerStates
    BY <1>1, <1>2, <1>3, EmptyQueue DEF NoSessionAt, BrokerStates
  <1>5. /\ NoSessionAt(slot, replay).phase = "accepting"
        /\ NoSessionAt(slot, replay).leases.active = None
        /\ NoSessionAt(slot, replay).queue = NoEvents
    BY <1>1 DEF NoSessionAt
  <1>6. PICK s \in BrokerStates : s = NoSessionAt(slot, replay)
    BY <1>4
  <1>7. /\ [s EXCEPT !.phase = "stopped"] \in BrokerStates
        /\ [s EXCEPT !.phase = "stopped"].phase = "stopped"
        /\ [s EXCEPT !.phase = "stopped"].leases = s.leases
        /\ [s EXCEPT !.phase = "stopped"].queue = s.queue
    BY DEF BrokerStates
  <1> QED
    BY <1>4, <1>5, <1>6, <1>7

-----------------------------------------------------------------------------
(* The steps of the broker.                                                *)

(* What is known of the broker in a session.                               *)
LEMMA BrokerFacts ==
    ASSUME BridgeInv, Connected
    PROVE  /\ broker \in BrokerStates /\ broker.conn \in Conns /\ broker.helper \in Helpers
           /\ HostSide \in Links /\ HostSide.broker = "open" /\ Len(HostSide.in) <= 1
           /\ HostSide.peer # "unused"
           /\ GenuineEvents(helper, HostSide.out) /\ HostSide # NewLink
           /\ HelperSide \in Links /\ GenuineEvents(helper, HelperSide.in)
           /\ HelperOK(broker, broker.helper, helper[broker.helper], HelperSide)
           /\ RouteOK(broker.helper, helper[broker.helper], HelperSide)
           /\ helper[broker.helper] \in HelperStates
           /\ hostLink \in [Conns -> Links] /\ helperLink \in [Helpers -> Links]
           /\ LeaseRouteOK(broker) /\ QueueOK(helper, broker.queue)
           /\ Cadence(broker, host, HostSide, clock) /\ clock \in Nat
           /\ host.conn = broker.conn /\ host.phase # "idle" => InCall(broker, host, HostSide)
           /\ broker.phase = "exchanging" => HostSide.in = <<>> /\ broker.request \in Frames
           /\ broker.phase \in {"serving", "exchanging"} => broker.context \in SessionContexts
  <1>1. /\ broker \in BrokerStates /\ broker.conn \in Conns /\ broker.helper \in Helpers
        /\ hostLink \in [Conns -> Links] /\ helperLink \in [Helpers -> Links]
        /\ helper[broker.helper] \in HelperStates /\ clock \in Nat
        /\ broker.phase = "exchanging" => broker.request \in Frames
        /\ broker.phase \in {"serving", "exchanging"} => broker.context \in SessionContexts
    BY DEF BridgeInv, TypeInv, Serving
  <1>2. HostSide \in Links /\ HelperSide \in Links
    BY <1>1 DEF HostSide, HelperSide
  <1>3. /\ HostSide.broker = "open" /\ LinkOK(broker, host, broker.conn, HostSide)
        /\ broker.phase = "exchanging" => HostSide.in = <<>>
        /\ host.conn = broker.conn /\ host.phase # "idle" => InCall(broker, host, HostSide)
    BY <1>1 DEF BridgeInv, CallInv, HostSide, Link
  <1>4. Len(HostSide.in) <= 1 /\ HostSide # NewLink /\ HostSide.peer # "unused"
    BY <1>3 DEF LinkOK, NewLink
  <1>5. /\ HelperOK(broker, broker.helper, helper[broker.helper], HelperSide)
        /\ RouteOK(broker.helper, helper[broker.helper], HelperSide)
        /\ GenuineEvents(helper, HelperSide.in) /\ GenuineEvents(helper, HostSide.out)
        /\ LeaseRouteOK(broker) /\ QueueOK(helper, broker.queue)
    BY <1>1 DEF BridgeInv, HelperInv, EventInv, HelperSide, HostSide
  <1>6. Cadence(broker, host, HostSide, clock)
    BY DEF BridgeInv, CadenceInv
  <1> QED
    BY <1>1, <1>2, <1>3, <1>4, <1>5, <1>6

(* Connections nobody serves stay as they are.                             *)
LEMMA Bystanders ==
    ASSUME BridgeInv
    PROVE  /\ \A c \in Conns : ~(Connected /\ c = broker.conn) => hostLink[c].broker # "open"
           /\ \A h \in Helpers : ~(Serving /\ h = broker.helper) =>
                  helperLink[h].broker = "closed" \/ Untouched(helper[h], helperLink[h])
  <1>1. \A c \in Conns : LinkOK(broker, host, c, hostLink[c])
    BY DEF BridgeInv, CallInv
  <1>2. \A h \in Helpers : HelperOK(broker, h, helper[h], helperLink[h])
    BY DEF BridgeInv, HelperInv
  <1>3. \A h \in Helpers : ~(Serving /\ h = broker.helper) => ~InService(broker, h)
    BY DEF Serving, InService
  <1> QED
    BY <1>1, <1>2, <1>3 DEF LinkOK, HelperOK, Connected

(* The session ends.                                                       *)
LEMMA EndSessionKeeps ==
    ASSUME BridgeInv, Connected, NEW l \in Links, GenuineEvents(helper, l.out), EndSession(l),
           UNCHANGED <<host, helper>>
    PROVE  BridgeInv'
  <1>0. /\ broker \in BrokerStates /\ broker.conn \in Conns /\ broker.helper \in Helpers
        /\ hostLink \in [Conns -> Links] /\ helperLink \in [Helpers -> Links]
        /\ HostSide # NewLink /\ HelperSide \in Links
    BY BrokerFacts
  <1>1. PICK b : b = NoSessionAt(0, broker.replay)
    OBVIOUS
  <1>2. /\ b \in BrokerStates /\ b.phase = "accepting" /\ b.leases.active = None
        /\ b.queue = NoEvents
    <2>1. broker.replay \in Seq(ClientNonces)
      BY <1>0 DEF BrokerStates
    <2> QED
      BY <1>1, <2>1, NoSessionState
  <1>3. /\ broker' = b /\ hostLink' = [hostLink EXCEPT ![broker.conn] = CloseBroker(l)]
        /\ helperLink' = [helperLink EXCEPT ![broker.helper] = CloseBroker(HelperSide)]
        /\ clock' = 0
    BY <1>1 DEF EndSession, HelperSide
  <1>4. CloseBroker(l) \in Links /\ CloseBroker(HelperSide) \in Links
    BY <1>0, CloseBrokerLink
  <1>5. hostLink' \in [Conns -> Links] /\ helperLink' \in [Helpers -> Links] /\ clock' \in Nat
    BY <1>0, <1>3, <1>4
  <1>6. \A c \in Conns : HostLinkRests(hostLink[c], hostLink'[c])
    BY <1>0, <1>3, Bystanders DEF HostLinkRests, HostSide
  <1>7. \A h \in Helpers : HelperLinkRests(helper[h], helper'[h], helperLink[h], helperLink'[h])
    BY <1>0, <1>3, Bystanders DEF HelperLinkRests, HelperSide
  <1>8. helper' \in [Helpers -> HelperStates]
    BY DEF BridgeInv, TypeInv
  <1>9. Rests(b)
    BY <1>2, <1>5, <1>6, <1>7, <1>8 DEF Rests
  <1> QED
    BY <1>3, <1>9, RestTurn

(* An error frame is no event.                                             *)
LEMMA ErrorFrame ==
    ASSUME NEW r \in Frames
    PROVE  Frame("error", None, r.sequence) \in Frames /\ ~IsEvent(Frame("error", None, r.sequence))
  <1>1. "error" \in Kinds \ {"ready", "acquire"} /\ None \in MaybeRoute /\ r.sequence \in Nat
    BY FrameParts DEF Kinds, MaybeRoute, RequestKinds, Ops
  <1> QED
    BY <1>1, PlainFrame DEF IsEvent

(* A last frame to the Host.                                               *)
LEMMA LastFrame ==
    ASSUME NEW H, NEW l \in Links, GenuineEvents(H, l.out), NEW f \in Frames, ~IsEvent(f)
    PROVE  FromBroker(l, f) \in Links /\ GenuineEvents(H, FromBroker(l, f).out)
  <1>1. FromBroker(l, f) \in Links /\ FromBroker(l, f).out = Append(l.out, f) /\ l.out \in Seq(Frames)
    BY FromBrokerLink DEF Links
  <1>2. GenuineEvents(H, Append(l.out, f))
    BY <1>1, GenuineSent
  <1> QED
    BY <1>1, <1>2

(* A request is refused and the session ends.                              *)
LEMMA RefuseKeeps ==
    ASSUME BridgeInv, Connected, NEW r \in Frames, NEW l \in Links, GenuineEvents(helper, l.out),
           Refuse(r, l), UNCHANGED <<host, helper>>
    PROVE  BridgeInv'
  <1>1. PICK f \in Frames : f = Frame("error", None, r.sequence) /\ ~IsEvent(f)
    BY ErrorFrame
  <1>2. PICK H : H = helper
    OBVIOUS
  <1>3. PICK k \in Links : k = FromBroker(l, f) /\ GenuineEvents(H, k.out)
    BY <1>1, <1>2, LastFrame
  <1>4. EndSession(k)
    BY <1>1, <1>3 DEF Refuse
  <1> QED
    BY <1>2, <1>3, <1>4, EndSessionKeeps

(* The connection ends before a lease.                                     *)
LEMMA ReturnHelperKeeps ==
    ASSUME BridgeInv, broker.phase = "waiting", NEW l \in Links, GenuineEvents(helper, l.out),
           ReturnHelper(l), UNCHANGED <<host, helper>>
    PROVE  BridgeInv'
  <1>a. Connected /\ ~Serving
    BY DEF Connected, Serving
  <1>0. /\ broker \in BrokerStates /\ broker.conn \in Conns /\ broker.helper \in Helpers
        /\ hostLink \in [Conns -> Links] /\ helperLink \in [Helpers -> Links]
        /\ HostSide # NewLink /\ clock \in Nat
    BY <1>a, BrokerFacts
  <1>1. PICK b : b = NoSessionAt(broker.helper, broker.replay)
    OBVIOUS
  <1>2. /\ b \in BrokerStates /\ b.phase = "accepting" /\ b.leases.active = None
        /\ b.queue = NoEvents
    <2>1. PICK slot \in Helpers \cup {0}, replay \in Seq(ClientNonces) :
              slot = broker.helper /\ replay = broker.replay
      BY <1>0 DEF BrokerStates
    <2>2. b = NoSessionAt(slot, replay)
      BY <1>1, <2>1
    <2> QED
      BY <2>2, NoSessionState
  <1>3. /\ broker' = b /\ hostLink' = [hostLink EXCEPT ![broker.conn] = CloseBroker(l)]
        /\ UNCHANGED <<helperLink, clock>>
    BY <1>1 DEF ReturnHelper
  <1>4. CloseBroker(l) \in Links
    BY CloseBrokerLink
  <1>5. hostLink' \in [Conns -> Links] /\ helperLink' \in [Helpers -> Links] /\ clock' \in Nat
    BY <1>0, <1>3, <1>4
  <1>6. \A c \in Conns : HostLinkRests(hostLink[c], hostLink'[c])
    BY <1>0, <1>3, Bystanders DEF HostLinkRests, HostSide
  <1>7. \A h \in Helpers : HelperLinkRests(helper[h], helper'[h], helperLink[h], helperLink'[h])
    BY <1>3, <1>a, Bystanders DEF HelperLinkRests
  <1>8. helper' \in [Helpers -> HelperStates]
    BY DEF BridgeInv, TypeInv
  <1>9. Rests(b)
    BY <1>2, <1>5, <1>6, <1>7, <1>8 DEF Rests
  <1> QED
    BY <1>3, <1>9, RestTurn

(* The broker's process stops: every connection is closed.                 *)
LEMMA BrokerStopKeeps ==
    ASSUME BridgeInv, BrokerStop
    PROVE  BridgeInv'
  <1>0. /\ hostLink \in [Conns -> Links] /\ helperLink \in [Helpers -> Links]
        /\ helper \in [Helpers -> HelperStates]
    BY DEF BridgeInv, TypeInv
  <1>1. PICK b : b = [NoSessionAt(0, <<>>) EXCEPT !.phase = "stopped"]
    OBVIOUS
  <1>2. /\ b \in BrokerStates /\ b.phase = "stopped" /\ b.leases.active = None /\ b.queue = NoEvents
    <2>1. <<>> \in Seq(ClientNonces)
      OBVIOUS
    <2> QED
      BY <1>1, <2>1, NoSessionState
  <1>3. /\ broker' = b /\ clock' \in Nat /\ UNCHANGED <<host, helper>>
        /\ hostLink' = [c \in Conns |-> IF hostLink[c].peer = "unused" THEN hostLink[c]
                                        ELSE CloseBroker(hostLink[c])]
        /\ helperLink' = [h \in Helpers |-> IF helperLink[h].peer = "unused" THEN helperLink[h]
                                            ELSE CloseBroker(helperLink[h])]
    BY <1>1 DEF BrokerStop
  <1>4. \A m \in Links : CloseBroker(m) \in Links
    BY CloseBrokerLink
  <1>5. hostLink' \in [Conns -> Links] /\ helperLink' \in [Helpers -> Links]
    BY <1>0, <1>3, <1>4
  <1>6. \A c \in Conns : HostLinkRests(hostLink[c], hostLink'[c])
    <2> SUFFICES ASSUME NEW c \in Conns
                 PROVE  HostLinkRests(hostLink[c], hostLink'[c])
      OBVIOUS
    <2>1. CASE hostLink[c].peer = "unused"
      <3>1. hostLink[c].broker # "open"
        BY <2>1 DEF BridgeInv, CallInv, LinkOK
      <3> QED
        BY <1>3, <2>1, <3>1 DEF HostLinkRests
    <2>2. CASE hostLink[c].peer # "unused"
      <3>1. hostLink[c] # NewLink /\ GenuineEvents(helper, hostLink[c].out)
        BY <2>2 DEF NewLink, BridgeInv, EventInv
      <3> QED
        BY <1>0, <1>3, <2>2, <3>1 DEF HostLinkRests
    <2> QED
      BY <2>1, <2>2
  <1>7. \A h \in Helpers : HelperLinkRests(helper[h], helper'[h], helperLink[h], helperLink'[h])
    <2> SUFFICES ASSUME NEW h \in Helpers
                 PROVE  HelperLinkRests(helper[h], helper'[h], helperLink[h], helperLink'[h])
      OBVIOUS
    <2>1. HelperOK(broker, h, helper[h], helperLink[h])
      BY DEF BridgeInv, HelperInv
    <2>2. helperLink[h].peer = "unused" => Untouched(helper[h], helperLink[h])
      BY <2>1 DEF HelperOK
    <2> QED
      BY <1>3, <2>2 DEF HelperLinkRests
  <1>8. Rests(b)
    BY <1>0, <1>2, <1>3, <1>5, <1>6, <1>7 DEF Rests
  <1> QED
    BY <1>3, <1>8, RestTurn

(* The broker's process is started again.                                  *)
LEMMA BrokerStartKeeps ==
    ASSUME BridgeInv, BrokerStart
    PROVE  BridgeInv'
  <1>0. /\ hostLink \in [Conns -> Links] /\ helperLink \in [Helpers -> Links] /\ clock \in Nat
        /\ helper \in [Helpers -> HelperStates] /\ ~Connected /\ ~Serving
    BY DEF BridgeInv, TypeInv, BrokerStart, Connected, Serving
  <1>1. PICK b : b = NoSessionAt(0, <<>>)
    OBVIOUS
  <1>2. /\ b \in BrokerStates /\ b.phase = "accepting" /\ b.leases.active = None
        /\ b.queue = NoEvents
    <2>1. <<>> \in Seq(ClientNonces)
      OBVIOUS
    <2> QED
      BY <1>1, <2>1, NoSessionState
  <1>3. broker' = b /\ UNCHANGED <<host, helper, hostLink, helperLink, clock>>
    BY <1>1 DEF BrokerStart
  <1>4. \A c \in Conns : HostLinkRests(hostLink[c], hostLink'[c])
    BY <1>0, <1>3, Bystanders DEF HostLinkRests
  <1>5. \A h \in Helpers : HelperLinkRests(helper[h], helper'[h], helperLink[h], helperLink'[h])
    BY <1>0, <1>3, Bystanders DEF HelperLinkRests
  <1>6. Rests(b)
    BY <1>0, <1>2, <1>3, <1>4, <1>5 DEF Rests
  <1> QED
    BY <1>3, <1>6, RestTurn

(* A nonce is remembered.                                                  *)
LEMMA Claimed ==
    ASSUME NEW replay \in Seq(ClientNonces), NEW nonce \in ClientNonces
    PROVE  Claim(replay, nonce) \in Seq(ClientNonces)
  <1>1. CASE Len(replay) = ReplayCapacity
    <2>1. replay # <<>>
      BY <1>1, Limits
    <2>2. Tail(replay) \in Seq(ClientNonces)
      BY <2>1
    <2> QED
      BY <1>1, <2>2 DEF Claim
  <1>2. CASE Len(replay) # ReplayCapacity
    BY <1>2 DEF Claim
  <1> QED
    BY <1>1, <1>2

(* While the broker accepts there is no lease.                             *)
LEMMA Accepting ==
    ASSUME BridgeInv, broker.phase = "accepting"
    PROVE  /\ broker \in BrokerStates /\ broker.leases.active = None /\ ~Connected /\ ~Serving
           /\ hostLink \in [Conns -> Links] /\ helperLink \in [Helpers -> Links] /\ clock \in Nat
           /\ helper \in [Helpers -> HelperStates]
           /\ \A c \in Conns : hostLink[c].broker # "open"
           /\ \A h \in Helpers : helperLink[h].broker = "closed" \/ Untouched(helper[h], helperLink[h])
  <1>1. ~Connected /\ ~Serving
    BY DEF Connected, Serving
  <1>2. /\ broker \in BrokerStates /\ broker.leases.active = None /\ clock \in Nat
        /\ hostLink \in [Conns -> Links] /\ helperLink \in [Helpers -> Links]
        /\ helper \in [Helpers -> HelperStates]
    BY <1>1 DEF BridgeInv, TypeInv
  <1> QED
    BY <1>1, <1>2, Bystanders

(* A Helper connects, and is registered or turned away.                    *)
LEMMA BrokerAcceptHelperKeeps ==
    ASSUME BridgeInv, NEW h \in Helpers, BrokerAcceptHelper(h)
    PROVE  BridgeInv'
  <1>0. /\ broker.phase = "accepting" /\ helper[h].phase = "connecting"
        /\ helperLink[h].broker = "backlog" /\ UNCHANGED <<host, hostLink, clock>>
    BY DEF BrokerAcceptHelper
  <1>1. /\ broker \in BrokerStates /\ broker.leases.active = None
        /\ hostLink \in [Conns -> Links] /\ helperLink \in [Helpers -> Links] /\ clock \in Nat
        /\ helper \in [Helpers -> HelperStates]
        /\ \A c \in Conns : hostLink[c].broker # "open"
        /\ \A k \in Helpers : helperLink[k].broker = "closed" \/ Untouched(helper[k], helperLink[k])
    BY <1>0, Accepting
  <1>2. \A c \in Conns : HostLinkRests(hostLink[c], hostLink'[c])
    BY <1>0, <1>1 DEF HostLinkRests
  <1>3. PICK X \in HelperStates, L \in Links : X = helper[h] /\ L = helperLink[h]
    BY <1>1
  <1>4. X.phase = "connecting" /\ L.broker = "backlog" /\ Untouched(X, L) /\ L.peer # "unused"
    <2>1. HelperOK(broker, h, X, L)
      BY <1>3 DEF BridgeInv, HelperInv
    <2> QED
      BY <1>0, <1>1, <1>3, <2>1 DEF HelperOK
  <1>5. CASE /\ broker' = [broker EXCEPT !.slot = h, !.replay = Claim(@, <<"SessionHelper", h>>)]
             /\ helper' = [helper EXCEPT ![h].phase = "serving"]
             /\ helperLink' = [k \in Helpers |->
                   IF k = h THEN [helperLink[h] EXCEPT !.broker = "open"]
                   ELSE IF k = broker.slot THEN CloseBroker(helperLink[k]) ELSE helperLink[k]]
    <2>1. PICK B \in BrokerStates : B = broker
      BY <1>1
    <2>2. PICK replay \in Seq(ClientNonces) : replay = Claim(B.replay, <<"SessionHelper", h>>)
      <3>1. <<"SessionHelper", h>> \in ClientNonces /\ B.replay \in Seq(ClientNonces)
        BY Limits DEF ClientNonces, BrokerStates
      <3> QED
        BY <3>1, Claimed
    <2>3. PICK b : b = [B EXCEPT !.slot = h, !.replay = replay]
      OBVIOUS
    <2>4. /\ b \in BrokerStates /\ b.phase = B.phase /\ b.leases = B.leases /\ b.queue = B.queue
      BY <2>3 DEF BrokerStates
    <2>5. broker' = b
      BY <1>5, <2>1, <2>2, <2>3
    <2>6. PICK y : y = [X EXCEPT !.phase = "serving"]
      OBVIOUS
    <2>7. /\ y \in HelperStates /\ y.phase = "serving" /\ y.gate = X.gate /\ y.peer = X.peer
          /\ y.emitted = X.emitted
      BY <2>6 DEF HelperStates
    <2>8. helper' = [helper EXCEPT ![h] = y]
      BY <1>1, <1>3, <1>5, <2>6 DEF HelperStates
    <2>9. PICK l \in Links : l = [L EXCEPT !.broker = "open"]
      BY OpenLink
    <2>10. l.peer = L.peer /\ l.in = L.in /\ l.out = L.out
      BY <2>9, OpenLink
    <2>11. Untouched(y, l) /\ l.peer # "unused"
      BY <1>4, <2>7, <2>10 DEF Untouched
    <2>12. \A m \in Links : CloseBroker(m) \in Links
      BY CloseBrokerLink
    <2>13. /\ helperLink' \in [Helpers -> Links] /\ helperLink'[h] = l
           /\ \A k \in Helpers \ {h} : helperLink'[k] \in {helperLink[k], CloseBroker(helperLink[k])}
      BY <1>1, <1>3, <1>5, <2>9, <2>12
    <2>14. ASSUME NEW k \in Helpers
           PROVE  HelperLinkRests(helper[k], helper'[k], helperLink[k], helperLink'[k])
      <3>1. CASE k = h
        <4>1. helper'[k] = y /\ helperLink'[k] = l
          BY <1>1, <2>8, <2>13, <3>1
        <4> QED
          BY <1>3, <2>7, <2>11, <3>1, <4>1 DEF HelperLinkRests
      <3>2. CASE k # h
        <4>1. helper'[k] = helper[k]
          BY <1>1, <2>8, <3>2
        <4> QED
          BY <1>1, <2>13, <3>2, <4>1 DEF HelperLinkRests
      <3> QED
        BY <3>1, <3>2
    <2>15. helper' \in [Helpers -> HelperStates]
      BY <1>1, <2>7, <2>8
    <2>16. Rests(b)
      BY <1>0, <1>1, <1>2, <2>1, <2>4, <2>13, <2>14, <2>15 DEF Rests
    <2> QED
      BY <1>0, <2>5, <2>16, RestTurn
  <1>6. CASE helperLink' = [helperLink EXCEPT ![h] = CloseBroker(@)] /\ UNCHANGED <<broker, helper>>
    <2>1. CloseBroker(L) \in Links
      BY CloseBrokerLink
    <2>2. helperLink' \in [Helpers -> Links]
      BY <1>1, <1>3, <1>6, <2>1
    <2>3. \A k \in Helpers : HelperLinkRests(helper[k], helper'[k], helperLink[k], helperLink'[k])
      BY <1>1, <1>6 DEF HelperLinkRests
    <2>4. Rests(broker)
      BY <1>0, <1>1, <1>2, <1>6, <2>2, <2>3 DEF Rests
    <2>5. PICK b : b = broker
      OBVIOUS
    <2>6. Rests(b) /\ broker' = b
      BY <1>6, <2>4, <2>5
    <2> QED
      BY <1>0, <2>6, RestTurn
  <1> QED
    BY <1>5, <1>6 DEF BrokerAcceptHelper

(* A Host is turned away, or hears that there is no Helper.                *)
LEMMA TurnAwayKeeps ==
    ASSUME BridgeInv, broker.phase = "accepting", NEW c \in Conns, hostLink[c].peer # "unused",
           NEW b \in BrokerStates, b.phase = broker.phase, b.leases = broker.leases,
           b.queue = broker.queue, NEW m \in Links, GenuineEvents(helper, m.out), broker' = b,
           hostLink' = [hostLink EXCEPT ![c] = CloseBroker(m)],
           UNCHANGED <<host, helper, helperLink, clock>>
    PROVE  BridgeInv'
  <1>1. /\ broker.leases.active = None
        /\ hostLink \in [Conns -> Links] /\ helperLink \in [Helpers -> Links] /\ clock \in Nat
        /\ helper \in [Helpers -> HelperStates]
        /\ \A d \in Conns : hostLink[d].broker # "open"
        /\ \A k \in Helpers : helperLink[k].broker = "closed" \/ Untouched(helper[k], helperLink[k])
    BY Accepting
  <1>2. CloseBroker(m) \in Links
    BY CloseBrokerLink
  <1>3. hostLink' \in [Conns -> Links]
    BY <1>1, <1>2
  <1>4. hostLink[c] # NewLink
    BY DEF NewLink
  <1>5. \A d \in Conns : HostLinkRests(hostLink[d], hostLink'[d])
    BY <1>1, <1>4 DEF HostLinkRests
  <1>6. \A k \in Helpers : HelperLinkRests(helper[k], helper'[k], helperLink[k], helperLink'[k])
    BY <1>1 DEF HelperLinkRests
  <1>7. Rests(b)
    BY <1>1, <1>3, <1>5, <1>6 DEF Rests
  <1> QED
    BY <1>7, RestTurn

(* A Host is served, with the registered Helper.                           *)
LEMMA WelcomeKeeps ==
    ASSUME BridgeInv, broker.phase = "accepting", NEW c \in Conns,
           hostLink[c].peer # "unused", hostLink[c].broker = "backlog",
           NEW b \in BrokerStates, b.phase = "waiting", b.conn = c, b.helper \in Helpers,
           b.leases = broker.leases, b.queue = broker.queue, broker' = b, NEW l \in Links,
           NEW f \in Frames, ~IsEvent(f), l.peer = hostLink[c].peer, l.broker = "open",
           l.in = hostLink[c].in, l.out = Append(hostLink[c].out, f),
           hostLink' = [hostLink EXCEPT ![c] = l], UNCHANGED <<host, helper, helperLink, clock>>
    PROVE  BridgeInv'
  <1>0. /\ broker.leases.active = None /\ ~Connected
        /\ hostLink \in [Conns -> Links] /\ helperLink \in [Helpers -> Links] /\ clock \in Nat
        /\ helper \in [Helpers -> HelperStates]
        /\ \A d \in Conns : hostLink[d].broker # "open"
    BY Accepting
  <1>1. /\ hostLink' \in [Conns -> Links] /\ hostLink'[c] = l
        /\ \A d \in Conns \ {c} : hostLink'[d] = hostLink[d]
    BY <1>0
  <1>2. LinkOK(broker, host, c, hostLink[c])
    BY DEF BridgeInv, CallInv
  <1>3. l.in = <<>> /\ l.out = Append(<<>>, f)
    BY <1>2 DEF LinkOK
  <1>4. TypeInv'
    BY <1>0, <1>1 DEF BridgeInv, TypeInv, Connected, Serving
  <1>5. HelperInv'
    <2> SUFFICES ASSUME NEW h \in Helpers
                 PROVE  HelperOK(b, h, helper[h], helperLink[h])
      BY DEF HelperInv
    <2>1. HelperOK(broker, h, helper[h], helperLink[h])
      BY DEF BridgeInv, HelperInv
    <2>2. ~InService(broker, h) /\ ~InService(b, h)
      BY DEF InService
    <2> QED
      BY <2>1, <2>2 DEF HelperOK
  <1>6. CallInv'
    <2>1. \A d \in Conns : d > host.conn => hostLink'[d] = NewLink
      <3>1. hostLink[c] # NewLink
        BY DEF NewLink
      <3> QED
        BY <1>1, <3>1 DEF BridgeInv, CallInv, FreshLinks
    <2>2. \A d \in Conns : LinkOK(b, host, d, hostLink'[d])
      <3> SUFFICES ASSUME NEW d \in Conns
                   PROVE  LinkOK(b, host, d, hostLink'[d])
        OBVIOUS
      <3>1. LinkOK(broker, host, d, hostLink[d])
        BY DEF BridgeInv, CallInv
      <3>2. CASE d = c
        BY <1>1, <1>3, <3>2, NothingSent DEF LinkOK
      <3>3. CASE d # c
        BY <1>0, <1>1, <3>1, <3>3 DEF LinkOK
      <3> QED
        BY <3>2, <3>3
    <2>3. host.phase # "idle" => InCall(b, host, hostLink'[host.conn])
      <3> SUFFICES ASSUME host.phase # "idle"
                   PROVE  InCall(b, host, hostLink'[host.conn])
        OBVIOUS
      <3>0. host.conn \in Conns
        BY HostConnected
      <3>1. CASE host.conn = c
        <4>1. OneAnswer(l.out)
          BY <1>3, NothingSent, AnswersSent
        <4>2. host.phase \in {"idle", "connecting"}
          BY <1>2, <3>1 DEF LinkOK
        <4> QED
          BY <1>1, <1>3, <3>1, <4>1, <4>2 DEF InCall
      <3>2. CASE host.conn # c
        <4>1. /\ LinkOK(broker, host, host.conn, hostLink[host.conn])
              /\ hostLink[host.conn].broker \in {"backlog", "closed"}
              /\ hostLink'[host.conn] = hostLink[host.conn]
          BY <1>0, <1>1, <3>0, <3>2 DEF BridgeInv, CallInv, Links
        <4> QED
          BY <4>1, NothingSent DEF LinkOK, InCall
      <3> QED
        BY <3>1, <3>2
    <2> QED
      BY <1>1, <2>1, <2>2, <2>3 DEF CallInv, FreshLinks, Connected, HostSide, Link
  <1>7. CadenceInv'
    BY <1>0 DEF CadenceInv, Cadence
  <1>8. EventInv'
    <2>1. PICK H : H = helper
      OBVIOUS
    <2>2. GenuineEvents(H, l.out)
      BY <1>3, GenuineNothing, NothingSent, GenuineSent
    <2>3. \A d \in Conns : GenuineEvents(helper, hostLink'[d].out)
      BY <1>1, <2>1, <2>2 DEF BridgeInv, EventInv
    <2>4. LeaseRouteOK(b)
      BY <1>0 DEF LeaseRouteOK
    <2> QED
      BY <2>3, <2>4 DEF BridgeInv, EventInv
  <1> QED
    BY <1>4, <1>5, <1>6, <1>7, <1>8 DEF BridgeInv

(* A Host connects.                                                        *)
LEMMA BrokerAcceptHostKeeps ==
    ASSUME BridgeInv, NEW c \in Conns, BrokerAcceptHost(c)
    PROVE  BridgeInv'
  <1>0. /\ broker.phase = "accepting" /\ hostLink[c].peer # "unused" /\ hostLink[c].broker = "backlog"
        /\ UNCHANGED <<host, helper, helperLink, clock>>
    BY DEF BrokerAcceptHost
  <1>h. PICK H : H = helper
    OBVIOUS
  <1>1. PICK B \in BrokerStates, L \in Links : B = broker /\ L = hostLink[c] /\ H = helper
    BY <1>h, <1>0, Accepting
  <1>2. GenuineEvents(H, L.out)
    BY <1>1 DEF BridgeInv, EventInv
  <1>3. PICK replay \in Seq(ClientNonces) : replay = Claim(B.replay, <<"HostAgent", c>>)
    <2>1. <<"HostAgent", c>> \in ClientNonces /\ B.replay \in Seq(ClientNonces)
      BY Limits DEF ClientNonces, BrokerStates
    <2> QED
      BY <2>1, Claimed
  <1>4. PICK slot \in Helpers \cup {0} : slot = B.slot
    BY DEF BrokerStates
  <1>5. PICK f \in Frames : f = StatusFrame(slot) /\ ~IsEvent(f)
    BY StatusFrames
  <1>6. PICK o \in Links : o = [L EXCEPT !.broker = "open"]
    BY OpenLink
  <1>7. o.peer = L.peer /\ o.broker = "open" /\ o.in = L.in /\ o.out = L.out
    BY <1>6, OpenLink
  <1>8. PICK l \in Links : l = FromBroker(o, f)
    BY FromBrokerLink
  <1>9. /\ l.peer = L.peer /\ l.broker = "open" /\ l.in = L.in /\ l.out = Append(L.out, f)
    BY <1>7, <1>8, FromBrokerLink
  <1>10. CASE hostLink' = [hostLink EXCEPT ![c] = CloseBroker(@)] /\ UNCHANGED broker
    <2>1. hostLink' = [hostLink EXCEPT ![c] = CloseBroker(L)]
      BY <1>1, <1>10
    <2>2. broker' = B
      BY <1>1, <1>10
    <2> QED
      BY <1>0, <1>1, <1>2, <2>1, <2>2, TurnAwayKeeps
  <1>11. CASE /\ hostLink' = [hostLink EXCEPT ![c] = CloseBroker(l)]
              /\ broker' = [broker EXCEPT !.replay = replay]
    <2>1. PICK b : b = [B EXCEPT !.replay = replay]
      OBVIOUS
    <2>2. b \in BrokerStates /\ b.phase = B.phase /\ b.leases = B.leases /\ b.queue = B.queue
      BY <2>1 DEF BrokerStates
    <2>3. GenuineEvents(H, l.out)
      <3>1. L.out \in Seq(Frames)
        BY DEF Links
      <3>2. GenuineEvents(H, Append(L.out, f))
        BY <1>2, <1>5, <3>1, GenuineSent
      <3> QED
        BY <1>9, <3>2
    <2>4. broker' = b
      BY <1>1, <1>11, <2>1
    <2> QED
      BY <1>0, <1>1, <1>11, <2>2, <2>3, <2>4, TurnAwayKeeps
  <1>12. CASE /\ slot # 0 /\ hostLink' = [hostLink EXCEPT ![c] = l]
              /\ broker' = [broker EXCEPT !.phase = "waiting", !.conn = c, !.slot = 0,
                                          !.helper = slot, !.replay = replay]
    <2>1. PICK b : b = [B EXCEPT !.phase = "waiting", !.conn = c, !.slot = 0,
                                 !.helper = slot, !.replay = replay]
      OBVIOUS
    <2>2. /\ b \in BrokerStates /\ b.phase = "waiting" /\ b.conn = c /\ b.helper = slot
          /\ b.leases = B.leases /\ b.queue = B.queue
      BY <2>1 DEF BrokerStates
    <2>3. broker' = b /\ b.helper \in Helpers
      BY <1>1, <1>12, <2>1, <2>2
    <2> QED
      BY <1>0, <1>1, <1>5, <1>9, <1>12, <2>2, <2>3, WelcomeKeeps
  <1>13. FromBroker([hostLink[c] EXCEPT !.broker = "open"], StatusFrame(broker.slot)) = l
    BY <1>1, <1>4, <1>5, <1>6, <1>8
  <1> QED
    BY <1>1, <1>3, <1>4, <1>10, <1>11, <1>12, <1>13 DEF BrokerAcceptHost

(* The lease a Host is granted is for the registered Helper.               *)
LEMMA LeaseGranted ==
    ASSUME BridgeInv, Connected, NEW r \in Frames, r.kind = "acquire", LeaseFor(r).ok
    PROVE  /\ LeaseFor(r).leases \in LeaseStates /\ LeaseFor(r).routes \in SessionStates
           /\ LeaseFor(r).route \in Routes
           /\ LeaseFor(r).leases.active \in LeaseRecords
           /\ LeaseFor(r).leases.active.route.generation = broker.helper
           /\ LeaseFor(r).leases.active.renewed = clock
  <1>0. /\ broker.helper \in Helpers /\ broker.conn \in Conns /\ clock \in Nat
        /\ helper[broker.helper] \in HelperStates
    BY BrokerFacts
  <1>n. PICK n : n = r.route.generation
    OBVIOUS
  <1>1. PICK g \in Helpers, o \in OsSessions, t \in Nat :
            /\ g = broker.helper /\ o = helper[g].credentials.osSession /\ t = clock
            /\ n = r.route.generation
    BY <1>0, <1>n DEF HelperStates, OsSessions
  <1>2. g # 0 /\ g \in Nat /\ broker.conn \in Nat
    BY <1>0, Limits
  <1>3. PICK core : core = NewCore([generation |-> g, osSession |-> o])
    OBVIOUS
  <1>4. /\ core.leases = [host |-> g, active |-> None, released |-> None]
        /\ core.routes = [generation |-> g, current |-> o, controlled |-> FALSE, input |-> FALSE]
    BY <1>2, <1>3 DEF NewCore, ConnectHost, NoLeases, Observe, NoSession
  <1>5. NewCore(RouteSession(broker.helper)) = core
    BY <1>1, <1>3 DEF RouteSession
  <1>6. /\ LeaseFor(r).route = ProxyRoute(broker.conn, n)
        /\ LeaseFor(r).leases = Acquire(core.leases, ProxyRoute(broker.conn, n), r.context.name, t)
        /\ LeaseFor(r).routes = BeginControl(core.routes)
        /\ MayAcquire(core.leases, n, r.context.name)
    BY <1>1, <1>5 DEF LeaseFor
  <1>7. n = g
    BY <1>4, <1>6 DEF MayAcquire
  <1>8. PICK route \in Routes : route = ProxyRoute(broker.conn, n) /\ route.generation = g
    <2>1. ProxyRoute(broker.conn, n) \in Routes /\ ProxyRoute(broker.conn, n).generation = g
      BY <1>2, <1>7 DEF ProxyRoute, Routes
    <2> QED
      BY <2>1
  <1>9. PICK name \in Names : name = r.context.name
    BY FrameParts DEF SessionContexts
  <1>10. t + LeaseDuration \in Nat
    BY Limits
  <1>11. PICK a \in LeaseRecords :
            /\ a = [kind |-> "lease", route |-> route, name |-> name, command |-> 0,
                    renewed |-> t, expires |-> t + LeaseDuration]
            /\ a.route = route /\ a.renewed = t
    <2>1. [kind |-> "lease", route |-> route, name |-> name, command |-> 0,
           renewed |-> t, expires |-> t + LeaseDuration] \in LeaseRecords
      BY <1>10 DEF LeaseRecords
    <2> QED
      BY <2>1
  <1>12. LeaseFor(r).leases \in LeaseStates /\ LeaseFor(r).leases.active = a
    <2>1. PICK s \in LeaseStates : s = core.leases
      BY <1>2, <1>4 DEF LeaseStates, MaybeRoute
    <2>2. LeaseFor(r).leases = [s EXCEPT !.active = a, !.released = None]
      BY <1>6, <1>8, <1>9, <1>11, <2>1 DEF Acquire
    <2> QED
      BY <2>2 DEF LeaseStates, MaybeRoute
  <1>13. LeaseFor(r).routes \in SessionStates
    <2>1. PICK s \in SessionStates : s = core.routes
      BY <1>2, <1>4 DEF SessionStates
    <2>2. [s EXCEPT !.controlled = TRUE, !.input = TRUE] \in SessionStates
      BY DEF SessionStates
    <2> QED
      BY <1>6, <2>1, <2>2 DEF BeginControl
  <1> QED
    BY <1>1, <1>6, <1>8, <1>11, <1>12, <1>13

(* The frame that grants a lease.                                          *)
LEMMA LeaseFrame ==
    ASSUME NEW r \in Frames, NEW route \in MaybeRoute, NEW context \in MaybeContext
    PROVE  /\ InContext(Frame("lease", route, r.sequence), context) \in Frames
           /\ ~IsEvent(InContext(Frame("lease", route, r.sequence), context))
  <1>1. "lease" \in Kinds \ {"ready", "acquire"} /\ r.sequence \in Nat
    BY FrameParts DEF Kinds, RequestKinds, Ops
  <1> QED
    BY <1>1, ContextFrame DEF IsEvent

(* What the broker reads from the Host leaves nothing behind.              *)
LEMMA RequestTaken ==
    ASSUME BridgeInv, Connected, HostSide.in # <<>>
    PROVE  /\ Head(HostSide.in) \in Frames /\ Taken(HostSide) \in Links
           /\ Taken(HostSide).broker = "open" /\ Taken(HostSide).peer = HostSide.peer
           /\ Taken(HostSide).in = <<>> /\ Taken(HostSide).out = HostSide.out
           /\ broker.phase # "exchanging"
           /\ host.conn = broker.conn /\ host.phase # "idle" =>
                  /\ host.phase = "calling" /\ host.call = Head(HostSide.in).kind
                  /\ NoAnswer(HostSide.out)
  <1>1. PICK L \in Links : L = HostSide
    BY BrokerFacts
  <1>2. L.in # <<>> /\ L.in \in Seq(Frames) /\ Len(L.in) <= 1 /\ L.broker = "open"
    BY <1>1, BrokerFacts DEF Links
  <1>3. Head(L.in) = L.in[1] /\ Tail(L.in) = <<>>
    BY <1>2, Received, Singleton
  <1>4. /\ Taken(L) \in Links /\ Taken(L).broker = L.broker /\ Taken(L).peer = L.peer
        /\ Taken(L).in = Tail(L.in) /\ Taken(L).out = L.out /\ Head(L.in) \in Frames
    BY <1>2, TakenLink
  <1>5. broker.phase # "exchanging"
    BY <1>1, <1>2, BrokerFacts
  <1>6. host.conn = broker.conn /\ host.phase # "idle" =>
            host.phase = "calling" /\ host.call = Head(L.in).kind /\ NoAnswer(L.out)
    BY <1>1, <1>2, <1>3, BrokerFacts DEF InCall
  <1> QED
    BY <1>1, <1>2, <1>3, <1>4, <1>5, <1>6

(* An answer to the Host from the broker itself.                           *)
LEMMA RequestAnswered ==
    ASSUME BridgeInv, Connected, HostSide.in # <<>>, NEW f \in Frames, ~IsEvent(f),
           NEW b, b.phase = "serving"
    PROVE  /\ FromBroker(Taken(HostSide), f) \in Links
           /\ FromBroker(Taken(HostSide), f).broker = "open"
           /\ FromBroker(Taken(HostSide), f).peer # "unused"
           /\ FromBroker(Taken(HostSide), f).in = <<>>
           /\ GenuineEvents(helper, FromBroker(Taken(HostSide), f).out)
           /\ host.conn = broker.conn /\ host.phase # "idle" =>
                  InCall(b, host, FromBroker(Taken(HostSide), f))
  <1>h. PICK H : H = helper
    OBVIOUS
  <1>1. PICK m \in Links : m = Taken(HostSide) /\ H = helper
    BY <1>h, RequestTaken
  <1>2. /\ m.broker = "open" /\ m.peer # "unused" /\ m.in = <<>> /\ GenuineEvents(H, m.out)
        /\ m.out \in Seq(Frames)
    BY <1>1, RequestTaken, BrokerFacts DEF Links
  <1>3. /\ FromBroker(m, f) \in Links /\ FromBroker(m, f).broker = m.broker
        /\ FromBroker(m, f).peer = m.peer /\ FromBroker(m, f).in = m.in
        /\ FromBroker(m, f).out = Append(m.out, f)
    BY FromBrokerLink
  <1>4. GenuineEvents(H, FromBroker(m, f).out)
    BY <1>2, <1>3, GenuineSent
  <1>5. host.conn = broker.conn /\ host.phase # "idle" => InCall(b, host, FromBroker(m, f))
    <2> SUFFICES ASSUME host.conn = broker.conn, host.phase # "idle"
                 PROVE  InCall(b, host, FromBroker(m, f))
      OBVIOUS
    <2>1. host.phase = "calling" /\ NoAnswer(m.out)
      BY <1>1, RequestTaken
    <2>2. OneAnswer(Append(m.out, f))
      BY <1>2, <2>1, AnswersSent
    <2> QED
      BY <1>2, <1>3, <2>1, <2>2 DEF InCall
  <1> QED
    BY <1>1, <1>2, <1>3, <1>4, <1>5

(* The lease is granted.                                                   *)
LEMMA GrantKeeps ==
    ASSUME BridgeInv, broker.phase = "waiting", HostSide.in # <<>>, NEW r \in Frames,
           r = Head(HostSide.in), r.kind = "acquire", LeaseFor(r).ok,
           broker' = [broker EXCEPT !.phase = "serving", !.leases = LeaseFor(r).leases,
                                    !.routes = LeaseFor(r).routes, !.context = r.context],
           hostLink' = [hostLink EXCEPT ![broker.conn] =
                            FromBroker(Taken(@), LeaseResponse(r, LeaseFor(r).route))],
           UNCHANGED <<host, helper, helperLink, clock>>
    PROVE  BridgeInv'
  <1>0. Connected
    BY DEF Connected
  <1>1. PICK B \in BrokerStates, M \in Links, X \in HelperStates :
            B = broker /\ M = HelperSide /\ X = helper[broker.helper]
    BY <1>0, BrokerFacts
  <1>2. PICK leases \in LeaseStates, routes \in SessionStates, route \in Routes, a \in LeaseRecords :
            /\ leases = LeaseFor(r).leases /\ routes = LeaseFor(r).routes /\ route = LeaseFor(r).route
            /\ a = leases.active /\ a.route.generation = B.helper /\ a.renewed = clock
    BY <1>0, <1>1, LeaseGranted
  <1>3. PICK context \in SessionContexts : context = r.context
    BY FrameParts
  <1>4. PICK b : b = [B EXCEPT !.phase = "serving", !.leases = leases, !.routes = routes,
                               !.context = context]
    OBVIOUS
  <1>5. /\ b \in BrokerStates /\ b.phase = "serving" /\ b.leases = leases /\ b.context = context
        /\ b.conn = B.conn /\ b.helper = B.helper /\ b.queue = B.queue
    BY <1>4 DEF BrokerStates, MaybeContext
  <1>6. PICK f \in Frames : f = LeaseResponse(r, route) /\ ~IsEvent(f)
    <2>1. route \in MaybeRoute /\ r.context \in MaybeContext
      BY FrameParts DEF MaybeRoute
    <2> QED
      BY <2>1, LeaseFrame DEF LeaseResponse
  <1>7. PICK l : l = FromBroker(Taken(HostSide), f)
    OBVIOUS
  <1>8. /\ l \in Links /\ l.broker = "open" /\ l.peer # "unused" /\ l.in = <<>>
        /\ GenuineEvents(helper, l.out)
        /\ host.conn = broker.conn /\ host.phase # "idle" => InCall(b, host, l)
    BY <1>0, <1>5, <1>6, <1>7, RequestAnswered
  <1>9. BrokerMoves(b, l, M)
    <2>1. helperLink' = [helperLink EXCEPT ![broker.helper] = M]
      BY <1>0, <1>1, BrokerFacts DEF HelperSide
    <2>2. hostLink' = [hostLink EXCEPT ![broker.conn] = l]
      BY <1>2, <1>6, <1>7 DEF HostSide
    <2>3. broker' = b
      BY <1>1, <1>2, <1>3, <1>4
    <2> QED
      BY <2>1, <2>2, <2>3 DEF BrokerMoves
  <1>10. Cadence(b, host, l, clock)
    <2>1. clock \in Nat
      BY <1>0, BrokerFacts
    <2>2. host.conn = broker.conn /\ host.phase # "idle" => host.phase = "calling" /\ host.call = "acquire"
      BY <1>0, RequestTaken
    <2>3. host.conn = b.conn => ~(host.phase = "open" \/ Using(host))
      BY <1>1, <1>5, <2>2 DEF Using
    <2> QED
      BY <1>2, <1>5, <1>8, <2>1, <2>3, NothingSent DEF Cadence
  <1>11. HelperOK(b, b.helper, X, M)
    <2>1. HelperOK(broker, broker.helper, X, M) /\ ~InService(broker, broker.helper)
      BY <1>0, <1>1, BrokerFacts DEF InService
    <2> QED
      BY <1>5, <2>1, NothingSent DEF HelperOK, Untouched, Quiet
  <1>12. LeaseRouteOK(b)
    BY <1>2, <1>5 DEF LeaseRouteOK
  <1>13. /\ RouteOK(b.helper, X, M) /\ GenuineEvents(helper, M.in) /\ QueueOK(helper, b.queue)
    BY <1>0, <1>1, <1>5, BrokerFacts
  <1>14. Len(l.in) <= 1
    BY <1>8, NothingSent
  <1>15. BrokerOutcome(b, l, M)
    BY <1>1, <1>5, <1>8, <1>10, <1>11, <1>12, <1>13, <1>14 DEF BrokerOutcome
  <1> QED
    BY <1>0, <1>9, <1>15, BrokerTurn

(* The broker waits for the request of a lease.                            *)
LEMMA BrokerAcquireKeeps ==
    ASSUME BridgeInv, BrokerAcquire
    PROVE  BridgeInv'
  <1>0. broker.phase = "waiting" /\ Connected /\ UNCHANGED <<host, helper>>
    BY DEF BrokerAcquire, Connected
  <1>h. PICK H : H = helper
    OBVIOUS
  <1>1. PICK L \in Links : L = HostSide /\ H = helper /\ GenuineEvents(H, L.out)
    BY <1>h, <1>0, BrokerFacts
  <1>2. CASE PeerEnded(HostSide) /\ ReturnHelper(HostSide)
    BY <1>0, <1>1, <1>2, ReturnHelperKeeps
  <1>3. CASE HostSide.in # <<>>
    <2>1. PICK r \in Frames, m \in Links : r = Head(HostSide.in) /\ m = Taken(HostSide)
      BY <1>0, <1>3, RequestTaken
    <2>2. GenuineEvents(H, m.out)
      BY <1>0, <1>1, <1>3, <2>1, RequestTaken
    <2>3. CASE ReturnHelper(FromBroker(Taken(HostSide), Frame("error", None, r.sequence)))
      <3>1. PICK f \in Frames : f = Frame("error", None, r.sequence) /\ ~IsEvent(f)
        BY ErrorFrame
      <3>2. PICK l \in Links : l = FromBroker(m, f) /\ GenuineEvents(H, l.out)
        BY <2>2, <3>1, LastFrame
      <3>3. ReturnHelper(l)
        BY <2>1, <2>3, <3>1, <3>2
      <3> QED
        BY <1>0, <1>1, <3>2, <3>3, ReturnHelperKeeps
    <2>4. CASE Refuse(r, Taken(HostSide))
      BY <1>0, <1>1, <2>1, <2>2, <2>4, RefuseKeeps
    <2>5. CASE /\ r.kind = "acquire" /\ LeaseFor(r).ok
               /\ broker' = [broker EXCEPT !.phase = "serving", !.leases = LeaseFor(r).leases,
                                           !.routes = LeaseFor(r).routes, !.context = r.context]
               /\ hostLink' = [hostLink EXCEPT ![broker.conn] =
                                   FromBroker(Taken(@), LeaseResponse(r, LeaseFor(r).route))]
               /\ UNCHANGED <<helperLink, clock>>
      BY <1>0, <1>3, <2>1, <2>5, GrantKeeps
    <2>6. CASE PeerEnded(HostSide)
      BY <1>3, <2>6 DEF PeerEnded
    <2> QED
      BY <1>3, <2>1, <2>3, <2>4, <2>5, <2>6 DEF BrokerAcquire
  <1> QED
    BY <1>2, <1>3 DEF BrokerAcquire

\* a lease before and after a step that does not renew it
SameLease(b) ==
    /\ b.conn = broker.conn /\ b.helper = broker.helper
    /\ b.leases.active # None <=> broker.leases.active # None
    /\ b.leases.active # None => /\ b.leases.active.route = broker.leases.active.route
                                 /\ b.leases.active.renewed = broker.leases.active.renewed

(* What holds of the lease still holds of it.                              *)
LEMMA LeaseKept ==
    ASSUME BridgeInv, Connected, NEW b, SameLease(b), NEW l, l.in \in {<<>>, HostSide.in}
    PROVE  /\ LeaseRouteOK(b) /\ Cadence(b, host, l, clock)
           /\ \A g : Refers(b.leases, g) <=> Refers(broker.leases, g)
  <1>1. LeaseRouteOK(broker) /\ Cadence(broker, host, HostSide, clock)
    BY BrokerFacts
  <1>2. LeaseRouteOK(b)
    BY <1>1 DEF LeaseRouteOK, SameLease
  <1>3. \A g : Refers(b.leases, g) <=> Refers(broker.leases, g)
    BY DEF Refers, SameLease
  <1>4. Cadence(b, host, l, clock)
    <2>1. CASE l.in = <<>>
      BY <1>1, <2>1, NothingSent DEF Cadence, SameLease
    <2>2. CASE l.in = HostSide.in
      BY <1>1, <2>2 DEF Cadence, SameLease
    <2> QED
      BY <2>1, <2>2
  <1> QED
    BY <1>2, <1>3, <1>4

(* The lease is renewed.                                                   *)
LEMMA RenewKeeps ==
    ASSUME BridgeInv, broker.phase = "serving", HostSide.in # <<>>, NEW r \in Frames,
           r = Head(HostSide.in), r.kind = "renew", MayRenew(broker.leases, r.route, clock),
           broker' = [broker EXCEPT !.leases = Renew(@, clock)],
           hostLink' = [hostLink EXCEPT ![broker.conn] =
               FromBroker(Taken(HostSide),
                          LeaseResponse([r EXCEPT !.context = broker.context], r.route))],
           UNCHANGED <<host, helper, helperLink, clock>>
    PROVE  BridgeInv'
  <1>0. Connected
    BY DEF Connected
  <1>1. PICK B \in BrokerStates, M \in Links, X \in HelperStates, t \in Nat :
            B = broker /\ M = HelperSide /\ X = helper[broker.helper] /\ t = clock
    BY <1>0, BrokerFacts
  <1>2. PICK a \in LeaseRecords : a = B.leases.active
    BY <1>1 DEF MayRenew, Refers, BrokerStates, LeaseStates
  <1>3. t + LeaseDuration \in Nat
    BY Limits
  <1>4. PICK n : n = [a EXCEPT !.renewed = t, !.expires = t + LeaseDuration]
    OBVIOUS
  <1>5. n \in LeaseRecords /\ n.route = a.route /\ n.renewed = t
    BY <1>3, <1>4 DEF LeaseRecords
  <1>6. PICK leases : leases = Renew(B.leases, t)
    OBVIOUS
  <1>7. leases \in LeaseStates /\ leases.active = n
    <2>1. B.leases \in LeaseStates
      BY DEF BrokerStates
    <2>2. leases = [B.leases EXCEPT !.active = n]
      BY <1>2, <1>4, <1>6, <2>1 DEF Renew, LeaseStates, LeaseRecords
    <2> QED
      BY <1>5, <2>1, <2>2 DEF LeaseStates
  <1>8. PICK b : b = [B EXCEPT !.leases = leases]
    OBVIOUS
  <1>9. /\ b \in BrokerStates /\ b.phase = B.phase /\ b.leases = leases /\ b.context = B.context
        /\ b.conn = B.conn /\ b.helper = B.helper /\ b.queue = B.queue
    BY <1>7, <1>8 DEF BrokerStates
  <1>10. PICK f \in Frames : f = LeaseResponse([r EXCEPT !.context = B.context], r.route) /\ ~IsEvent(f)
    <2>1. r.route \in MaybeRoute /\ B.context \in MaybeContext
      BY FrameParts DEF BrokerStates
    <2>2. [r EXCEPT !.context = B.context].sequence = r.sequence
          /\ [r EXCEPT !.context = B.context].context = B.context
      BY DEF Frames, PlainFrames
    <2>3. LeaseResponse([r EXCEPT !.context = B.context], r.route)
              = InContext(Frame("lease", r.route, r.sequence), B.context)
      BY <2>2 DEF LeaseResponse
    <2> QED
      BY <2>1, <2>3, LeaseFrame
  <1>11. PICK l : l = FromBroker(Taken(HostSide), f)
    OBVIOUS
  <1>12. /\ l \in Links /\ l.broker = "open" /\ l.peer # "unused" /\ l.in = <<>>
         /\ GenuineEvents(helper, l.out)
         /\ host.conn = broker.conn /\ host.phase # "idle" => InCall(b, host, l)
    <2>1. b.phase = "serving"
      BY <1>1, <1>9
    <2> QED
      BY <1>0, <1>10, <1>11, <2>1, RequestAnswered
  <1>13. BrokerMoves(b, l, M)
    <2>1. helperLink' = [helperLink EXCEPT ![broker.helper] = M]
      BY <1>0, <1>1, BrokerFacts DEF HelperSide
    <2>2. hostLink' = [hostLink EXCEPT ![broker.conn] = l]
      BY <1>1, <1>10, <1>11
    <2>3. broker' = b
      BY <1>1, <1>6, <1>8
    <2> QED
      BY <2>1, <2>2, <2>3 DEF BrokerMoves
  <1>14. Cadence(b, host, l, clock)
    <2>1. host.conn = broker.conn /\ host.phase # "idle" => host.phase = "calling" /\ host.call = "renew"
      BY <1>0, RequestTaken
    <2>2. host.conn = b.conn => ~(host.phase = "open" \/ Using(host))
      BY <1>1, <1>9, <2>1 DEF Using
    <2> QED
      BY <1>1, <1>5, <1>7, <1>9, <1>12, <2>2, NothingSent DEF Cadence
  <1>15. HelperOK(b, b.helper, X, M)
    <2>1. HelperOK(broker, broker.helper, X, M)
      BY <1>0, <1>1, BrokerFacts
    <2>2. Refers(broker.leases, X.gate) => Refers(b.leases, X.gate)
      BY <1>1, <1>2, <1>5, <1>7, <1>9, NoneIsNothing DEF Refers
    <2> QED
      BY <1>1, <1>9, <2>1, <2>2 DEF HelperOK, InService, Quiet, Untouched
  <1>16. LeaseRouteOK(b)
    <2>1. LeaseRouteOK(B)
      BY <1>0, <1>1, BrokerFacts
    <2> QED
      BY <1>2, <1>5, <1>7, <1>9, <2>1, NoneIsNothing DEF LeaseRouteOK
  <1>17. /\ RouteOK(b.helper, X, M) /\ GenuineEvents(helper, M.in) /\ QueueOK(helper, b.queue)
         /\ b.context \in SessionContexts
    BY <1>0, <1>1, <1>9, BrokerFacts
  <1>18. Len(l.in) <= 1
    BY <1>12, NothingSent
  <1>19. BrokerOutcome(b, l, M)
    BY <1>1, <1>9, <1>12, <1>14, <1>15, <1>16, <1>17, <1>18 DEF BrokerOutcome
  <1> QED
    BY <1>0, <1>13, <1>19, BrokerTurn

(* An operation is counted; the lease stays the same.                      *)
LEMMA CountedState ==
    ASSUME BridgeInv, broker.phase = "serving", NEW r \in Frames, Authorized(r)
    PROVE  /\ Counted(r) \in BrokerStates /\ SameLease(Counted(r))
           /\ Counted(r).queue = broker.queue /\ Counted(r).context = broker.context
           /\ r.kind \in {"start", "restart"} =>
                  Refers(broker.leases, r.route) /\ broker.leases.active.route = r.route
  <1>0. Connected
    BY DEF Connected
  <1>1. PICK B \in BrokerStates : B = broker
    BY <1>0, BrokerFacts
  <1>2. CASE r.kind = "release"
    BY <1>1, <1>2 DEF Counted, SameLease
  <1>3. CASE r.kind # "release"
    <2>1. MayCommand(broker.leases, r.route, broker.operation + 1, clock)
      BY <1>3 DEF Authorized
    <2>2. Refers(broker.leases, r.route) /\ broker.leases.active.route = r.route
      BY <2>1 DEF MayCommand, Refers
    <2>3. PICK a \in LeaseRecords : a = B.leases.active
      BY <1>1, <2>2 DEF Refers, BrokerStates, LeaseStates
    <2>4. PICK n \in Nat : n = B.operation + 1
      BY DEF BrokerStates
    <2>5. PICK c : c = [a EXCEPT !.command = n]
      OBVIOUS
    <2>6. c \in LeaseRecords /\ c.route = a.route /\ c.renewed = a.renewed
      BY <2>5 DEF LeaseRecords
    <2>7. PICK leases : leases = AuthorizeCommand(B.leases, n)
      OBVIOUS
    <2>8. leases \in LeaseStates /\ leases.active = c
      <3>1. B.leases \in LeaseStates
        BY DEF BrokerStates
      <3>2. leases = [B.leases EXCEPT !.active = c]
        BY <2>3, <2>5, <2>7, <3>1 DEF AuthorizeCommand, LeaseStates, LeaseRecords
      <3> QED
        BY <2>6, <3>1, <3>2 DEF LeaseStates
    <2>9. Counted(r) = [B EXCEPT !.operation = n, !.leases = leases]
      BY <1>1, <1>3, <2>4, <2>7 DEF Counted, BrokerStates
    <2>10. PICK b : b = [B EXCEPT !.operation = n, !.leases = leases]
      OBVIOUS
    <2>11. /\ b \in BrokerStates /\ b.conn = B.conn /\ b.helper = B.helper /\ b.queue = B.queue
           /\ b.context = B.context /\ b.leases = leases
      BY <2>8, <2>10 DEF BrokerStates
    <2>12. SameLease(b)
      BY <1>1, <2>3, <2>6, <2>8, <2>11, NoneIsNothing DEF SameLease
    <2> QED
      BY <1>1, <2>2, <2>9, <2>10, <2>11, <2>12
  <1> QED
    BY <1>2, <1>3

(* A request is forwarded to the Helper.                                   *)
LEMMA ForwardKeeps ==
    ASSUME BridgeInv, broker.phase = "serving", HostSide.in # <<>>, NEW r \in Frames,
           r = Head(HostSide.in), Authorized(r), HelperSide.peer = "open",
           broker' = [Counted(r) EXCEPT !.phase = "exchanging", !.request = r],
           hostLink' = [hostLink EXCEPT ![broker.conn] = Taken(HostSide)],
           helperLink' = [helperLink EXCEPT ![broker.helper] = FromBroker(@, r)],
           UNCHANGED <<host, helper, clock>>
    PROVE  BridgeInv'
  <1>0. Connected
    BY DEF Connected
  <1>1. PICK C \in BrokerStates, M \in Links, X \in HelperStates, l \in Links :
            C = Counted(r) /\ M = HelperSide /\ X = helper[broker.helper] /\ l = Taken(HostSide)
    BY <1>0, BrokerFacts, CountedState, RequestTaken
  <1>2. /\ SameLease(C) /\ C.queue = broker.queue /\ C.context = broker.context
        /\ C.conn = broker.conn /\ C.helper = broker.helper
    BY <1>1, CountedState DEF SameLease
  <1>3. PICK b : b = [C EXCEPT !.phase = "exchanging", !.request = r]
    OBVIOUS
  <1>4. /\ b \in BrokerStates /\ b.phase = "exchanging" /\ b.request = r /\ b.leases = C.leases
        /\ b.conn = C.conn /\ b.helper = C.helper /\ b.queue = C.queue /\ b.context = C.context
    BY <1>3 DEF BrokerStates
  <1>5. SameLease(b)
    BY <1>2, <1>4 DEF SameLease
  <1>6. PICK m \in Links : m = FromBroker(M, r)
    BY FromBrokerLink
  <1>7. /\ m.peer = "open" /\ m.broker = M.broker /\ m.in = M.in /\ m.out = Append(M.out, r)
        /\ M.out \in Seq(Frames)
    <2>1. M.out \in Seq(Frames) /\ M.peer = "open"
      BY <1>1 DEF Links
    <2>2. /\ m.peer = M.peer /\ m.broker = M.broker /\ m.in = M.in /\ m.out = Append(M.out, r)
      BY <1>6, FromBrokerLink
    <2> QED
      BY <2>1, <2>2
  <1>8. /\ l.broker = "open" /\ l.peer # "unused" /\ l.in = <<>> /\ l.out = HostSide.out
        /\ GenuineEvents(helper, l.out)
        /\ host.conn = broker.conn /\ host.phase # "idle" => host.phase = "calling" /\ NoAnswer(l.out)
    BY <1>0, <1>1, RequestTaken, BrokerFacts
  <1>9. BrokerMoves(b, l, m)
    BY <1>1, <1>3, <1>6 DEF BrokerMoves, HelperSide
  <1>10. host.conn = b.conn /\ host.phase # "idle" => InCall(b, host, l)
    <2>1. NoAnswer(l.out) => OneAnswer(l.out)
      BY DEF NoAnswer, OneAnswer
    <2> QED
      BY <1>2, <1>4, <1>8, <2>1 DEF InCall
  <1>11. /\ LeaseRouteOK(b) /\ Cadence(b, host, l, clock)
         /\ \A g : Refers(b.leases, g) <=> Refers(broker.leases, g)
    BY <1>0, <1>5, <1>8, LeaseKept
  <1>12. HelperOK(b, b.helper, X, m)
    <2>1. HelperOK(broker, broker.helper, X, M)
      BY <1>0, <1>1, BrokerFacts
    <2>2. CASE M.broker = "closed"
      BY <1>7, <2>2 DEF HelperOK
    <2>3. CASE M.broker # "closed"
      <3>1. Quiet(X, M) /\ (X.peer => Refers(broker.leases, X.gate))
        BY <2>1, <2>3 DEF HelperOK, InService
      <3>2. m.out = <<r>> /\ X.phase # "showing" /\ NoAnswer(m.in)
        BY <1>7, <3>1, Sent DEF Quiet
      <3>3. r.kind \in {"start", "restart"} => Refers(b.leases, r.route)
        BY <1>11, CountedState
      <3>4. m.out # <<>> /\ OneAnswer(m.in)
        BY <3>2 DEF NoAnswer, OneAnswer
      <3>5. InExchange(b, X, m)
        BY <1>4, <3>2, <3>3, <3>4 DEF InExchange
      <3>6. X.peer => Refers(b.leases, X.gate)
        BY <1>11, <3>1
      <3> QED
        BY <1>4, <1>7, <3>5, <3>6 DEF HelperOK, InService
    <2> QED
      BY <2>2, <2>3
  <1>13. RouteOK(b.helper, X, m)
    <2>1. RouteOK(b.helper, X, M)
      BY <1>0, <1>1, <1>2, <1>4, BrokerFacts
    <2>2. r.kind \in {"start", "restart"} => r.route \in Routes /\ r.route.generation = b.helper
      <3> SUFFICES ASSUME r.kind \in {"start", "restart"}
                   PROVE  r.route \in Routes /\ r.route.generation = b.helper
        OBVIOUS
      <3>1. broker.leases.active # None /\ broker.leases.active.route = r.route
        BY CountedState DEF Refers
      <3>2. broker.leases.active \in LeaseRecords
        BY <1>0, <3>1, BrokerFacts DEF BrokerStates, LeaseStates
      <3>3. broker.leases.active.route.generation = broker.helper
        BY <1>0, <3>1, BrokerFacts DEF LeaseRouteOK
      <3> QED
        BY <1>2, <1>4, <3>1, <3>2, <3>3 DEF LeaseRecords
    <2>3. \A i \in 1..Len(Append(M.out, r)) : i \in 1..Len(M.out) \/ i = Len(M.out) + 1
      BY <1>7, Sent
    <2> QED
      BY <1>7, <2>1, <2>2, <2>3, Sent DEF RouteOK
  <1>14. /\ GenuineEvents(helper, m.in) /\ QueueOK(helper, b.queue) /\ b.context \in SessionContexts
    BY <1>0, <1>1, <1>2, <1>4, <1>7, BrokerFacts
  <1>15. Len(l.in) <= 1
    BY <1>8, NothingSent
  <1>16. BrokerOutcome(b, l, m)
    BY <1>1, <1>2, <1>4, <1>8, <1>10, <1>11, <1>12, <1>13, <1>14, <1>15 DEF BrokerOutcome
  <1> QED
    BY <1>0, <1>9, <1>16, BrokerTurn

(* The broker serves a request of the Host.                                *)
LEMMA BrokerReceiveKeeps ==
    ASSUME BridgeInv, BrokerReceive
    PROVE  BridgeInv'
  <1>0. broker.phase = "serving" /\ Connected /\ HostSide.in # <<>> /\ UNCHANGED <<host, helper>>
    BY DEF BrokerReceive, Connected
  <1>h. PICK H : H = helper
    OBVIOUS
  <1>1. PICK r \in Frames, l \in Links : r = Head(HostSide.in) /\ l = Taken(HostSide) /\ H = helper
    BY <1>h, <1>0, RequestTaken
  <1>2. CASE Refuse(r, l)
    <2>1. GenuineEvents(H, l.out)
      BY <1>0, <1>1, RequestTaken, BrokerFacts
    <2> QED
      BY <1>0, <1>1, <1>2, <2>1, RefuseKeeps
  <1>3. CASE /\ r.kind = "renew" /\ MayRenew(broker.leases, r.route, clock)
             /\ broker' = [broker EXCEPT !.leases = Renew(@, clock)]
             /\ hostLink' = [hostLink EXCEPT ![broker.conn] =
                    FromBroker(l, LeaseResponse([r EXCEPT !.context = broker.context], r.route))]
             /\ UNCHANGED <<helperLink, clock>>
    BY <1>0, <1>1, <1>3, RenewKeeps
  <1>4. CASE /\ Authorized(r) /\ HelperSide.peer = "open"
             /\ broker' = [Counted(r) EXCEPT !.phase = "exchanging", !.request = r]
             /\ hostLink' = [hostLink EXCEPT ![broker.conn] = l]
             /\ helperLink' = [helperLink EXCEPT ![broker.helper] = FromBroker(@, r)]
             /\ UNCHANGED clock
    BY <1>0, <1>1, <1>4, ForwardKeeps
  <1> QED
    BY <1>1, <1>2, <1>3, <1>4 DEF BrokerReceive

(* An event from the Helper comes before its answer.                       *)
LEMMA QueuePastKeeps ==
    ASSUME BridgeInv, broker.phase = "exchanging", HelperSide.in # <<>>,
           IsEvent(Head(HelperSide.in)),
           broker' = [broker EXCEPT !.queue = EnqueueEvent(broker.queue, Head(HelperSide.in))],
           helperLink' = [helperLink EXCEPT ![broker.helper] = Taken(@)],
           UNCHANGED <<host, helper, hostLink, clock>>
    PROVE  BridgeInv'
  <1>0. Connected
    BY DEF Connected
  <1>h. PICK H : H = helper
    OBVIOUS
  <1>1. PICK B \in BrokerStates, L \in Links, M \in Links, X \in HelperStates :
            /\ B = broker /\ L = HostSide /\ M = HelperSide /\ X = helper[broker.helper] /\ H = helper
    BY <1>h, <1>0, BrokerFacts
  <1>2. M.in # <<>> /\ M.in \in Seq(Frames) /\ B.queue \in Queues /\ QueueOK(H, B.queue)
    BY <1>0, <1>1, BrokerFacts DEF Links, BrokerStates
  <1>3. PICK e \in Frames : e = Head(M.in)
    BY <1>2, Received
  <1>4. PICK q \in Queues : q = EnqueueEvent(B.queue, e)
    BY <1>2, EnqueuedQueue
  <1>5. PICK m \in Links : m = Taken(M)
    BY <1>2, TakenLink
  <1>6. m.peer = M.peer /\ m.broker = M.broker /\ m.out = M.out /\ m.in = Tail(M.in)
    BY <1>2, <1>5, TakenLink
  <1>7. IsEvent(e) /\ Genuine(H, e) /\ GenuineEvents(H, m.in)
    BY <1>0, <1>1, <1>2, <1>3, <1>6, BrokerFacts, GenuineReceived
  <1>8. QueueOK(H, q)
    BY <1>2, <1>4, <1>7, GenuineEnqueued
  <1>9. PICK b : b = [B EXCEPT !.queue = q]
    OBVIOUS
  <1>10. /\ b \in BrokerStates /\ b.phase = B.phase /\ b.leases = B.leases /\ b.context = B.context
         /\ b.conn = B.conn /\ b.helper = B.helper /\ b.queue = q /\ b.request = B.request
    BY <1>9 DEF BrokerStates
  <1>11. SameLease(b)
    BY <1>1, <1>10 DEF SameLease
  <1>12. BrokerMoves(b, L, m)
    <2>1. hostLink' = [hostLink EXCEPT ![broker.conn] = L]
      BY <1>0, <1>1, BrokerFacts DEF HostSide
    <2>2. helperLink' = [helperLink EXCEPT ![broker.helper] = m]
      BY <1>1, <1>5 DEF HelperSide
    <2>3. broker' = b
      BY <1>1, <1>3, <1>4, <1>9
    <2> QED
      BY <2>1, <2>2, <2>3 DEF BrokerMoves
  <1>13. LeaseRouteOK(b) /\ Cadence(b, host, L, clock)
    BY <1>0, <1>1, <1>11, LeaseKept
  <1>14. host.conn = b.conn /\ host.phase # "idle" => InCall(b, host, L)
    BY <1>0, <1>1, <1>10, BrokerFacts DEF InCall
  <1>15. HelperOK(b, b.helper, X, m)
    <2>1. HelperOK(B, B.helper, X, M)
      BY <1>0, <1>1, BrokerFacts
    <2>2. /\ NoAnswer(M.in) => NoAnswer(m.in)
          /\ OneAnswer(M.in) => OneAnswer(m.in)
      BY <1>2, <1>6, AnswersReceived
    <2>3. M.peer # "unused"
      BY <1>2, <2>1 DEF HelperOK, Untouched
    <2>4. ASSUME M.broker # "closed"
          PROVE  (X.peer => Refers(b.leases, X.gate)) /\ InExchange(b, X, m)
      BY <1>1, <1>6, <1>10, <2>1, <2>2, <2>4 DEF HelperOK, InService, InExchange
    <2> QED
      BY <1>1, <1>6, <1>10, <2>3, <2>4 DEF HelperOK, InService
  <1>16. RouteOK(b.helper, X, m)
    BY <1>0, <1>1, <1>6, <1>10, BrokerFacts DEF RouteOK
  <1>17. /\ b.request \in Frames /\ b.context \in SessionContexts /\ L.in = <<>> /\ L.broker = "open"
         /\ L.peer # "unused" /\ Len(L.in) <= 1 /\ GenuineEvents(helper, L.out)
    BY <1>0, <1>1, <1>10, BrokerFacts
  <1>18. BrokerOutcome(b, L, m)
    BY <1>1, <1>7, <1>8, <1>10, <1>13, <1>14, <1>15, <1>16, <1>17 DEF BrokerOutcome
  <1> QED
    BY <1>0, <1>12, <1>18, BrokerTurn

(* After the answer, a release has ended the lease.                        *)
LEMMA ExchangedState ==
    ASSUME BridgeInv, broker.phase = "exchanging"
    PROVE  /\ Exchanged(broker.request) \in BrokerStates
           /\ Exchanged(broker.request).phase = "serving"
           /\ Exchanged(broker.request).conn = broker.conn
           /\ Exchanged(broker.request).helper = broker.helper
           /\ Exchanged(broker.request).queue = broker.queue
           /\ Exchanged(broker.request).context \in SessionContexts
           /\ IF broker.request.kind = "release" THEN Exchanged(broker.request).leases.active = None
              ELSE SameLease(Exchanged(broker.request))
  <1>0. Connected
    BY DEF Connected
  <1>1. PICK B \in BrokerStates, context \in SessionContexts : B = broker /\ context = B.context
    BY <1>0, BrokerFacts
  <1>2. PICK b : b = [B EXCEPT !.phase = "serving", !.request = None]
    OBVIOUS
  <1>3. /\ b \in BrokerStates /\ b.phase = "serving" /\ b.leases = B.leases /\ b.context = context
        /\ b.conn = B.conn /\ b.helper = B.helper /\ b.queue = B.queue
    BY <1>1, <1>2 DEF BrokerStates
  <1>4. CASE B.request.kind # "release"
    <2>1. Exchanged(broker.request) = b
      BY <1>1, <1>2, <1>4 DEF Exchanged
    <2>2. SameLease(b)
      BY <1>1, <1>3 DEF SameLease
    <2> QED
      BY <1>1, <1>3, <1>4, <2>1, <2>2
  <1>5. CASE B.request.kind = "release"
    <2>1. PICK leases : leases = Release(B.leases)
      OBVIOUS
    <2>2. leases \in LeaseStates /\ leases.active = None
      <3>1. B.leases \in LeaseStates
        BY DEF BrokerStates
      <3>2. CASE B.leases.active = None
        BY <2>1, <3>1, <3>2 DEF Release, FreezeActive
      <3>3. CASE B.leases.active # None
        <4>1. B.leases.active.route \in MaybeRoute
          BY <3>1, <3>3 DEF LeaseStates, LeaseRecords, MaybeRoute
        <4>2. leases = [B.leases EXCEPT !.active = None, !.released = B.leases.active.route]
          BY <2>1, <3>3 DEF Release, FreezeActive
        <4> QED
          BY <3>1, <4>1, <4>2 DEF LeaseStates
      <3> QED
        BY <3>2, <3>3
    <2>3. PICK none \in SessionContexts : none = [context EXCEPT !.permissions = {}]
      <3>1. [context EXCEPT !.permissions = {}] \in SessionContexts
        BY DEF SessionContexts
      <3> QED
        BY <3>1
    <2>4. PICK c : c = [b EXCEPT !.leases = leases, !.context = none]
      OBVIOUS
    <2>5. /\ c \in BrokerStates /\ c.phase = "serving" /\ c.leases = leases /\ c.context = none
          /\ c.conn = B.conn /\ c.helper = B.helper /\ c.queue = B.queue
      BY <1>3, <2>2, <2>4 DEF BrokerStates, MaybeContext
    <2>6. Exchanged(broker.request) = c
      <3>1. Exchanged(broker.request) = [b EXCEPT !.leases = Release(@), !.context.permissions = {}]
        BY <1>1, <1>2, <1>5 DEF Exchanged
      <3> QED
        BY <1>3, <2>1, <2>3, <2>4, <3>1 DEF BrokerStates
    <2> QED
      BY <1>1, <1>5, <2>2, <2>5, <2>6
  <1> QED
    BY <1>4, <1>5

(* The Helper's answer goes to the Host.                                   *)
LEMMA PassAnswerKeeps ==
    ASSUME BridgeInv, broker.phase = "exchanging", HelperSide.in # <<>>,
           ~IsEvent(Head(HelperSide.in)), broker' = Exchanged(broker.request),
           hostLink' = [hostLink EXCEPT ![broker.conn] = FromBroker(@, Head(HelperSide.in))],
           helperLink' = [helperLink EXCEPT ![broker.helper] = Taken(@)],
           UNCHANGED <<host, helper, clock>>
    PROVE  BridgeInv'
  <1>0. Connected
    BY DEF Connected
  <1>h. PICK H : H = helper
    OBVIOUS
  <1>1. PICK L \in Links, M \in Links, X \in HelperStates :
            /\ L = HostSide /\ M = HelperSide /\ X = helper[broker.helper] /\ H = helper
    BY <1>h, <1>0, BrokerFacts
  <1>2. PICK b \in BrokerStates : b = Exchanged(broker.request)
    BY ExchangedState
  <1>3. /\ b.phase = "serving" /\ b.conn = broker.conn /\ b.helper = broker.helper
        /\ b.queue = broker.queue /\ b.context \in SessionContexts
        /\ IF broker.request.kind = "release" THEN b.leases.active = None ELSE SameLease(b)
    BY <1>2, ExchangedState
  <1>4. M.in # <<>> /\ M.in \in Seq(Frames) /\ L.out \in Seq(Frames)
    BY <1>1 DEF Links
  <1>5. PICK f \in Frames : f = Head(M.in) /\ ~IsEvent(f)
    BY <1>1, <1>4, Received
  <1>6. PICK m \in Links : m = Taken(M)
    BY <1>4, TakenLink
  <1>7. m.peer = M.peer /\ m.broker = M.broker /\ m.out = M.out /\ m.in = Tail(M.in)
    BY <1>4, <1>6, TakenLink
  <1>8. PICK l \in Links : l = FromBroker(L, f)
    BY FromBrokerLink
  <1>9. l.peer = L.peer /\ l.broker = L.broker /\ l.in = L.in /\ l.out = Append(L.out, f)
    BY <1>8, FromBrokerLink
  <1>10. /\ L.in = <<>> /\ L.broker = "open" /\ L.peer # "unused" /\ GenuineEvents(H, L.out)
         /\ GenuineEvents(H, M.in)
    BY <1>0, <1>1, BrokerFacts
  <1>11. BrokerMoves(b, l, m)
    BY <1>1, <1>2, <1>5, <1>6, <1>8 DEF BrokerMoves, HostSide, HelperSide
  <1>12. GenuineEvents(H, l.out) /\ GenuineEvents(H, m.in)
    BY <1>4, <1>5, <1>7, <1>9, <1>10, GenuineSent, GenuineReceived
  <1>13. host.conn = b.conn /\ host.phase # "idle" => InCall(b, host, l)
    <2> SUFFICES ASSUME host.conn = b.conn, host.phase # "idle"
                 PROVE  InCall(b, host, l)
      OBVIOUS
    <2>1. host.phase = "calling" /\ NoAnswer(L.out)
      BY <1>0, <1>1, <1>3, <1>10, BrokerFacts DEF InCall
    <2>2. OneAnswer(Append(L.out, f))
      BY <1>4, <2>1, AnswersSent
    <2> QED
      BY <1>3, <1>9, <1>10, <2>1, <2>2 DEF InCall
  <1>14. LeaseRouteOK(b) /\ Cadence(b, host, l, clock)
    <2>1. CASE broker.request.kind = "release"
      BY <1>3, <2>1 DEF LeaseRouteOK, Cadence
    <2>2. CASE broker.request.kind # "release"
      <3>1. SameLease(b) /\ l.in \in {<<>>, HostSide.in}
        BY <1>3, <1>9, <1>10, <2>2
      <3> QED
        BY <1>0, <3>1, LeaseKept
    <2> QED
      BY <2>1, <2>2
  <1>15. HelperOK(b, b.helper, X, m)
    <2>1. HelperOK(broker, broker.helper, X, M)
      BY <1>0, <1>1, BrokerFacts
    <2>2. M.peer # "unused"
      BY <1>4, <2>1 DEF HelperOK, Untouched
    <2>3. ~NoAnswer(M.in) /\ (OneAnswer(M.in) => NoAnswer(m.in))
      BY <1>4, <1>5, <1>7, AnswersReceived
    <2>4. ASSUME M.broker # "closed"
          PROVE  (X.peer => Refers(b.leases, X.gate)) /\ Quiet(X, m)
      <3>1. InExchange(broker, X, M) /\ (X.peer => Refers(broker.leases, X.gate))
        BY <2>1, <2>4 DEF HelperOK, InService
      <3>2. /\ M.out = <<>> /\ X.phase # "showing" /\ NoAnswer(m.in)
            /\ broker.request.kind = "release" => ~X.peer
        BY <2>3, <3>1 DEF InExchange
      <3>3. broker.request.kind # "release" =>
                (Refers(broker.leases, X.gate) => Refers(b.leases, X.gate))
        BY <1>3 DEF SameLease, Refers
      <3> QED
        BY <1>7, <3>1, <3>2, <3>3 DEF Quiet
    <2> QED
      BY <1>3, <1>7, <2>2, <2>4 DEF HelperOK, InService
  <1>16. RouteOK(b.helper, X, m)
    BY <1>0, <1>1, <1>3, <1>7, BrokerFacts DEF RouteOK
  <1>17. QueueOK(helper, b.queue) /\ Len(l.in) <= 1
    BY <1>0, <1>3, <1>9, <1>10, BrokerFacts, NothingSent
  <1>18. BrokerOutcome(b, l, m)
    BY <1>1, <1>3, <1>9, <1>10, <1>12, <1>13, <1>14, <1>15, <1>16, <1>17 DEF BrokerOutcome
  <1> QED
    BY <1>0, <1>11, <1>18, BrokerTurn

(* The broker waits for the Helper's answer and reads a frame.             *)
LEMMA BrokerReplyKeeps ==
    ASSUME BridgeInv, BrokerReply
    PROVE  BridgeInv'
  <1>0. /\ broker.phase = "exchanging" /\ Connected /\ HelperSide.in # <<>>
        /\ UNCHANGED <<host, helper>>
    BY DEF BrokerReply, Connected
  <1>1. HostSide \in Links /\ GenuineEvents(helper, HostSide.out) /\ broker.request \in Frames
    BY <1>0, BrokerFacts
  <1>2. CASE Refuse(broker.request, HostSide)
    BY <1>0, <1>1, <1>2, RefuseKeeps
  <1>3. CASE EndSession(HostSide)
    BY <1>0, <1>1, <1>3, EndSessionKeeps
  <1>4. CASE /\ IsEvent(Head(HelperSide.in))
             /\ broker' = [broker EXCEPT !.queue = EnqueueEvent(broker.queue, Head(HelperSide.in))]
             /\ helperLink' = [helperLink EXCEPT ![broker.helper] = Taken(@)]
             /\ UNCHANGED <<hostLink, clock>>
    BY <1>0, <1>4, QueuePastKeeps
  <1>5. CASE /\ ~IsEvent(Head(HelperSide.in)) /\ broker' = Exchanged(broker.request)
             /\ hostLink' = [hostLink EXCEPT ![broker.conn] = FromBroker(@, Head(HelperSide.in))]
             /\ helperLink' = [helperLink EXCEPT ![broker.helper] = Taken(@)]
             /\ UNCHANGED clock
    BY <1>0, <1>5, PassAnswerKeeps
  <1> QED
    BY <1>2, <1>3, <1>4, <1>5 DEF BrokerReply

(* An event goes on to the Host: from the queue, or read from the Helper.  *)
LEMMA ForwardEventKeeps ==
    ASSUME BridgeInv, broker.phase = "serving", UNCHANGED <<host, helper>>,
           NEW e \in Frames, IsEvent(e), Genuine(helper, e),
           NEW q \in Queues, QueueOK(helper, q),
           NEW m \in Links, m.peer = HelperSide.peer, m.broker = HelperSide.broker,
           m.out = HelperSide.out, HelperSide.in = <<>> => m.in = <<>>,
           NoAnswer(HelperSide.in) => NoAnswer(m.in), GenuineEvents(helper, m.in),
           ForwardEvent(e, q, m)
    PROVE  BridgeInv'
  <1>0. Connected
    BY DEF Connected
  <1>h. PICK H : H = helper
    OBVIOUS
  <1>1. PICK B \in BrokerStates, L \in Links, M \in Links, X \in HelperStates :
            /\ B = broker /\ L = HostSide /\ M = HelperSide /\ X = helper[broker.helper] /\ H = helper
    BY <1>h, <1>0, BrokerFacts
  <1>2. /\ L.broker = "open" /\ L.peer # "unused" /\ Len(L.in) <= 1 /\ GenuineEvents(H, L.out)
        /\ L.out \in Seq(Frames) /\ B.context \in SessionContexts
    BY <1>0, <1>1, BrokerFacts DEF Links
  <1>3. CASE EndSession(HostSide)
    BY <1>0, <1>1, <1>2, <1>3, EndSessionKeeps
  <1>4. CASE /\ broker' = [broker EXCEPT !.queue = q]
             /\ hostLink' = [hostLink EXCEPT ![broker.conn] = FromBroker(@, e)]
             /\ helperLink' = [helperLink EXCEPT ![broker.helper] = m]
             /\ UNCHANGED clock
    <2>1. PICK b : b = [B EXCEPT !.queue = q]
      OBVIOUS
    <2>2. /\ b \in BrokerStates /\ b.phase = "serving" /\ b.leases = B.leases /\ b.queue = q
          /\ b.conn = B.conn /\ b.helper = B.helper /\ b.context = B.context
      BY <1>1, <2>1 DEF BrokerStates
    <2>3. PICK l \in Links : l = FromBroker(L, e)
      BY FromBrokerLink
    <2>4. l.peer = L.peer /\ l.broker = L.broker /\ l.in = L.in /\ l.out = Append(L.out, e)
      BY <2>3, FromBrokerLink
    <2>5. BrokerMoves(b, l, m)
      BY <1>1, <1>4, <2>1, <2>3 DEF BrokerMoves, HostSide
    <2>6. SameLease(b)
      BY <1>1, <2>2 DEF SameLease
    <2>7. LeaseRouteOK(b) /\ Cadence(b, host, l, clock)
      BY <1>0, <1>1, <2>4, <2>6, LeaseKept
    <2>8. GenuineEvents(H, l.out)
      BY <1>1, <1>2, <2>4, GenuineSent
    <2>9. host.conn = b.conn /\ host.phase # "idle" => InCall(b, host, l)
      <3> SUFFICES ASSUME host.conn = b.conn, host.phase # "idle"
                   PROVE  InCall(b, host, l)
        OBVIOUS
      <3>1. InCall(broker, host, L)
        BY <1>0, <1>1, <2>2, BrokerFacts
      <3>2. /\ NoAnswer(L.out) => NoAnswer(Append(L.out, e))
            /\ OneAnswer(L.out) => OneAnswer(Append(L.out, e))
        BY <1>2, AnswersSent, EventSent
      <3> QED
        BY <1>1, <1>2, <2>2, <2>4, <3>1, <3>2 DEF InCall
    <2>10. HelperOK(b, b.helper, X, m)
      <3>1. HelperOK(B, B.helper, X, M)
        BY <1>0, <1>1, BrokerFacts
      <3>2. M.peer = "unused" => X.phase = "unborn" /\ Untouched(X, m)
        BY <1>1, <3>1 DEF HelperOK, Untouched
      <3>3. ASSUME M.broker # "closed"
            PROVE  (X.peer => Refers(b.leases, X.gate)) /\ Quiet(X, m)
        BY <1>1, <2>2, <3>1, <3>3 DEF HelperOK, InService, Quiet
      <3> QED
        BY <1>1, <2>2, <3>2, <3>3 DEF HelperOK, InService
    <2>11. RouteOK(b.helper, X, m)
      BY <1>0, <1>1, <2>2, BrokerFacts DEF RouteOK
    <2>12. BrokerOutcome(b, l, m)
      BY <1>1, <1>2, <2>2, <2>4, <2>7, <2>8, <2>9, <2>10, <2>11 DEF BrokerOutcome
    <2> QED
      BY <1>0, <2>5, <2>12, BrokerTurn
  <1> QED
    BY <1>3, <1>4 DEF ForwardEvent

(* The broker's iteration goes on to the Helper's events.                  *)
LEMMA BrokerPollKeeps ==
    ASSUME BridgeInv, BrokerPoll
    PROVE  BridgeInv'
  <1>0. broker.phase = "serving" /\ Connected /\ UNCHANGED <<host, helper>>
    BY DEF BrokerPoll, Connected
  <1>h. PICK H : H = helper
    OBVIOUS
  <1>1. PICK B \in BrokerStates, L \in Links, M \in Links :
            B = broker /\ L = HostSide /\ M = HelperSide /\ H = helper
    BY <1>h, <1>0, BrokerFacts
  <1>2. /\ GenuineEvents(H, L.out) /\ GenuineEvents(H, M.in) /\ QueueOK(H, B.queue)
        /\ B.queue \in Queues /\ M.in \in Seq(Frames)
    BY <1>0, <1>1, BrokerFacts DEF BrokerStates, Links
  <1>3. CASE EndSession(HostSide)
    BY <1>0, <1>1, <1>2, <1>3, EndSessionKeeps
  <1>4. CASE /\ HasQueued(broker.queue)
             /\ ForwardEvent(QueuedEvent(broker.queue), PopEvent(broker.queue), HelperSide)
    <2>1. HasQueued(B.queue)
      BY <1>1, <1>4
    <2>2. PICK e \in Frames, q \in Queues : e = QueuedEvent(B.queue) /\ q = PopEvent(B.queue)
      BY <1>2, <2>1, PoppedQueue
    <2>3. IsEvent(e) /\ Genuine(H, e) /\ QueueOK(H, q)
      BY <1>2, <2>1, <2>2, GenuinePopped
    <2>4. ForwardEvent(e, q, M)
      BY <1>1, <1>4, <2>2
    <2> QED
      BY <1>0, <1>1, <1>2, <2>3, <2>4, ForwardEventKeeps
  <1>5. CASE /\ HelperSide.in # <<>> /\ IsEvent(Head(HelperSide.in))
             /\ ForwardEvent(Head(HelperSide.in), broker.queue, Taken(HelperSide))
    <2>1. M.in # <<>>
      BY <1>1, <1>5
    <2>2. PICK e \in Frames : e = Head(M.in)
      BY <1>2, <2>1, Received
    <2>3. PICK m \in Links : m = Taken(M)
      BY <2>1, TakenLink
    <2>4. m.peer = M.peer /\ m.broker = M.broker /\ m.out = M.out /\ m.in = Tail(M.in)
      BY <2>1, <2>3, TakenLink
    <2>5. IsEvent(e) /\ Genuine(H, e) /\ GenuineEvents(H, m.in)
      BY <1>1, <1>2, <1>5, <2>1, <2>2, <2>4, GenuineReceived
    <2>6. NoAnswer(M.in) => NoAnswer(m.in)
      BY <1>2, <2>1, <2>4, AnswersReceived
    <2>7. PICK q \in Queues : q = B.queue /\ QueueOK(H, q)
      BY <1>2
    <2>8. ForwardEvent(e, q, m)
      BY <1>1, <1>5, <2>2, <2>3, <2>7
    <2> QED
      BY <1>0, <1>1, <2>1, <2>4, <2>5, <2>6, <2>7, <2>8, ForwardEventKeeps
  <1> QED
    BY <1>3, <1>4, <1>5 DEF BrokerPoll

(* Every step of the broker keeps the invariant.                           *)
LEMMA BrokerNextKeeps ==
    ASSUME BridgeInv, BrokerNext
    PROVE  BridgeInv'
  <1>1. CASE \E h \in Helpers : BrokerAcceptHelper(h)
    BY <1>1, BrokerAcceptHelperKeeps
  <1>2. CASE \E c \in Conns : BrokerAcceptHost(c)
    BY <1>2, BrokerAcceptHostKeeps
  <1>3. CASE BrokerExchangeFails
    <2>1. Connected /\ broker.phase = "exchanging" /\ UNCHANGED <<host, helper>>
      BY <1>3 DEF BrokerExchangeFails, Connected
    <2>2. HostSide \in Links /\ GenuineEvents(helper, HostSide.out) /\ broker.request \in Frames
      BY <2>1, BrokerFacts
    <2> QED
      BY <1>3, <2>1, <2>2, RefuseKeeps DEF BrokerExchangeFails
  <1>4. CASE BrokerHostLost \/ BrokerExpire
    <2>1. Connected /\ EndSession(HostSide) /\ UNCHANGED <<host, helper>>
      BY <1>4 DEF BrokerHostLost, BrokerExpire, Connected
    <2>2. HostSide \in Links /\ GenuineEvents(helper, HostSide.out)
      BY <2>1, BrokerFacts
    <2> QED
      BY <2>1, <2>2, EndSessionKeeps
  <1>5. CASE BrokerAcquire \/ BrokerReceive \/ BrokerReply \/ BrokerPoll
    BY <1>5, BrokerAcquireKeeps, BrokerReceiveKeeps, BrokerReplyKeeps, BrokerPollKeeps
  <1>6. CASE BrokerStop \/ BrokerStart
    BY <1>6, BrokerStopKeeps, BrokerStartKeeps
  <1> QED
    BY <1>1, <1>2, <1>3, <1>4, <1>5, <1>6 DEF BrokerNext

-----------------------------------------------------------------------------
(* Time, the first state, and every step.                                  *)

(* Time passes: a renewal that was not too early is not.                   *)
LEMMA TickKeeps ==
    ASSUME BridgeInv, Tick
    PROVE  BridgeInv'
  <1>0. /\ clock' = clock + 1 /\ clock \in Nat /\ broker \in BrokerStates
        /\ UNCHANGED <<host, broker, helper, hostLink, helperLink>>
    BY DEF Tick, BridgeInv, TypeInv
  <1>1. TypeInv'
    BY <1>0 DEF BridgeInv, TypeInv, Connected, Serving
  <1>2. HelperInv'
    BY <1>0 DEF BridgeInv, HelperInv
  <1>3. EventInv'
    BY <1>0 DEF BridgeInv, EventInv
  <1>4. CallInv'
    BY <1>0 DEF BridgeInv, CallInv, FreshLinks, Connected, HostSide, Link
  <1>5. CadenceInv'
    <2> SUFFICES ASSUME Connected, broker.leases.active # None
                 PROVE  Cadence(broker, host, HostSide, clock + 1)
      BY <1>0 DEF CadenceInv, Connected, HostSide, Cadence
    <2>1. PICK n \in Nat : n = broker.leases.active.renewed
      BY <1>0 DEF BrokerStates, LeaseStates, LeaseRecords
    <2>2. RenewInterval \in Nat
      BY Limits
    <2>3. Cadence(broker, host, HostSide, clock)
      BY BrokerFacts
    <2> QED
      BY <1>0, <2>1, <2>2, <2>3 DEF Cadence
  <1> QED
    BY <1>1, <1>2, <1>3, <1>4, <1>5 DEF BridgeInv

(* Before anything runs.                                                   *)
LEMMA BridgeStarts ==
    ASSUME Init
    PROVE  BridgeInv
  <1>1. PICK x \in HelperStates :
            /\ x = NoHelper /\ x.phase = "unborn" /\ x.gate = None /\ ~x.peer
    <2>1. NoHelper \in HelperStates
      <3>1. Installed \in Credentials /\ None \in MaybeRoute
        BY BridgeAssumption DEF MaybeRoute
      <3> QED
        BY <3>1, NothingSent DEF NoHelper, HelperStates
    <2> QED
      BY <2>1 DEF NoHelper
  <1>2. PICK l \in Links :
            /\ l = NewLink /\ l.peer = "unused" /\ l.broker = "backlog"
            /\ l.in = <<>> /\ l.out = <<>>
    <2>1. NewLink \in Links
      BY NothingSent DEF NewLink, Links
    <2> QED
      BY <2>1 DEF NewLink
  <1>3. PICK y \in HostStates :
            /\ y = NoHost /\ y.phase = "idle" /\ y.conn = 0 /\ y.reported = 0
            /\ y.queue = NoEvents /\ y.delivered = <<>>
    <2>1. NoHost \in HostStates
      <3>1. None \in MaybeRoute /\ "none" \in Ops /\ "none" \in RequestKinds
        BY DEF MaybeRoute, Ops, RequestKinds
      <3> QED
        BY <3>1, NothingSent, EmptyQueue DEF NoHost, HostStates
    <2> QED
      BY <2>1 DEF NoHost
  <1>4. PICK b \in BrokerStates :
            b = NoSessionAt(0, <<>>) /\ b.phase = "accepting" /\ b.leases.active = None
            /\ b.queue = NoEvents
    <2>0. 0 \in Helpers \cup {0} /\ <<>> \in Seq(ClientNonces)
      OBVIOUS
    <2>1. PICK slot \in Helpers \cup {0}, replay \in Seq(ClientNonces) : slot = 0 /\ replay = <<>>
      BY <2>0
    <2>2. NoSessionAt(0, <<>>) = NoSessionAt(slot, replay)
      BY <2>1
    <2> QED
      BY <2>2, NoSessionState
  <1>5. /\ host = y /\ broker = b /\ clock = 0 /\ helper = [h \in Helpers |-> x]
        /\ hostLink = [c \in Conns |-> l] /\ helperLink = [h \in Helpers |-> l]
    BY <1>1, <1>2, <1>3, <1>4 DEF Init
  <1>6. ~Connected /\ ~Serving
    BY <1>4, <1>5 DEF Connected, Serving
  <1>7. TypeInv
    BY <1>1, <1>2, <1>3, <1>4, <1>5, <1>6 DEF TypeInv
  <1>8. HelperInv
    BY <1>1, <1>2, <1>4, <1>5 DEF HelperInv, HelperOK, Untouched, InService
  <1>9. CallInv
    BY <1>2, <1>3, <1>4, <1>5, <1>6, NothingSent DEF CallInv, FreshLinks, LinkOK
  <1>10. CadenceInv
    BY <1>6 DEF CadenceInv
  <1>11. EventInv
    <2>1. \A h \in Helpers : RouteOK(h, x, l) /\ GenuineEvents(helper, l.in)
      BY <1>1, <1>2, NothingSent, GenuineNothing DEF RouteOK
    <2>2. LeaseRouteOK(b) /\ DeliveredOK(y)
      BY <1>3, <1>4, NothingSent DEF LeaseRouteOK, DeliveredOK
    <2>3. /\ QueueOK(helper, b.queue) /\ QueueOK(helper, y.queue)
          /\ GenuineEvents(helper, y.delivered) /\ GenuineEvents(helper, l.out)
      BY <1>2, <1>3, <1>4, GenuineNothing
    <2> QED
      BY <1>5, <2>1, <2>2, <2>3 DEF EventInv
  <1> QED
    BY <1>7, <1>8, <1>9, <1>10, <1>11 DEF BridgeInv

(* Every step keeps the invariant.                                         *)
LEMMA BridgeStep ==
    ASSUME BridgeInv, [Next]_vars
    PROVE  BridgeInv'
  <1>1. CASE HostNext
    BY <1>1, HostNextKeeps
  <1>2. CASE BrokerNext
    BY <1>2, BrokerNextKeeps
  <1>3. CASE \E h \in Helpers : HelperNext(h)
    BY <1>3, HelperNextKeeps
  <1>4. CASE Tick
    BY <1>4, TickKeeps
  <1>5. CASE UNCHANGED vars
    BY <1>5, StaysPut DEF vars
  <1> QED
    BY <1>1, <1>2, <1>3, <1>4, <1>5 DEF Next

-----------------------------------------------------------------------------
(* What the bridge promises.                                               *)

(* The invariant holds in every reachable state: the types of Host, broker *)
(* and Helpers; the place of the one request of an exchange and of a call  *)
(* (FramedBridgeRpc::call at both hops); both ends' record of the last     *)
(* renewal; and the origin of every event on its way.                      *)
THEOREM BridgeInvariant == Spec => []BridgeInv
  <1>1. Init => BridgeInv
    BY BridgeStarts
  <1>2. BridgeInv /\ [Next]_vars => BridgeInv'
    BY BridgeStep
  <1> QED
    BY <1>1, <1>2, PTL DEF Spec

(* A peer on the protected desktop: the Helper was asked, so the broker    *)
(* serves it, under the lease of the Helper's route.                       *)
LEMMA InvGivesLease ==
    ASSUME BridgeInv
    PROVE  PeerUnderLease
  <1> SUFFICES ASSUME NEW h \in Helpers, helper[h].peer, helperLink[h].broker # "closed"
               PROVE  /\ broker.helper = h /\ Serving
                      /\ Refers(broker.leases, helper[h].gate)
    BY DEF PeerUnderLease
  <1>1. HelperOK(broker, h, helper[h], helperLink[h])
    BY DEF BridgeInv, HelperInv
  <1>2. ~Untouched(helper[h], helperLink[h])
    BY DEF Untouched
  <1>3. InService(broker, h)
    BY <1>1, <1>2 DEF HelperOK
  <1> QED
    BY <1>1, <1>3 DEF HelperOK, InService, Serving

(* The session's i-th event has number i, and the Helper emitted it so.    *)
LEMMA InvGivesOrder ==
    ASSUME BridgeInv
    PROVE  EventsInOrder
  <1> SUFFICES ASSUME NEW h \in Helpers, host.phase = "open", host.route.generation = h
               PROVE  /\ Len(host.delivered) <= Len(helper[h].emitted)
                      /\ \A i \in 1..Len(host.delivered) : host.delivered[i] = helper[h].emitted[i]
    BY DEF EventsInOrder
  <1>1. PICK d \in Seq(Frames), e \in Seq(Frames) : d = host.delivered /\ e = helper[h].emitted
    <2>1. host \in HostStates /\ helper[h] \in HelperStates
      BY DEF BridgeInv, TypeInv
    <2> QED
      BY <2>1 DEF HostStates, HelperStates
  <1>2. Len(d) \in Nat /\ Len(e) \in Nat
    BY LenProperties
  <1>3. ASSUME NEW i \in 1..Len(d)
        PROVE  i \in 1..Len(e) /\ d[i] = e[i]
    <2>1. IsEvent(d[i]) /\ d[i].sequence = i /\ d[i].route = host.route
      BY <1>1 DEF BridgeInv, EventInv, DeliveredOK, NoAnswer
    <2>2. Genuine(helper, d[i])
      BY <1>1, <2>1 DEF BridgeInv, EventInv, GenuineEvents
    <2> QED
      BY <1>1, <2>1, <2>2 DEF Genuine
  <1>4. Len(d) <= Len(e)
    <2>1. CASE Len(d) = 0
      BY <1>2, <2>1
    <2>2. CASE Len(d) # 0
      <3>1. Len(d) \in 1..Len(d)
        BY <1>2, <2>2
      <3>2. Len(d) \in 1..Len(e)
        BY <1>3, <3>1
      <3> QED
        BY <1>2, <3>2
    <2> QED
      BY <2>1, <2>2
  <1> QED
    BY <1>1, <1>3, <1>4

(* A renewal on its way was sent an interval after the last one.           *)
LEMMA InvGivesCadence ==
    ASSUME BridgeInv
    PROVE  RenewalsInTime
  <1> SUFFICES ASSUME Serving, broker.leases.active # None
               PROVE  \A i \in 1..Len(HostSide.in) : HostSide.in[i].kind = "renew" =>
                          clock >= broker.leases.active.renewed + RenewInterval
    BY DEF RenewalsInTime
  <1>1. Connected
    BY DEF Serving, Connected
  <1> QED
    BY <1>1 DEF BridgeInv, CadenceInv, Cadence

(* Whatever Host, broker, Helpers and the local user do and however they   *)
(* stop, a native peer is open only under the broker's active lease for    *)
(* the route the Helper obeys, or with the broker's end closed: the        *)
(* broker's run_host_connection, forward_authorized and expiry against     *)
(* HelperLeaseGate.                                                        *)
THEOREM PeerAlwaysUnderLease == Spec => []PeerUnderLease
  BY BridgeInvariant, InvGivesLease, PTL

(* The session is given the Helper's events, all of them in their order,   *)
(* although EventQueue reorders and drops at both hops: ProxyEvents        *)
(* accepts only the next number, and no hop makes up an event.             *)
THEOREM EventsAlwaysInOrder == Spec => []EventsInOrder
  BY BridgeInvariant, InvGivesOrder, PTL

(* A renewal on its way to the broker is never too early for the strict    *)
(* cadence of LeaseManager::renew: renew_if_due starts its interval when   *)
(* the last renewal was answered, which is not before the broker took it.  *)
THEOREM RenewalsAlwaysInTime == Spec => []RenewalsInTime
  BY BridgeInvariant, InvGivesCadence, PTL
=============================================================================
