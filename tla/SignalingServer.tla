-------------------------- MODULE SignalingServer --------------------------
(***************************************************************************)
(* The signaling service's connection handlers, sweeper and shutdown       *)
(* (services/signaling/internal/service, state/presence.go).               *)
(*                                                                         *)
(* Every connection is a goroutine that reads a frame, runs its handler    *)
(* and reads again; one sweeper goroutine expires rendezvous and presence; *)
(* Shutdown runs beside them.  They share the rendezvous store and the     *)
(* presence registry, each behind its own mutex: one critical section is   *)
(* one step, and everybody interleaves between critical sections.          *)
(*                                                                         *)
(* TrySend is abstract here: it fails on a closed connection and may fail  *)
(* on an open one (no slot, no byte budget).  A route looked up before     *)
(* TrySend may be stale by then; that case is a failing send too.          *)
(***************************************************************************)
EXTENDS RendezvousOps

CONSTANTS
    Conns,             \* accepted sockets; a connection is its own route token
    PresenceTimeout,   \* options.PresenceTimeout
    ClientOps,         \* bound: the kinds of frames the clients send
    LastInput,         \* bound: clients fall silent after this time
    MayShutdown,       \* bound: whether Shutdown is ever called
    MaxTime            \* bound: the clock stops here

ASSUME ServerAssumption ==
    /\ Nil \notin Conns
    /\ Nil \notin [conn : Conns, lastSeen : Int]
    /\ PresenceTimeout \in Nat \ {0}
    /\ LastInput \in Nat
    /\ MayShutdown \in BOOLEAN
    /\ MaxTime \in Nat

VARIABLES
    store,      \* server.rendezvous
    routes,     \* server.presence: device -> route of the connection that holds it
    clock,      \* options.Now()
    pc,         \* where each connection's goroutine is
    work,       \* the frame it handles, with the time the handler read
    notes,      \* Closed notices it has still to send
    open,       \* connections whose transport is not closed
    device,     \* connection.deviceID, Nil until registered
    active,     \* server.active
    sweeper,    \* the sweeper goroutine: its stage, its now and what is left to do
    shutdown,   \* the stage of Shutdown, and the connections it has still to close
    issued,     \* rendezvous identifiers some Host has drawn (128-bit random)
    owner,      \* history: the connections that created and joined each rendezvous
    told        \* history: the rendezvous each connection was told have closed

vars == <<store, routes, clock, pc, work, notes, open, device, active, sweeper,
          shutdown, issued, owner, told>>

Route(c, now) == [conn |-> c, lastSeen |-> now]

NoWork == [op |-> "none", id |-> Nil, text |-> Nil, peer |-> Nil, now |-> 0]
Request(op, id, text, peer) ==
    [op |-> op, id |-> id, text |-> text, peer |-> peer, now |-> clock]

Canonical == {t \in CodeTexts : t.upper}

cancelled == shutdown.stage # "up"        \* server.ctx is done

(* TrySend on c, and sendToDevice(d): the possible results.                *)
TrySend(c) == IF c \in open THEN BOOLEAN ELSE {FALSE}
sendToDevice(d) == IF routes[d] = Nil THEN {FALSE} ELSE TrySend(routes[d].conn)

(* Mutant of notifyRendezvousClosed: the controller is forgotten.          *)
notifyHostOnly(removed, excluded) ==
    {[dev |-> x.rdv.host, id |-> x.id] : x \in {y \in removed : y.rdv.host # excluded}}

(* notifyRendezvousClosed: whom to tell about the removed rendezvous.      *)
notifyRendezvousClosed(removed, excluded) ==
    UNION {{[dev |-> d, id |-> x.id] : d \in Members(x.rdv) \ {excluded}} : x \in removed}

(* A Closed frame for id goes to whatever connection is d's route now.     *)
Tell(d, id) ==
    told' = IF routes[d] = Nil THEN told
            ELSE [told EXCEPT ![routes[d].conn] = @ \cup {id}]

Goto(c, label) == pc' = [pc EXCEPT ![c] = label]
Finish(c) == Goto(c, "reading") /\ work' = [work EXCEPT ![c] = NoWork]

----------------------------------------------------------------------------
(* handleConnect up to the read loop.                                      *)

(* beginConnect refuses once shutdown has begun.                           *)
BeginConnect(c) ==
    /\ pc[c] = "new" /\ ~cancelled /\ clock <= LastInput
    /\ Goto(c, "accepting")
    /\ UNCHANGED <<store, routes, clock, work, notes, open, device, active,
                   sweeper, shutdown, issued, owner, told>>

(* No connection slot, no per-IP slot, or a failed websocket handshake.    *)
RejectConnect(c) ==
    /\ pc[c] = "accepting"
    /\ Goto(c, "done")
    /\ UNCHANGED <<store, routes, clock, work, notes, open, device, active,
                   sweeper, shutdown, issued, owner, told>>

Accept(c) ==
    /\ pc[c] = "accepting"
    /\ Goto(c, "reading")
    /\ active' = active \cup {c}
    /\ open' = open \cup {c}
    /\ UNCHANGED <<store, routes, clock, work, notes, device, sweeper, shutdown,
                   issued, owner, told>>

(* The registration timer closes a connection that has not registered.     *)
RegistrationTimeout(c) ==
    /\ c \in open /\ device[c] = Nil
    /\ open' = open \ {c}
    /\ UNCHANGED <<store, routes, clock, pc, work, notes, device, active, sweeper,
                   shutdown, issued, owner, told>>

----------------------------------------------------------------------------
(* The read loop.                                                          *)

Frames(c) ==
    IF device[c] = Nil
    THEN {Request("register", Nil, Nil, d) : d \in Devices}
           \cup {Request("invalid", Nil, Nil, Nil)}
    ELSE {Request(op, Nil, Nil, Nil) : op \in {"heartbeat", "query", "invalid"}}
           \cup {Request("create", id, text, Nil) :
                    id \in RIds \ issued, text \in Canonical \cup {Nil}}
           \cup {Request("join", id, Nil, Nil) : id \in RIds}
           \cup {Request("join", Nil, text, Nil) : text \in CodeTexts}
           \cup {Request(op, id, Nil, Nil) :
                    id \in RIds, op \in {"relayPairing", "complete"}}
           \cup {Request("relaySession", Nil, Nil, d) : d \in Devices}

Receive(c, frame) ==
    /\ frame.op \in ClientOps
    /\ pc[c] = "reading" /\ c \in open /\ ~cancelled /\ clock <= LastInput
    /\ Goto(c, "handle")
    /\ work' = [work EXCEPT ![c] = frame]
    /\ issued' = IF frame.op = "create" THEN issued \cup {frame.id} ELSE issued
    /\ UNCHANGED <<store, routes, clock, notes, open, device, active, sweeper,
                   shutdown, owner, told>>

(* The loop breaks: the peer left, sent too much, or sent a broken frame.  *)
StopReading(c) ==
    /\ Goto(c, "purge")
    /\ open' = open \ {c}
    /\ UNCHANGED <<store, routes, clock, work, notes, device, active, sweeper,
                   shutdown, issued, owner, told>>

PeerGone(c) == pc[c] = "reading" /\ StopReading(c)
ReadFails(c) == pc[c] = "reading" /\ (c \notin open \/ cancelled) /\ StopReading(c)

(* sendFrame to the connection itself: a refused frame closes it.          *)
SendOrClose(c, sent) == open' = IF sent THEN open ELSE open \ {c}

Reply(c) ==
    /\ pc[c] = "reply"
    /\ \E sent \in TrySend(c) : SendOrClose(c, sent)
    /\ Finish(c)
    /\ UNCHANGED <<store, routes, clock, notes, device, active, sweeper, shutdown,
                   issued, owner, told>>

----------------------------------------------------------------------------
(* The handlers.                                                           *)

Handling(c, op) == pc[c] = "handle" /\ work[c].op = op

(* Frames answered without touching shared state, and refused pairings.    *)
HandleQuery(c) ==
    /\ Handling(c, "query") \/ Handling(c, "invalid")
    /\ Goto(c, "reply")
    /\ UNCHANGED <<store, routes, clock, work, notes, open, device, active,
                   sweeper, shutdown, issued, owner, told>>

RateLimited(c) ==
    /\ Handling(c, "create") \/ Handling(c, "join")
    /\ Goto(c, "reply")
    /\ UNCHANGED <<store, routes, clock, work, notes, open, device, active,
                   sweeper, shutdown, issued, owner, told>>

(* Mutant of handleRegistration: the newest connection takes the device.   *)
handleRegistrationTakesOver(c) ==
    /\ Handling(c, "register")
    /\ routes' = [routes EXCEPT ![work[c].peer] = Route(c, work[c].now)]
    /\ device' = [device EXCEPT ![c] = work[c].peer]
    /\ Goto(c, "reply")
    /\ UNCHANGED <<store, clock, work, notes, open, active, sweeper, shutdown, issued,
                   owner, told>>

(* A device has one route; a second connection of the device is refused.   *)
handleRegistration(c) ==
    LET d == work[c].peer
    IN  /\ Handling(c, "register")
        /\ IF routes[d] # Nil
           THEN UNCHANGED <<routes, device>>
           ELSE /\ routes' = [routes EXCEPT ![d] = Route(c, work[c].now)]
                /\ device' = [device EXCEPT ![c] = d]
        /\ Goto(c, "reply")
        /\ UNCHANGED <<store, clock, work, notes, open, active, sweeper, shutdown,
                       issued, owner, told>>

Holds(c) == routes[device[c]] # Nil /\ routes[device[c]].conn = c

handleHeartbeat(c) ==
    /\ Handling(c, "heartbeat")
    /\ IF Holds(c)
       THEN /\ routes' = [routes EXCEPT ![device[c]] = Route(c, work[c].now)]
            /\ Goto(c, "reply")
            /\ UNCHANGED <<open, work>>
       ELSE open' = open \ {c} /\ Finish(c) /\ UNCHANGED routes
    /\ UNCHANGED <<store, clock, notes, device, active, sweeper, shutdown, issued,
                   owner, told>>

handleCreateRendezvous(c) ==
    LET w    == work[c]
        kind == IF w.text = Nil THEN "qr" ELSE "desktop"
        res  == Create(store, w.id, kind, device[c], w.text, w.now + RendezvousTTL, w.now)
        owed == notifyRendezvousClosed(res.removed, Nil)
    IN  /\ Handling(c, "create")
        /\ store' = res.store
        /\ notes' = [notes EXCEPT ![c] = owed]
        /\ owner' = IF res.err = "none" THEN [owner EXCEPT ![w.id] = {c}] ELSE owner
        /\ Goto(c, IF owed = {} THEN "reply" ELSE "tellExpired")
        /\ UNCHANGED <<routes, clock, work, open, device, active, sweeper, shutdown,
                       issued, told>>

handleJoinRendezvous(c) ==
    LET w   == work[c]
        res == IF w.id # Nil THEN JoinByID(store, w.id, device[c], w.now)
                             ELSE JoinByCode(store, w.text, device[c], w.now)
        id  == IF w.id # Nil THEN w.id ELSE store.codeIndex[pairingCodeHash(w.text)]
    IN  /\ Handling(c, "join")
        /\ store' = res.store
        /\ \/ /\ res.err # "none"
              /\ Goto(c, "reply")
              /\ UNCHANGED <<work, owner>>
           \/ /\ res.err = "none"
              /\ work' = [work EXCEPT ![c].id = id, ![c].peer = res.rdv.host]
              /\ owner' = [owner EXCEPT ![id] = @ \cup {c}]
              /\ Goto(c, "tellHost")
        /\ UNCHANGED <<routes, clock, notes, open, device, active, sweeper, shutdown,
                       issued, told>>

(* The Host must accept the Joined frame before the Controller is told.    *)
TellHost(c) ==
    /\ pc[c] = "tellHost"
    /\ \E sent \in sendToDevice(work[c].peer) :
          Goto(c, IF sent THEN "reply" ELSE "undoJoin")
    /\ UNCHANGED <<store, routes, clock, work, notes, open, device, active, sweeper,
                   shutdown, issued, owner, told>>

(* Otherwise the joiner completes the rendezvous in the Host's name, with  *)
(* the time it read before joining, and answers DEVICE_OFFLINE.  A Host    *)
(* whose queue refused the Joined frame is not told: owner forgets it.     *)
UndoJoin(c) ==
    LET res == Complete(store, work[c].id, work[c].peer, work[c].now)
    IN  /\ pc[c] = "undoJoin"
        /\ store' = res.store
        /\ owner' = IF res.err = "none" THEN [owner EXCEPT ![work[c].id] = {}] ELSE owner
        /\ Goto(c, "reply")
        /\ UNCHANGED <<routes, clock, work, notes, open, device, active, sweeper,
                       shutdown, issued, told>>

handleRelayPairing(c) ==
    LET res == Peer(store, work[c].id, device[c], work[c].now)
    IN  /\ Handling(c, "relayPairing")
        /\ Goto(c, IF res.err = "none" THEN "relay" ELSE "reply")
        /\ work' = [work EXCEPT ![c].peer = res.peer]
        /\ UNCHANGED <<store, routes, clock, notes, open, device, active, sweeper,
                       shutdown, issued, owner, told>>

handleRelaySession(c) ==
    /\ Handling(c, "relaySession")
    /\ Goto(c, "relay")
    /\ UNCHANGED <<store, routes, clock, work, notes, open, device, active, sweeper,
                   shutdown, issued, owner, told>>

Relay(c) ==
    /\ pc[c] = "relay"
    /\ \E sent \in sendToDevice(work[c].peer) :
          \/ sent /\ Finish(c)
          \/ ~sent /\ Goto(c, "reply") /\ UNCHANGED work
    /\ UNCHANGED <<store, routes, clock, notes, open, device, active, sweeper,
                   shutdown, issued, owner, told>>

handleCompleteRendezvous(c) ==
    LET res == Complete(store, work[c].id, device[c], work[c].now)
    IN  /\ Handling(c, "complete")
        /\ store' = res.store
        /\ \/ /\ res.err # "none"
              /\ Goto(c, "reply")
              /\ UNCHANGED work
           \/ /\ res.err = "none"
              /\ work' = [work EXCEPT ![c].peer = res.rdv.controller]
              /\ Goto(c, "confirm")
        /\ UNCHANGED <<routes, clock, notes, open, device, active, sweeper, shutdown,
                       issued, owner, told>>

(* The completing Host is told first, then the Controller if there is one. *)
Confirm(c) ==
    /\ pc[c] = "confirm"
    /\ \E sent \in TrySend(c) : SendOrClose(c, sent)
    /\ told' = [told EXCEPT ![c] = @ \cup {work[c].id}]
    /\ IF work[c].peer = Nil THEN Finish(c)
       ELSE Goto(c, "tellController") /\ UNCHANGED work
    /\ UNCHANGED <<store, routes, clock, notes, device, active, sweeper, shutdown,
                   issued, owner>>

TellController(c) ==
    /\ pc[c] = "tellController"
    /\ Tell(work[c].peer, work[c].id)
    /\ Finish(c)
    /\ UNCHANGED <<store, routes, clock, notes, open, device, active, sweeper,
                   shutdown, issued, owner>>

(* The notices a handler owes, one by one, before it goes on to label.     *)
SendNotice(c, at, label) ==
    /\ pc[c] = at
    /\ \E n \in notes[c] :
          /\ Tell(n.dev, n.id)
          /\ notes' = [notes EXCEPT ![c] = @ \ {n}]
          /\ Goto(c, IF notes[c] = {n} THEN label ELSE at)
    /\ UNCHANGED <<store, routes, clock, work, open, device, active, sweeper,
                   shutdown, issued, owner>>

TellExpired(c) == SendNotice(c, "tellExpired", "reply")

----------------------------------------------------------------------------
(* cleanupConnection: the device stays reserved until its rendezvous are   *)
(* gone; the members left behind are told afterwards.                      *)

Purge(c) ==
    /\ pc[c] = "purge"
    /\ work' = [work EXCEPT ![c] = NoWork]
    /\ \/ /\ device[c] = Nil
          /\ Goto(c, "leave")
          /\ UNCHANGED <<store, notes>>
       \/ /\ device[c] # Nil
          /\ LET res == RemoveForDevice(store, device[c])
             IN  /\ store' = res.store
                 /\ notes' = [notes EXCEPT ![c] =
                                notifyRendezvousClosed(res.removed, device[c])]
          /\ Goto(c, "unroute")
    /\ UNCHANGED <<routes, clock, open, device, active, sweeper, shutdown, issued,
                   owner, told>>

Unroute(c) ==
    /\ pc[c] = "unroute"
    /\ routes' = IF Holds(c) THEN [routes EXCEPT ![device[c]] = Nil] ELSE routes
    /\ Goto(c, IF notes[c] = {} THEN "leave" ELSE "tellClosed")
    /\ UNCHANGED <<store, clock, work, notes, open, device, active, sweeper, shutdown,
                   issued, owner, told>>

TellClosed(c) == SendNotice(c, "tellClosed", "leave")

Leave(c) ==
    /\ pc[c] = "leave"
    /\ active' = active \ {c}
    /\ open' = open \ {c}
    /\ told' = [told EXCEPT ![c] = {}]
    /\ Goto(c, "done")
    /\ UNCHANGED <<store, routes, clock, work, notes, device, sweeper, shutdown,
                   issued, owner>>

----------------------------------------------------------------------------
(* runSweeper and Sweep.                                                   *)

sweepVars == <<clock, pc, work, notes, device, active, shutdown, issued, owner>>

SweepStore ==
    LET res == Sweep(store, clock)
    IN  /\ sweeper.stage = "idle"
        /\ store' = res.store
        /\ sweeper' = [sweeper EXCEPT !.stage = "notify", !.now = clock,
                          !.notes = notifyRendezvousClosed(res.removed, Nil)]
        /\ UNCHANGED <<routes, open, told, sweepVars>>

SweepNotify ==
    /\ sweeper.stage = "notify"
    /\ \E n \in sweeper.notes :
          /\ Tell(n.dev, n.id)
          /\ sweeper' = [sweeper EXCEPT !.notes = @ \ {n}]
    /\ UNCHANGED <<store, routes, open, sweepVars>>

(* Mutant of ExpiredBefore: the presence timeout is subtracted twice.      *)
ExpiredLongBefore(cutoff) ==
    {routes[d].conn : d \in {x \in Devices :
        routes[x] # Nil /\ routes[x].lastSeen < cutoff - PresenceTimeout}}

(* ExpiredBefore lists the stale routes without removing them.             *)
ExpiredBefore(cutoff) ==
    {routes[d].conn : d \in {x \in Devices : routes[x] # Nil /\ routes[x].lastSeen < cutoff}}

SweepPresence ==
    /\ sweeper.stage = "notify" /\ sweeper.notes = {}
    /\ sweeper' = [sweeper EXCEPT !.stage = "close", !.now = 0,
                      !.stale = ExpiredBefore(sweeper.now - PresenceTimeout)]
    /\ UNCHANGED <<store, routes, open, told, sweepVars>>

SweepClose ==
    /\ sweeper.stage = "close"
    /\ open' = open \ sweeper.stale
    /\ sweeper' = [sweeper EXCEPT !.stage = "idle", !.stale = {}]
    /\ UNCHANGED <<store, routes, told, sweepVars>>

(* Mutant of SweepExit: the sweeper only looks at its context while the    *)
(* server is up.                                                           *)
SweepExitEarly ==
    /\ sweeper.stage = "idle" /\ ~cancelled
    /\ sweeper' = [sweeper EXCEPT !.stage = "exited"]
    /\ UNCHANGED <<store, routes, open, told, sweepVars>>

SweepExit ==
    /\ sweeper.stage = "idle" /\ cancelled
    /\ sweeper' = [sweeper EXCEPT !.stage = "exited"]
    /\ UNCHANGED <<store, routes, open, told, sweepVars>>

----------------------------------------------------------------------------
(* Shutdown: refuse new connections and cancel, then close the connections *)
(* active at that moment, then wait for every goroutine.                   *)

restVars == <<store, routes, clock, pc, work, notes, device, active, sweeper,
              issued, owner, told>>

Shutdown ==
    /\ shutdown.stage = "up" /\ MayShutdown
    /\ shutdown' = [shutdown EXCEPT !.stage = "cancelled"]
    /\ UNCHANGED <<open, restVars>>

ShutdownSnapshot ==
    /\ shutdown.stage = "cancelled"
    /\ shutdown' = [stage |-> "closing", left |-> active]
    /\ UNCHANGED <<open, restVars>>

ShutdownClose ==
    /\ shutdown.stage = "closing"
    /\ open' = open \ shutdown.left
    /\ shutdown' = [stage |-> "waiting", left |-> {}]
    /\ UNCHANGED restVars

(* Mutant of Drained: connections that clean up are not waited for.        *)
DrainedIgnoresCleanup ==
    sweeper.stage = "exited" /\ \A c \in Conns : pc[c] \notin {"reading", "handle", "reply"}

Drained == sweeper.stage = "exited" /\ \A c \in Conns : pc[c] \in {"new", "done"}

ShutdownDone ==
    /\ shutdown.stage = "waiting" /\ Drained
    /\ shutdown' = [shutdown EXCEPT !.stage = "down"]
    /\ UNCHANGED <<open, restVars>>

Tick ==
    /\ clock < MaxTime
    /\ clock' = clock + 1
    /\ UNCHANGED <<store, routes, pc, work, notes, open, device, active, sweeper,
                   shutdown, issued, owner, told>>

Terminated == shutdown.stage = "down" /\ UNCHANGED vars

----------------------------------------------------------------------------
Init ==
    /\ store = NewRendezvousStore
    /\ routes = [d \in Devices |-> Nil]
    /\ clock = 0
    /\ pc = [c \in Conns |-> "new"]
    /\ work = [c \in Conns |-> NoWork]
    /\ notes = [c \in Conns |-> {}]
    /\ open = {} /\ active = {}
    /\ device = [c \in Conns |-> Nil]
    /\ sweeper = [stage |-> "idle", now |-> 0, notes |-> {}, stale |-> {}]
    /\ shutdown = [stage |-> "up", left |-> {}]
    /\ issued = {}
    /\ owner = [r \in RIds |-> {}]
    /\ told = [c \in Conns |-> {}]

(* The steps a connection's goroutine takes by itself once it has a frame, *)
(* has lost its transport or has been cancelled.                           *)
ConnStep(c) ==
    \/ Accept(c) \/ ReadFails(c) \/ Reply(c)
    \/ HandleQuery(c) \/ RateLimited(c)
    \/ handleRegistration(c) \/ handleHeartbeat(c)
    \/ handleCreateRendezvous(c) \/ TellExpired(c)
    \/ handleJoinRendezvous(c) \/ TellHost(c) \/ UndoJoin(c)
    \/ handleRelayPairing(c) \/ handleRelaySession(c) \/ Relay(c)
    \/ handleCompleteRendezvous(c) \/ Confirm(c) \/ TellController(c)
    \/ Purge(c) \/ Unroute(c) \/ TellClosed(c) \/ Leave(c)

(* What clients and the network decide.                                    *)
ClientStep(c) ==
    \/ BeginConnect(c) \/ RejectConnect(c) \/ PeerGone(c)
    \/ \E frame \in Frames(c) : Receive(c, frame)

SweepStep ==
    \/ SweepStore \/ SweepNotify \/ SweepPresence \/ SweepClose
    \/ SweepExit

ShutdownStep == ShutdownSnapshot \/ ShutdownClose \/ ShutdownDone

Next ==
    \/ \E c \in Conns : ConnStep(c) \/ ClientStep(c) \/ RegistrationTimeout(c)
    \/ SweepStep \/ Shutdown \/ ShutdownStep \/ Tick \/ Terminated

Spec == Init /\ [][Next]_vars

(* A runnable goroutine runs, timers fire, time passes; clients owe nothing. *)
Fairness ==
    /\ \A c \in Conns : WF_vars(ConnStep(c)) /\ WF_vars(RegistrationTimeout(c))
    /\ WF_vars(SweepStep) /\ SF_vars(SweepExit)
    /\ WF_vars(ShutdownStep) /\ WF_vars(Tick)

FairSpec == Spec /\ Fairness

----------------------------------------------------------------------------
Labels == {"new", "accepting", "reading", "handle", "reply", "tellExpired",
           "tellHost", "undoJoin", "relay", "confirm", "tellController",
           "purge", "unroute", "tellClosed", "leave", "done"}

Ops == {"none", "register", "heartbeat", "query", "invalid", "create", "join",
        "relayPairing", "complete", "relaySession"}

(* A connection that has registered and not yet given its route back.      *)
Routed(c) == device[c] # Nil /\ pc[c] \notin {"tellClosed", "leave", "done"}

(* A device identifier belongs to exactly one connection from registration *)
(* until that connection's cleanup releases it, so a live connection's     *)
(* heartbeat never misses its own route.                                   *)
OneRoutePerDevice ==
    \A c \in Conns :
       /\ Routed(c) => Holds(c)
       /\ \A d \in Devices :
             routes[d] # Nil /\ routes[d].conn = c => Routed(c) /\ device[c] = d

(* Both members of a stored rendezvous are online on the connection that   *)
(* created or joined it, and that connection has not cleaned up yet: no    *)
(* interleaving of joins, sweeps, cleanups and reconnects leaves a         *)
(* rendezvous whose member has gone.                                       *)
MembersOnline ==
    \A r \in Stored(store) : \A d \in Members(store.byID[r]) :
       /\ routes[d] # Nil
       /\ routes[d].conn \in owner[r]
       /\ pc[routes[d].conn] # "unroute"

(* Whoever created or joined a rendezvous that is gone has been told, is   *)
(* about to be told by somebody, or has lost its own connection.           *)
ToldOrPending(c, r) ==
    \/ r \in told[c]
    \/ c \notin open
    \/ [dev |-> device[c], id |-> r] \in sweeper.notes
    \/ \E k \in Conns :
          \/ [dev |-> device[c], id |-> r] \in notes[k]
          \/ pc[k] = "confirm" /\ work[k].id = r /\ (k = c \/ work[k].peer = device[c])
          \/ pc[k] = "tellController" /\ work[k].id = r /\ work[k].peer = device[c]

ClosureReported ==
    \A r \in RIds : store.byID[r] = Nil =>
       \A c \in owner[r] : ToldOrPending(c, r)

(* A cleanup removes only what its own connection created or joined: the   *)
(* rendezvous of a device's next connection are never touched.             *)
PurgesOwnOnly ==
    [][\A c \in Conns, r \in RIds :
          pc[c] = "purge" /\ pc'[c] # "purge" /\ store.byID[r] # Nil /\ store'.byID[r] = Nil
             => c \in owner[r]]_vars

(* When Shutdown returns nothing is left of any connection.                *)
DownMeansEmpty ==
    shutdown.stage = "down" =>
       /\ active = {} /\ open = {}
       /\ \A d \in Devices : routes[d] = Nil
       /\ Stored(store) = {}

(* Shutdown always returns, whatever connects while it runs.               *)
ShutdownReturns == shutdown.stage # "up" ~> shutdown.stage = "down"

(* Clients that fall silent are reaped: their rendezvous, routes and       *)
(* connections all go away.                                                *)
SilentClientsReaped ==
    <>[](active = {} /\ Stored(store) = {} /\ \A d \in Devices : routes[d] = Nil)
============================================================================
