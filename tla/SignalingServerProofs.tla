----------------------- MODULE SignalingServerProofs -----------------------
(***************************************************************************)
(* Presence and rendezvous ownership in the signaling server, for any      *)
(* number of connections, devices and rendezvous and any limits.           *)
(*                                                                         *)
(* OneRoutePerDevice and MembersOnline are not inductive alone: that a     *)
(* registering connection holds no device yet, and that a handler's frame  *)
(* has the fields its operation needs, is WorkOK; that the store's member  *)
(* index is exact, so a cleanup misses nothing, is StoreOK.                *)
(***************************************************************************)
EXTENDS SignalingServer, RendezvousStoreProofs

WorkItems == [op : Ops, id : RIds \cup {Nil}, text : CodeTexts \cup {Nil},
              peer : Devices \cup {Nil}, now : Int]

(* What a connection's label says about its frame and its device.          *)
WorkOK(c) ==
    /\ pc[c] \in {"new", "accepting"} => device[c] = Nil
    /\ pc[c] = "handle" =>
         /\ work[c].op = "register" => device[c] = Nil /\ work[c].peer \in Devices
         /\ work[c].op \in {"heartbeat", "create", "join", "relayPairing", "complete"}
              => device[c] # Nil
         /\ work[c].op \in {"create", "relayPairing", "complete"} => work[c].id \in RIds
         /\ work[c].op = "join" /\ work[c].id = Nil => work[c].text \in CodeTexts
    /\ pc[c] \in {"tellHost", "undoJoin"} => work[c].id \in RIds
    /\ pc[c] = "unroute" => device[c] # Nil

Types ==
    /\ routes \in [Devices -> [conn : Conns, lastSeen : Int] \cup {Nil}]
    /\ clock \in Int
    /\ pc \in [Conns -> Labels]
    /\ work \in [Conns -> WorkItems]
    /\ device \in [Conns -> Devices \cup {Nil}]
    /\ owner \in [RIds -> SUBSET Conns]

ServerInv ==
    /\ StoreOK(store)
    /\ Types
    /\ \A c \in Conns : WorkOK(c)
    /\ OneRoutePerDevice
    /\ MembersOnline

(* The invariant holds when the server starts.                             *)
LEMMA ServerInit == Init => ServerInv
  <1> SUFFICES ASSUME Init PROVE ServerInv
    OBVIOUS
  <1>1. StoreOK(store) /\ Stored(store) = {}
    BY InitialOK DEF Init, NewRendezvousStore, Stored
  <1>2. Types
    <2>1. NoWork \in WorkItems
      BY DEF NoWork, WorkItems, Ops
    <2>2. work \in [Conns -> WorkItems]
      BY <2>1 DEF Init
    <2>3. pc \in [Conns -> Labels] /\ device \in [Conns -> Devices \cup {Nil}]
      BY DEF Init, Labels
    <2> QED
      BY <2>2, <2>3 DEF Init, Types
  <1>3. \A c \in Conns : WorkOK(c)
    BY DEF Init, WorkOK
  <1>4. OneRoutePerDevice
    BY DEF Init, OneRoutePerDevice, Routed
  <1>5. MembersOnline
    BY <1>1 DEF MembersOnline
  <1> QED
    BY <1>1, <1>2, <1>3, <1>4, <1>5 DEF ServerInv

(* Labels a connection passes through while it keeps its route.            *)
Midway == Labels \ {"unroute", "tellClosed", "leave", "done"}

(* A step of c that moves its label between such labels, and touches no    *)
(* shared state, preserves the invariant if c's own frame stays in order.  *)
LEMMA LocalStep ==
    ASSUME ServerInv, NEW c \in Conns, NEW l \in Midway,
           pc[c] \in Midway,
           pc' = [pc EXCEPT ![c] = l],
           UNCHANGED <<store, routes, device, owner, clock>>,
           work' \in [Conns -> WorkItems],
           \A k \in Conns \ {c} : work'[k] = work[k],
           WorkOK(c)'
    PROVE  ServerInv'
  <1>1. StoreOK(store)' /\ Types'
    BY DEF ServerInv, Types, Midway
  <1>2. pc \in [Conns -> Labels]
    BY DEF ServerInv, Types
  <1>3. \A k \in Conns : WorkOK(k)'
    BY <1>2 DEF ServerInv, WorkOK
  <1>4. OneRoutePerDevice'
    BY <1>2 DEF ServerInv, OneRoutePerDevice, Routed, Holds, Midway
  <1>5. MembersOnline'
    BY <1>2 DEF ServerInv, MembersOnline, Midway, Types
  <1> QED
    BY <1>1, <1>3, <1>4, <1>5 DEF ServerInv

(* A step in which the store only loses rendezvous, nothing else shared    *)
(* changes and no label moves preserves the invariant.                     *)
LEMMA ShrinkStep ==
    ASSUME ServerInv, StoreOK(store'), Shrinks(store, store'),
           UNCHANGED <<routes, device, owner, pc, work>>, clock' \in Int
    PROVE  ServerInv'
  <1>1. StoreOK(store)' /\ Types'
    BY DEF ServerInv, Types
  <1>2. \A k \in Conns : WorkOK(k)'
    BY DEF ServerInv, WorkOK
  <1>3. OneRoutePerDevice'
    BY DEF ServerInv, OneRoutePerDevice, Routed, Holds
  <1>4. MembersOnline'
    BY DEF ServerInv, MembersOnline, Shrinks
  <1> QED
    BY <1>1, <1>2, <1>3, <1>4 DEF ServerInv

----------------------------------------------------------------------------
(* The steps that end in LocalStep.                                        *)

(* Accepting a connection, breaking its read loop, answering, relaying and *)
(* reporting do not touch shared state.                                    *)
QuietStep(c) ==
    \/ BeginConnect(c) \/ Accept(c) \/ (StopReading(c) /\ pc[c] = "reading")
    \/ Reply(c) \/ HandleQuery(c) \/ RateLimited(c) \/ TellHost(c)
    \/ handleRelaySession(c) \/ Relay(c) \/ Confirm(c) \/ TellController(c)
    \/ TellExpired(c)

(* Every such step preserves the invariant.                                *)
LEMMA QuietSteps ==
    ASSUME ServerInv, NEW c \in Conns, QuietStep(c)
    PROVE  ServerInv'
  <1>0. /\ NoWork \in WorkItems /\ work \in [Conns -> WorkItems]
        /\ pc \in [Conns -> Labels] /\ WorkOK(c)
    BY DEF ServerInv, Types, NoWork, WorkItems, Ops
  <1>1. CASE BeginConnect(c)
    <2>1. WorkOK(c)'
      BY <1>0, <1>1 DEF BeginConnect, Goto, WorkOK
    <2> QED
      BY <1>0, <1>1, <2>1, LocalStep DEF BeginConnect, Goto, Midway, Labels
  <1>2. CASE Accept(c)
    <2>1. WorkOK(c)'
      BY <1>0, <1>2 DEF Accept, Goto, WorkOK
    <2> QED
      BY <1>0, <1>2, <2>1, LocalStep DEF Accept, Goto, Midway, Labels
  <1>3. CASE StopReading(c) /\ pc[c] = "reading"
    <2>1. WorkOK(c)'
      BY <1>0, <1>3 DEF StopReading, Goto, WorkOK
    <2> QED
      BY <1>0, <1>3, <2>1, LocalStep DEF StopReading, Goto, Midway, Labels
  <1>4. CASE Reply(c)
    <2>1. WorkOK(c)'
      BY <1>0, <1>4 DEF Reply, Finish, Goto, WorkOK
    <2> QED
      BY <1>0, <1>4, <2>1, LocalStep DEF Reply, Finish, Goto, Midway, Labels
  <1>5. CASE HandleQuery(c) \/ RateLimited(c)
    <2>1. WorkOK(c)'
      BY <1>0, <1>5 DEF HandleQuery, RateLimited, Handling, Goto, WorkOK
    <2> QED
      BY <1>0, <1>5, <2>1, LocalStep DEF HandleQuery, RateLimited, Handling, Goto, Midway, Labels
  <1>6. CASE TellHost(c)
    <2>1. PICK l \in {"reply", "undoJoin"} : Goto(c, l)
      BY <1>6 DEF TellHost
    <2>2. WorkOK(c)'
      BY <1>0, <1>6, <2>1 DEF TellHost, Goto, WorkOK
    <2> QED
      BY <1>0, <1>6, <2>1, <2>2, LocalStep DEF TellHost, Goto, Midway, Labels
  <1>7. CASE handleRelaySession(c)
    <2>1. WorkOK(c)'
      BY <1>0, <1>7 DEF handleRelaySession, Handling, Goto, WorkOK
    <2> QED
      BY <1>0, <1>7, <2>1, LocalStep DEF handleRelaySession, Handling, Goto, Midway, Labels
  <1>8. CASE Relay(c)
    <2>1. PICK l \in {"reading", "reply"} : Goto(c, l)
      BY <1>8 DEF Relay, Finish
    <2>2. WorkOK(c)'
      BY <1>0, <1>8, <2>1 DEF Relay, Finish, Goto, WorkOK
    <2>3. work' \in [Conns -> WorkItems] /\ \A k \in Conns \ {c} : work'[k] = work[k]
      BY <1>0, <1>8 DEF Relay, Finish
    <2> QED
      BY <1>0, <1>8, <2>1, <2>2, <2>3, LocalStep DEF Relay, Goto, Midway, Labels
  <1>9. CASE Confirm(c)
    <2>1. PICK l \in {"reading", "tellController"} : Goto(c, l)
      BY <1>9 DEF Confirm, Finish
    <2>2. WorkOK(c)'
      BY <1>0, <1>9, <2>1 DEF Confirm, Finish, Goto, WorkOK
    <2>3. work' \in [Conns -> WorkItems] /\ \A k \in Conns \ {c} : work'[k] = work[k]
      BY <1>0, <1>9 DEF Confirm, Finish
    <2> QED
      BY <1>0, <1>9, <2>1, <2>2, <2>3, LocalStep DEF Confirm, Goto, Midway, Labels
  <1>10. CASE TellController(c)
    <2>1. WorkOK(c)'
      BY <1>0, <1>10 DEF TellController, Finish, Goto, WorkOK
    <2> QED
      BY <1>0, <1>10, <2>1, LocalStep DEF TellController, Finish, Goto, Midway, Labels
  <1>11. CASE TellExpired(c)
    <2>1. PICK l \in {"tellExpired", "reply"} : Goto(c, l)
      BY <1>11 DEF TellExpired, SendNotice
    <2>2. WorkOK(c)'
      BY <1>0, <1>11, <2>1 DEF TellExpired, SendNotice, Goto, WorkOK
    <2> QED
      BY <1>0, <1>11, <2>1, <2>2, LocalStep DEF TellExpired, SendNotice, Goto, Midway, Labels
  <1> QED
    BY <1>1, <1>2, <1>3, <1>4, <1>5, <1>6, <1>7, <1>8, <1>9, <1>10, <1>11 DEF QuietStep

(* A received frame has the fields its operation needs.                    *)
LEMMA ReceiveStep ==
    ASSUME ServerInv, NEW c \in Conns, NEW frame \in Frames(c), Receive(c, frame)
    PROVE  ServerInv'
  <1>0. /\ work \in [Conns -> WorkItems] /\ pc \in [Conns -> Labels]
        /\ device \in [Conns -> Devices \cup {Nil}] /\ clock \in Int
    BY DEF ServerInv, Types
  <1>1. frame \in WorkItems
    BY <1>0 DEF Frames, Request, WorkItems, Ops, Canonical
  <1>2. /\ frame.op = "register" => device[c] = Nil /\ frame.peer \in Devices
        /\ frame.op \in {"heartbeat", "create", "join", "relayPairing", "complete"}
             => device[c] # Nil
        /\ frame.op \in {"create", "relayPairing", "complete"} => frame.id \in RIds
        /\ frame.op = "join" /\ frame.id = Nil => frame.text \in CodeTexts
    BY StoreAssumption DEF Frames, Request
  <1>3. WorkOK(c)'
    BY <1>0, <1>2 DEF Receive, Goto, WorkOK
  <1> QED
    BY <1>0, <1>1, <1>3, LocalStep DEF Receive, Goto, Midway, Labels

(* Relaying a pairing envelope looks the peer up and changes nothing.      *)
LEMMA RelayPairingStep ==
    ASSUME ServerInv, NEW c \in Conns, handleRelayPairing(c)
    PROVE  ServerInv'
  <1>0. /\ work \in [Conns -> WorkItems] /\ pc \in [Conns -> Labels] /\ WorkOK(c)
        /\ StoreOK(store)
    BY DEF ServerInv, Types
  <1>1. pc[c] = "handle" /\ work[c].id \in RIds
    BY <1>0 DEF handleRelayPairing, Handling, WorkOK
  <1> DEFINE res == Peer(store, work[c].id, device[c], work[c].now)
  <1>2. res.peer \in Devices \cup {Nil}
    <2>1. store.byID[work[c].id] # Nil => store.byID[work[c].id] \in Rendezvous
      BY <1>0, <1>1 DEF StoreOK, StoreType
    <2> QED
      BY <2>1 DEF Peer, Result, activeLocked, Rendezvous
  <1>3. PICK l \in {"relay", "reply"} : Goto(c, l)
    BY DEF handleRelayPairing
  <1>4. work' = [work EXCEPT ![c].peer = res.peer]
    BY DEF handleRelayPairing
  <1> HIDE DEF res
  <1>5. work' \in [Conns -> WorkItems] /\ \A k \in Conns \ {c} : work'[k] = work[k]
    BY <1>0, <1>2, <1>4 DEF WorkItems
  <1>6. WorkOK(c)'
    BY <1>0, <1>1, <1>3 DEF Goto, WorkOK
  <1> QED
    BY <1>0, <1>1, <1>3, <1>5, <1>6, LocalStep DEF handleRelayPairing, Goto, Midway, Labels

----------------------------------------------------------------------------
(* The steps that change the store.                                        *)

(* A handler step that changes the store keeps the invariant if every      *)
(* membership afterwards is an old one or c's own.                         *)
LEMMA StoreChange ==
    ASSUME ServerInv, NEW c \in Conns, NEW l \in Midway,
           pc[c] \in Midway,
           pc' = [pc EXCEPT ![c] = l],
           UNCHANGED <<routes, device, clock>>,
           StoreOK(store'),
           owner' \in [RIds -> SUBSET Conns],
           work' \in [Conns -> WorkItems],
           \A k \in Conns \ {c} : work'[k] = work[k],
           WorkOK(c)',
           \A r \in Stored(store') : \A d \in Members(store'.byID[r]) :
              \/ r \in Stored(store) /\ d \in Members(store.byID[r]) /\ owner[r] \subseteq owner'[r]
              \/ d = device[c] /\ d # Nil /\ c \in owner'[r]
    PROVE  ServerInv'
  <1>1. Types'
    BY DEF ServerInv, Types, Midway
  <1>2. pc \in [Conns -> Labels]
    BY DEF ServerInv, Types
  <1>3. \A k \in Conns : WorkOK(k)'
    BY <1>2 DEF ServerInv, WorkOK
  <1>4. OneRoutePerDevice'
    BY <1>2 DEF ServerInv, OneRoutePerDevice, Routed, Holds, Midway
  <1>5. MembersOnline'
    <2> SUFFICES ASSUME NEW r \in Stored(store'), NEW d \in Members(store'.byID[r])
                 PROVE  /\ routes[d] # Nil /\ routes[d].conn \in owner'[r]
                        /\ pc'[routes[d].conn] # "unroute"
      BY DEF MembersOnline
    <2>1. CASE r \in Stored(store) /\ d \in Members(store.byID[r]) /\ owner[r] \subseteq owner'[r]
      <3>1. routes[d] # Nil /\ routes[d].conn \in owner[r] /\ pc[routes[d].conn] # "unroute"
        BY <2>1 DEF ServerInv, MembersOnline
      <3>2. routes[d].conn \in Conns
        BY <2>1, <3>1 DEF ServerInv, Types, Stored
      <3> QED
        BY <2>1, <3>1, <3>2, <1>2 DEF Midway
    <2>2. CASE d = device[c] /\ d # Nil /\ c \in owner'[r]
      <3>1. routes[d] # Nil /\ routes[d].conn = c
        BY <2>2 DEF ServerInv, OneRoutePerDevice, Routed, Holds, Midway
      <3> QED
        BY <2>2, <3>1, <1>2 DEF Midway
    <2> QED
      BY <2>1, <2>2
  <1> QED
    BY <1>1, <1>3, <1>4, <1>5 DEF ServerInv

(* Creating a rendezvous adds one whose only member is the creator.        *)
LEMMA CreateStep ==
    ASSUME ServerInv, NEW c \in Conns, handleCreateRendezvous(c)
    PROVE  ServerInv'
  <1>0. /\ work \in [Conns -> WorkItems] /\ pc \in [Conns -> Labels] /\ WorkOK(c)
        /\ device \in [Conns -> Devices \cup {Nil}] /\ owner \in [RIds -> SUBSET Conns]
        /\ StoreOK(store)
    BY DEF ServerInv, Types
  <1> DEFINE w == work[c]
             kind == IF w.text = Nil THEN "qr" ELSE "desktop"
             res == Create(store, w.id, kind, device[c], w.text, w.now + RendezvousTTL, w.now)
  <1>1. /\ pc[c] = "handle" /\ w.id \in RIds /\ device[c] \in Devices
        /\ w.text \in CodeTexts \cup {Nil} /\ w.now \in Int /\ w.now + RendezvousTTL \in Int
        /\ kind \in Kinds
    BY <1>0, StoreAssumption DEF handleCreateRendezvous, Handling, WorkOK, WorkItems, Kinds
  <1>2. store' = res.store /\ UNCHANGED <<routes, device, clock, work>>
    BY DEF handleCreateRendezvous
  <1>3. owner' = IF res.err = "none" THEN [owner EXCEPT ![w.id] = {c}] ELSE owner
    BY DEF handleCreateRendezvous
  <1>4. PICK l \in {"reply", "tellExpired"} : Goto(c, l)
    BY DEF handleCreateRendezvous
  <1> HIDE DEF kind
  <1>5. StoreOK(res.store)
    BY <1>0, <1>1, CreateOK
  <1>6. Adds(store, res, w.id, device[c])
    BY <1>0, <1>1, CreateEffect
  <1> HIDE DEF res
  <1>7. \A r \in Stored(store') : \A d \in Members(store'.byID[r]) :
           \/ r \in Stored(store) /\ d \in Members(store.byID[r]) /\ owner[r] \subseteq owner'[r]
           \/ d = device[c] /\ d # Nil /\ c \in owner'[r]
    BY <1>0, <1>1, <1>2, <1>3, <1>6, StoreAssumption DEF Adds, Stored
  <1>8. WorkOK(c)'
    BY <1>0, <1>4, <1>2 DEF Goto, WorkOK
  <1>9. owner' \in [RIds -> SUBSET Conns]
    BY <1>0, <1>1, <1>3
  <1> HIDE DEF w
  <1> QED
    BY <1>0, <1>1, <1>2, <1>4, <1>5, <1>7, <1>8, <1>9, StoreChange DEF Goto, Midway, Labels

(* Joining adds the joiner's device and the joiner's connection.           *)
LEMMA JoinStep ==
    ASSUME ServerInv, NEW c \in Conns, handleJoinRendezvous(c)
    PROVE  ServerInv'
  <1>0. /\ work \in [Conns -> WorkItems] /\ pc \in [Conns -> Labels] /\ WorkOK(c)
        /\ device \in [Conns -> Devices \cup {Nil}] /\ owner \in [RIds -> SUBSET Conns]
        /\ StoreOK(store)
    BY DEF ServerInv, Types
  <1> DEFINE w == work[c]
             id == IF w.id # Nil THEN w.id ELSE store.codeIndex[pairingCodeHash(w.text)]
             res == IF w.id # Nil THEN JoinByID(store, w.id, device[c], w.now)
                                  ELSE JoinByCode(store, w.text, device[c], w.now)
  <1>1. /\ pc[c] = "handle" /\ device[c] \in Devices /\ w.id \in RIds \cup {Nil}
        /\ w.id = Nil => w.text \in CodeTexts
    BY <1>0 DEF handleJoinRendezvous, Handling, WorkOK, WorkItems
  <1>2. id \in RIds \cup {Nil}
    BY <1>0, <1>1 DEF StoreOK, StoreType, pairingCodeHash, CodeTexts
  <1>3. IF id = Nil THEN res.store = store /\ res.err = "not_found"
        ELSE res = joinLocked(store, id, device[c], w.now)
    BY StoreAssumption DEF JoinByID, JoinByCode, Result
  <1>4. /\ store' = res.store /\ UNCHANGED <<routes, device, clock>>
        /\ \/ /\ res.err # "none" /\ Goto(c, "reply") /\ UNCHANGED <<work, owner>>
           \/ /\ res.err = "none" /\ Goto(c, "tellHost")
              /\ work' = [work EXCEPT ![c].id = id, ![c].peer = res.rdv.host]
              /\ owner' = [owner EXCEPT ![id] = @ \cup {c}]
    BY DEF handleJoinRendezvous
  <1> HIDE DEF id, res
  <1>5. StoreOK(res.store)
    BY <1>0, <1>1, <1>2, <1>3, JoinOK
  <1>6. Enrols(store, res, id, device[c])
    <2>1. CASE id = Nil
      BY <2>1, <1>3 DEF Enrols
    <2>2. CASE id # Nil
      <3>1. id \in RIds /\ res = joinLocked(store, id, device[c], w.now)
        BY <2>2, <1>2, <1>3
      <3> HIDE DEF w
      <3> QED BY <3>1, <1>0, <1>1, JoinEffect
    <2> QED
      BY <2>1, <2>2
  <1>7. res.err = "none" => id \in RIds /\ res.rdv.host \in Devices
    <2> SUFFICES ASSUME res.err = "none"
                 PROVE  id \in RIds /\ res.rdv.host \in Devices
      OBVIOUS
    <2>1. id \in RIds /\ res = joinLocked(store, id, device[c], w.now)
      BY <1>2, <1>3
    <2>2. activeLocked(store, id, w.now)
      BY <2>1 DEF joinLocked, Result
    <2>3. store.byID[id] \in Rendezvous
      BY <1>0, <2>1, <2>2 DEF activeLocked, StoreOK, StoreType
    <2>4. res.rdv.host = store.byID[id].host
      BY <2>1, <2>2, <2>3 DEF joinLocked, Result, Rendezvous
    <2> QED
      BY <2>1, <2>3, <2>4 DEF Rendezvous
  <1>8. \A r \in Stored(store') : \A d \in Members(store'.byID[r]) :
           \/ r \in Stored(store) /\ d \in Members(store.byID[r]) /\ owner[r] \subseteq owner'[r]
           \/ d = device[c] /\ d # Nil /\ c \in owner'[r]
    <2>1. \A r \in RIds : owner[r] \subseteq owner'[r]
      BY <1>0, <1>4, <1>7
    <2>2. res.err = "none" => c \in owner'[id]
      BY <1>0, <1>4, <1>7
    <2>3. device[c] # Nil
      BY <1>1, StoreAssumption
    <2> QED
      BY <1>4, <1>6, <2>1, <2>2, <2>3 DEF Enrols, Stored
  <1>9. /\ work' \in [Conns -> WorkItems] /\ \A k \in Conns \ {c} : work'[k] = work[k]
        /\ res.err = "none" => work'[c].id = id
    <2>1. CASE res.err # "none"
      BY <2>1, <1>0, <1>4
    <2>2. CASE res.err = "none"
      <3>1. work' = [work EXCEPT ![c] = [[@ EXCEPT !.id = id] EXCEPT !.peer = res.rdv.host]]
        BY <2>2, <1>4
      <3>2. [[work[c] EXCEPT !.id = id] EXCEPT !.peer = res.rdv.host] \in WorkItems
        BY <2>2, <1>0, <1>7 DEF WorkItems
      <3>3. [[work[c] EXCEPT !.id = id] EXCEPT !.peer = res.rdv.host].id = id
        BY <1>0 DEF WorkItems
      <3> QED
        BY <3>1, <3>2, <3>3, <1>0
    <2> QED
      BY <2>1, <2>2
  <1>10. WorkOK(c)'
    BY <1>0, <1>4, <1>7, <1>9 DEF Goto, WorkOK
  <1>11. owner' \in [RIds -> SUBSET Conns]
    BY <1>0, <1>4, <1>7
  <1>12. PICK l \in {"reply", "tellHost"} : Goto(c, l)
    BY <1>4
  <1> QED
    BY <1>0, <1>1, <1>4, <1>5, <1>8, <1>9, <1>10, <1>11, <1>12, StoreChange
       DEF Goto, Midway, Labels

(* Completing, by the Host or in its name, only loses rendezvous.          *)
LEMMA CompleteSteps ==
    ASSUME ServerInv, NEW c \in Conns, UndoJoin(c) \/ handleCompleteRendezvous(c)
    PROVE  ServerInv'
  <1>0. /\ work \in [Conns -> WorkItems] /\ pc \in [Conns -> Labels] /\ WorkOK(c)
        /\ owner \in [RIds -> SUBSET Conns] /\ StoreOK(store)
    BY DEF ServerInv, Types
  <1>1. CASE UndoJoin(c)
    <2> DEFINE res == Complete(store, work[c].id, work[c].peer, work[c].now)
    <2>1. /\ store' = res.store /\ UNCHANGED <<routes, device, clock, work>>
          /\ owner' = IF res.err = "none" THEN [owner EXCEPT ![work[c].id] = {}] ELSE owner
          /\ pc[c] = "undoJoin" /\ Goto(c, "reply")
      BY <1>1 DEF UndoJoin
    <2>2. work[c].id \in RIds
      BY <1>0, <2>1 DEF WorkOK
    <2>3. /\ StoreOK(res.store) /\ Shrinks(store, res.store)
          /\ res.err = "none" => work[c].id \notin Stored(res.store)
      BY <1>0, <2>2, CompleteOK, CompleteShrinks
    <2> HIDE DEF res
    <2>4. \A r \in Stored(store') : \A d \in Members(store'.byID[r]) :
             r \in Stored(store) /\ d \in Members(store.byID[r]) /\ owner[r] \subseteq owner'[r]
      BY <1>0, <2>1, <2>2, <2>3 DEF Shrinks, Stored
    <2>5. WorkOK(c)'
      BY <1>0, <2>1 DEF Goto, WorkOK
    <2>6. owner' \in [RIds -> SUBSET Conns]
      BY <1>0, <2>1, <2>2
    <2> QED
      BY <1>0, <2>1, <2>3, <2>4, <2>5, <2>6, StoreChange DEF Goto, Midway, Labels
  <1>2. CASE handleCompleteRendezvous(c)
    <2> DEFINE res == Complete(store, work[c].id, device[c], work[c].now)
    <2>1. /\ store' = res.store /\ UNCHANGED <<routes, device, clock, owner>>
          /\ pc[c] = "handle" /\ work[c].op = "complete"
          /\ \/ res.err # "none" /\ Goto(c, "reply") /\ UNCHANGED work
             \/ /\ res.err = "none" /\ Goto(c, "confirm")
                /\ work' = [work EXCEPT ![c].peer = res.rdv.controller]
      BY <1>2 DEF handleCompleteRendezvous, Handling
    <2>2. work[c].id \in RIds
      BY <1>0, <2>1 DEF WorkOK
    <2>3. StoreOK(res.store) /\ Shrinks(store, res.store)
      BY <1>0, <2>2, CompleteOK, CompleteShrinks
    <2>4. res.err = "none" => res.rdv.controller \in Devices \cup {Nil}
      <3>1. store.byID[work[c].id] # Nil => store.byID[work[c].id] \in Rendezvous
        BY <1>0, <2>2 DEF StoreOK, StoreType
      <3> QED
        BY <3>1 DEF Complete, Result, activeLocked, Rendezvous
    <2> HIDE DEF res
    <2>5. \A r \in Stored(store') : \A d \in Members(store'.byID[r]) :
             r \in Stored(store) /\ d \in Members(store.byID[r]) /\ owner[r] \subseteq owner'[r]
      BY <2>1, <2>3 DEF Shrinks
    <2>6. work' \in [Conns -> WorkItems] /\ \A k \in Conns \ {c} : work'[k] = work[k]
      BY <1>0, <2>1, <2>4 DEF WorkItems
    <2>7. PICK l \in {"reply", "confirm"} : Goto(c, l)
      BY <2>1
    <2>8. WorkOK(c)'
      BY <1>0, <2>7, <2>1 DEF Goto, WorkOK
    <2> QED
      BY <1>0, <2>1, <2>3, <2>5, <2>6, <2>7, <2>8, StoreChange DEF Goto, Midway, Labels
  <1> QED
    BY <1>1, <1>2

----------------------------------------------------------------------------
(* The steps that change routes.                                           *)

(* A registration takes a device nobody holds, or changes nothing.         *)
LEMMA RegistrationStep ==
    ASSUME ServerInv, NEW c \in Conns, handleRegistration(c)
    PROVE  ServerInv'
  <1>0. /\ work \in [Conns -> WorkItems] /\ pc \in [Conns -> Labels] /\ WorkOK(c)
        /\ device \in [Conns -> Devices \cup {Nil}]
        /\ routes \in [Devices -> [conn : Conns, lastSeen : Int] \cup {Nil}]
    BY DEF ServerInv, Types
  <1> DEFINE d == work[c].peer
  <1>1. /\ pc[c] = "handle" /\ device[c] = Nil /\ d \in Devices
        /\ pc' = [pc EXCEPT ![c] = "reply"] /\ UNCHANGED <<store, clock, work, owner>>
    BY <1>0 DEF handleRegistration, Handling, WorkOK, Goto
  <1>2. WorkOK(c)'
    BY <1>0, <1>1 DEF WorkOK
  <1>3. CASE routes[d] # Nil
    <2>1. UNCHANGED <<routes, device>>
      BY <1>3 DEF handleRegistration
    <2> QED
      BY <1>0, <1>1, <1>2, <2>1, LocalStep DEF Midway, Labels
  <1>4. CASE routes[d] = Nil
    <2>1. /\ routes' = [routes EXCEPT ![d] = Route(c, work[c].now)]
          /\ device' = [device EXCEPT ![c] = d]
      BY <1>4 DEF handleRegistration
    <2>2. Route(c, work[c].now) \in [conn : Conns, lastSeen : Int] /\ Route(c, work[c].now).conn = c
      BY <1>0 DEF Route, WorkItems
    <2>3. Route(c, work[c].now) # Nil
      BY <2>2, ServerAssumption
    <2> HIDE DEF d
    <2>4. Types'
      BY <1>0, <1>1, <2>1, <2>2 DEF ServerInv, Types, Labels
    <2>5. \A k \in Conns : WorkOK(k)'
      BY <1>0, <1>1, <1>2, <2>1 DEF ServerInv, WorkOK
    <2>6. OneRoutePerDevice'
      <3> SUFFICES ASSUME NEW k \in Conns
                   PROVE  /\ Routed(k)' => Holds(k)'
                          /\ \A e \in Devices : routes'[e] # Nil /\ routes'[e].conn = k
                                                => Routed(k)' /\ device'[k] = e
        BY DEF OneRoutePerDevice
      <3>1. CASE k = c
        <4>1. \A e \in Devices \ {d} : routes[e] # Nil => routes[e].conn # c
          BY <1>1 DEF ServerInv, OneRoutePerDevice, Routed
        <4> QED
          BY <3>1, <4>1, <1>0, <1>1, <2>1, <2>2, <2>3, StoreAssumption
             DEF Routed, Holds
      <3>2. CASE k # c
        <4>1. /\ Routed(k) => Holds(k)
              /\ \A e \in Devices : routes[e] # Nil /\ routes[e].conn = k
                                    => Routed(k) /\ device[k] = e
          BY DEF ServerInv, OneRoutePerDevice
        <4>2. pc'[k] = pc[k] /\ device'[k] = device[k]
          BY <3>2, <1>0, <1>1, <2>1
        <4>3. Routed(k) => device[k] \in Devices
          BY <1>0 DEF Routed
        <4> QED
          BY <3>2, <4>1, <4>2, <4>3, <1>0, <1>1, <1>4, <2>1, <2>2 DEF Routed, Holds, d
      <3> QED
        BY <3>1, <3>2
    <2>7. MembersOnline'
      <3> SUFFICES ASSUME NEW r \in Stored(store), NEW e \in Members(store.byID[r])
                   PROVE  /\ routes'[e] # Nil /\ routes'[e].conn \in owner[r]
                          /\ pc'[routes'[e].conn] # "unroute"
        BY <1>1 DEF MembersOnline
      <3>1. routes[e] # Nil /\ routes[e].conn \in owner[r] /\ pc[routes[e].conn] # "unroute"
        BY DEF ServerInv, MembersOnline
      <3>2. e # d
        BY <3>1, <1>4 DEF d
      <3>3. routes'[e] = routes[e]
        BY <3>2, <2>1, <1>0
      <3>4. routes[e].conn \in Conns
        BY <3>1 DEF ServerInv, Types, Stored
      <3> QED
        BY <3>1, <3>3, <3>4, <1>0, <1>1
    <2> QED
      BY <1>1, <2>4, <2>5, <2>6, <2>7 DEF ServerInv
  <1> QED
    BY <1>3, <1>4

(* A heartbeat renews its own route; the branch that finds a foreign route *)
(* cannot be taken.                                                        *)
LEMMA HeartbeatStep ==
    ASSUME ServerInv, NEW c \in Conns, handleHeartbeat(c)
    PROVE  ServerInv'
  <1>0. /\ work \in [Conns -> WorkItems] /\ pc \in [Conns -> Labels] /\ WorkOK(c)
        /\ device \in [Conns -> Devices \cup {Nil}]
        /\ routes \in [Devices -> [conn : Conns, lastSeen : Int] \cup {Nil}]
    BY DEF ServerInv, Types
  <1>1. pc[c] = "handle" /\ device[c] \in Devices
    BY <1>0 DEF handleHeartbeat, Handling, WorkOK
  <1>2. Holds(c)
    BY <1>1, StoreAssumption DEF ServerInv, OneRoutePerDevice, Routed
  <1>3. /\ routes' = [routes EXCEPT ![device[c]] = Route(c, work[c].now)]
        /\ pc' = [pc EXCEPT ![c] = "reply"]
        /\ UNCHANGED <<store, clock, work, device, owner>>
    BY <1>2 DEF handleHeartbeat, Goto
  <1>4. /\ Route(c, work[c].now) \in [conn : Conns, lastSeen : Int]
        /\ Route(c, work[c].now).conn = c /\ Route(c, work[c].now) # Nil
    BY <1>0, ServerAssumption DEF Route, WorkItems
  <1>5. \A e \in Devices : /\ routes'[e] # Nil <=> routes[e] # Nil
                           /\ routes[e] # Nil => routes'[e].conn = routes[e].conn
    BY <1>0, <1>1, <1>2, <1>3, <1>4 DEF Holds
  <1>6. Types'
    BY <1>0, <1>1, <1>3, <1>4 DEF ServerInv, Types, Labels
  <1>7. \A k \in Conns : WorkOK(k)'
    BY <1>0, <1>3 DEF ServerInv, WorkOK
  <1>8. OneRoutePerDevice'
    <2>1. \A k \in Conns : Routed(k)' <=> Routed(k)
      BY <1>0, <1>1, <1>3 DEF Routed
    <2>2. \A k \in Conns : Routed(k) => device[k] \in Devices
      BY <1>0 DEF Routed
    <2> QED
      BY <1>3, <1>5, <2>1, <2>2 DEF ServerInv, OneRoutePerDevice, Holds
  <1>9. MembersOnline'
    <2> SUFFICES ASSUME NEW r \in Stored(store), NEW e \in Members(store.byID[r])
                 PROVE  /\ routes'[e] # Nil /\ routes'[e].conn \in owner[r]
                        /\ pc'[routes'[e].conn] # "unroute"
      BY <1>3 DEF MembersOnline
    <2>1. routes[e] # Nil /\ routes[e].conn \in owner[r] /\ pc[routes[e].conn] # "unroute"
      BY DEF ServerInv, MembersOnline
    <2>2. e \in Devices
      BY StoredIsRendezvous DEF ServerInv, StoreOK, Members, Rendezvous
    <2>3. routes[e].conn \in Conns
      BY <2>1, <2>2, <1>0
    <2> QED
      BY <2>1, <2>2, <2>3, <1>0, <1>3, <1>5
  <1> QED
    BY <1>3, <1>6, <1>7, <1>8, <1>9 DEF ServerInv

----------------------------------------------------------------------------
(* cleanupConnection.                                                      *)

(* The purge leaves no rendezvous with the connection's device in it, so   *)
(* the route may go next.                                                  *)
LEMMA PurgeStep ==
    ASSUME ServerInv, NEW c \in Conns, Purge(c)
    PROVE  ServerInv'
  <1>0. /\ work \in [Conns -> WorkItems] /\ pc \in [Conns -> Labels] /\ WorkOK(c)
        /\ device \in [Conns -> Devices \cup {Nil}] /\ StoreOK(store)
        /\ routes \in [Devices -> [conn : Conns, lastSeen : Int] \cup {Nil}]
        /\ NoWork \in WorkItems
    BY DEF ServerInv, Types, NoWork, WorkItems, Ops
  <1>1. /\ pc[c] = "purge" /\ UNCHANGED <<routes, device, owner, clock>>
        /\ work' = [work EXCEPT ![c] = NoWork]
    BY DEF Purge
  <1>2. CASE device[c] = Nil
    <2>1. UNCHANGED store /\ pc' = [pc EXCEPT ![c] = "leave"]
      BY <1>2 DEF Purge, Goto
    <2>2. Types' /\ StoreOK(store)'
      BY <1>0, <1>1, <2>1 DEF ServerInv, Types, Labels
    <2>3. \A k \in Conns : WorkOK(k)'
      BY <1>0, <1>1, <2>1 DEF ServerInv, WorkOK
    <2>4. OneRoutePerDevice'
      BY <1>0, <1>1, <1>2, <2>1 DEF ServerInv, OneRoutePerDevice, Routed, Holds
    <2>5. MembersOnline'
      BY <1>0, <1>1, <2>1 DEF ServerInv, MembersOnline
    <2> QED
      BY <2>2, <2>3, <2>4, <2>5 DEF ServerInv
  <1>3. CASE device[c] # Nil
    <2> DEFINE t == RemoveForDevice(store, device[c]).store
    <2>0. device[c] \in Devices
      BY <1>0, <1>3
    <2>1. store' = t /\ pc' = [pc EXCEPT ![c] = "unroute"]
      BY <1>3 DEF Purge, Goto
    <2>2. StoreOK(t)
      BY <1>0, <2>0, RemoveForDeviceOK
    <2>3. Shrinks(store, t) /\ \A r \in Stored(t) : device[c] \notin Members(t.byID[r])
      BY <1>0, <2>0, RemoveForDeviceShrinks
    <2> HIDE DEF t
    <2>4. Types' /\ StoreOK(store)'
      BY <1>0, <1>1, <2>1, <2>2 DEF ServerInv, Types, Labels
    <2>5. \A k \in Conns : WorkOK(k)'
      BY <1>0, <1>1, <1>3, <2>1 DEF ServerInv, WorkOK
    <2>6. OneRoutePerDevice'
      BY <1>0, <1>1, <2>1 DEF ServerInv, OneRoutePerDevice, Routed, Holds
    <2>7. MembersOnline'
      <3> SUFFICES ASSUME NEW r \in Stored(t), NEW e \in Members(t.byID[r])
                   PROVE  /\ routes[e] # Nil /\ routes[e].conn \in owner[r]
                          /\ pc'[routes[e].conn] # "unroute"
        BY <1>1, <2>1 DEF MembersOnline
      <3>1. r \in Stored(store) /\ e \in Members(store.byID[r]) /\ e # device[c]
        BY <2>3 DEF Shrinks
      <3>2. routes[e] # Nil /\ routes[e].conn \in owner[r] /\ pc[routes[e].conn] # "unroute"
        BY <3>1 DEF ServerInv, MembersOnline
      <3>3. e \in Devices
        BY <3>1, StoredIsRendezvous DEF ServerInv, StoreOK, Members, Rendezvous
      <3>4. routes[e].conn # c
        BY <3>1, <3>2, <3>3 DEF ServerInv, OneRoutePerDevice
      <3> QED
        BY <3>2, <3>4, <2>1, <1>0
    <2> QED
      BY <2>4, <2>5, <2>6, <2>7 DEF ServerInv
  <1> QED
    BY <1>2, <1>3

(* Releasing the route frees the device for its next connection.           *)
LEMMA UnrouteStep ==
    ASSUME ServerInv, NEW c \in Conns, Unroute(c)
    PROVE  ServerInv'
  <1>0. /\ work \in [Conns -> WorkItems] /\ pc \in [Conns -> Labels] /\ WorkOK(c)
        /\ device \in [Conns -> Devices \cup {Nil}] /\ StoreOK(store)
        /\ routes \in [Devices -> [conn : Conns, lastSeen : Int] \cup {Nil}]
    BY DEF ServerInv, Types
  <1>1. pc[c] = "unroute" /\ UNCHANGED <<store, device, owner, clock, work>>
    BY DEF Unroute
  <1>2. PICK l \in {"leave", "tellClosed"} : pc' = [pc EXCEPT ![c] = l]
    BY DEF Unroute, Goto
  <1>3. device[c] \in Devices
    BY <1>0, <1>1 DEF WorkOK
  <1>4. Holds(c)
    BY <1>1, <1>3, StoreAssumption DEF ServerInv, OneRoutePerDevice, Routed
  <1>5. routes' = [routes EXCEPT ![device[c]] = Nil]
    BY <1>4 DEF Unroute
  <1>6. Types'
    BY <1>0, <1>1, <1>2, <1>5 DEF ServerInv, Types, Labels
  <1>7. \A k \in Conns : WorkOK(k)'
    BY <1>0, <1>1, <1>2 DEF ServerInv, WorkOK
  <1>8. OneRoutePerDevice'
    <2> SUFFICES ASSUME NEW k \in Conns
                 PROVE  /\ Routed(k)' => Holds(k)'
                        /\ \A e \in Devices : routes'[e] # Nil /\ routes'[e].conn = k
                                              => Routed(k)' /\ device'[k] = e
      BY DEF OneRoutePerDevice
    <2>1. /\ Routed(k) => Holds(k)
          /\ \A e \in Devices : routes[e] # Nil /\ routes[e].conn = k
                                => Routed(k) /\ device[k] = e
      BY DEF ServerInv, OneRoutePerDevice
    <2>2. \A e \in Devices : routes'[e] # Nil => routes'[e] = routes[e] /\ e # device[c]
      BY <1>0, <1>3, <1>5
    <2>3. CASE k = c
      BY <2>1, <2>2, <2>3, <1>0, <1>1, <1>2 DEF Routed
    <2>4. CASE k # c
      <3>1. pc'[k] = pc[k] /\ device'[k] = device[k]
        BY <2>4, <1>0, <1>1, <1>2
      <3>2. Routed(k) => device[k] \in Devices /\ device[k] # device[c]
        BY <2>1, <2>4, <1>0, <1>4 DEF Routed, Holds
      <3>3. \A e \in Devices : e # device[c] => routes'[e] = routes[e]
        BY <1>0, <1>5
      <3> QED
        BY <2>1, <2>2, <3>1, <3>2, <3>3 DEF Routed, Holds
    <2> QED
      BY <2>3, <2>4
  <1>9. MembersOnline'
    <2> SUFFICES ASSUME NEW r \in Stored(store), NEW e \in Members(store.byID[r])
                 PROVE  /\ routes'[e] # Nil /\ routes'[e].conn \in owner[r]
                        /\ pc'[routes'[e].conn] # "unroute"
      BY <1>1 DEF MembersOnline
    <2>1. routes[e] # Nil /\ routes[e].conn \in owner[r] /\ pc[routes[e].conn] # "unroute"
      BY DEF ServerInv, MembersOnline
    <2>2. e \in Devices
      BY StoredIsRendezvous DEF ServerInv, StoreOK, Members, Rendezvous
    <2>3. e # device[c] /\ routes[e].conn # c
      BY <2>1, <1>1, <1>4 DEF Holds
    <2> QED
      BY <2>1, <2>2, <2>3, <1>0, <1>2, <1>5
  <1> QED
    BY <1>1, <1>6, <1>7, <1>8, <1>9 DEF ServerInv

(* The end of a connection, and a connection that was never accepted.      *)
LEMMA LeaveSteps ==
    ASSUME ServerInv, NEW c \in Conns, TellClosed(c) \/ Leave(c) \/ RejectConnect(c)
    PROVE  ServerInv'
  <1>0. pc \in [Conns -> Labels] /\ WorkOK(c)
    BY DEF ServerInv, Types
  <1>1. UNCHANGED <<store, routes, device, owner, clock, work>>
    BY DEF TellClosed, SendNotice, Leave, RejectConnect
  <1>2. PICK l \in {"tellClosed", "leave", "done"} : pc' = [pc EXCEPT ![c] = l]
    BY DEF TellClosed, SendNotice, Leave, RejectConnect, Goto
  <1>3. ~Routed(c)
    BY <1>0 DEF TellClosed, SendNotice, Leave, RejectConnect, Routed, WorkOK
  <1>4. Types' /\ StoreOK(store)'
    BY <1>0, <1>1, <1>2 DEF ServerInv, Types, Labels
  <1>5. \A k \in Conns : WorkOK(k)'
    BY <1>0, <1>1, <1>2 DEF ServerInv, WorkOK
  <1>6. \A k \in Conns : Routed(k)' <=> Routed(k)
    BY <1>0, <1>1, <1>2, <1>3 DEF Routed
  <1>7. OneRoutePerDevice'
    BY <1>1, <1>6 DEF ServerInv, OneRoutePerDevice, Holds
  <1>8. MembersOnline'
    BY <1>0, <1>1, <1>2 DEF ServerInv, MembersOnline
  <1> QED
    BY <1>4, <1>5, <1>7, <1>8 DEF ServerInv

----------------------------------------------------------------------------
(* The sweeper expires rendezvous; the timers, the rest of the sweeper and *)
(* Shutdown close transports, which no part of the invariant mentions.     *)
LEMMA BackgroundSteps ==
    ASSUME ServerInv,
           \/ \E c \in Conns : RegistrationTimeout(c)
           \/ SweepStep \/ Shutdown \/ ShutdownStep \/ Tick \/ UNCHANGED vars
    PROVE  ServerInv'
  <1>0. clock \in Int /\ StoreOK(store)
    BY DEF ServerInv, Types
  <1>1. CASE SweepStore
    <2>1. /\ store' = Sweep(store, clock).store
          /\ UNCHANGED <<routes, device, owner, pc, work, clock>>
      BY <1>1 DEF SweepStore, sweepVars
    <2>2. StoreOK(store') /\ Shrinks(store, store')
      BY <1>0, <2>1, SweepOK, SweepShrinks DEF Sweep, Result
    <2> QED
      BY <1>0, <2>1, <2>2, ShrinkStep
  <1>2. CASE ~SweepStore
    <2>1. UNCHANGED <<store, routes, device, owner, pc, work>> /\ clock' \in Int
      BY <1>0, <1>2 DEF RegistrationTimeout, SweepStep, SweepNotify, SweepPresence,
         SweepClose, SweepExit, sweepVars, Shutdown, ShutdownStep, ShutdownSnapshot,
         ShutdownClose, ShutdownDone, restVars, Tick, vars
    <2>2. StoreOK(store') /\ Shrinks(store, store')
      BY <1>0, <2>1 DEF Shrinks
    <2> QED
      BY <2>1, <2>2, ShrinkStep
  <1> QED
    BY <1>1, <1>2

(* Every step of every goroutine preserves the invariant.                  *)
LEMMA ServerStep == ServerInv /\ [Next]_vars => ServerInv'
  <1> SUFFICES ASSUME ServerInv, [Next]_vars PROVE ServerInv'
    OBVIOUS
  <1>1. CASE \E c \in Conns : ConnStep(c)
    <2>1. PICK c \in Conns : ConnStep(c)
      BY <1>1
    <2>2. CASE \/ Accept(c) \/ ReadFails(c) \/ Reply(c) \/ HandleQuery(c) \/ RateLimited(c)
               \/ TellHost(c) \/ handleRelaySession(c) \/ Relay(c) \/ Confirm(c)
               \/ TellController(c) \/ TellExpired(c)
      <3>1. QuietStep(c)
        BY <2>2 DEF QuietStep, ReadFails
      <3> QED
        BY <3>1, QuietSteps
    <2>3. CASE handleRegistration(c) \/ handleHeartbeat(c) \/ handleRelayPairing(c)
      BY <2>3, RegistrationStep, HeartbeatStep, RelayPairingStep
    <2>4. CASE \/ handleCreateRendezvous(c) \/ handleJoinRendezvous(c) \/ UndoJoin(c)
               \/ handleCompleteRendezvous(c)
      BY <2>4, CreateStep, JoinStep, CompleteSteps
    <2>5. CASE Purge(c) \/ Unroute(c) \/ TellClosed(c) \/ Leave(c)
      BY <2>5, PurgeStep, UnrouteStep, LeaveSteps
    <2> QED
      BY <2>1, <2>2, <2>3, <2>4, <2>5 DEF ConnStep
  <1>2. CASE \E c \in Conns : ClientStep(c)
    <2>1. PICK c \in Conns : ClientStep(c)
      BY <1>2
    <2>2. CASE BeginConnect(c) \/ PeerGone(c)
      <3>1. QuietStep(c)
        BY <2>2 DEF QuietStep, PeerGone
      <3> QED
        BY <3>1, QuietSteps
    <2>3. CASE RejectConnect(c)
      BY <2>3, LeaveSteps
    <2>4. CASE \E frame \in Frames(c) : Receive(c, frame)
      BY <2>4, ReceiveStep
    <2> QED
      BY <2>1, <2>2, <2>3, <2>4 DEF ClientStep
  <1>3. CASE \/ \E c \in Conns : RegistrationTimeout(c)
             \/ SweepStep \/ Shutdown \/ ShutdownStep \/ Tick \/ UNCHANGED vars
    BY <1>3, BackgroundSteps
  <1> QED
    BY <1>1, <1>2, <1>3 DEF Next, Terminated

(* In every reachable state a device identifier belongs to at most one     *)
(* connection, and a registered connection holds its own route until its   *)
(* cleanup gives it back (handleRegistration, cleanupConnection).          *)
THEOREM RoutesAreExclusive == Spec => []OneRoutePerDevice
  <1>1. ServerInv => OneRoutePerDevice
    BY DEF ServerInv
  <1> QED
    BY <1>1, ServerInit, ServerStep, PTL DEF Spec

(* In every reachable state the members of a stored rendezvous are online  *)
(* on the connections that created or joined it.                           *)
THEOREM MembersAlwaysOnline == Spec => []MembersOnline
  <1>1. ServerInv => MembersOnline
    BY DEF ServerInv
  <1> QED
    BY <1>1, ServerInit, ServerStep, PTL DEF Spec

(* While c is about to purge, the only step that moves c and changes the   *)
(* store is c's own purge.                                                 *)
LEMMA OnlyPurgePurges ==
    ASSUME ServerInv, [Next]_vars, NEW c \in Conns,
           pc[c] = "purge", pc'[c] # "purge", store' # store
    PROVE  Purge(c)
  <1>0. pc \in [Conns -> Labels]
    BY DEF ServerInv, Types
  <1>1. ASSUME NEW k \in Conns, ConnStep(k), ~Purge(k)
        PROVE  FALSE
    <2>1. CASE \/ handleCreateRendezvous(k) \/ handleJoinRendezvous(k) \/ UndoJoin(k)
               \/ handleCompleteRendezvous(k)
      <3>1. pc[k] # "purge" /\ \E l \in Labels : pc' = [pc EXCEPT ![k] = l]
        BY <2>1 DEF handleCreateRendezvous, handleJoinRendezvous, UndoJoin,
           handleCompleteRendezvous, Handling, Goto, Labels
      <3> QED
        BY <1>0, <3>1
    <2>2. CASE \/ Accept(k) \/ ReadFails(k) \/ Reply(k) \/ HandleQuery(k) \/ RateLimited(k)
               \/ TellHost(k) \/ handleRelaySession(k) \/ Relay(k) \/ Confirm(k)
               \/ TellController(k) \/ TellExpired(k) \/ handleRegistration(k)
               \/ handleHeartbeat(k) \/ handleRelayPairing(k) \/ Unroute(k)
               \/ TellClosed(k) \/ Leave(k)
      BY <2>2 DEF Accept, ReadFails, StopReading, Reply, HandleQuery, RateLimited,
         TellHost, handleRelaySession, Relay, Confirm, TellController, TellExpired,
         SendNotice, handleRegistration, handleHeartbeat, handleRelayPairing, Unroute,
         TellClosed, Leave
    <2> QED
      BY <1>1, <2>1, <2>2 DEF ConnStep
  <1>2. ASSUME NEW k \in Conns, Purge(k)
        PROVE  k = c
    <2>1. \E l \in Labels : pc' = [pc EXCEPT ![k] = l]
      BY <1>2 DEF Purge, Goto, Labels
    <2> QED
      BY <1>0, <2>1
  <1>3. \A k \in Conns : ~ClientStep(k) /\ ~RegistrationTimeout(k)
    BY DEF ClientStep, BeginConnect, RejectConnect, PeerGone, StopReading, Receive,
       RegistrationTimeout
  <1>4. ~(SweepStep \/ Shutdown \/ ShutdownStep \/ Tick \/ Terminated \/ UNCHANGED vars)
    BY DEF SweepStep, SweepStore, SweepNotify, SweepPresence, SweepClose, SweepExit,
       sweepVars, Shutdown, ShutdownStep, ShutdownSnapshot, ShutdownClose, ShutdownDone,
       restVars, Tick, Terminated, vars
  <1> QED
    BY <1>1, <1>2, <1>3, <1>4 DEF Next

(* No cleanup ever removes a rendezvous its own connection did not create  *)
(* or join (cleanupConnection purges while the device is still reserved).  *)
THEOREM CleanupTouchesOwnOnly == Spec => PurgesOwnOnly
  <1> DEFINE Own == \A c \in Conns, r \in RIds :
                pc[c] = "purge" /\ pc'[c] # "purge" /\ store.byID[r] # Nil /\ store'.byID[r] = Nil
                   => c \in owner[r]
  <1>1. ServerInv /\ [Next]_vars => [Own]_vars
    <2> SUFFICES ASSUME ServerInv, [Next]_vars, NEW c \in Conns, NEW r \in RIds,
                        pc[c] = "purge", pc'[c] # "purge",
                        store.byID[r] # Nil, store'.byID[r] = Nil
                 PROVE  c \in owner[r]
      OBVIOUS
    <2>1. Purge(c)
      BY OnlyPurgePurges
    <2>2. StoreOK(store) /\ device \in [Conns -> Devices \cup {Nil}]
      BY DEF ServerInv, Types
    <2>3. device[c] \in Devices /\ store' = RemoveForDevice(store, device[c]).store
      BY <2>1, <2>2 DEF Purge
    <2>4. r \in Stored(store) /\ device[c] \in Members(store.byID[r])
      BY <2>2, <2>3, RemoveForDeviceShrinks DEF Stored
    <2>5. routes[device[c]].conn \in owner[r]
      BY <2>4 DEF ServerInv, MembersOnline
    <2>6. routes[device[c]].conn = c
      BY <2>3, StoreAssumption DEF ServerInv, OneRoutePerDevice, Routed, Holds
    <2> QED
      BY <2>5, <2>6
  <1> QED
    BY <1>1, ServerInit, ServerStep, PTL DEF Spec, PurgesOwnOnly

----------------------------------------------------------------------------
(* The reports: who is told that a rendezvous is gone, and what is left    *)
(* when Shutdown returns.  StatusInv is what a goroutine's label says of   *)
(* its transport, its place in server.active and the notices it owes.      *)

Notices == [dev : Devices, id : RIds]

(* Labels at which a connection's transport is closed.                     *)
Gone == {"new", "accepting", "purge", "unroute", "tellClosed", "leave", "done"}

StatusTypes ==
    /\ notes \in [Conns -> SUBSET Notices]
    /\ told \in [Conns -> SUBSET RIds]
    /\ open \in SUBSET Conns /\ active \in SUBSET Conns
    /\ sweeper \in [stage : {"idle", "notify", "close", "exited"}, now : Int,
                    notes : SUBSET Notices, stale : SUBSET Conns]
    /\ shutdown \in [stage : {"up", "cancelled", "closing", "waiting", "down"},
                     left : SUBSET Conns]

StatusOK(c) ==
    /\ pc[c] \in Gone => c \notin open
    /\ pc[c] \in {"new", "accepting", "done"} => c \notin active
    /\ notes[c] # {} => pc[c] \in {"tellExpired", "unroute", "tellClosed"}
    /\ pc[c] \in {"confirm", "tellController"} => work[c].id \in RIds
    /\ pc[c] = "tellController" => work[c].peer # Nil

StatusInv ==
    /\ StatusTypes
    /\ \A c \in Conns : StatusOK(c)
    /\ sweeper.notes # {} => sweeper.stage = "notify"
    /\ shutdown.stage = "down" => Drained

(* It holds when the server starts.                                        *)
LEMMA StatusInit == Init => StatusInv
  <1> SUFFICES ASSUME Init PROVE StatusInv
    OBVIOUS
  <1>1. StatusTypes
    BY DEF Init, StatusTypes
  <1>2. \A c \in Conns : StatusOK(c)
    BY DEF Init, StatusOK
  <1> QED
    BY <1>1, <1>2 DEF Init, StatusInv

(* The notices about snapshots of rendezvous are addressed to devices.     *)
LEMMA NotifyType ==
    ASSUME NEW s, NEW t, NEW removed, Reports(s, t, removed), NEW excluded
    PROVE  notifyRendezvousClosed(removed, excluded) \in SUBSET Notices
  <1> SUFFICES ASSUME NEW x \in removed, NEW d \in Members(x.rdv)
               PROVE  [dev |-> d, id |-> x.id] \in Notices
    BY DEF notifyRendezvousClosed
  <1>1. x.id \in RIds /\ d \in Devices
    BY DEF Reports, Members, Rendezvous
  <1> QED
    BY <1>1 DEF Notices

(* Everybody but the excluded device is notified of what is removed.       *)
LEMMA NotifyReaches ==
    ASSUME NEW s, NEW t, NEW removed, Reports(s, t, removed), NEW excluded,
           NEW r \in Stored(s), r \notin Stored(t),
           NEW d \in Members(s.byID[r]), d # excluded
    PROVE  [dev |-> d, id |-> r] \in notifyRendezvousClosed(removed, excluded)
  <1> DEFINE x == [id |-> r, rdv |-> s.byID[r]]
  <1>1. x \in removed /\ x.id = r /\ x.rdv = s.byID[r]
    BY DEF Reports
  <1>2. [dev |-> d, id |-> x.id] \in
            {[dev |-> e, id |-> x.id] : e \in Members(x.rdv) \ {excluded}}
    BY <1>1
  <1> HIDE DEF x
  <1> QED
    BY <1>1, <1>2 DEF notifyRendezvousClosed

(* A step of the goroutine of c alone.                                     *)
LEMMA LocalStatus ==
    ASSUME ServerInv, StatusInv, NEW c \in Conns, NEW l \in Labels,
           pc' = [pc EXCEPT ![c] = l],
           pc[c] \notin {"new", "done"} \/ ~cancelled,
           UNCHANGED <<sweeper, shutdown>>,
           StatusTypes',
           \A k \in Conns \ {c} : /\ work'[k] = work[k] /\ notes'[k] = notes[k]
                                  /\ k \in open' => k \in open
                                  /\ k \in active' => k \in active,
           StatusOK(c)'
    PROVE  StatusInv'
  <1>0. pc \in [Conns -> Labels]
    BY DEF ServerInv, Types
  <1>1. \A k \in Conns \ {c} : StatusOK(k)'
    BY <1>0 DEF StatusInv, StatusOK
  <1>2. shutdown.stage # "down"
    BY <1>0 DEF StatusInv, Drained, cancelled
  <1> QED
    BY <1>1, <1>2 DEF StatusInv

(* The steps that owe and send no notices keep it.                         *)
QuietConn(c) ==
    \/ BeginConnect(c) \/ RejectConnect(c) \/ Accept(c) \/ PeerGone(c) \/ ReadFails(c)
    \/ Reply(c) \/ HandleQuery(c) \/ RateLimited(c) \/ handleRegistration(c)
    \/ handleHeartbeat(c) \/ handleJoinRendezvous(c) \/ TellHost(c) \/ UndoJoin(c)
    \/ handleRelayPairing(c) \/ handleRelaySession(c) \/ Relay(c)
    \/ (\E frame \in Frames(c) : Receive(c, frame))

(* What such a step does to the state the reports are about.               *)
LEMMA QuietEffect ==
    ASSUME ServerInv, ServerInv', StatusInv, NEW c \in Conns, QuietConn(c)
    PROVE  /\ UNCHANGED <<notes, told, sweeper, shutdown>>
           /\ \A k \in Conns \ {c} : work'[k] = work[k]
           /\ pc[c] \notin {"confirm", "tellController", "tellExpired", "unroute",
                            "tellClosed", "done"}
           /\ pc[c] = "new" => ~cancelled
           /\ \E l \in Labels \ {"confirm", "tellController", "tellExpired", "unroute",
                                 "tellClosed", "leave", "new"} :
                 /\ pc' = [pc EXCEPT ![c] = l]
                 /\ l \in {"accepting", "done", "purge"} => c \notin open'
                 /\ l \in {"accepting", "done"} => c \notin active'
           /\ IF pc[c] = "accepting" THEN open' \subseteq open \cup {c}
              ELSE open' \subseteq open
           /\ active' \subseteq active \cup {c}
  <1>0. work \in [Conns -> WorkItems] /\ pc \in [Conns -> Labels] /\ StatusOK(c)
    BY DEF ServerInv, Types, StatusInv
  <1>1. CASE BeginConnect(c) \/ RejectConnect(c) \/ Accept(c)
    BY <1>0, <1>1 DEF BeginConnect, RejectConnect, Accept, Goto, Labels, StatusOK, Gone
  <1>2. CASE PeerGone(c) \/ ReadFails(c)
    BY <1>0, <1>2 DEF PeerGone, ReadFails, StopReading, Goto, Labels
  <1>3. CASE Reply(c)
    <2>1. open' \subseteq open
      BY <1>3 DEF Reply, SendOrClose
    <2>2. /\ pc[c] = "reply" /\ UNCHANGED <<notes, told, sweeper, shutdown, active>>
          /\ pc' = [pc EXCEPT ![c] = "reading"] /\ work' = [work EXCEPT ![c] = NoWork]
      BY <1>3 DEF Reply, Finish, Goto
    <2>3. \A k \in Conns \ {c} : work'[k] = work[k]
      BY <1>0, <2>2
    <2>4. "reading" \in Labels \ {"confirm", "tellController", "tellExpired", "unroute",
                               "tellClosed", "leave", "new"}
      BY DEF Labels
    <2> QED
      BY <2>2, <2>3, <2>4, <2>1
  <1>4. CASE HandleQuery(c) \/ RateLimited(c) \/ handleRegistration(c) \/ handleRelaySession(c)
    BY <1>0, <1>4 DEF HandleQuery, RateLimited, handleRegistration, handleRelaySession,
       Handling, Goto, Labels
  <1>5. CASE handleHeartbeat(c)
    BY <1>0, <1>5 DEF handleHeartbeat, Handling, Finish, Goto, Labels
  <1>6. CASE handleJoinRendezvous(c)
    <2>1. /\ pc[c] = "handle" /\ UNCHANGED <<notes, told, sweeper, shutdown, open, active>>
          /\ \E l \in {"reply", "tellHost"} : Goto(c, l)
          /\ \/ UNCHANGED work
             \/ \E i, p : work' = [work EXCEPT ![c].id = i, ![c].peer = p]
      BY <1>6 DEF handleJoinRendezvous, Handling
    <2>2. \A k \in Conns \ {c} : work'[k] = work[k]
      BY <1>0, <2>1
    <2> QED
      BY <1>0, <2>1, <2>2 DEF Goto, Labels
  <1>7. CASE TellHost(c) \/ UndoJoin(c)
    BY <1>0, <1>7 DEF TellHost, UndoJoin, Goto, Labels
  <1>8. CASE handleRelayPairing(c)
    <2>1. /\ pc[c] = "handle" /\ UNCHANGED <<notes, told, sweeper, shutdown, open, active>>
          /\ \E l \in {"reply", "relay"} : Goto(c, l)
          /\ \E p : work' = [work EXCEPT ![c].peer = p]
      BY <1>8 DEF handleRelayPairing, Handling
    <2>2. \A k \in Conns \ {c} : work'[k] = work[k]
      BY <1>0, <2>1
    <2> QED
      BY <1>0, <2>1, <2>2 DEF Goto, Labels
  <1>9. CASE Relay(c)
    BY <1>0, <1>9 DEF Relay, Finish, Goto, Labels
  <1>10. CASE \E frame \in Frames(c) : Receive(c, frame)
    <2>1. PICK frame \in Frames(c) : Receive(c, frame)
      BY <1>10
    <2>2. /\ pc[c] = "reading" /\ UNCHANGED <<notes, told, sweeper, shutdown, open, active>>
          /\ pc' = [pc EXCEPT ![c] = "handle"] /\ work' = [work EXCEPT ![c] = frame]
      BY <2>1 DEF Receive, Goto
    <2>3. \A k \in Conns \ {c} : work'[k] = work[k]
      BY <1>0, <2>2
    <2>4. "handle" \in Labels \ {"confirm", "tellController", "tellExpired", "unroute",
                               "tellClosed", "leave", "new"}
      BY DEF Labels
    <2> QED
      BY <2>2, <2>3, <2>4
  <1> QED
    BY <1>1, <1>2, <1>3, <1>4, <1>5, <1>6, <1>7, <1>8, <1>9, <1>10 DEF QuietConn

(* Quiet steps keep the status.                                            *)
LEMMA QuietStatus ==
    ASSUME ServerInv, ServerInv', StatusInv, NEW c \in Conns, QuietConn(c)
    PROVE  StatusInv'
  <1>0. pc \in [Conns -> Labels] /\ StatusOK(c) /\ StatusTypes
    BY DEF ServerInv, Types, StatusInv
  <1>1. PICK l \in Labels \ {"confirm", "tellController", "tellExpired", "unroute",
                             "tellClosed", "leave", "new"} :
           /\ pc' = [pc EXCEPT ![c] = l]
           /\ l \in {"accepting", "done", "purge"} => c \notin open'
           /\ l \in {"accepting", "done"} => c \notin active'
    BY QuietEffect
  <1>2. /\ UNCHANGED <<notes, told, sweeper, shutdown>>
        /\ \A k \in Conns \ {c} : work'[k] = work[k]
        /\ pc[c] \notin {"confirm", "tellController", "tellExpired", "unroute",
                         "tellClosed", "done"}
        /\ pc[c] = "new" => ~cancelled
        /\ open' \subseteq open \cup {c} /\ active' \subseteq active \cup {c}
    BY QuietEffect
  <1>3. StatusTypes'
    BY <1>0, <1>2 DEF StatusTypes
  <1>4. StatusOK(c)'
    BY <1>0, <1>1, <1>2 DEF StatusOK, Gone, Labels
  <1> QED
    BY <1>1, <1>2, <1>3, <1>4, LocalStatus

(* Recording that a device's connection was told keeps the types.          *)
LEMMA TellType ==
    ASSUME told \in [Conns -> SUBSET RIds], NEW d, NEW id \in RIds, Tell(d, id)
    PROVE  told' \in [Conns -> SUBSET RIds]
  BY DEF Tell

(* Completing, and the answers to it, keep the status.                     *)
LEMMA CompletionStatus ==
    ASSUME ServerInv, ServerInv', StatusInv, NEW c \in Conns,
           handleCompleteRendezvous(c) \/ Confirm(c) \/ TellController(c)
    PROVE  StatusInv'
  <1>0. /\ pc \in [Conns -> Labels] /\ StatusOK(c) /\ StatusTypes /\ WorkOK(c)
        /\ work \in [Conns -> WorkItems]
    BY DEF ServerInv, Types, StatusInv
  <1>1. CASE handleCompleteRendezvous(c)
    <2>1. /\ pc[c] = "handle" /\ work[c].op = "complete"
          /\ UNCHANGED <<notes, told, sweeper, shutdown, open, active>>
          /\ \/ Goto(c, "reply") /\ UNCHANGED work
             \/ Goto(c, "confirm") /\ \E p : work' = [work EXCEPT ![c].peer = p]
      BY <1>1 DEF handleCompleteRendezvous, Handling
    <2>2. work[c].id \in RIds
      BY <1>0, <2>1 DEF WorkOK
    <2>3. /\ \A k \in Conns \ {c} : work'[k] = work[k]
          /\ work'[c].id = work[c].id
      BY <1>0, <2>1 DEF WorkItems
    <2>4. StatusTypes'
      BY <1>0, <2>1 DEF StatusTypes
    <2>5. StatusOK(c)'
      BY <1>0, <2>1, <2>2, <2>3 DEF StatusOK, Goto, Gone
    <2>6. PICK l \in {"reply", "confirm"} : pc' = [pc EXCEPT ![c] = l]
      BY <2>1 DEF Goto
    <2> QED
      BY <2>1, <2>3, <2>4, <2>5, <2>6, LocalStatus DEF Labels
  <1>2. CASE Confirm(c)
    <2>1. /\ pc[c] = "confirm" /\ UNCHANGED <<notes, sweeper, shutdown, active>>
          /\ told' = [told EXCEPT ![c] = @ \cup {work[c].id}]
          /\ \/ Goto(c, "reading") /\ work' = [work EXCEPT ![c] = NoWork]
             \/ Goto(c, "tellController") /\ UNCHANGED work /\ work[c].peer # Nil
      BY <1>2 DEF Confirm, Finish
    <2>2. open' \subseteq open
      BY <1>2 DEF Confirm, SendOrClose
    <2>3. work[c].id \in RIds
      BY <1>0, <2>1 DEF StatusOK
    <2>4. \A k \in Conns \ {c} : work'[k] = work[k]
      BY <1>0, <2>1
    <2>5. StatusTypes'
      BY <1>0, <2>1, <2>2, <2>3 DEF StatusTypes
    <2>6. StatusOK(c)'
      BY <1>0, <2>1, <2>2, <2>3 DEF StatusOK, Goto, Gone
    <2>7. PICK l \in {"reading", "tellController"} : pc' = [pc EXCEPT ![c] = l]
      BY <2>1 DEF Goto
    <2> QED
      BY <2>1, <2>2, <2>4, <2>5, <2>6, <2>7, LocalStatus DEF Labels
  <1>3. CASE TellController(c)
    <2>1. /\ pc[c] = "tellController" /\ UNCHANGED <<notes, sweeper, shutdown, open, active>>
          /\ Tell(work[c].peer, work[c].id)
          /\ pc' = [pc EXCEPT ![c] = "reading"] /\ work' = [work EXCEPT ![c] = NoWork]
      BY <1>3 DEF TellController, Finish, Goto
    <2>2. told' \in [Conns -> SUBSET RIds]
      BY <1>0, <2>1, TellType DEF StatusOK, StatusTypes
    <2>3. \A k \in Conns \ {c} : work'[k] = work[k]
      BY <1>0, <2>1
    <2>4. StatusTypes'
      BY <1>0, <2>1, <2>2 DEF StatusTypes
    <2>5. StatusOK(c)'
      BY <1>0, <2>1 DEF StatusOK, Gone
    <2> QED
      BY <2>1, <2>3, <2>4, <2>5, LocalStatus DEF Labels
  <1> QED
    BY <1>1, <1>2, <1>3

(* Sending a notice keeps the status.                                      *)
LEMMA NoticeStatus ==
    ASSUME ServerInv, ServerInv', StatusInv, NEW c \in Conns, TellExpired(c) \/ TellClosed(c)
    PROVE  StatusInv'
  <1>0. pc \in [Conns -> Labels] /\ StatusOK(c) /\ StatusTypes
    BY DEF ServerInv, Types, StatusInv
  <1>1. PICK at \in {"tellExpired", "tellClosed"}, l \in {"reply", "leave"} :
           SendNotice(c, at, l) /\ (l = "leave" <=> at = "tellClosed")
    BY DEF TellExpired, TellClosed
  <1>2. PICK n \in notes[c] : /\ Tell(n.dev, n.id)
                              /\ notes' = [notes EXCEPT ![c] = @ \ {n}]
                              /\ pc' = [pc EXCEPT ![c] = IF notes[c] = {n} THEN l ELSE at]
    BY <1>1 DEF SendNotice, Goto
  <1>3. pc[c] = at /\ UNCHANGED <<work, open, active, sweeper, shutdown>>
    BY <1>1 DEF SendNotice
  <1>4. n.id \in RIds
    BY <1>0 DEF StatusTypes, Notices
  <1>5. told' \in [Conns -> SUBSET RIds]
    BY <1>0, <1>2, <1>4, TellType DEF StatusTypes
  <1>6. StatusTypes'
    BY <1>0, <1>2, <1>3, <1>5 DEF StatusTypes
  <1>7. StatusOK(c)'
    <2>1. CASE notes[c] = {n}
      BY <2>1, <1>0, <1>1, <1>2, <1>3 DEF StatusOK, Gone, StatusTypes
    <2>2. CASE notes[c] # {n}
      BY <2>2, <1>0, <1>1, <1>2, <1>3 DEF StatusOK, Gone, StatusTypes
    <2> QED
      BY <2>1, <2>2
  <1>8. \A k \in Conns \ {c} : notes'[k] = notes[k]
    BY <1>0, <1>2 DEF StatusTypes
  <1>9. PICK m \in Labels : pc' = [pc EXCEPT ![c] = m]
    BY <1>1, <1>2 DEF Labels
  <1> QED
    BY <1>1, <1>3, <1>6, <1>7, <1>8, <1>9, LocalStatus

(* Creating a rendezvous may owe notices of expired ones.                  *)
LEMMA CreateStatus ==
    ASSUME ServerInv, ServerInv', StatusInv, NEW c \in Conns, handleCreateRendezvous(c)
    PROVE  /\ StatusInv'
           /\ \E removed : /\ Reports(store, store', removed)
                           /\ notes' = [notes EXCEPT ![c] = notifyRendezvousClosed(removed, Nil)]
  <1>0. /\ pc \in [Conns -> Labels] /\ StatusOK(c) /\ StatusTypes /\ WorkOK(c)
        /\ work \in [Conns -> WorkItems] /\ device \in [Conns -> Devices \cup {Nil}]
        /\ StoreOK(store)
    BY DEF ServerInv, Types, StatusInv
  <1> DEFINE w == work[c]
             kind == IF w.text = Nil THEN "qr" ELSE "desktop"
             res == Create(store, w.id, kind, device[c], w.text, w.now + RendezvousTTL, w.now)
             owed == notifyRendezvousClosed(res.removed, Nil)
  <1>1. /\ pc[c] = "handle" /\ w.id \in RIds /\ device[c] \in Devices
        /\ w.text \in CodeTexts \cup {Nil} /\ w.now \in Int /\ w.now + RendezvousTTL \in Int
        /\ kind \in Kinds
    BY <1>0, StoreAssumption DEF handleCreateRendezvous, Handling, WorkOK, WorkItems, Kinds
  <1>2. /\ store' = res.store /\ UNCHANGED <<work, open, active, sweeper, shutdown, told>>
        /\ notes' = [notes EXCEPT ![c] = owed]
        /\ pc' = [pc EXCEPT ![c] = IF owed = {} THEN "reply" ELSE "tellExpired"]
    BY DEF handleCreateRendezvous, Goto
  <1> HIDE DEF kind
  <1>3. Reports(store, res.store, res.removed)
    BY <1>0, <1>1, CreateReports
  <1> HIDE DEF res
  <1>4. owed \in SUBSET Notices
    BY <1>3, NotifyType
  <1>5. Reports(store, store', res.removed)
    BY <1>2, <1>3
  <1>6. notes' = [notes EXCEPT ![c] = notifyRendezvousClosed(res.removed, Nil)]
    BY <1>2
  <1> HIDE DEF owed, w
  <1>7. StatusTypes'
    BY <1>0, <1>2, <1>4 DEF StatusTypes
  <1>8. StatusOK(c)'
    BY <1>0, <1>1, <1>2 DEF StatusOK, Gone, StatusTypes
  <1>9. PICK l \in Labels : pc' = [pc EXCEPT ![c] = l]
    BY <1>2 DEF Labels
  <1>10. \A k \in Conns \ {c} : notes'[k] = notes[k]
    BY <1>0, <1>2 DEF StatusTypes
  <1>11. StatusInv'
    BY <1>1, <1>2, <1>7, <1>8, <1>9, <1>10, LocalStatus
  <1> QED
    BY <1>5, <1>6, <1>11

(* Cleaning up keeps the status.                                           *)
LEMMA CleanupStatus ==
    ASSUME ServerInv, ServerInv', StatusInv, NEW c \in Conns,
           Purge(c) \/ Unroute(c) \/ Leave(c)
    PROVE  StatusInv'
  <1>0. /\ pc \in [Conns -> Labels] /\ StatusOK(c) /\ StatusTypes
        /\ work \in [Conns -> WorkItems] /\ device \in [Conns -> Devices \cup {Nil}]
        /\ StoreOK(store)
    BY DEF ServerInv, Types, StatusInv
  <1>1. CASE Purge(c)
    <2>1. /\ pc[c] = "purge" /\ work' = [work EXCEPT ![c] = NoWork]
          /\ UNCHANGED <<open, active, sweeper, shutdown, told>>
          /\ \/ Goto(c, "leave") /\ UNCHANGED notes
             \/ /\ device[c] # Nil /\ Goto(c, "unroute")
                /\ notes' = [notes EXCEPT ![c] =
                      notifyRendezvousClosed(RemoveForDevice(store, device[c]).removed, device[c])]
      BY <1>1 DEF Purge
    <2>2. device[c] # Nil =>
             notifyRendezvousClosed(RemoveForDevice(store, device[c]).removed, device[c])
                \in SUBSET Notices
      BY <1>0, RemoveForDeviceReports, NotifyType
    <2>3. notes' \in [Conns -> SUBSET Notices] /\ \A k \in Conns \ {c} : notes'[k] = notes[k]
      BY <1>0, <2>1, <2>2 DEF StatusTypes
    <2>4. StatusTypes'
      BY <1>0, <2>1, <2>3 DEF StatusTypes
    <2>5. PICK l \in {"leave", "unroute"} : /\ pc' = [pc EXCEPT ![c] = l]
                                            /\ l = "leave" => UNCHANGED notes
      BY <2>1 DEF Goto
    <2>6. StatusOK(c)'
      BY <1>0, <2>1, <2>5 DEF StatusOK, Gone
    <2>7. \A k \in Conns \ {c} : work'[k] = work[k]
      BY <1>0, <2>1
    <2> QED
      BY <2>1, <2>3, <2>4, <2>5, <2>6, <2>7, LocalStatus DEF Labels
  <1>2. CASE Unroute(c)
    <2>1. /\ pc[c] = "unroute"
          /\ UNCHANGED <<work, notes, open, active, sweeper, shutdown, told>>
          /\ pc' = [pc EXCEPT ![c] = IF notes[c] = {} THEN "leave" ELSE "tellClosed"]
      BY <1>2 DEF Unroute, Goto
    <2>2. StatusTypes'
      BY <1>0, <2>1 DEF StatusTypes
    <2>3. StatusOK(c)'
      BY <1>0, <2>1 DEF StatusOK, Gone
    <2>4. PICK l \in Labels : pc' = [pc EXCEPT ![c] = l]
      BY <2>1 DEF Labels
    <2> QED
      BY <2>1, <2>2, <2>3, <2>4, LocalStatus
  <1>3. CASE Leave(c)
    <2>1. /\ pc[c] = "leave" /\ pc' = [pc EXCEPT ![c] = "done"]
          /\ UNCHANGED <<work, notes, sweeper, shutdown>>
          /\ active' = active \ {c} /\ open' = open \ {c}
          /\ told' = [told EXCEPT ![c] = {}]
      BY <1>3 DEF Leave, Goto
    <2>2. StatusTypes'
      BY <1>0, <2>1 DEF StatusTypes
    <2>3. StatusOK(c)'
      BY <1>0, <2>1 DEF StatusOK, Gone
    <2> QED
      BY <2>1, <2>2, <2>3, LocalStatus DEF Labels
  <1> QED
    BY <1>1, <1>2, <1>3

(* A step that moves no goroutine of a connection and opens no transport.  *)
LEMMA BackgroundStatus ==
    ASSUME ServerInv, StatusInv, StatusTypes',
           UNCHANGED <<pc, work, notes, active>>, open' \subseteq open,
           sweeper'.notes # {} => sweeper'.stage = "notify",
           shutdown'.stage = "down" => Drained'
    PROVE  StatusInv'
  <1>1. \A k \in Conns : StatusOK(k)'
    BY DEF StatusInv, StatusOK
  <1> QED
    BY <1>1 DEF StatusInv

(* The sweeper keeps the status: its notices are sent before it goes on.   *)
LEMMA SweeperStatus ==
    ASSUME ServerInv, ServerInv', StatusInv, SweepStep
    PROVE  StatusInv'
  <1>0. StatusTypes /\ StoreOK(store) /\ clock \in Int
    BY DEF StatusInv, ServerInv, Types
  <1>1. UNCHANGED <<pc, work, notes, active, shutdown>>
    BY DEF SweepStep, SweepStore, SweepNotify, SweepPresence, SweepClose, SweepExit, sweepVars
  <1>2. sweeper.stage # "exited"
    BY DEF SweepStep, SweepStore, SweepNotify, SweepPresence, SweepClose, SweepExit
  <1>3. shutdown.stage # "down"
    BY <1>2 DEF StatusInv, Drained
  <1>4. CASE SweepStore
    <2>1. /\ sweeper' = [sweeper EXCEPT !.stage = "notify", !.now = clock,
                            !.notes = notifyRendezvousClosed(Sweep(store, clock).removed, Nil)]
          /\ UNCHANGED <<open, told>>
      BY <1>4 DEF SweepStore
    <2>2. notifyRendezvousClosed(Sweep(store, clock).removed, Nil) \in SUBSET Notices
      BY <1>0, SweepReports, NotifyType
    <2> HIDE DEF Sweep, notifyRendezvousClosed
    <2>3. StatusTypes' /\ sweeper'.stage = "notify"
      BY <1>0, <1>1, <2>1, <2>2 DEF StatusTypes
    <2> QED
      BY <1>1, <1>3, <2>1, <2>3, BackgroundStatus
  <1>5. CASE SweepNotify
    <2>1. PICK n \in sweeper.notes : /\ Tell(n.dev, n.id)
                                     /\ sweeper' = [sweeper EXCEPT !.notes = @ \ {n}]
      BY <1>5 DEF SweepNotify
    <2>2. UNCHANGED open /\ sweeper.stage = "notify"
      BY <1>5 DEF SweepNotify
    <2>3. n.id \in RIds
      BY <1>0 DEF StatusTypes, Notices
    <2>4. told' \in [Conns -> SUBSET RIds]
      BY <1>0, <2>1, <2>3, TellType DEF StatusTypes
    <2>5. StatusTypes' /\ sweeper'.stage = "notify"
      BY <1>0, <1>1, <2>1, <2>2, <2>4 DEF StatusTypes
    <2> QED
      BY <1>1, <1>3, <2>2, <2>5, BackgroundStatus
  <1>6. CASE SweepPresence
    <2>1. /\ sweeper' = [sweeper EXCEPT !.stage = "close", !.now = 0,
                            !.stale = ExpiredBefore(sweeper.now - PresenceTimeout)]
      BY <1>6 DEF SweepPresence
    <2>u. UNCHANGED <<open, told>> /\ sweeper.notes = {}
      BY <1>6 DEF SweepPresence
    <2>2. ExpiredBefore(sweeper.now - PresenceTimeout) \in SUBSET Conns
      BY DEF ExpiredBefore, ServerInv, Types
    <2>w. PICK stale \in SUBSET Conns : stale = ExpiredBefore(sweeper.now - PresenceTimeout)
      BY <2>2
    <2>z. PICK zero \in Int : zero = 0
      OBVIOUS
    <2>n. sweeper' = [sweeper EXCEPT !.stage = "close", !.now = zero, !.stale = stale]
      BY <2>1, <2>w, <2>z
    <2>m. /\ sweeper' \in [stage : {"idle", "notify", "close", "exited"}, now : Int,
                           notes : SUBSET Notices, stale : SUBSET Conns]
          /\ sweeper'.notes = {}
      BY <1>0, <2>u, <2>n DEF StatusTypes
    <2>3. StatusTypes' /\ sweeper'.notes = {}
      BY <1>0, <1>1, <2>u, <2>m DEF StatusTypes
    <2> QED
      BY <1>1, <1>3, <2>u, <2>3, BackgroundStatus
  <1>7. CASE SweepClose \/ SweepExit
    <2>1. open' \subseteq open /\ UNCHANGED told /\ sweeper.notes = {}
      BY <1>7 DEF SweepClose, SweepExit, StatusInv
    <2>2. sweeper' \in [stage : {"idle", "notify", "close", "exited"}, now : Int,
                        notes : SUBSET Notices, stale : SUBSET Conns]
          /\ sweeper'.notes = {}
      BY <1>0, <1>7, <2>1 DEF SweepClose, SweepExit, StatusTypes
    <2>3. StatusTypes'
      BY <1>0, <1>1, <2>1, <2>2 DEF StatusTypes
    <2> QED
      BY <1>1, <1>3, <2>1, <2>2, <2>3, BackgroundStatus
  <1> QED
    BY <1>4, <1>5, <1>6, <1>7 DEF SweepStep

(* So do the timers, Shutdown and the clock.                               *)
LEMMA ShutdownStatus ==
    ASSUME ServerInv, ServerInv', StatusInv,
           \/ \E c \in Conns : RegistrationTimeout(c)
           \/ Shutdown \/ ShutdownStep \/ Tick \/ UNCHANGED vars
    PROVE  StatusInv' /\ UNCHANGED <<notes, sweeper, told, pc, work>> /\ open' \subseteq open
  <1>0. StatusTypes
    BY DEF StatusInv
  <1>1. UNCHANGED <<pc, work, notes, active, sweeper, told>> /\ open' \subseteq open
    BY DEF RegistrationTimeout, Shutdown, ShutdownStep, ShutdownSnapshot, ShutdownClose,
       ShutdownDone, restVars, Tick, vars
  <1>2. /\ shutdown' \in [stage : {"up", "cancelled", "closing", "waiting", "down"},
                          left : SUBSET Conns]
        /\ shutdown'.stage = "down" => Drained \/ shutdown.stage = "down"
    BY <1>0 DEF RegistrationTimeout, Shutdown, ShutdownStep, ShutdownSnapshot, ShutdownClose,
       ShutdownDone, restVars, Tick, vars, StatusTypes
  <1>3. shutdown'.stage = "down" => Drained'
    BY <1>1, <1>2 DEF StatusInv, Drained
  <1>4. StatusTypes'
    BY <1>0, <1>1, <1>2 DEF StatusTypes
  <1> QED
    BY <1>1, <1>3, <1>4, BackgroundStatus DEF StatusInv

(* Every step of every goroutine keeps the status.                         *)
LEMMA StatusStep == ServerInv /\ ServerInv' /\ StatusInv /\ [Next]_vars => StatusInv'
  <1> SUFFICES ASSUME ServerInv, ServerInv', StatusInv, [Next]_vars PROVE StatusInv'
    OBVIOUS
  <1>1. ASSUME NEW c \in Conns, ConnStep(c) \/ ClientStep(c) PROVE StatusInv'
    <2>1. CASE QuietConn(c)
      BY <2>1, QuietStatus
    <2>2. CASE handleCompleteRendezvous(c) \/ Confirm(c) \/ TellController(c)
      BY <2>2, CompletionStatus
    <2>3. CASE TellExpired(c) \/ TellClosed(c)
      BY <2>3, NoticeStatus
    <2>4. CASE handleCreateRendezvous(c)
      BY <2>4, CreateStatus
    <2>5. CASE Purge(c) \/ Unroute(c) \/ Leave(c)
      BY <2>5, CleanupStatus
    <2> QED
      BY <1>1, <2>1, <2>2, <2>3, <2>4, <2>5 DEF ConnStep, ClientStep, QuietConn
  <1>2. CASE SweepStep
    BY <1>2, SweeperStatus
  <1>3. CASE \/ \E c \in Conns : RegistrationTimeout(c)
             \/ Shutdown \/ ShutdownStep \/ Tick \/ UNCHANGED vars
    BY <1>3, ShutdownStatus
  <1> QED
    BY <1>1, <1>2, <1>3 DEF Next, Terminated

(* When Shutdown returns, no connection, route or rendezvous is left: a    *)
(* rendezvous would have a Host whose connection has not cleaned up.       *)
THEOREM ShutdownLeavesNothing == Spec => []DownMeansEmpty
  <1>1. ServerInv /\ StatusInv => DownMeansEmpty
    <2> SUFFICES ASSUME ServerInv, StatusInv, shutdown.stage = "down"
                 PROVE  /\ active = {} /\ open = {}
                        /\ \A d \in Devices : routes[d] = Nil
                        /\ Stored(store) = {}
      BY DEF DownMeansEmpty
    <2>1. \A c \in Conns : pc[c] \in {"new", "done"}
      BY DEF StatusInv, Drained
    <2>2. active = {} /\ open = {}
      BY <2>1 DEF StatusInv, StatusTypes, StatusOK, Gone
    <2>3. \A d \in Devices : routes[d] = Nil
      <3> SUFFICES ASSUME NEW d \in Devices, routes[d] # Nil PROVE FALSE
        OBVIOUS
      <3>1. routes[d].conn \in Conns
        BY DEF ServerInv, Types
      <3>2. Routed(routes[d].conn)
        BY <3>1 DEF ServerInv, OneRoutePerDevice
      <3> QED
        BY <3>1, <3>2, <2>1 DEF Routed, ServerInv, WorkOK
    <2>4. Stored(store) = {}
      <3> SUFFICES ASSUME NEW r \in Stored(store) PROVE FALSE
        OBVIOUS
      <3>1. store.byID[r] \in Rendezvous
        BY StoredIsRendezvous DEF ServerInv, StoreOK
      <3>2. store.byID[r].host \in Devices /\ store.byID[r].host \in Members(store.byID[r])
        BY <3>1, StoreAssumption DEF Rendezvous, Members
      <3> QED
        BY <3>2, <2>3 DEF ServerInv, MembersOnline
    <2> QED
      BY <2>2, <2>3, <2>4
  <1> QED
    BY <1>1, ServerInit, ServerStep, StatusInit, StatusStep, PTL DEF Spec

----------------------------------------------------------------------------
(* Reports of closed rendezvous.  An owner's device is a member as long as *)
(* the rendezvous is stored, so whoever removes it finds the owner.        *)

OwnersOK ==
    \A r \in RIds : \A c \in owner[r] :
       /\ device[c] # Nil
       /\ r \in Stored(store) => device[c] \in Members(store.byID[r])

ReportInv == OwnersOK /\ ClosureReported

(* The route of an open registered connection is its own.                  *)
LEMMA OpenHolds ==
    ASSUME ServerInv, StatusInv, NEW c \in Conns, c \in open, device[c] # Nil
    PROVE  device[c] \in Devices /\ routes[device[c]] # Nil /\ routes[device[c]].conn = c
  <1>1. device[c] \in Devices
    BY DEF ServerInv, Types
  <1>2. Routed(c)
    BY DEF StatusInv, StatusOK, Gone, Routed
  <1> QED
    BY <1>1, <1>2 DEF ServerInv, OneRoutePerDevice, Holds

(* So a Closed frame for its device reaches it.                            *)
LEMMA TellReaches ==
    ASSUME ServerInv, StatusInv, NEW d, NEW id, Tell(d, id), NEW c \in Conns
    PROVE  /\ told[c] \subseteq told'[c]
           /\ c \in open /\ device[c] # Nil /\ device[c] = d => id \in told'[c]
  <1>1. told \in [Conns -> SUBSET RIds]
    BY DEF StatusInv, StatusTypes
  <1>2. told[c] \subseteq told'[c]
    BY <1>1 DEF Tell
  <1>3. ASSUME c \in open, device[c] # Nil, device[c] = d
        PROVE  id \in told'[c]
    <2>1. routes[d] # Nil /\ routes[d].conn = c
      BY <1>3, OpenHolds
    <2> QED
      BY <1>1, <2>1 DEF Tell
  <1> QED
    BY <1>2, <1>3

(* A report stays in flight over a step that takes none away.              *)
LEMMA ReportStays ==
    ASSUME NEW c \in Conns, NEW r \in RIds, ToldOrPending(c, r),
           device'[c] = device[c],
           c \in open' => c \in open /\ told[c] \subseteq told'[c],
           [dev |-> device[c], id |-> r] \in sweeper.notes
              => [dev |-> device[c], id |-> r] \in sweeper'.notes,
           \A k \in Conns : [dev |-> device[c], id |-> r] \in notes[k]
              => [dev |-> device[c], id |-> r] \in notes'[k],
           \A k \in Conns : pc[k] \in {"confirm", "tellController"}
              => pc'[k] = pc[k] /\ work'[k] = work[k]
    PROVE  ToldOrPending(c, r)'
  <1>1. CASE r \in told[c] \/ c \notin open
    BY <1>1 DEF ToldOrPending
  <1>2. CASE [dev |-> device[c], id |-> r] \in sweeper.notes
    BY <1>2 DEF ToldOrPending
  <1>3. CASE \E k \in Conns : [dev |-> device[c], id |-> r] \in notes[k]
    BY <1>3 DEF ToldOrPending
  <1>4. CASE \E k \in Conns :
                \/ pc[k] = "confirm" /\ work[k].id = r /\ (k = c \/ work[k].peer = device[c])
                \/ pc[k] = "tellController" /\ work[k].id = r /\ work[k].peer = device[c]
    <2>1. PICK k \in Conns :
                \/ pc[k] = "confirm" /\ work[k].id = r /\ (k = c \/ work[k].peer = device[c])
                \/ pc[k] = "tellController" /\ work[k].id = r /\ work[k].peer = device[c]
      BY <1>4
    <2>2. pc'[k] = pc[k] /\ work'[k] = work[k]
      BY <2>1
    <2> QED
      BY <2>1, <2>2 DEF ToldOrPending
  <1> QED
    BY <1>1, <1>2, <1>3, <1>4 DEF ToldOrPending

(* Every report in flight to an owner stays in flight or arrives.          *)
Reported == \A r \in RIds : \A c \in owner[r] : ToldOrPending(c, r) => ToldOrPending(c, r)'

(* A step that loses no report and reports what it removes keeps the       *)
(* promise.                                                                *)
LEMMA ReportFrame ==
    ASSUME ServerInv, ReportInv, Reported,
           \A r \in RIds : store'.byID[r] = Nil =>
              /\ owner'[r] \subseteq owner[r]
              /\ store.byID[r] # Nil => \A c \in owner'[r] : ToldOrPending(c, r)'
    PROVE  ClosureReported'
  BY DEF Reported, ReportInv, ClosureReported

(* Quiet steps lose no report.                                             *)
LEMMA QuietReported ==
    ASSUME ServerInv, ServerInv', StatusInv, ReportInv, NEW c \in Conns, QuietConn(c),
           \A k \in Conns : device[k] # Nil => device'[k] = device[k]
    PROVE  Reported
  <1>0. pc \in [Conns -> Labels] /\ WorkOK(c) /\ owner \in [RIds -> SUBSET Conns]
    BY DEF ServerInv, Types
  <1>1. /\ UNCHANGED <<notes, told, sweeper, shutdown>>
        /\ \A k \in Conns \ {c} : work'[k] = work[k]
        /\ pc[c] \notin {"confirm", "tellController"}
        /\ \E l \in Labels : pc' = [pc EXCEPT ![c] = l]
        /\ IF pc[c] = "accepting" THEN open' \subseteq open \cup {c}
           ELSE open' \subseteq open
    BY QuietEffect
  <1> SUFFICES ASSUME NEW r \in RIds, NEW o \in owner[r], ToldOrPending(o, r)
               PROVE  ToldOrPending(o, r)'
    BY DEF Reported
  <1>2. o \in Conns /\ device[o] # Nil
    BY <1>0 DEF ReportInv, OwnersOK
  <1>3. o \in open' => o \in open
    BY <1>0, <1>1, <1>2 DEF WorkOK
  <1>4. \A k \in Conns : pc[k] \in {"confirm", "tellController"}
              => pc'[k] = pc[k] /\ work'[k] = work[k]
    BY <1>0, <1>1
  <1> QED
    BY <1>1, <1>2, <1>3, <1>4, ReportStays

(* The quiet steps keep the promise.                                       *)
LEMMA QuietReport ==
    ASSUME ServerInv, ServerInv', StatusInv, ReportInv, NEW c \in Conns, QuietConn(c)
    PROVE  ReportInv'
  <1>0. /\ work \in [Conns -> WorkItems] /\ pc \in [Conns -> Labels] /\ WorkOK(c)
        /\ device \in [Conns -> Devices \cup {Nil}] /\ owner \in [RIds -> SUBSET Conns]
        /\ StoreOK(store)
    BY DEF ServerInv, Types
  <1>1. CASE handleRegistration(c)
    <2>1. UNCHANGED <<store, owner>> /\ device[c] = Nil
      BY <1>0, <1>1 DEF handleRegistration, Handling, WorkOK
    <2>2. \A k \in Conns : device[k] # Nil => device'[k] = device[k]
      BY <1>0, <1>1, <2>1 DEF handleRegistration
    <2>3. Reported
      BY <2>2, QuietReported
    <2>4. OwnersOK'
      BY <1>0, <2>1, <2>2 DEF ReportInv, OwnersOK
    <2> QED
      BY <2>1, <2>3, <2>4, ReportFrame DEF ReportInv
  <1>2. CASE handleJoinRendezvous(c)
    <2> DEFINE w == work[c]
               id == IF w.id # Nil THEN w.id ELSE store.codeIndex[pairingCodeHash(w.text)]
               res == IF w.id # Nil THEN JoinByID(store, w.id, device[c], w.now)
                                    ELSE JoinByCode(store, w.text, device[c], w.now)
    <2>1. /\ pc[c] = "handle" /\ device[c] \in Devices /\ w.id \in RIds \cup {Nil}
          /\ w.id = Nil => w.text \in CodeTexts
      BY <1>0, <1>2 DEF handleJoinRendezvous, Handling, WorkOK, WorkItems
    <2>2. id \in RIds \cup {Nil}
      BY <1>0, <2>1 DEF StoreOK, StoreType, pairingCodeHash, CodeTexts
    <2>3. IF id = Nil THEN res.store = store /\ res.err = "not_found"
          ELSE res = joinLocked(store, id, device[c], w.now)
      BY StoreAssumption DEF JoinByID, JoinByCode, Result
    <2>4. /\ store' = res.store /\ UNCHANGED device
          /\ owner' = IF res.err = "none" THEN [owner EXCEPT ![id] = @ \cup {c}] ELSE owner
      BY <1>2 DEF handleJoinRendezvous
    <2> HIDE DEF w, id, res
    <2>5. /\ \A r \in Stored(store) : /\ r \in Stored(store')
                                      /\ Members(store.byID[r]) \subseteq Members(store'.byID[r])
          /\ res.err = "none" => id \in Stored(store) /\ device[c] \in Members(store'.byID[id])
      <3>1. CASE id = Nil
        BY <3>1, <2>3, <2>4
      <3>2. CASE id # Nil
        BY <3>2, <1>0, <2>1, <2>2, <2>3, <2>4, JoinKeeps
      <3> QED
        BY <3>1, <3>2
    <2>6. \A r \in Stored(store') : r \in Stored(store)
      <3>1. CASE id = Nil
        BY <3>1, <2>3, <2>4
      <3>2. CASE id # Nil
        <4>1. id \in RIds /\ res = joinLocked(store, id, device[c], w.now) /\ StoreOK(store)
          BY <3>2, <1>0, <2>2, <2>3
        <4>2. Enrols(store, res, id, device[c])
          BY <2>1, <4>1, JoinEffect
        <4> QED
          BY <2>4, <4>2 DEF Enrols
      <3> QED
        BY <3>1, <3>2
    <2>7. Reported
      BY <2>4, QuietReported
    <2>8. OwnersOK'
      <3> SUFFICES ASSUME NEW r \in RIds, NEW o \in owner'[r]
                   PROVE  /\ device[o] # Nil
                          /\ r \in Stored(store') => device[o] \in Members(store'.byID[r])
        BY <2>4 DEF OwnersOK
      <3>1. CASE o \in owner[r]
        BY <3>1, <2>5, <2>6 DEF ReportInv, OwnersOK
      <3>2. CASE o \notin owner[r]
        <4>1. res.err = "none" /\ r = id /\ o = c
          BY <3>2, <1>0, <2>4
        <4> QED
          BY <4>1, <2>1, <2>5, StoreAssumption
      <3> QED
        BY <3>1, <3>2
    <2>9. \A r \in RIds : store'.byID[r] = Nil =>
              /\ owner'[r] \subseteq owner[r]
              /\ store.byID[r] = Nil
      BY <1>0, <2>4, <2>5 DEF Stored
    <2> QED
      BY <2>7, <2>8, <2>9, ReportFrame DEF ReportInv
  <1>3. CASE UndoJoin(c)
    <2> DEFINE res == Complete(store, work[c].id, work[c].peer, work[c].now)
    <2>1. /\ store' = res.store /\ UNCHANGED device
          /\ owner' = IF res.err = "none" THEN [owner EXCEPT ![work[c].id] = {}] ELSE owner
          /\ pc[c] = "undoJoin"
      BY <1>3 DEF UndoJoin
    <2>2. work[c].id \in RIds
      BY <1>0, <2>1 DEF WorkOK
    <2>3. /\ Shrinks(store, res.store)
          /\ \A r \in Stored(store) : r \notin Stored(res.store) =>
                r = work[c].id /\ res.err = "none"
      BY <1>0, <2>2, CompleteShrinks, CompleteEffect
    <2> HIDE DEF res
    <2>4. \A r \in RIds : owner'[r] \subseteq owner[r]
      BY <1>0, <2>1, <2>2
    <2>5. OwnersOK'
      BY <2>1, <2>3, <2>4 DEF ReportInv, OwnersOK, Shrinks
    <2>6. \A r \in RIds : store'.byID[r] = Nil /\ store.byID[r] # Nil => owner'[r] = {}
      BY <1>0, <2>1, <2>2, <2>3 DEF Stored
    <2>7. Reported
      BY <2>1, QuietReported
    <2> QED
      BY <2>4, <2>5, <2>6, <2>7, ReportFrame DEF ReportInv
  <1>4. CASE ~(handleRegistration(c) \/ handleJoinRendezvous(c) \/ UndoJoin(c))
    <2>1. UNCHANGED <<store, owner, device>>
      BY <1>4 DEF QuietConn, BeginConnect, RejectConnect, Accept, PeerGone, ReadFails,
         StopReading, Reply, HandleQuery, RateLimited, handleHeartbeat, TellHost,
         handleRelayPairing, handleRelaySession, Relay, Receive
    <2>2. Reported
      BY <2>1, QuietReported
    <2>3. OwnersOK'
      BY <2>1 DEF ReportInv, OwnersOK
    <2> QED
      BY <2>1, <2>2, <2>3, ReportFrame DEF ReportInv
  <1> QED
    BY <1>1, <1>2, <1>3, <1>4

(* Two open connections never share a device: of two owners on one device, *)
(* the one that does not hold the route has lost its connection.           *)
LEMMA SameDevice ==
    ASSUME ServerInv, StatusInv, NEW c \in Conns, NEW o \in Conns, o # c,
           Routed(c), device[o] = device[c]
    PROVE  o \notin open
  BY OpenHolds DEF ServerInv, OneRoutePerDevice, Holds, Routed

(* Completing a rendezvous puts both reports on their way.                 *)
LEMMA CompleteReport ==
    ASSUME ServerInv, ServerInv', StatusInv, ReportInv, NEW c \in Conns,
           handleCompleteRendezvous(c)
    PROVE  ReportInv'
  <1>0. /\ work \in [Conns -> WorkItems] /\ pc \in [Conns -> Labels] /\ WorkOK(c)
        /\ device \in [Conns -> Devices \cup {Nil}] /\ owner \in [RIds -> SUBSET Conns]
        /\ StoreOK(store)
    BY DEF ServerInv, Types
  <1> DEFINE res == Complete(store, work[c].id, device[c], work[c].now)
  <1>1. /\ store' = res.store
        /\ UNCHANGED <<device, owner, open, told, notes, sweeper>>
        /\ pc[c] = "handle" /\ work[c].op = "complete"
        /\ \/ res.err # "none" /\ Goto(c, "reply") /\ UNCHANGED work
           \/ /\ res.err = "none" /\ Goto(c, "confirm")
              /\ work' = [work EXCEPT ![c].peer = res.rdv.controller]
    BY DEF handleCompleteRendezvous, Handling
  <1>2. work[c].id \in RIds /\ device[c] # Nil
    BY <1>0, <1>1 DEF WorkOK
  <1>3. Shrinks(store, res.store)
    BY <1>0, <1>2, CompleteShrinks
  <1>4. /\ \A r \in Stored(store) : r \notin Stored(res.store) =>
              r = work[c].id /\ res.err = "none"
        /\ res.err = "none" => /\ store.byID[work[c].id].host = device[c]
                               /\ res.rdv = store.byID[work[c].id]
    BY <1>0, <1>2, CompleteEffect
  <1> HIDE DEF res
  <1>5. \A k \in Conns \ {c} : pc'[k] = pc[k] /\ work'[k] = work[k]
    BY <1>0, <1>1 DEF Goto
  <1>6. Reported
    <2> SUFFICES ASSUME NEW r \in RIds, NEW o \in owner[r], ToldOrPending(o, r)
                 PROVE  ToldOrPending(o, r)'
      BY DEF Reported
    <2>1. \A k \in Conns : pc[k] \in {"confirm", "tellController"}
              => pc'[k] = pc[k] /\ work'[k] = work[k]
      BY <1>1, <1>5
    <2> QED
      BY <1>0, <1>1, <2>1, ReportStays
  <1>7. OwnersOK'
    BY <1>1, <1>3 DEF ReportInv, OwnersOK, Shrinks
  <1>8. ASSUME NEW r \in RIds, store'.byID[r] = Nil, store.byID[r] # Nil, NEW o \in owner[r]
        PROVE  ToldOrPending(o, r)'
    <2>1. r = work[c].id /\ res.err = "none" /\ o \in Conns
      BY <1>8, <1>0, <1>1, <1>4 DEF Stored
    <2>2. device[o] \in {device[c], res.rdv.controller}
      BY <1>8, <1>4, <2>1 DEF ReportInv, OwnersOK, Stored, Members
    <2>3. pc'[c] = "confirm" /\ work'[c].id = r /\ work'[c].peer = res.rdv.controller
      BY <1>0, <1>1, <2>1 DEF Goto, WorkItems
    <2>4. CASE o = c \/ device[o] = res.rdv.controller
      BY <1>1, <2>1, <2>3, <2>4 DEF ToldOrPending
    <2>5. CASE o # c /\ device[o] = device[c]
      <3>1. o \notin open
        BY <1>1, <1>2, <2>1, <2>5, SameDevice DEF Routed
      <3> QED
        BY <1>1, <3>1 DEF ToldOrPending
    <2> QED
      BY <2>2, <2>4, <2>5
  <1> QED
    BY <1>1, <1>6, <1>7, <1>8, ReportFrame DEF ReportInv

(* The answer to the Host, then the frame to the Controller.               *)
LEMMA AnswerReport ==
    ASSUME ServerInv, ServerInv', StatusInv, ReportInv, NEW c \in Conns,
           Confirm(c) \/ TellController(c)
    PROVE  ReportInv'
  <1>0. /\ work \in [Conns -> WorkItems] /\ pc \in [Conns -> Labels]
        /\ owner \in [RIds -> SUBSET Conns] /\ told \in [Conns -> SUBSET RIds]
    BY DEF ServerInv, Types, StatusInv, StatusTypes
  <1>1. UNCHANGED <<store, device, owner, notes, sweeper>>
    BY DEF Confirm, TellController
  <1>2. OwnersOK'
    BY <1>1 DEF ReportInv, OwnersOK
  <1>3. ASSUME Confirm(c), NEW r \in RIds, NEW o \in owner[r], ToldOrPending(o, r)
        PROVE  ToldOrPending(o, r)'
    <2>1. /\ pc[c] = "confirm" /\ told' = [told EXCEPT ![c] = @ \cup {work[c].id}]
          /\ \/ Goto(c, "reading") /\ work' = [work EXCEPT ![c] = NoWork] /\ work[c].peer = Nil
             \/ Goto(c, "tellController") /\ UNCHANGED work
      BY <1>3 DEF Confirm, Finish
    <2>2. open' \subseteq open
      BY <1>3 DEF Confirm, SendOrClose
    <2>3. \A k \in Conns \ {c} : pc'[k] = pc[k] /\ work'[k] = work[k]
      BY <1>0, <2>1 DEF Goto
    <2>4. o \in Conns /\ device[o] # Nil
      BY <1>0 DEF ReportInv, OwnersOK
    <2>5. told[o] \subseteq told'[o] /\ work[c].id \in told'[c]
      BY <1>0, <2>1, <2>4
    <2>6. CASE work[c].id = r /\ o = c
      BY <2>5, <2>6 DEF ToldOrPending
    <2>7. CASE work[c].id = r /\ work[c].peer = device[o]
      <3>1. pc'[c] = "tellController" /\ work'[c] = work[c]
        BY <1>0, <2>1, <2>4, <2>7 DEF Goto
      <3> QED
        BY <1>1, <2>7, <3>1 DEF ToldOrPending
    <2>8. CASE ~(work[c].id = r /\ (o = c \/ work[c].peer = device[o]))
      <3>1. CASE r \in told[o] \/ o \notin open
        BY <2>2, <2>5, <3>1 DEF ToldOrPending
      <3>2. CASE [dev |-> device[o], id |-> r] \in sweeper.notes
        BY <1>1, <3>2 DEF ToldOrPending
      <3>3. CASE \E k \in Conns \ {c} :
                \/ [dev |-> device[o], id |-> r] \in notes[k]
                \/ pc[k] = "confirm" /\ work[k].id = r /\ (k = o \/ work[k].peer = device[o])
                \/ pc[k] = "tellController" /\ work[k].id = r /\ work[k].peer = device[o]
        BY <1>1, <2>3, <3>3 DEF ToldOrPending
      <3>4. CASE [dev |-> device[o], id |-> r] \in notes[c]
        BY <1>1, <3>4 DEF ToldOrPending
      <3> QED
        BY <1>3, <2>1, <2>8, <3>1, <3>2, <3>3, <3>4 DEF ToldOrPending
    <2> QED
      BY <2>6, <2>7, <2>8
  <1>4. ASSUME TellController(c), NEW r \in RIds, NEW o \in owner[r], ToldOrPending(o, r)
        PROVE  ToldOrPending(o, r)'
    <2>1. /\ pc[c] = "tellController" /\ Tell(work[c].peer, work[c].id) /\ UNCHANGED open
          /\ pc' = [pc EXCEPT ![c] = "reading"] /\ work' = [work EXCEPT ![c] = NoWork]
      BY <1>4 DEF TellController, Finish, Goto
    <2>2. \A k \in Conns \ {c} : pc'[k] = pc[k] /\ work'[k] = work[k]
      BY <1>0, <2>1
    <2>3. o \in Conns /\ device[o] # Nil
      BY <1>0 DEF ReportInv, OwnersOK
    <2>4. /\ told[o] \subseteq told'[o]
          /\ o \in open /\ device[o] = work[c].peer => work[c].id \in told'[o]
      BY <2>1, <2>3, TellReaches
    <2>5. CASE work[c].id = r /\ work[c].peer = device[o]
      BY <2>1, <2>4, <2>5 DEF ToldOrPending
    <2>6. CASE ~(work[c].id = r /\ work[c].peer = device[o])
      <3>1. CASE r \in told[o] \/ o \notin open
        BY <2>1, <2>4, <3>1 DEF ToldOrPending
      <3>2. CASE [dev |-> device[o], id |-> r] \in sweeper.notes
        BY <1>1, <3>2 DEF ToldOrPending
      <3>3. CASE \E k \in Conns \ {c} :
                \/ [dev |-> device[o], id |-> r] \in notes[k]
                \/ pc[k] = "confirm" /\ work[k].id = r /\ (k = o \/ work[k].peer = device[o])
                \/ pc[k] = "tellController" /\ work[k].id = r /\ work[k].peer = device[o]
        BY <1>1, <2>2, <3>3 DEF ToldOrPending
      <3>4. CASE [dev |-> device[o], id |-> r] \in notes[c]
        BY <1>1, <3>4 DEF ToldOrPending
      <3> QED
        BY <1>4, <2>1, <2>6, <3>1, <3>2, <3>3, <3>4 DEF ToldOrPending
    <2> QED
      BY <2>5, <2>6
  <1>5. Reported
    BY <1>3, <1>4 DEF Reported
  <1> QED
    BY <1>1, <1>2, <1>5, ReportFrame DEF ReportInv

(* A notice that is sent arrives at the open connection of its device.     *)
LEMMA NoticeReport ==
    ASSUME ServerInv, ServerInv', StatusInv, ReportInv,
           \/ \E c \in Conns : TellExpired(c) \/ TellClosed(c)
           \/ SweepNotify
    PROVE  ReportInv'
  <1>0. /\ pc \in [Conns -> Labels] /\ owner \in [RIds -> SUBSET Conns]
        /\ notes \in [Conns -> SUBSET Notices]
        /\ sweeper \in [stage : {"idle", "notify", "close", "exited"}, now : Int,
                        notes : SUBSET Notices, stale : SUBSET Conns]
    BY DEF ServerInv, Types, StatusInv, StatusTypes
  <1>1. UNCHANGED <<store, device, owner, work, open>>
    BY DEF TellExpired, TellClosed, SendNotice, SweepNotify, sweepVars
  <1>2. PICK n : /\ Tell(n.dev, n.id)
                 /\ \A m : m \in sweeper.notes /\ m # n => m \in sweeper'.notes
                 /\ \A k \in Conns : \A m : m \in notes[k] /\ m # n => m \in notes'[k]
                 /\ \A k \in Conns : pc[k] \in {"confirm", "tellController"} => pc'[k] = pc[k]
    <2>1. CASE SweepNotify
      BY <1>0, <2>1 DEF SweepNotify, sweepVars
    <2>2. CASE \E c \in Conns : TellExpired(c) \/ TellClosed(c)
      <3>1. PICK c \in Conns, at \in {"tellExpired", "tellClosed"}, l \in {"reply", "leave"} :
               SendNotice(c, at, l)
        BY <2>2 DEF TellExpired, TellClosed
      <3>2. PICK n \in notes[c] : /\ Tell(n.dev, n.id)
                                  /\ notes' = [notes EXCEPT ![c] = @ \ {n}]
                                  /\ pc' = [pc EXCEPT ![c] = IF notes[c] = {n} THEN l ELSE at]
        BY <3>1 DEF SendNotice, Goto
      <3>3. pc[c] = at /\ UNCHANGED sweeper
        BY <3>1 DEF SendNotice
      <3>4. \A k \in Conns : \A m : m \in notes[k] /\ m # n => m \in notes'[k]
        BY <1>0, <3>2
      <3>5. \A k \in Conns : pc[k] \in {"confirm", "tellController"} => pc'[k] = pc[k]
        BY <1>0, <3>1, <3>2, <3>3
      <3> QED
        BY <3>2, <3>3, <3>4, <3>5
    <2> QED
      BY <2>1, <2>2
  <1>3. OwnersOK'
    BY <1>1 DEF ReportInv, OwnersOK
  <1>4. Reported
    <2> SUFFICES ASSUME NEW r \in RIds, NEW o \in owner[r], ToldOrPending(o, r)
                 PROVE  ToldOrPending(o, r)'
      BY DEF Reported
    <2>1. o \in Conns /\ device[o] # Nil
      BY <1>0 DEF ReportInv, OwnersOK
    <2>2. /\ told[o] \subseteq told'[o]
          /\ o \in open /\ device[o] = n.dev => n.id \in told'[o]
      BY <1>2, <2>1, TellReaches
    <2>3. CASE n = [dev |-> device[o], id |-> r]
      <3>1. n.dev = device[o] /\ n.id = r
        BY <2>3
      <3> QED
        BY <1>1, <2>2, <3>1 DEF ToldOrPending
    <2>4. CASE n # [dev |-> device[o], id |-> r]
      BY <1>1, <1>2, <2>1, <2>2, <2>4, ReportStays
    <2> QED
      BY <2>3, <2>4
  <1> QED
    BY <1>1, <1>3, <1>4, ReportFrame DEF ReportInv

(* Creating a rendezvous owes the members of those its sweep removed a     *)
(* notice, also when the new one is refused.                               *)
LEMMA CreateReport ==
    ASSUME ServerInv, ServerInv', StatusInv, ReportInv, NEW c \in Conns,
           handleCreateRendezvous(c)
    PROVE  ReportInv'
  <1>0. /\ work \in [Conns -> WorkItems] /\ pc \in [Conns -> Labels] /\ WorkOK(c)
        /\ device \in [Conns -> Devices \cup {Nil}] /\ owner \in [RIds -> SUBSET Conns]
        /\ StoreOK(store) /\ notes \in [Conns -> SUBSET Notices] /\ StatusOK(c)
    BY DEF ServerInv, Types, StatusInv, StatusTypes
  <1> DEFINE w == work[c]
             kind == IF w.text = Nil THEN "qr" ELSE "desktop"
             res == Create(store, w.id, kind, device[c], w.text, w.now + RendezvousTTL, w.now)
  <1>1. /\ pc[c] = "handle" /\ w.id \in RIds /\ device[c] \in Devices
        /\ w.text \in CodeTexts \cup {Nil} /\ w.now \in Int /\ w.now + RendezvousTTL \in Int
        /\ kind \in Kinds
    BY <1>0, StoreAssumption DEF handleCreateRendezvous, Handling, WorkOK, WorkItems, Kinds
  <1>2. /\ store' = res.store /\ UNCHANGED <<device, work, open, told, sweeper>>
        /\ owner' = IF res.err = "none" THEN [owner EXCEPT ![w.id] = {c}] ELSE owner
        /\ \E l \in Labels : pc' = [pc EXCEPT ![c] = l]
    BY DEF handleCreateRendezvous, Goto, Labels
  <1> HIDE DEF kind
  <1>3. Adds(store, res, w.id, device[c])
    BY <1>0, <1>1, CreateEffect
  <1>4. res.err = "none" => w.id \in Stored(res.store)
    BY <1>0, <1>1, CreateStores
  <1> HIDE DEF res
  <1>5. PICK removed : /\ Reports(store, store', removed)
                       /\ notes' = [notes EXCEPT ![c] = notifyRendezvousClosed(removed, Nil)]
    BY CreateStatus
  <1>6. Reported
    <2> SUFFICES ASSUME NEW r \in RIds, NEW o \in owner[r], ToldOrPending(o, r)
                 PROVE  ToldOrPending(o, r)'
      BY DEF Reported
    <2>1. notes[c] = {} /\ \A k \in Conns \ {c} : notes'[k] = notes[k]
      BY <1>0, <1>1, <1>5 DEF StatusOK
    <2>2. \A k \in Conns : [dev |-> device[o], id |-> r] \in notes[k]
              => [dev |-> device[o], id |-> r] \in notes'[k]
      BY <2>1
    <2>3. \A k \in Conns : pc[k] \in {"confirm", "tellController"}
              => pc'[k] = pc[k] /\ work'[k] = work[k]
      BY <1>0, <1>1, <1>2
    <2> QED
      BY <1>0, <1>2, <2>2, <2>3, ReportStays
  <1>7. OwnersOK'
    <2> SUFFICES ASSUME NEW r \in RIds, NEW o \in owner'[r]
                 PROVE  /\ device[o] # Nil
                        /\ r \in Stored(store') => device[o] \in Members(store'.byID[r])
      BY <1>2 DEF OwnersOK
    <2>1. CASE res.err = "none" /\ r = w.id
      <3>1. o = c
        BY <1>0, <1>1, <1>2, <2>1
      <3> QED
        BY <3>1, <2>1, <1>1, <1>2, <1>3, StoreAssumption DEF Adds
    <2>2. CASE ~(res.err = "none" /\ r = w.id)
      <3>1. o \in owner[r]
        BY <1>0, <1>1, <1>2, <2>2
      <3> QED
        BY <3>1, <2>2, <1>2, <1>3 DEF Adds, ReportInv, OwnersOK
    <2> QED
      BY <2>1, <2>2
  <1>8. \A r \in RIds : store'.byID[r] = Nil => owner'[r] = owner[r]
    BY <1>0, <1>1, <1>2, <1>4 DEF Stored
  <1>9. ASSUME NEW r \in RIds, store'.byID[r] = Nil, store.byID[r] # Nil, NEW o \in owner[r]
        PROVE  ToldOrPending(o, r)'
    <2>1. r \in Stored(store) /\ r \notin Stored(store')
      BY <1>9 DEF Stored
    <2>2. device[o] # Nil /\ device[o] \in Members(store.byID[r])
      BY <2>1 DEF ReportInv, OwnersOK
    <2>3. [dev |-> device[o], id |-> r] \in notifyRendezvousClosed(removed, Nil)
      BY <1>5, <2>1, <2>2, NotifyReaches
    <2>4. [dev |-> device[o], id |-> r] \in notes'[c]
      BY <1>0, <1>5, <2>3
    <2> QED
      BY <1>2, <2>4 DEF ToldOrPending
  <1> QED
    BY <1>6, <1>7, <1>8, <1>9, ReportFrame DEF ReportInv

(* A cleanup owes a notice to every other device of what it removes; an    *)
(* owner on its own device has lost its connection.                        *)
LEMMA PurgeReport ==
    ASSUME ServerInv, ServerInv', StatusInv, ReportInv, NEW c \in Conns, Purge(c)
    PROVE  ReportInv'
  <1>0. /\ pc \in [Conns -> Labels] /\ work \in [Conns -> WorkItems]
        /\ device \in [Conns -> Devices \cup {Nil}] /\ owner \in [RIds -> SUBSET Conns]
        /\ StoreOK(store) /\ notes \in [Conns -> SUBSET Notices] /\ StatusOK(c)
    BY DEF ServerInv, Types, StatusInv, StatusTypes
  <1>1. /\ pc[c] = "purge" /\ UNCHANGED <<device, owner, open, told, sweeper>>
        /\ work' = [work EXCEPT ![c] = NoWork] /\ \E l \in Labels : pc' = [pc EXCEPT ![c] = l]
    BY DEF Purge, Goto, Labels
  <1>2. \A k \in Conns : pc[k] \in {"confirm", "tellController"}
              => pc'[k] = pc[k] /\ work'[k] = work[k]
    BY <1>0, <1>1
  <1>3. CASE device[c] = Nil
    <2>1. UNCHANGED <<store, notes>>
      BY <1>3 DEF Purge
    <2>2. OwnersOK'
      BY <1>1, <2>1 DEF ReportInv, OwnersOK
    <2>3. Reported
      <3> SUFFICES ASSUME NEW r \in RIds, NEW o \in owner[r], ToldOrPending(o, r)
                   PROVE  ToldOrPending(o, r)'
        BY DEF Reported
      <3> QED
        BY <1>0, <1>1, <1>2, <2>1, ReportStays
    <2> QED
      BY <1>1, <2>1, <2>2, <2>3, ReportFrame DEF ReportInv
  <1>4. CASE device[c] # Nil
    <2> DEFINE res == RemoveForDevice(store, device[c])
    <2>0. device[c] \in Devices
      BY <1>0, <1>4
    <2>1. /\ store' = res.store
          /\ notes' = [notes EXCEPT ![c] = notifyRendezvousClosed(res.removed, device[c])]
      BY <1>4 DEF Purge
    <2>2. Shrinks(store, res.store) /\ Reports(store, res.store, res.removed)
      BY <1>0, <2>0, RemoveForDeviceShrinks, RemoveForDeviceReports
    <2> HIDE DEF res
    <2>3. OwnersOK'
      BY <1>1, <2>1, <2>2 DEF ReportInv, OwnersOK, Shrinks
    <2>4. Reported
      <3> SUFFICES ASSUME NEW r \in RIds, NEW o \in owner[r], ToldOrPending(o, r)
                   PROVE  ToldOrPending(o, r)'
        BY DEF Reported
      <3>1. notes[c] = {} /\ \A k \in Conns \ {c} : notes'[k] = notes[k]
        BY <1>0, <1>1, <2>1 DEF StatusOK
      <3>2. \A k \in Conns : [dev |-> device[o], id |-> r] \in notes[k]
                => [dev |-> device[o], id |-> r] \in notes'[k]
        BY <3>1
      <3> QED
        BY <1>0, <1>1, <1>2, <3>2, ReportStays
    <2>5. ASSUME NEW r \in RIds, store'.byID[r] = Nil, store.byID[r] # Nil, NEW o \in owner[r]
          PROVE  ToldOrPending(o, r)'
      <3>1. r \in Stored(store) /\ r \notin Stored(res.store) /\ o \in Conns
        BY <1>0, <2>1, <2>5 DEF Stored
      <3>2. device[o] # Nil /\ device[o] \in Members(store.byID[r])
        BY <3>1 DEF ReportInv, OwnersOK
      <3>3. CASE device[o] # device[c]
        <4>1. [dev |-> device[o], id |-> r] \in notifyRendezvousClosed(res.removed, device[c])
          BY <2>2, <3>1, <3>2, <3>3, NotifyReaches
        <4>2. [dev |-> device[o], id |-> r] \in notes'[c]
          BY <1>0, <2>1, <4>1
        <4> QED
          BY <1>1, <4>2 DEF ToldOrPending
      <3>4. CASE device[o] = device[c]
        <4>1. c \notin open
          BY <1>0, <1>1 DEF StatusOK, Gone
        <4>2. o # c => o \notin open
          BY <1>1, <1>4, <3>1, <3>4, SameDevice DEF Routed
        <4> QED
          BY <1>1, <4>1, <4>2 DEF ToldOrPending
      <3> QED
        BY <3>3, <3>4
    <2> QED
      BY <1>1, <2>3, <2>4, <2>5, ReportFrame DEF ReportInv
  <1> QED
    BY <1>3, <1>4

(* The rest of the cleanup: by then the connection is not open.            *)
LEMMA LeaveReport ==
    ASSUME ServerInv, ServerInv', StatusInv, ReportInv, NEW c \in Conns, Unroute(c) \/ Leave(c)
    PROVE  ReportInv'
  <1>0. /\ pc \in [Conns -> Labels] /\ owner \in [RIds -> SUBSET Conns]
        /\ told \in [Conns -> SUBSET RIds]
    BY DEF ServerInv, Types, StatusInv, StatusTypes
  <1>1. /\ UNCHANGED <<store, device, owner, work, notes, sweeper>>
        /\ pc[c] \in {"unroute", "leave"} /\ \E l \in Labels : pc' = [pc EXCEPT ![c] = l]
    BY DEF Unroute, Leave, Goto, Labels
  <1>2. open' \subseteq open /\ \A o \in Conns : o \in open' => told'[o] = told[o]
    BY <1>0 DEF Unroute, Leave
  <1>3. OwnersOK'
    BY <1>1 DEF ReportInv, OwnersOK
  <1>4. Reported
    <2> SUFFICES ASSUME NEW r \in RIds, NEW o \in owner[r], ToldOrPending(o, r)
                 PROVE  ToldOrPending(o, r)'
      BY DEF Reported
    <2>1. \A k \in Conns : pc[k] \in {"confirm", "tellController"}
              => pc'[k] = pc[k] /\ work'[k] = work[k]
      BY <1>0, <1>1
    <2> QED
      BY <1>0, <1>1, <1>2, <2>1, ReportStays
  <1> QED
    BY <1>1, <1>3, <1>4, ReportFrame DEF ReportInv

(* The sweeper owes every member of what it removed a notice.              *)
LEMMA SweepReport ==
    ASSUME ServerInv, ServerInv', StatusInv, ReportInv, SweepStore
    PROVE  ReportInv'
  <1>0. /\ StoreOK(store) /\ owner \in [RIds -> SUBSET Conns]
        /\ sweeper \in [stage : {"idle", "notify", "close", "exited"}, now : Int,
                        notes : SUBSET Notices, stale : SUBSET Conns]
    BY DEF ServerInv, Types, StatusInv, StatusTypes
  <1> DEFINE res == Sweep(store, clock)
  <1>1. /\ store' = res.store /\ sweeper.stage = "idle"
        /\ UNCHANGED <<open, told, pc, work, notes, device, owner>>
    BY DEF SweepStore, sweepVars
  <1>2. PICK owed : owed = notifyRendezvousClosed(res.removed, Nil)
    OBVIOUS
  <1>3. sweeper' = [sweeper EXCEPT !.stage = "notify", !.now = clock, !.notes = owed]
    BY <1>2 DEF SweepStore
  <1>4. sweeper'.notes = owed /\ sweeper.notes = {}
    BY <1>0, <1>1, <1>3 DEF StatusInv
  <1>5. Shrinks(store, res.store) /\ Reports(store, res.store, res.removed)
    <2>1. res.store = sweepLocked(store, clock)
      BY DEF Sweep, Result
    <2> QED
      BY <1>0, <2>1, SweepShrinks, SweepReports
  <1> HIDE DEF res
  <1>6. OwnersOK'
    BY <1>1, <1>5 DEF ReportInv, OwnersOK, Shrinks
  <1>7. Reported
    <2> SUFFICES ASSUME NEW r \in RIds, NEW o \in owner[r], ToldOrPending(o, r)
                 PROVE  ToldOrPending(o, r)'
      BY DEF Reported
    <2> QED
      BY <1>0, <1>1, <1>4, ReportStays
  <1>8. ASSUME NEW r \in RIds, store'.byID[r] = Nil, store.byID[r] # Nil, NEW o \in owner[r]
        PROVE  ToldOrPending(o, r)'
    <2>1. r \in Stored(store) /\ r \notin Stored(res.store)
      BY <1>1, <1>8 DEF Stored
    <2>2. device[o] # Nil /\ device[o] \in Members(store.byID[r])
      BY <2>1 DEF ReportInv, OwnersOK
    <2>3. [dev |-> device[o], id |-> r] \in sweeper'.notes
      BY <1>2, <1>4, <1>5, <2>1, <2>2, NotifyReaches
    <2> QED
      BY <1>1, <2>3 DEF ToldOrPending
  <1> QED
    BY <1>1, <1>6, <1>7, <1>8, ReportFrame DEF ReportInv

(* The other background steps take no report away.                         *)
LEMMA BackgroundReport ==
    ASSUME ServerInv, ServerInv', StatusInv, ReportInv,
           \/ \E c \in Conns : RegistrationTimeout(c)
           \/ SweepPresence \/ SweepClose \/ SweepExit
           \/ Shutdown \/ ShutdownStep \/ Tick \/ UNCHANGED vars
    PROVE  ReportInv'
  <1>0. /\ owner \in [RIds -> SUBSET Conns]
        /\ sweeper \in [stage : {"idle", "notify", "close", "exited"}, now : Int,
                        notes : SUBSET Notices, stale : SUBSET Conns]
    BY DEF ServerInv, Types, StatusInv, StatusTypes
  <1>1. UNCHANGED <<store, owner, device, pc, work, notes, told>> /\ open' \subseteq open
    BY DEF RegistrationTimeout, SweepPresence, SweepClose, SweepExit, sweepVars, Shutdown,
       ShutdownStep, ShutdownSnapshot, ShutdownClose, ShutdownDone, restVars, Tick, vars
  <1>2. sweeper.notes # {} => sweeper'.notes = sweeper.notes
    BY <1>0 DEF RegistrationTimeout, SweepPresence, SweepClose, SweepExit, Shutdown,
       ShutdownStep, ShutdownSnapshot, ShutdownClose, ShutdownDone, restVars, Tick, vars
  <1>3. OwnersOK'
    BY <1>1 DEF ReportInv, OwnersOK
  <1>4. Reported
    <2> SUFFICES ASSUME NEW r \in RIds, NEW o \in owner[r], ToldOrPending(o, r)
                 PROVE  ToldOrPending(o, r)'
      BY DEF Reported
    <2> QED
      BY <1>0, <1>1, <1>2, ReportStays
  <1> QED
    BY <1>1, <1>3, <1>4, ReportFrame DEF ReportInv

(* Every step of every goroutine keeps the promise.                        *)
LEMMA ReportStep ==
    ServerInv /\ ServerInv' /\ StatusInv /\ ReportInv /\ [Next]_vars => ReportInv'
  <1> SUFFICES ASSUME ServerInv, ServerInv', StatusInv, ReportInv, [Next]_vars
               PROVE  ReportInv'
    OBVIOUS
  <1>1. ASSUME NEW c \in Conns, ConnStep(c) \/ ClientStep(c) PROVE ReportInv'
    <2>1. CASE QuietConn(c)
      BY <2>1, QuietReport
    <2>2. CASE handleCompleteRendezvous(c)
      BY <2>2, CompleteReport
    <2>3. CASE Confirm(c) \/ TellController(c)
      BY <2>3, AnswerReport
    <2>4. CASE TellExpired(c) \/ TellClosed(c)
      BY <2>4, NoticeReport
    <2>5. CASE handleCreateRendezvous(c)
      BY <2>5, CreateReport
    <2>6. CASE Purge(c)
      BY <2>6, PurgeReport
    <2>7. CASE Unroute(c) \/ Leave(c)
      BY <2>7, LeaveReport
    <2> QED
      BY <1>1, <2>1, <2>2, <2>3, <2>4, <2>5, <2>6, <2>7 DEF ConnStep, ClientStep, QuietConn
  <1>2. CASE SweepStore
    BY <1>2, SweepReport
  <1>3. CASE SweepNotify
    BY <1>3, NoticeReport
  <1>4. CASE \/ \E c \in Conns : RegistrationTimeout(c)
             \/ SweepPresence \/ SweepClose \/ SweepExit
             \/ Shutdown \/ ShutdownStep \/ Tick \/ UNCHANGED vars
    BY <1>4, BackgroundReport
  <1> QED
    BY <1>1, <1>2, <1>3, <1>4 DEF Next, SweepStep, Terminated

(* Whoever created or joined a rendezvous that is gone, whether completed, *)
(* expired or purged with the other side's connection, has been told, is   *)
(* about to be told, or has lost its own connection.                       *)
THEOREM ClosuresAreReported == Spec => []ClosureReported
  <1>1. Init => ReportInv
    BY DEF Init, ReportInv, OwnersOK, ClosureReported
  <1>2. ReportInv => ClosureReported
    BY DEF ReportInv
  <1> QED
    BY <1>1, <1>2, ServerInit, ServerStep, StatusInit, StatusStep, ReportStep, PTL DEF Spec
=============================================================================
