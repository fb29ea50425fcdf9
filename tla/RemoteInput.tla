---------------------------- MODULE RemoteInput ----------------------------
(***************************************************************************)
(* Reliable remote input from end to end: the Controller's                 *)
(* RemoteInputSender with the part of the remote desktop controller that   *)
(* suspends and resumes it (apps/client_flutter/lib/desktop/remote), the   *)
(* ordered data channel, and the Host's peer session behind its            *)
(* coordinator (crates/host-webrtc/src/session.rs,                         *)
(* crates/host-agent/src/remote_session.rs).                               *)
(*                                                                         *)
(* Controller and Host learn of an interruption independently: from their  *)
(* own signaling connection, or from their own end of the native peer.     *)
(* The controller's state reconnecting also stands for connecting during a *)
(* restart, the Host's Reconnecting also for its Negotiating: input is     *)
(* refused alike.  Keys stand for buttons too; clicks, text and the lossy  *)
(* pointer channel, which hold nothing down, are left out.                 *)
(***************************************************************************)
EXTENDS Integers, Sequences, FiniteSets, SequencesExt

CONSTANTS
    Keys,            \* keys and buttons that can be held
    Nil,
    QueueCapacity,   \* maxPendingReliableInputEvents
    MaxSequence,     \* bound: reliable envelopes the Controller sends
    MaxSignals       \* bound: connection events of the Host's native peer

ASSUME InputAssumption ==
    /\ Nil \notin Keys \cup {"pressed"}
    /\ QueueCapacity \in Nat \ {0} /\ MaxSequence \in Nat /\ MaxSignals \in Nat

VARIABLES
    state,     \* RemoteDesktopController._state
    sender,    \* RemoteInputSender
    held,      \* the keys the user holds down
    focus,     \* whether the remote desktop page has the keyboard focus
    wire,      \* envelopes in the ordered data channel
    events,    \* the Host's bounded native event queue
    signals,   \* connection events published so far
    online,    \* whether the Host has its signaling connection, and so polls
    host       \* the Host's active session

controllerVars == <<state, sender, held, focus>>
hostVars == <<online, host>>
vars == <<controllerVars, wire, events, signals, hostVars>>

----------------------------------------------------------------------------
(* RemoteInputSender.                                                      *)

Event(kind, k) == [kind |-> kind, key |-> k]
ReleaseAll == Event("release", Nil)
CloseControl == Event("close", Nil)

Pending(s) == Len(s.queue) + (IF s.inFlight = Nil THEN 0 ELSE 1)

(* abort: the queue is given up and the owner closes the peer.             *)
Aborted(s) == [s EXCEPT !.failed = TRUE, !.suspended = TRUE, !.queue = <<>>, !.inFlight = Nil]

(* _sendReliable.  Dispatching is a step of its own: bufferedAmount, which *)
(* belongs to the native channel, may always delay it.                     *)
_sendReliable(s, e) ==
    IF s.failed THEN s
    ELSE IF Pending(s) >= QueueCapacity THEN Aborted(s)
    ELSE [s EXCEPT !.queue = Append(@, e)]

(* _cancelQueuedReliable: a release that was not sent is owed again.       *)
_cancelQueuedReliable(s) ==
    [s EXCEPT !.queue = <<>>,
              !.releaseSent = @ /\ ~Contains(s.queue, ReleaseAll)]

(* Mutant of releaseAll: presses that are still queued are not cancelled.  *)
releaseAllJumpsQueue(s) ==
    IF s.closed \/ s.releaseSent THEN s
    ELSE IF Pending(s) >= QueueCapacity THEN Aborted(s)
    ELSE [s EXCEPT !.releaseSent = TRUE, !.queue = <<ReleaseAll>> \o @]

releaseAll(s) ==
    LET c == _cancelQueuedReliable(s)
    IN  IF s.closed \/ s.releaseSent THEN s
        ELSE _sendReliable([c EXCEPT !.releaseSent = TRUE], ReleaseAll)

suspend(s) ==
    IF s.closed \/ s.suspended THEN s ELSE releaseAll([s EXCEPT !.suspended = TRUE])

resume(s) == [s EXCEPT !.suspended = FALSE]

(* _close queues the close control once its release, if it owes one, has   *)
(* been sent (see Sent).                                                   *)
_close(s) ==
    LET c == [_cancelQueuedReliable(s) EXCEPT !.closed = TRUE]
    IN  IF c.releaseSent THEN _sendReliable(c, CloseControl)
        ELSE _sendReliable([c EXCEPT !.releaseSent = TRUE], ReleaseAll)

Sent(s) ==
    LET done == [s EXCEPT !.inFlight = Nil]
    IN  IF s.closed /\ s.inFlight = ReleaseAll /\ s.queue = <<>>
        THEN _sendReliable(done, CloseControl) ELSE done

(* An owner that learns of an abort closes its resources: _fail.           *)
After(s, next) == sender' = s /\ state' = IF s.failed THEN "failed" ELSE next

(* The user presses or releases a key.  The page forwards it only while it *)
(* has the focus and the controller is connected.                          *)
UserInput(k) ==
    LET e == Event(IF k \in held THEN "up" ELSE "down", k)
        s == [sender EXCEPT !.releaseSent = FALSE]
    IN  /\ state \in {"connected", "reconnecting"}
        /\ held' = IF k \in held THEN held \ {k} ELSE held \cup {k}
        /\ IF focus /\ state = "connected" THEN After(_sendReliable(s, e), state)
           ELSE UNCHANGED <<state, sender>>
        /\ UNCHANGED <<focus, wire, events, signals, hostVars>>

(* A page that loses the focus releases everything.                        *)
_onFocusChanged ==
    /\ state \in {"connected", "reconnecting"}
    /\ focus' = ~focus
    /\ IF focus THEN After(releaseAll(sender), state) ELSE UNCHANGED <<state, sender>>
    /\ UNCHANGED <<held, wire, events, signals, hostVars>>

(* _dispatchReliable: the wire sequence is assigned here.                  *)
_dispatchReliable ==
    /\ ~sender.failed /\ sender.inFlight = Nil /\ sender.queue # <<>>
    /\ sender.seq < MaxSequence
    /\ LET e == Head(sender.queue)
           n == sender.seq + 1
       IN  /\ sender' = [sender EXCEPT !.queue = Tail(@), !.inFlight = e, !.seq = n]
           /\ wire' = Append(wire, [seq |-> n, event |-> e])
    /\ UNCHANGED <<state, held, focus, events, signals, hostVars>>

(* The native send completes, or it fails or is too late: abort.  Then the *)
(* envelope may or may not have left.                                      *)
SendCompletes ==
    /\ sender.inFlight # Nil
    /\ After(Sent(sender), state)
    /\ UNCHANGED <<held, focus, wire, events, signals, hostVars>>

SendFails ==
    /\ Pending(sender) > 0 /\ ~sender.failed
    /\ After(Aborted(sender), state)
    /\ \/ UNCHANGED wire
       \/ sender.inFlight # Nil /\ wire # <<>> /\ wire' = Front(wire)
    /\ UNCHANGED <<held, focus, events, signals, hostVars>>

----------------------------------------------------------------------------
(* RemoteDesktopController.                                                *)

(* _handleRecoverableFailure, for either cause; a further failure while    *)
(* reconnecting changes nothing here.                                      *)
_handleRecoverableFailure ==
    /\ state = "connected"
    /\ After(suspend(sender), "reconnecting")
    /\ UNCHANGED <<held, focus, wire, events, signals, hostVars>>

(* _completeReconnect, when the native peer reports connected.             *)
_completeReconnect ==
    /\ state = "reconnecting"
    /\ After(resume(sender), "connected")
    /\ UNCHANGED <<held, focus, wire, events, signals, hostVars>>

(* The user closes, or the reconnect schedule is exhausted.                *)
_performResourceClose ==
    /\ state \in {"connected", "reconnecting"}
    /\ After(_close(sender), "closing")
    /\ UNCHANGED <<held, focus, wire, events, signals, hostVars>>

----------------------------------------------------------------------------
(* The native peers: the channel keeps its order, but connection events    *)
(* are not ordered with the data, and may repeat.                          *)

Deliver ==
    /\ wire # <<>>
    /\ events' = Append(events, Head(wire)) /\ wire' = Tail(wire)
    /\ UNCHANGED <<controllerVars, signals, hostVars>>

Signal(kind) == [seq |-> 0, event |-> Event(kind, Nil)]

NativeSignal ==
    /\ signals < MaxSignals /\ signals' = signals + 1
    /\ \E kind \in {"connected", "lost"} : events' = Append(events, Signal(kind))
    /\ UNCHANGED <<controllerVars, wire, hostVars>>

(* A Controller that failed or finished closing closes its peer: what the  *)
(* channel still held is gone and the Host's end is lost.                  *)
PeerCloses ==
    /\ \/ state = "failed"
       \/ state = "closing" /\ Pending(sender) = 0
    /\ state' = "gone"
    /\ wire' = <<>> /\ events' = Append(events, Signal("lost"))
    /\ UNCHANGED <<sender, held, focus, signals, hostVars>>

----------------------------------------------------------------------------
(* The Host.                                                               *)

Closed(why) ==
    [host EXCEPT !.peer = "Closed", !.pressed = {}, !.suspended = FALSE, !.why = why]

(* Mutant of begin_reconnect: the sequence restarts with the ICE session.  *)
begin_reconnectRestarts ==
    [host EXCEPT !.peer = "Reconnecting", !.pressed = {}, !.suspended = TRUE, !.last = 0]

(* begin_active_reconnect.                                                 *)
begin_reconnect == [host EXCEPT !.peer = "Reconnecting", !.pressed = {}, !.suspended = TRUE]

(* Mutant of apply_reliable_event: an up does not forget the key.          *)
apply_reliable_eventKeepsKey(m) ==
    LET e    == m.event
        next == [host EXCEPT !.last = m.seq]
    IN  CASE e.kind = "down" /\ e.key \in host.pressed -> Closed("pressed")
          [] e.kind = "down" /\ e.key \notin host.pressed ->
               [next EXCEPT !.pressed = @ \cup {e.key}]
          [] e.kind = "up"      -> next
          [] e.kind = "release" -> [next EXCEPT !.pressed = {}]
          [] e.kind = "close"   -> Closed("close")

(* apply_reliable_event, for an envelope with the expected sequence.       *)
apply_reliable_event(m) ==
    LET e    == m.event
        next == [host EXCEPT !.last = m.seq]
    IN  CASE e.kind = "down" /\ e.key \in host.pressed -> Closed("pressed")
          [] e.kind = "down" /\ e.key \notin host.pressed ->
               [next EXCEPT !.pressed = @ \cup {e.key}]
          [] e.kind = "up"      -> [next EXCEPT !.pressed = @ \ {e.key}]
          [] e.kind = "release" -> [next EXCEPT !.pressed = {}]
          [] e.kind = "close"   -> Closed("close")

(* handle_peer_event for reliable input, and handle_reliable: dropped      *)
(* inside the window; otherwise it must be the next one, and the platform  *)
(* may fail to inject it.                                                  *)
handle_reliable(m) ==
    \/ host.suspended /\ host' = [host EXCEPT !.dropped = @ + 1]
    \/ /\ ~host.suspended
       /\ \/ host' = IF m.seq = host.last + 1 THEN apply_reliable_event(m) ELSE Closed("sequence")
          \/ host' = Closed("failed")

(* poll_peer_events, one event at a time.                                  *)
Poll ==
    /\ online /\ host.peer # "Closed" /\ events # <<>>
    /\ events' = Tail(events)
    /\ LET m == Head(events)
       IN  CASE m.event.kind = "connected" ->
                  host' = [host EXCEPT !.peer = "Connected", !.suspended = FALSE]
             [] m.event.kind = "lost" -> host' \in {begin_reconnect, Closed("failed")}
             [] OTHER -> handle_reliable(m)
    /\ UNCHANGED <<controllerVars, wire, signals, online>>

(* The Host loses signaling (signaling_lost) and registers again.          *)
signaling_lost ==
    /\ online /\ online' = FALSE
    /\ host' = IF host.peer = "Closed" THEN host ELSE begin_reconnect
    /\ UNCHANGED <<controllerVars, wire, events, signals>>

Registered ==
    /\ ~online /\ online' = TRUE
    /\ UNCHANGED <<controllerVars, wire, events, signals, host>>

(* expire_active_reconnect, a local stop, or the Controller's closing      *)
(* status: the session ends whatever the channel still holds.              *)
Ends ==
    /\ host.peer # "Closed"
    /\ host' = Closed("ended")
    /\ UNCHANGED <<controllerVars, wire, events, signals, online>>

Rest == (host.peer = "Closed" \/ sender.seq = MaxSequence) /\ UNCHANGED vars

----------------------------------------------------------------------------
Init ==
    /\ state = "connected"
    /\ sender = [suspended |-> FALSE, releaseSent |-> FALSE, failed |-> FALSE,
                 closed |-> FALSE, queue |-> <<>>, inFlight |-> Nil, seq |-> 0]
    /\ held = {} /\ focus = TRUE /\ wire = <<>> /\ events = <<>> /\ signals = 0
    /\ online = TRUE
    /\ host = [peer |-> "Connected", suspended |-> FALSE, last |-> 0, dropped |-> 0,
               pressed |-> {}, why |-> Nil]

Next ==
    \/ \E k \in Keys : UserInput(k)
    \/ _onFocusChanged
    \/ _dispatchReliable \/ SendCompletes \/ SendFails
    \/ _handleRecoverableFailure \/ _completeReconnect \/ _performResourceClose
    \/ Deliver \/ NativeSignal \/ PeerCloses
    \/ Poll \/ signaling_lost \/ Registered \/ Ends \/ Rest

Spec == Init /\ [][Next]_vars

----------------------------------------------------------------------------
(* Properties.                                                             *)

(* The envelopes between the sender and the Host's sequence check, with    *)
(* connection events among them: numbered from b on, without a gap.        *)
IsInput(m) == m.seq > 0
Quiet(T, i, j) == \A m \in (i + 1)..(j - 1) : ~IsInput(T[m])
Contiguous(T, b) ==
    \A j \in 1..Len(T) : IsInput(T[j]) =>
       /\ Quiet(T, 0, j) => T[j].seq = b + 1
       /\ \A i \in 1..j - 1 : IsInput(T[i]) /\ Quiet(T, i, j) => T[j].seq = T[i].seq + 1

(* Whatever the sender cancelled, the Host meets contiguous sequences: the *)
(* next envelope is the one after those it applied and those it dropped,   *)
(* and each next one follows its predecessor.  A gap can only come from    *)
(* the Host's own dropping.                                                *)
WireContiguous ==
    host.peer # "Closed" => Contiguous(events \o wire, host.last + host.dropped)

(* No key stays pressed behind the user's back: when the page lost the     *)
(* focus, or the sender is suspended or given up, and the Host still holds *)
(* a key, then a release, the end of the session or the loss of the peer   *)
(* is on its way.                                                          *)
Releases(m) == m.event.kind \in {"release", "close", "lost"}
NoStuckKeys ==
    ((sender.suspended \/ ~focus) /\ host.pressed # {}) =>
       \/ state = "failed"
       \/ Contains(sender.queue, ReleaseAll)
       \/ \E i \in DOMAIN (events \o wire) : Releases((events \o wire)[i])

(* A Host never meets a press of a key it still holds: presses the         *)
(* Controller did not see released, because of a lost focus or a           *)
(* reconnect, were released before the key can be pressed again.           *)
NoDoublePress == host.why # "pressed"

(* A Host never refuses the sequence of a Controller that numbers its      *)
(* input without gaps: after a recovery, input works again.                *)
RecoveredInputAccepted == host.why # "sequence"
============================================================================
