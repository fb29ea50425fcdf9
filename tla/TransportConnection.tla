------------------------ MODULE TransportConnection ------------------------
(***************************************************************************)
(* Bounded outbound queues and three-level byte budgets of the signaling   *)
(* transport (services/signaling/internal/transport/connection.go,         *)
(* byte_budget.go and service/outbound_budget.go).                         *)
(*                                                                         *)
(* Many goroutines send on a connection: its own handler, the handlers of  *)
(* its peers, the sweeper.  A sender takes a queue slot, then, under       *)
(* queueMu, reserves its bytes with the connection's, the source IP's and  *)
(* the global budget in turn and enqueues.  One writer per connection      *)
(* drains the queue; whoever closes the connection first drains what is    *)
(* left.  Every budget has its own mutex, so reservations of different     *)
(* connections interleave between levels.                                  *)
(***************************************************************************)
EXTENDS Integers, Sequences, FiniteSets

CONSTANTS
    Conns, IPs, Senders, Nil,
    Sizes,                \* frame sizes in bytes
    QueueCapacity,        \* options.OutboundQueueCapacity
    ConnLimit, IPLimit, GlobalLimit,     \* outbound byte limits
    ReadSize,             \* reservation of one in-flight read
    IPReadLimit, GlobalReadLimit,        \* in-flight read byte limits
    MaxConnectionsPerIP

(* sourceIPUsage                                                           *)
Usages == [connections : Int, outbound : Int, read : Int]

ASSUME TransportAssumption ==
    /\ Nil \notin IPs /\ Nil \notin Senders \cup {"closer"}
    /\ {"closer", "writer"} \cap Senders = {} /\ Nil \notin Usages
    /\ IsFiniteSet(Conns) /\ IsFiniteSet(Senders)
    /\ Sizes \subseteq Nat \ {0}    \* an encoded envelope is never empty
    /\ ReadSize \in Nat
    /\ QueueCapacity \in Nat \ {0} /\ MaxConnectionsPerIP \in Nat \ {0}
    /\ ConnLimit \in Nat /\ IPLimit \in Nat /\ GlobalLimit \in Nat
    /\ IPReadLimit \in Nat /\ GlobalReadLimit \in Nat

VARIABLES
    phase,     \* the handler: "new", "open", "released", "refused"
    ip,        \* the connection's source IP
    slots,     \* free tokens in outboundSlots
    queue,     \* outbound: reservations in order
    closed,    \* connections whose closed flag and done channel are set
    queueMu,   \* who holds the mutex: a sender, "closer" or Nil
    connUsed,  \* connectionOutboundBudget.used
    usage,     \* server.sourceIPs: [connections, outbound, read] or Nil
    global,    \* the two process-wide budgets
    sender, writer, closer, reader       \* where each goroutine is

vars == <<phase, ip, slots, queue, closed, queueMu, connUsed, usage, global,
          sender, writer, closer, reader>>

Idle == [stage |-> "idle", conn |-> Nil, bytes |-> 0, level |-> 0]
At(stage, c, bytes, level) ==
    [stage |-> stage, conn |-> c, bytes |-> bytes, level |-> level]

----------------------------------------------------------------------------
(* The budgets.                                                            *)

Levels == 1 .. 3          \* connection, source IP, process

(* Mutant of Fits: the source IP limit ignores what is already reserved.   *)
FitsAlone(c, level, bytes) ==
    CASE level = 1 -> bytes <= ConnLimit - connUsed[c]
      [] level = 2 -> usage[ip[c]] # Nil /\ usage[ip[c]].connections > 0 /\ bytes <= IPLimit
      [] level = 3 -> bytes <= GlobalLimit - global.outbound

Fits(c, level, bytes) ==
    CASE level = 1 -> bytes <= ConnLimit - connUsed[c]
      [] level = 2 -> /\ usage[ip[c]] # Nil
                      /\ usage[ip[c]].connections > 0
                      /\ bytes <= IPLimit - usage[ip[c]].outbound
      [] level = 3 -> bytes <= GlobalLimit - global.outbound

(* Mutant of Settle: only connections keep an entry alive.                 *)
SettleEarly(u) == IF u.connections = 0 THEN Nil ELSE u

(* deleteIdleSourceIPLocked: an entry without users disappears.            *)
Settle(u) == IF u.connections = 0 /\ u.outbound = 0 /\ u.read = 0 THEN Nil ELSE u

Less(u, connections, outbound, read) ==
    [connections |-> u.connections - connections, outbound |-> u.outbound - outbound,
     read |-> u.read - read]

TryReserve(c, level, bytes) ==
    /\ Fits(c, level, bytes)
    /\ connUsed' = IF level = 1 THEN [connUsed EXCEPT ![c] = @ + bytes] ELSE connUsed
    /\ usage' = IF level = 2 THEN [usage EXCEPT ![ip[c]].outbound = @ + bytes] ELSE usage
    /\ global' = IF level = 3 THEN [global EXCEPT !.outbound = @ + bytes] ELSE global

Release(c, level, bytes) ==
    /\ connUsed' = IF level = 1 THEN [connUsed EXCEPT ![c] = @ - bytes] ELSE connUsed
    /\ usage' = IF level = 2
                THEN [usage EXCEPT ![ip[c]] = Settle(Less(@, 0, bytes, 0))]
                ELSE usage
    /\ global' = IF level = 3 THEN [global EXCEPT !.outbound = @ - bytes] ELSE global

(* Release panics when there is no entry or it holds too little.           *)
WouldPanic(c, level, bytes) ==
    CASE level = 1 -> bytes > connUsed[c]
      [] level = 2 -> usage[ip[c]] = Nil \/ bytes > usage[ip[c]].outbound
      [] level = 3 -> bytes > global.outbound

budgetVars == <<connUsed, usage, global>>

----------------------------------------------------------------------------
(* handleConnect: acquireIPConnection ... releaseIPConnection.             *)

FreshUsage == [connections |-> 0, outbound |-> 0, read |-> 0]

acquireIPConnection(c, a) ==
    LET u == IF usage[a] = Nil THEN FreshUsage ELSE usage[a]
    IN  /\ phase[c] = "new"
        /\ \/ /\ u.connections >= MaxConnectionsPerIP
              /\ usage' = [usage EXCEPT ![a] = u]
              /\ phase' = [phase EXCEPT ![c] = "refused"]
              /\ UNCHANGED <<ip, writer>>
           \/ /\ u.connections < MaxConnectionsPerIP
              /\ usage' = [usage EXCEPT ![a] = [u EXCEPT !.connections = @ + 1]]
              /\ phase' = [phase EXCEPT ![c] = "open"]
              /\ ip' = [ip EXCEPT ![c] = a]
              /\ writer' = [writer EXCEPT ![c] = At("select", c, 0, 0)]
        /\ UNCHANGED <<slots, queue, closed, queueMu, connUsed, global, sender,
                       closer, reader>>

(* The handler returns after its own CloseNow; it waits for the writer at  *)
(* most one second, so the writer may still hold a reservation.            *)
releaseIPConnection(c) ==
    /\ phase[c] = "open" /\ closer[c].stage = "done" /\ reader[c].stage = "idle"
    /\ phase' = [phase EXCEPT ![c] = "released"]
    /\ usage' = [usage EXCEPT ![ip[c]] = Settle(Less(@, 1, 0, 0))]
    /\ UNCHANGED <<ip, slots, queue, closed, queueMu, connUsed, global, sender,
                   writer, closer, reader>>

----------------------------------------------------------------------------
(* TrySend and Send.  A peer may still hold the route of a released        *)
(* connection.  Without a slot TrySend gives up and Send waits for one,    *)
(* for done or for its deadline: both are GiveUp.                          *)

StartSend(t, c, bytes) ==
    /\ sender[t].stage = "idle" /\ phase[c] \in {"open", "released"}
    /\ sender' = [sender EXCEPT ![t] = At("slot", c, bytes, 0)]
    /\ UNCHANGED <<phase, ip, slots, queue, closed, queueMu, budgetVars, writer,
                   closer, reader>>

TakeSlot(t) ==
    LET c == sender[t].conn
    IN  /\ sender[t].stage = "slot" /\ slots[c] > 0
        /\ slots' = [slots EXCEPT ![c] = @ - 1]
        /\ sender' = [sender EXCEPT ![t].stage = "lock"]
        /\ UNCHANGED <<phase, ip, queue, closed, queueMu, budgetVars, writer, closer,
                       reader>>

GiveUp(t) ==
    /\ sender[t].stage = "slot"
    /\ sender' = [sender EXCEPT ![t] = Idle]
    /\ UNCHANGED <<phase, ip, slots, queue, closed, queueMu, budgetVars, writer,
                   closer, reader>>

(* Mutant of LockQueue: a closed connection swallows the slot.             *)
LockQueueKeepsSlot(t) ==
    LET c == sender[t].conn
    IN  /\ sender[t].stage = "lock" /\ queueMu[c] = Nil
        /\ \/ /\ c \in closed
              /\ sender' = [sender EXCEPT ![t] = Idle]
              /\ UNCHANGED queueMu
           \/ /\ c \notin closed
              /\ queueMu' = [queueMu EXCEPT ![c] = t]
              /\ sender' = [sender EXCEPT ![t].stage = "reserve", ![t].level = 1]
        /\ UNCHANGED <<phase, ip, slots, queue, closed, budgetVars, writer, closer, reader>>

(* Mutant of LockQueue: the closed flag is not looked at again.            *)
LockQueueUnchecked(t) ==
    LET c == sender[t].conn
    IN  /\ sender[t].stage = "lock" /\ queueMu[c] = Nil
        /\ queueMu' = [queueMu EXCEPT ![c] = t]
        /\ sender' = [sender EXCEPT ![t].stage = "reserve", ![t].level = 1]
        /\ UNCHANGED <<phase, ip, slots, queue, closed, budgetVars, writer, closer, reader>>

(* enqueueWithReservedSlot: closed only changes under queueMu.             *)
LockQueue(t) ==
    LET c == sender[t].conn
    IN  /\ sender[t].stage = "lock" /\ queueMu[c] = Nil
        /\ \/ /\ c \in closed
              /\ slots' = [slots EXCEPT ![c] = @ + 1]
              /\ sender' = [sender EXCEPT ![t] = Idle]
              /\ UNCHANGED queueMu
           \/ /\ c \notin closed
              /\ queueMu' = [queueMu EXCEPT ![c] = t]
              /\ sender' = [sender EXCEPT ![t].stage = "reserve", ![t].level = 1]
              /\ UNCHANGED slots
        /\ UNCHANGED <<phase, ip, queue, closed, budgetVars, writer, closer, reader>>

(* Mutant of ReserveBytes: the rollback skips the budget before the refusal. *)
ReserveBytesRollsBackShort(t) ==
    LET s == sender[t]
    IN  /\ s.stage = "reserve"
        /\ \/ /\ TryReserve(s.conn, s.level, s.bytes)
              /\ sender' = [sender EXCEPT ![t].stage = IF s.level = 3 THEN "enqueue" ELSE @,
                                          ![t].level = @ + 1]
           \/ /\ ~Fits(s.conn, s.level, s.bytes)
              /\ sender' = [sender EXCEPT ![t].stage = IF s.level < 3 THEN "abort" ELSE "rollback",
                                          ![t].level = IF s.level < 3 THEN 0 ELSE 1]
              /\ UNCHANGED budgetVars
        /\ UNCHANGED <<phase, ip, slots, queue, closed, queueMu, writer, closer, reader>>

(* reserveBytes, one budget at a time, rolling back on the first refusal.  *)
ReserveBytes(t) ==
    LET s == sender[t]
    IN  /\ s.stage = "reserve"
        /\ \/ /\ TryReserve(s.conn, s.level, s.bytes)
              /\ sender' = [sender EXCEPT ![t].stage = IF s.level = 3 THEN "enqueue" ELSE @,
                                          ![t].level = @ + 1]
           \/ /\ ~Fits(s.conn, s.level, s.bytes)
              /\ sender' = [sender EXCEPT ![t].stage = IF s.level = 1 THEN "abort" ELSE "rollback",
                                          ![t].level = @ - 1]
              /\ UNCHANGED budgetVars
        /\ UNCHANGED <<phase, ip, slots, queue, closed, queueMu, writer, closer, reader>>

RollBack(t) ==
    LET s == sender[t]
    IN  /\ s.stage = "rollback"
        /\ Release(s.conn, s.level, s.bytes)
        /\ sender' = [sender EXCEPT ![t].stage = IF s.level = 1 THEN "abort" ELSE @,
                                    ![t].level = @ - 1]
        /\ UNCHANGED <<phase, ip, slots, queue, closed, queueMu, writer, closer, reader>>

Abort(t) ==
    LET c == sender[t].conn
    IN  /\ sender[t].stage = "abort"
        /\ slots' = [slots EXCEPT ![c] = @ + 1]
        /\ queueMu' = [queueMu EXCEPT ![c] = Nil]
        /\ sender' = [sender EXCEPT ![t] = Idle]
        /\ UNCHANGED <<phase, ip, queue, closed, budgetVars, writer, closer, reader>>

(* The channel send blocks, holding queueMu, when the queue is full.       *)
Enqueue(t) ==
    LET s == sender[t]
    IN  /\ s.stage = "enqueue" /\ Len(queue[s.conn]) < QueueCapacity
        /\ queue' = [queue EXCEPT ![s.conn] = Append(@, s.bytes)]
        /\ queueMu' = [queueMu EXCEPT ![s.conn] = Nil]
        /\ sender' = [sender EXCEPT ![t] = Idle]
        /\ UNCHANGED <<phase, ip, slots, closed, budgetVars, writer, closer, reader>>

----------------------------------------------------------------------------
(* RunWriter.                                                              *)

WriterTake(c) ==
    /\ writer[c].stage = "select" /\ queue[c] # <<>>
    /\ writer' = [writer EXCEPT ![c] = At("slotBack", c, Head(queue[c]), 3)]
    /\ queue' = [queue EXCEPT ![c] = Tail(@)]
    /\ UNCHANGED <<phase, ip, slots, closed, queueMu, budgetVars, sender, closer, reader>>

(* releaseOutboundSlot blocks when every token is back already.            *)
WriterSlotBack(c) ==
    /\ writer[c].stage = "slotBack" /\ slots[c] < QueueCapacity
    /\ slots' = [slots EXCEPT ![c] = @ + 1]
    /\ writer' = [writer EXCEPT ![c].stage = IF c \in closed THEN "fail" ELSE "write"]
    /\ UNCHANGED <<phase, ip, queue, closed, queueMu, budgetVars, sender, closer, reader>>

(* The socket takes the frame, or fails or times out.                      *)
WriterWrite(c) ==
    /\ writer[c].stage = "write"
    /\ \E ok \in BOOLEAN :
          writer' = [writer EXCEPT ![c].stage = IF ok THEN "complete" ELSE "fail"]
    /\ UNCHANGED <<phase, ip, slots, queue, closed, queueMu, budgetVars, sender,
                   closer, reader>>

(* completeOutbound: give the bytes back, outermost budget first.          *)
WriterRelease(c) ==
    LET w == writer[c]
    IN  /\ w.stage \in {"complete", "fail"}
        /\ Release(c, w.level, w.bytes)
        /\ writer' = [writer EXCEPT ![c] =
                        IF w.level > 1 THEN [w EXCEPT !.level = @ - 1]
                        ELSE At(IF w.stage = "fail" THEN "exit" ELSE "select", c, 0, 0)]
        /\ UNCHANGED <<phase, ip, slots, queue, closed, queueMu, sender, closer, reader>>

(* The select sees done, or ctx.Done: the handler or the server cancels    *)
(* ctx at any time, before or after the connection closes.                 *)
StopWriting(c) ==
    /\ writer[c].stage = "select"
    /\ writer' = [writer EXCEPT ![c].stage = "exit"]
    /\ UNCHANGED <<phase, ip, slots, queue, closed, queueMu, budgetVars, sender,
                   closer, reader>>

WriterStop(c) == c \in closed /\ StopWriting(c)
ContextDone(c) == c \notin closed /\ StopWriting(c)

(* The deferred CloseNow returns once the close is complete.               *)
WriterExit(c) ==
    /\ writer[c].stage = "exit" /\ closer[c].stage = "done"
    /\ writer' = [writer EXCEPT ![c].stage = "gone"]
    /\ UNCHANGED <<phase, ip, slots, queue, closed, queueMu, budgetVars, sender,
                   closer, reader>>

----------------------------------------------------------------------------
(* closeWith, run once by whoever closes the connection first.             *)

CloseStart(c) ==
    /\ phase[c] = "open" /\ closer[c].stage = "idle" /\ queueMu[c] = Nil
    /\ queueMu' = [queueMu EXCEPT ![c] = "closer"]
    /\ closed' = closed \cup {c}
    /\ closer' = [closer EXCEPT ![c] = At("drain", c, 0, 0)]
    /\ UNCHANGED <<phase, ip, slots, queue, budgetVars, sender, writer, reader>>

CloseDrain(c) ==
    /\ closer[c].stage = "drain" /\ queue[c] # <<>>
    /\ closer' = [closer EXCEPT ![c] = At("slotBack", c, Head(queue[c]), 3)]
    /\ queue' = [queue EXCEPT ![c] = Tail(@)]
    /\ UNCHANGED <<phase, ip, slots, closed, queueMu, budgetVars, sender, writer, reader>>

CloseSlotBack(c) ==
    /\ closer[c].stage = "slotBack" /\ slots[c] < QueueCapacity
    /\ slots' = [slots EXCEPT ![c] = @ + 1]
    /\ closer' = [closer EXCEPT ![c].stage = "release"]
    /\ UNCHANGED <<phase, ip, queue, closed, queueMu, budgetVars, sender, writer, reader>>

CloseRelease(c) ==
    LET k == closer[c]
    IN  /\ k.stage = "release"
        /\ Release(c, k.level, k.bytes)
        /\ closer' = [closer EXCEPT ![c] =
                        IF k.level > 1 THEN [k EXCEPT !.level = @ - 1]
                        ELSE At("drain", c, 0, 0)]
        /\ UNCHANGED <<phase, ip, slots, queue, closed, queueMu, sender, writer, reader>>

CloseDone(c) ==
    /\ closer[c].stage = "drain" /\ queue[c] = <<>>
    /\ queueMu' = [queueMu EXCEPT ![c] = Nil]
    /\ closer' = [closer EXCEPT ![c].stage = "done"]
    /\ UNCHANGED <<phase, ip, slots, queue, closed, budgetVars, sender, writer, reader>>

----------------------------------------------------------------------------
(* Read: one maximum-size message is reserved while a message is in flight. *)
(* The connection's own read budget always fits the one reservation.       *)

readVars == <<phase, ip, slots, queue, closed, queueMu, connUsed, sender, writer, closer>>

ReadReserveIP(c) ==
    /\ phase[c] = "open" /\ closer[c].stage # "done" /\ reader[c].stage = "idle"
    /\ usage[ip[c]] # Nil /\ usage[ip[c]].connections > 0
    /\ ReadSize <= IPReadLimit - usage[ip[c]].read
    /\ usage' = [usage EXCEPT ![ip[c]].read = @ + ReadSize]
    /\ reader' = [reader EXCEPT ![c] = At("process", c, ReadSize, 0)]
    /\ UNCHANGED <<global, readVars>>

ReadReserveGlobal(c) ==
    /\ reader[c].stage = "process"
    /\ \/ /\ ReadSize <= GlobalReadLimit - global.read
          /\ global' = [global EXCEPT !.read = @ + ReadSize]
          /\ reader' = [reader EXCEPT ![c].stage = "body"]
       \/ /\ ReadSize > GlobalReadLimit - global.read
          /\ reader' = [reader EXCEPT ![c].stage = "releaseIP"]
          /\ UNCHANGED global
    /\ UNCHANGED <<usage, readVars>>

ReadReleaseGlobal(c) ==
    /\ reader[c].stage = "body"
    /\ global' = [global EXCEPT !.read = @ - ReadSize]
    /\ reader' = [reader EXCEPT ![c].stage = "releaseIP"]
    /\ UNCHANGED <<usage, readVars>>

ReadReleaseIP(c) ==
    /\ reader[c].stage = "releaseIP"
    /\ usage' = [usage EXCEPT ![ip[c]] = Settle(Less(@, 0, 0, ReadSize))]
    /\ reader' = [reader EXCEPT ![c] = Idle]
    /\ UNCHANGED <<global, readVars>>

----------------------------------------------------------------------------
Init ==
    /\ phase = [c \in Conns |-> "new"]
    /\ ip = [c \in Conns |-> Nil]
    /\ slots = [c \in Conns |-> QueueCapacity]
    /\ queue = [c \in Conns |-> <<>>]
    /\ closed = {}
    /\ queueMu = [c \in Conns |-> Nil]
    /\ connUsed = [c \in Conns |-> 0]
    /\ usage = [a \in IPs |-> Nil]
    /\ global = [outbound |-> 0, read |-> 0]
    /\ sender = [t \in Senders |-> Idle]
    /\ writer = [c \in Conns |-> Idle]
    /\ closer = [c \in Conns |-> Idle]
    /\ reader = [c \in Conns |-> Idle]

SenderStep(t) ==
    TakeSlot(t) \/ LockQueue(t) \/ ReserveBytes(t) \/ RollBack(t) \/ Abort(t) \/ Enqueue(t)

WriterStep(c) ==
    \/ WriterTake(c) \/ WriterSlotBack(c) \/ WriterWrite(c) \/ WriterRelease(c)
    \/ WriterStop(c) \/ WriterExit(c)

CloserStep(c) == CloseDrain(c) \/ CloseSlotBack(c) \/ CloseRelease(c) \/ CloseDone(c)

ReaderStep(c) == ReadReserveGlobal(c) \/ ReadReleaseGlobal(c) \/ ReadReleaseIP(c)

Next ==
    \/ \E c \in Conns, a \in IPs : acquireIPConnection(c, a)
    \/ \E t \in Senders, c \in Conns, b \in Sizes : StartSend(t, c, b)
    \/ \E t \in Senders : GiveUp(t) \/ SenderStep(t)
    \/ \E c \in Conns : \/ WriterStep(c) \/ ContextDone(c) \/ CloseStart(c) \/ CloserStep(c)
                        \/ ReadReserveIP(c) \/ ReaderStep(c) \/ releaseIPConnection(c)

Spec == Init /\ [][Next]_vars

----------------------------------------------------------------------------
(* Everybody who holds one of c's slots.                                   *)
SlotHolders(c) ==
    {t \in Senders : sender[t].conn = c /\ sender[t].stage
                        \in {"lock", "reserve", "rollback", "abort", "enqueue"}}
      \cup {"writer" : x \in {y \in {c} : writer[y].stage = "slotBack"}}
      \cup {"closer" : x \in {y \in {c} : closer[y].stage = "slotBack"}}

(* Slots are neither lost nor invented, whoever sends, writes and closes   *)
(* at the same time; so a channel send made with queueMu held (enqueueing, *)
(* or handing a slot back) always finds room and never blocks the lock.    *)
SlotsConserved ==
    \A c \in Conns :
       slots[c] + Len(queue[c]) + Cardinality(SlotHolders(c)) = QueueCapacity

(* Once the close has drained the queue nothing is ever enqueued again:    *)
(* a sender that passed the done check too early meets the closed flag.    *)
NothingAfterClose ==
    \A c \in Conns : closer[c].stage = "done" => queue[c] = <<>>

(* No Release call finds less than it gives back, nor a source IP entry    *)
(* that has already been deleted: the panics of the budgets cannot happen. *)
NoPanic ==
    /\ \A t \in Senders : sender[t].stage = "rollback" =>
          ~WouldPanic(sender[t].conn, sender[t].level, sender[t].bytes)
    /\ \A c \in Conns :
          /\ writer[c].stage \in {"complete", "fail"} =>
                ~WouldPanic(c, writer[c].level, writer[c].bytes)
          /\ closer[c].stage = "release" =>
                ~WouldPanic(c, closer[c].level, closer[c].bytes)
          /\ reader[c].stage = "body" => global.read >= ReadSize
          /\ reader[c].stage # "idle" => usage[ip[c]] # Nil /\ usage[ip[c]].read >= ReadSize
          /\ phase[c] = "open" => usage[ip[c]] # Nil /\ usage[ip[c]].connections > 0

(* The limits hold at every level although levels are reserved one by one. *)
WithinLimits ==
    /\ \A c \in Conns : connUsed[c] \in 0 .. ConnLimit
    /\ \A a \in IPs : usage[a] # Nil =>
          /\ usage[a].connections \in 0 .. MaxConnectionsPerIP
          /\ usage[a].outbound \in 0 .. IPLimit
          /\ usage[a].read \in 0 .. IPReadLimit
    /\ global.outbound \in 0 .. GlobalLimit /\ global.read \in 0 .. GlobalReadLimit

(* When a source IP has no connection and every goroutine is at rest, its  *)
(* entry is gone and no byte is still charged to anybody.                  *)
NothingLeaks ==
    /\ \A a \in IPs : usage[a] # Nil =>
          \/ \E c \in Conns : ip[c] = a /\ phase[c] = "open"
          \/ \E c \in Conns : ip[c] = a /\ writer[c].stage # "gone"
          \/ \E t \in Senders : sender[t].stage \notin {"idle", "slot"}
    /\ (/\ \A c \in Conns : phase[c] \in {"new", "refused", "released"}
        /\ \A c \in Conns : writer[c].stage \in {"idle", "gone"}
        /\ \A t \in Senders : sender[t].stage \in {"idle", "slot"})
          => global = [outbound |-> 0, read |-> 0]

============================================================================
