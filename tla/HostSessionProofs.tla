------------------------- MODULE HostSessionProofs -------------------------
(***************************************************************************)
(* The remote session coordinator is safe for any number of Controllers,   *)
(* sessions and local clients and any limits.                              *)
(*                                                                         *)
(* A session is running from the moment it is registered: while the task   *)
(* records and connects it, and then as the active session.  The argument  *)
(* that a running session can be stopped counts: the registry holds at     *)
(* most that one session, so every local client has at most one event to   *)
(* send, and once the session's own termination is in the channel no new   *)
(* event arises.  Fewer events than there are clients can follow it, and   *)
(* the channel holds as many as there are clients: it is never dropped.    *)
(***************************************************************************)
EXTENDS HostSession, FiniteSetTheorems, SequenceTheorems, TLAPS

Reasons == {"stop", "revoked"}
Events == [s : Sessions, c : Controllers, reason : Reasons]
Requests == [at : {"idle", "terminate", "broadcast", "broadcastStop"},
             c : Controllers \cup {Nil}, events : SUBSET Events]

Starting == {"authenticate", "verify", "register", "record", "connect", "undo", "report"}
Closing == {"unregister", "finish"}
Returns == Resting \cup {"dispatch", "failing", "shutting", "stopped", "dropping", "dead"}
Labels == Returns \cup Starting \cup Closing \cup {"restart"}
Tasks ==
    [at : Labels, c : Controllers \cup {Nil}, s : Sessions \cup {Nil}, ice : Nat,
     env : Envelopes \cup {Nil}, now : Nat, final : {"idle", "failed", Nil},
     ok : Labels \cup {Nil}, err : Labels \cup {Nil}]

Types ==
    /\ registry \in [Sessions -> Controllers \cup {Nil}]
    /\ terms \in Seq(Events)
    /\ ipc \in [Clients -> Requests]
    /\ pending \in PendingSessions \cup {Nil}
    /\ active \in ActiveSessions \cup {Nil}
    /\ task \in Tasks
    /\ clock \in Nat

(* What the task's label says about its session, the active one and the    *)
(* place it returns to.                                                    *)
TaskOK ==
    /\ task.now <= clock
    /\ task.at \in Starting \cup Closing =>
         active = Nil /\ task.c \in Controllers /\ task.s \in Sessions
    /\ task.at = "restart" => active # Nil /\ active.peer = "Reconnecting"
    /\ task.at = "dispatch" => task.env \in Envelopes
    /\ task.at \in Closing =>
         /\ task.final \in {"idle", "failed"} /\ task.ok \in Returns
         /\ task.ok = "dispatch" => task.env \in Envelopes
    /\ task.at = "unregister" => task.err \in Returns \ {"dispatch"}

(* A client has at most one event to send, and none before it has looked.  *)
ClientsOK ==
    /\ \A k \in Clients : \A e, f \in ipc[k].events : e = f
    /\ \A k \in Clients : ipc[k].at \in {"idle", "terminate"} => ipc[k].events = {}
    /\ \A k \in Clients : ipc[k].at = "terminate" => ipc[k].c \in Controllers
    /\ \A k \in Clients : ipc[k].at = "broadcastStop" => "stop" \in LocalRequests
    /\ Len(terms) <= TerminationCapacity

(* The session the coordinator is responsible for.                         *)
Running(s, c) ==
    \/ active # Nil /\ active.s = s /\ active.c = c
    \/ task.at \in {"record", "connect"} /\ task.s = s /\ task.c = c

HaveToSend == {k \in Clients : ipc[k].events # {}}

Sending(s, c) == \E k \in Clients : \E e \in ipc[k].events : e.s = s /\ e.c = c

(* An event of the session that the events behind it, and those that may   *)
(* still come, are too few to push out of the channel.                     *)
Queued(s, c) ==
    \E i \in 1..Len(terms) :
       /\ terms[i].s = s /\ terms[i].c = c
       /\ (Len(terms) - i) + Cardinality(HaveToSend) < Cardinality(Clients)

Reachable ==
    \A s \in Sessions, c \in Controllers :
       Running(s, c) => registry[s] = c \/ Sending(s, c) \/ Queued(s, c)

(* A registered session past its second grant check whose Controller has   *)
(* no grant any more is about to be terminated.                            *)
Confirmed(s, c) ==
    \/ active # Nil /\ active.s = s /\ active.c = c
    \/ task.at = "connect" /\ task.s = s /\ task.c = c
RevokerAtWork ==
    \A s \in Sessions, c \in Controllers :
       Confirmed(s, c) /\ c \notin grants /\ registry[s] = c => BeingRevoked(c)

(* The status is the session's, or Idle that an emergency stop published.  *)
Shown ==
    IF active = Nil
    THEN status.state \in {"idle", "failed"}
    ELSE \/ "stop" \in LocalRequests /\ status = IdleStatus
         \/ /\ status.s = active.s
            /\ status.state = IF active.peer = "Connected" THEN "connected"
                              ELSE IF active.deadline # Nil THEN "reconnecting"
                              ELSE "connecting"

(* The labels at which the status is the coordinator's last word.          *)
Settled == Resting \cup {"dispatch", "restart", "failing", "authenticate"}
StatusOK == task.at \in Settled => Shown

HostInv ==
    /\ Types /\ TaskOK /\ ClientsOK
    /\ RegistryTracksSession /\ Reachable /\ RevokerAtWork
    /\ WindowBounded /\ StatusOK
----------------------------------------------------------------------------
(* The operators the handlers are built from.                              *)

(* The limits are numbers, and Nil is none of the values it stands beside. *)
LEMMA Limits ==
  /\ MaxPendingIce \in Nat /\ ReconnectLifetime \in Nat /\ ReconnectLifetime > 0
  /\ TerminationCapacity \in Nat /\ TerminationCapacity > 0 /\ IsFiniteSet(Clients)
  /\ Cardinality(Clients) <= TerminationCapacity
  /\ Nil \notin Nat /\ Nil \notin Controllers /\ Nil \notin Sessions
  /\ Nil \notin PendingSessions /\ Nil \notin ActiveSessions
  BY HostAssumption DEF HostAssumption

(* A pending session that takes an envelope in is a pending session.       *)
LEMMA AbsorbType ==
  ASSUME NEW p \in PendingSessions, NEW e
  PROVE  Absorb(p, e) \in PendingSessions
  <1>1. CASE e.kind = "ice"
    BY <1>1, Limits DEF Absorb, PendingSessions
  <1>2. CASE e.kind # "ice"
    BY <1>2 DEF Absorb, PendingSessions
  <1> QED
    BY <1>1, <1>2

(* Suspending a session changes nothing but its peer and its deadline,     *)
(* which it sets unless one is running.                                    *)
LEMMA SuspendedType ==
  ASSUME active \in ActiveSessions, NEW now \in Nat
  PROVE  /\ Suspended(now) \in ActiveSessions
         /\ Suspended(now).c = active.c /\ Suspended(now).s = active.s
         /\ Suspended(now).gen = active.gen
         /\ Suspended(now).peer = "Reconnecting"
         /\ Suspended(now).reconnect = active.reconnect
         /\ Suspended(now).deadline =
              IF active.deadline = Nil THEN now + ReconnectLifetime ELSE active.deadline
  <1> DEFINE d == IF active.deadline = Nil THEN now + ReconnectLifetime ELSE active.deadline
  <1>1. active.deadline \in Nat \cup {Nil}
    BY DEF ActiveSessions
  <1>2. d \in Nat \cup {Nil}
    BY <1>1, Limits
  <1>3. Suspended(now) = [active EXCEPT !.peer = "Reconnecting", !.deadline = d]
    BY DEF Suspended
  <1> HIDE DEF d
  <1>4. /\ Suspended(now) \in ActiveSessions
        /\ Suspended(now).c = active.c /\ Suspended(now).s = active.s
        /\ Suspended(now).gen = active.gen
        /\ Suspended(now).peer = "Reconnecting"
        /\ Suspended(now).reconnect = active.reconnect
        /\ Suspended(now).deadline = d
    BY <1>2, <1>3 DEF ActiveSessions
  <1> QED
    BY <1>4 DEF d

(* A task that goes to a label has nothing in hand.                        *)
LEMMA AtType ==
  ASSUME NEW label \in Labels
  PROVE  /\ At(label) \in Tasks /\ At(label).at = label
         /\ At(label).now = 0
  BY DEF At, Tasks

(* A task that advances keeps what it has in hand.                         *)
LEMMA AdvanceType ==
  ASSUME task \in Tasks, NEW label \in Labels, Advance(label)
  PROVE  /\ task' \in Tasks /\ task'.at = label
         /\ task'.c = task.c /\ task'.s = task.s /\ task'.now = task.now
  BY DEF Advance, Tasks

(* close_active leaves the coordinator without a session and the task with *)
(* the session to unregister.                                              *)
LEMMA CloseType ==
  ASSUME active \in ActiveSessions, task \in Tasks, NEW final \in {"idle", "failed"},
         NEW ok \in Labels, NEW err \in Labels, close_active(final, ok, err)
  PROVE  /\ active' = Nil /\ task' \in Tasks /\ task'.at = "unregister"
         /\ task'.c = active.c /\ task'.s = active.s /\ task'.now = task.now
         /\ task'.final = final /\ task'.ok = ok /\ task'.err = err
  <1>1. active.c \in Controllers /\ active.s \in Sessions /\ "unregister" \in Labels
    BY DEF ActiveSessions, Labels, Closing
  <1> QED
    BY <1>1 DEF close_active, Tasks
----------------------------------------------------------------------------
(* Most handlers leave the registry, the grants, the channel and the local *)
(* clients alone, and the coordinator's session is the one it was or none. *)

(* The session that a registry entry may belong to.                        *)
Holds(s, c) ==
    \/ active # Nil /\ active.s = s /\ active.c = c
    \/ /\ task.at \in {"record", "connect", "undo", "unregister"}
       /\ task.s = s /\ task.c = c

Calm ==
    /\ UNCHANGED <<grants, registry, terms, ipc>>
    /\ \A s \in Sessions, c \in Controllers :
          /\ Running(s, c)' => Running(s, c)
          /\ Confirmed(s, c)' => Confirmed(s, c)
          /\ Holds(s, c) => Holds(s, c)'

(* A calm step keeps what is said of the registry and the terminations.    *)
LEMMA CalmKeeps ==
  ASSUME Types, ClientsOK, RegistryTracksSession, Reachable, RevokerAtWork, Calm
  PROVE  ClientsOK' /\ RegistryTracksSession' /\ Reachable' /\ RevokerAtWork'
  <1>1. UNCHANGED <<grants, registry, terms, ipc>>
    BY DEF Calm
  <1>2. ClientsOK'
    BY <1>1 DEF ClientsOK
  <1>3. RegistryTracksSession'
    <2> SUFFICES ASSUME NEW s \in Sessions, registry[s] # Nil
                 PROVE  Holds(s, registry[s])'
      BY <1>1 DEF RegistryTracksSession, Holds
    <2>1. Holds(s, registry[s]) /\ registry[s] \in Controllers
      BY DEF RegistryTracksSession, Holds, Types
    <2>2. \A c \in Controllers : Holds(s, c) => Holds(s, c)'
      BY DEF Calm
    <2> QED
      BY <1>1, <2>1, <2>2 DEF Holds
  <1>4. Reachable'
    <2> SUFFICES ASSUME NEW s \in Sessions, NEW c \in Controllers, Running(s, c)'
                 PROVE  (registry[s] = c \/ Sending(s, c) \/ Queued(s, c))'
      BY DEF Reachable
    <2>1. registry[s] = c \/ Sending(s, c) \/ Queued(s, c)
      BY DEF Calm, Reachable
    <2> QED
      BY <1>1, <2>1 DEF Sending, Queued, HaveToSend
  <1>5. RevokerAtWork'
    <2> SUFFICES ASSUME NEW s \in Sessions, NEW c \in Controllers, Confirmed(s, c)',
                        c \notin grants', registry'[s] = c
                 PROVE  BeingRevoked(c)'
      BY DEF RevokerAtWork
    <2>1. BeingRevoked(c)
      BY <1>1 DEF Calm, RevokerAtWork
    <2> QED
      BY <1>1, <2>1 DEF BeingRevoked
  <1> QED
    BY <1>2, <1>3, <1>4, <1>5

(* A step that closes the active session, wherever the task is.            *)
LEMMA CloseIsCalm ==
  ASSUME Types, TaskOK, active # Nil, NEW final \in {"idle", "failed"},
         NEW ok \in Returns \ {"dispatch"}, NEW err \in Returns \ {"dispatch"},
         close_active(final, ok, err),
         UNCHANGED <<grants, registry, terms, ipc, clock>>,
         pending' \in PendingSessions \cup {Nil}
  PROVE  Types' /\ TaskOK' /\ Calm
  <1>1. active \in ActiveSessions /\ task \in Tasks /\ clock \in Nat /\ task.now <= clock
    BY DEF Types, TaskOK
  <1>2. ok \in Labels /\ err \in Labels
    BY DEF Labels
  <1>3. /\ active' = Nil /\ task' \in Tasks /\ task'.at = "unregister"
        /\ task'.c = active.c /\ task'.s = active.s /\ task'.now = task.now
        /\ task'.final = final /\ task'.ok = ok /\ task'.err = err
    BY <1>1, <1>2, CloseType
  <1>4. Types'
    BY <1>3 DEF Types
  <1>5. active.c \in Controllers /\ active.s \in Sessions
    BY <1>1 DEF ActiveSessions
  <1>6. TaskOK'
    BY <1>1, <1>3, <1>5 DEF TaskOK, Starting, Closing
  <1>7. task.at \notin Starting \cup Closing
    BY DEF TaskOK
  <1>8. Calm
    BY <1>3, <1>7 DEF Calm, Running, Confirmed, Holds, Starting, Closing
  <1> QED
    BY <1>4, <1>6, <1>8

(* A step that takes the task to a label at which it has nothing in hand,  *)
(* from one at which it holds no registry entry.                           *)
LEMMA GotoIsCalm ==
  ASSUME Types, TaskOK, NEW label \in Returns \ {"dispatch"}, Goto(label),
         task.at \notin {"record", "connect", "undo", "unregister"},
         UNCHANGED <<grants, registry, terms, ipc, clock>>,
         active' \in ActiveSessions \cup {Nil},
         active # Nil => active' # Nil /\ active'.s = active.s /\ active'.c = active.c,
         active = Nil => active' = Nil,
         pending' \in PendingSessions \cup {Nil}
  PROVE  Types' /\ TaskOK' /\ Calm
  <1>1. label \in Labels
    BY DEF Labels
  <1>2. task' \in Tasks /\ task'.at = label /\ task'.now = 0
    BY <1>1, AtType DEF Goto
  <1>3. label \notin Starting \cup Closing \cup {"restart", "dispatch"}
    BY DEF Returns, Resting, Starting, Closing
  <1>4. Types'
    BY <1>2 DEF Types
  <1>5. TaskOK'
    BY <1>2, <1>3 DEF TaskOK, Types, Closing
  <1>6. Calm
    BY <1>2, <1>3 DEF Calm, Running, Confirmed, Holds, Starting
  <1> QED
    BY <1>4, <1>5, <1>6
----------------------------------------------------------------------------
(* The calm handlers, one lemma each: they keep what is said of the task,  *)
(* the active session, its reconnect window and the status.                *)

CoordinatorOK == Types /\ TaskOK /\ WindowBounded /\ StatusOK

(* A handler that closes the active session.                               *)
LEMMA CloseKeeps ==
  ASSUME CoordinatorOK, active # Nil, NEW final \in {"idle", "failed"},
         NEW ok \in Returns \ {"dispatch"}, NEW err \in Returns \ {"dispatch"},
         close_active(final, ok, err),
         UNCHANGED <<grants, registry, terms, ipc, clock>>,
         pending' \in PendingSessions \cup {Nil}
  PROVE  CoordinatorOK' /\ Calm
  <1>1. Types' /\ TaskOK' /\ Calm
    BY CloseIsCalm DEF CoordinatorOK
  <1>2. active' = Nil /\ task'.at = "unregister"
    <2>1. active \in ActiveSessions /\ task \in Tasks /\ ok \in Labels /\ err \in Labels
      BY DEF CoordinatorOK, Types, Labels
    <2> QED
      BY <2>1, CloseType
  <1>3. WindowBounded' /\ StatusOK'
    BY <1>2 DEF WindowBounded, StatusOK, Settled, Resting
  <1> QED
    BY <1>1, <1>3 DEF CoordinatorOK

(* A handler that leaves the session and the status as they are.           *)
LEMMA GotoKeeps ==
  ASSUME CoordinatorOK, NEW label \in Returns \ {"dispatch"}, Goto(label),
         task.at \in Settled,
         UNCHANGED <<grants, registry, terms, ipc, clock, active, status>>,
         pending' \in PendingSessions \cup {Nil}
  PROVE  CoordinatorOK' /\ Calm
  <1>1. Types' /\ TaskOK' /\ Calm
    <2>1. task.at \notin {"record", "connect", "undo", "unregister"}
      BY DEF Settled, Resting
    <2>2. active' \in ActiveSessions \cup {Nil}
      BY DEF CoordinatorOK, Types
    <2> QED
      BY <2>1, <2>2, GotoIsCalm DEF CoordinatorOK
  <1>2. WindowBounded'
    BY DEF CoordinatorOK, WindowBounded
  <1>3. Shown
    BY DEF CoordinatorOK, StatusOK, Settled
  <1>4. StatusOK'
    BY <1>3 DEF StatusOK, Shown
  <1> QED
    BY <1>1, <1>2, <1>4 DEF CoordinatorOK

(* A session that has just been suspended has a bounded window, and is     *)
(* shown as reconnecting.                                                  *)
LEMMA SuspendKeeps ==
  ASSUME CoordinatorOK, active # Nil, NEW now \in Nat, now <= clock, clock' = clock,
         active' \in ActiveSessions, active'.s = active.s,
         active'.peer = "Reconnecting", active'.deadline = Suspended(now).deadline,
         status' = Status("reconnecting", active.s)
  PROVE  WindowBounded' /\ Shown'
  <1>1. active \in ActiveSessions /\ clock \in Nat
    BY DEF CoordinatorOK, Types
  <1>2. active.deadline \in Nat \cup {Nil}
    BY <1>1 DEF ActiveSessions
  <1>3. active.deadline # Nil => active.deadline <= clock + ReconnectLifetime
    BY DEF CoordinatorOK, WindowBounded
  <1>4. active'.deadline =
          IF active.deadline = Nil THEN now + ReconnectLifetime ELSE active.deadline
    BY <1>1, SuspendedType
  <1>5. active'.deadline \in Nat /\ active'.deadline # Nil
        /\ active'.deadline <= clock + ReconnectLifetime
    BY <1>1, <1>2, <1>3, <1>4, Limits
  <1>6. WindowBounded'
    BY <1>5 DEF WindowBounded
  <1>7. active' # Nil
    BY Limits
  <1>8. Shown'
    BY <1>5, <1>7 DEF Shown, Status
  <1> QED
    BY <1>6, <1>8
(* The closing task publishes the final status and goes where it was told. *)
LEMMA CloseFinishKeeps ==
  ASSUME CoordinatorOK, CloseFinish
  PROVE  CoordinatorOK' /\ Calm
  <1>1. /\ task.at = "finish" /\ task \in Tasks /\ active = Nil
        /\ task.ok \in Returns /\ task.final \in {"idle", "failed"}
        /\ task.ok = "dispatch" => task.env \in Envelopes
        /\ task.now <= clock /\ clock \in Nat
    BY DEF CloseFinish, CoordinatorOK, Types, TaskOK, Closing
  <1>2. UNCHANGED <<grants, registry, terms, ipc, pending, active, clock>>
    BY DEF CloseFinish, sharedVars, coordinatorVars
  <1>3. status'.state \in {"idle", "failed"}
    BY <1>1 DEF CloseFinish, IdleStatus, Status
  <1>4. /\ task' \in Tasks /\ task'.at = task.ok /\ task'.now <= clock
        /\ task.ok = "dispatch" => task'.env \in Envelopes
    <2>1. CASE task.ok = "dispatch"
      BY <1>1, <2>1 DEF CloseFinish, At, Tasks, Labels
    <2>2. CASE task.ok # "dispatch"
      <3>1. task.ok \in Labels
        BY <1>1 DEF Labels
      <3> QED
        BY <1>1, <2>2, <3>1, AtType DEF CloseFinish
    <2> QED
      BY <2>1, <2>2
  <1>5. task'.at \notin Starting \cup Closing \cup {"restart"}
    BY <1>1, <1>4 DEF Returns, Resting, Starting, Closing
  <1>6. Types'
    BY <1>2, <1>4 DEF CoordinatorOK, Types
  <1>7. TaskOK'
    BY <1>1, <1>2, <1>4, <1>5 DEF TaskOK, Closing
  <1>8. WindowBounded' /\ StatusOK'
    BY <1>1, <1>2, <1>3 DEF WindowBounded, StatusOK, Shown
  <1>9. Calm
    BY <1>1, <1>2, <1>5 DEF Calm, Running, Confirmed, Holds, Starting
  <1> QED
    BY <1>6, <1>7, <1>8, <1>9 DEF CoordinatorOK

(* restart_active needs a suspended session, so its window stays bounded.  *)
LEMMA RestartKeeps ==
  ASSUME CoordinatorOK, restart_active
  PROVE  CoordinatorOK' /\ Calm
  <1>1. /\ task.at = "restart" /\ active \in ActiveSessions /\ active # Nil
        /\ active.peer = "Reconnecting" /\ clock \in Nat
        /\ pending \in PendingSessions \cup {Nil}
    BY DEF restart_active, CoordinatorOK, Types, TaskOK
  <1>2. /\ UNCHANGED <<grants, registry, terms, ipc, pending, status, clock>>
        /\ Goto("online") /\ "online" \in Returns \ {"dispatch"}
    BY DEF restart_active, serviceVars, Returns, Resting
  <1>3. active.deadline # Nil /\ active.deadline <= clock + ReconnectLifetime
    BY <1>1 DEF CoordinatorOK, WindowBounded
  <1>4. CASE active' = active
    BY <1>1, <1>2, <1>4, GotoKeeps DEF Settled
  <1>5. CASE active' # active
    <2>1. PICK complete \in BOOLEAN :
             active' = [accept_reconnect_offer(active) EXCEPT
                          !.gen = IF complete THEN @ + 1 ELSE @]
      BY <1>5 DEF restart_active
    <2>2. /\ active' \in ActiveSessions /\ active'.s = active.s /\ active'.c = active.c
          /\ active'.peer = "Negotiating" /\ active'.deadline = active.deadline
      <3> DEFINE g == IF complete THEN active.gen + 1 ELSE active.gen
      <3>1. active.gen \in Nat /\ g \in Nat
        BY <1>1 DEF ActiveSessions
      <3>2. active' = [active EXCEPT !.peer = "Negotiating", !.gen = g]
        BY <1>1, <2>1 DEF accept_reconnect_offer, ActiveSessions
      <3> HIDE DEF g
      <3> QED
        BY <1>1, <3>1, <3>2 DEF ActiveSessions
    <2>3. active' # Nil
      BY <2>2, Limits
    <2>4. Types' /\ TaskOK' /\ Calm
      BY <1>1, <1>2, <2>2, <2>3, GotoIsCalm DEF CoordinatorOK
    <2>5. WindowBounded'
      BY <1>2, <1>3, <2>2 DEF WindowBounded
    <2>6. Shown
      BY <1>1 DEF CoordinatorOK, StatusOK, Settled
    <2>7. Shown'
      BY <1>1, <1>2, <1>3, <2>2, <2>3, <2>6 DEF Shown
    <2> QED
      BY <2>4, <2>5, <2>7 DEF CoordinatorOK, StatusOK
  <1> QED
    BY <1>4, <1>5

(* The steps of a start that hand the session on.                          *)
LEMMA StartKeeps ==
  ASSUME CoordinatorOK, Authenticate \/ verify_remote_offer \/ Report \/ Activate
  PROVE  CoordinatorOK' /\ Calm
  <1>1. /\ task.at \in {"authenticate", "verify", "report", "connect"} /\ task \in Tasks
        /\ task.c \in Controllers /\ task.s \in Sessions /\ active = Nil
        /\ task.now <= clock /\ clock \in Nat
    BY DEF Authenticate, verify_remote_offer, Report, Activate, CoordinatorOK, Types, TaskOK,
           Starting
  <1>2. UNCHANGED <<grants, registry, terms, ipc, pending, clock>>
    BY DEF Authenticate, verify_remote_offer, Report, Activate, startVars
  <1>3. {"verify", "register", "report", "online"} \subseteq Labels
    BY DEF Labels, Returns, Resting, Starting
  <1>4. CASE Authenticate \/ verify_remote_offer
    <2>1. /\ task'.at \in {"verify", "register", "report"} /\ task' \in Tasks
          /\ task'.c = task.c /\ task'.s = task.s /\ task'.now = task.now
          /\ active' = Nil /\ task.at \in {"authenticate", "verify"}
      BY <1>1, <1>3, <1>4, AdvanceType DEF Authenticate, verify_remote_offer
    <2>2. Types' /\ TaskOK'
      BY <1>1, <1>2, <2>1 DEF CoordinatorOK, Types, TaskOK, Starting, Closing
    <2>3. WindowBounded' /\ StatusOK' /\ Calm
      BY <1>1, <1>2, <2>1
         DEF WindowBounded, StatusOK, Settled, Resting, Calm, Running, Confirmed, Holds
    <2> QED
      BY <2>2, <2>3 DEF CoordinatorOK
  <1>5. CASE Report
    <2>1. /\ status'.state = "failed" /\ task.at = "report" /\ active' = active
          /\ Goto("online") /\ "online" \in Returns \ {"dispatch"}
      BY <1>5 DEF Report, Status, Returns, Resting
    <2>2. Types' /\ TaskOK' /\ Calm
      BY <1>1, <1>2, <2>1, GotoIsCalm DEF CoordinatorOK, Types
    <2>3. WindowBounded' /\ StatusOK'
      BY <1>1, <2>1 DEF WindowBounded, StatusOK, Shown
    <2> QED
      BY <2>2, <2>3 DEF CoordinatorOK
  <1>6. CASE Activate
    <2>1. /\ active' = accept_offer(task.c, task.s) /\ task.at = "connect"
          /\ status' = Status("connecting", task.s) /\ task' = At("online")
      BY <1>6 DEF Activate, Goto
    <2>2. /\ active' \in ActiveSessions /\ active'.s = task.s /\ active'.c = task.c
          /\ active'.peer = "Negotiating" /\ active'.gen = 0 /\ active'.deadline = Nil
      BY <1>1, <2>1 DEF accept_offer, ActiveSessions
    <2>3. active' # Nil
      BY <2>2, Limits
    <2>4. task' \in Tasks /\ task'.at = "online" /\ task'.now = 0
      BY <1>3, <2>1, AtType
    <2>5. Types' /\ TaskOK'
      BY <1>1, <1>2, <2>2, <2>4 DEF CoordinatorOK, Types, TaskOK, Starting, Closing
    <2>6. WindowBounded'
      BY <2>2 DEF WindowBounded
    <2>7. StatusOK'
      BY <2>1, <2>2, <2>3 DEF StatusOK, Shown, Status
    <2>8. Calm
      BY <1>1, <1>2, <2>1, <2>2, <2>3, <2>4 DEF Calm, Running, Confirmed, Holds
    <2> QED
      BY <2>5, <2>6, <2>7, <2>8 DEF CoordinatorOK
  <1> QED
    BY <1>4, <1>5, <1>6
(* An authentication, or the parts that complete an offer, suspend the     *)
(* active session; a failed release leaves the task failing.               *)
LEMMA SuspendHandlerKeeps ==
  ASSUME CoordinatorOK, task.at = "dispatch", active # Nil,
         NEW e \in Envelopes, Suspend(e),
         UNCHANGED <<grants, registry, terms, ipc, clock, pending>>
  PROVE  CoordinatorOK' /\ Calm
  <1>1. /\ active \in ActiveSessions /\ task \in Tasks /\ clock \in Nat
        /\ pending' \in PendingSessions \cup {Nil}
        /\ task.now \in Nat /\ task.now <= clock
    BY DEF CoordinatorOK, Types, TaskOK, Tasks
  <1>2. CASE Goto("failing") /\ UNCHANGED <<active, status>>
    BY <1>1, <1>2, GotoKeeps DEF Settled, Returns
  <1>3. CASE ~(Goto("failing") /\ UNCHANGED <<active, status>>)
    <2> DEFINE p     == ReconnectPending(task.now)
               mine  == e.s = active.s
               ready == mine /\ Ready(p, e)
               r     == IF ready THEN Nil ELSE IF mine THEN Absorb(p, e) ELSE p
    <2>1. /\ active' = [Suspended(task.now) EXCEPT !.reconnect = r]
          /\ task' = IF ready THEN [At("restart") EXCEPT !.ice = Absorb(p, e).ice]
                     ELSE At("online")
          /\ status' = Status("reconnecting", active.s)
      BY <1>3 DEF Suspend
    <2>2. p \in PendingSessions
      <3>1. active.c \in Controllers /\ active.s \in Sessions
            /\ active.reconnect \in PendingSessions \cup {Nil}
        BY <1>1 DEF ActiveSessions
      <3>2. NewPending(active.c, active.s, task.now) \in PendingSessions
        BY <1>1, <3>1 DEF NewPending, PendingSessions
      <3> QED
        BY <3>1, <3>2 DEF ReconnectPending
    <2>3. Absorb(p, e) \in PendingSessions
      BY <2>2, AbsorbType
    <2>4. Absorb(p, e).ice \in Nat
      BY <2>3 DEF PendingSessions
    <2>5. r \in PendingSessions \cup {Nil}
      BY <2>2, <2>3
    <2> HIDE DEF r, ready, p
    <2>6. /\ active' \in ActiveSessions /\ active'.s = active.s /\ active'.c = active.c
          /\ active'.peer = "Reconnecting" /\ active'.deadline = Suspended(task.now).deadline
      <3>1. /\ Suspended(task.now) \in ActiveSessions
            /\ Suspended(task.now).c = active.c /\ Suspended(task.now).s = active.s
            /\ Suspended(task.now).peer = "Reconnecting"
        BY <1>1, SuspendedType
      <3> QED
        BY <2>1, <2>5, <3>1 DEF ActiveSessions
    <2>7. WindowBounded' /\ Shown'
      BY <1>1, <2>1, <2>6, SuspendKeeps
    <2>8. active' # Nil
      BY <2>6, Limits
    <2>9. CASE ready
      <3>1. task' = [At("restart") EXCEPT !.ice = Absorb(p, e).ice]
        BY <2>1, <2>9
      <3>2. task' \in Tasks /\ task'.at = "restart" /\ task'.now = 0
        BY <2>4, <3>1 DEF At, Tasks, Labels
      <3>3. Types' /\ TaskOK'
        BY <1>1, <2>6, <2>8, <3>2 DEF CoordinatorOK, Types, TaskOK, Starting, Closing
      <3>4. Calm
        BY <2>6, <2>8, <3>2 DEF Calm, Running, Confirmed, Holds
      <3> QED
        BY <2>7, <3>3, <3>4 DEF CoordinatorOK, StatusOK
    <2>10. CASE ~ready
      <3>1. Goto("online") /\ "online" \in Returns \ {"dispatch"}
        BY <2>1, <2>10 DEF Goto, Returns, Resting
      <3>2. Types' /\ TaskOK' /\ Calm
        BY <1>1, <2>6, <2>8, <3>1, GotoIsCalm DEF CoordinatorOK
      <3> QED
        BY <2>7, <3>2 DEF CoordinatorOK, StatusOK
    <2> QED
      BY <2>9, <2>10
  <1> QED
    BY <1>2, <1>3

(* An envelope for the active session.                                     *)
LEMMA ActiveEnvelopeKeeps ==
  ASSUME CoordinatorOK, task.at = "dispatch", active # Nil,
         NEW e \in Envelopes, handle_active_envelope(e),
         UNCHANGED <<grants, registry, terms, ipc, clock, pending>>
  PROVE  CoordinatorOK' /\ Calm
  <1>1. /\ active \in ActiveSessions /\ task \in Tasks /\ clock \in Nat
        /\ pending' \in PendingSessions \cup {Nil}
        /\ task.now \in Nat /\ task.at \in Settled
    BY DEF CoordinatorOK, Types, Tasks, Settled
  <1>2. {"online", "failing"} \subseteq Returns \ {"dispatch"}
    BY DEF Returns, Resting
  <1>3. CASE Ignore
    BY <1>1, <1>2, <1>3, GotoKeeps DEF Ignore
  <1>4. CASE Suspend(e)
    BY <1>4, SuspendHandlerKeeps
  <1>5. CASE close_active("idle", "online", "failing")
    BY <1>1, <1>2, <1>5, CloseKeeps
  <1>6. CASE AddIce(e)
    <2>1. CASE UNCHANGED active
      BY <1>1, <1>2, <1>6, <2>1, GotoKeeps DEF AddIce
    <2>2. CASE active' # active
      <3> DEFINE r == Absorb(ReconnectPending(task.now), e)
      <3>1. /\ active' = [active EXCEPT !.reconnect = r]
            /\ Goto("online") /\ UNCHANGED status
        BY <1>6, <2>2 DEF AddIce
      <3>2. r \in PendingSessions
        <4>1. active.c \in Controllers /\ active.s \in Sessions
              /\ active.reconnect \in PendingSessions \cup {Nil}
          BY <1>1 DEF ActiveSessions
        <4>2. NewPending(active.c, active.s, task.now) \in PendingSessions
          BY <1>1, <4>1 DEF NewPending, PendingSessions
        <4>3. ReconnectPending(task.now) \in PendingSessions
          BY <4>1, <4>2 DEF ReconnectPending
        <4> QED
          BY <4>3, AbsorbType
      <3> HIDE DEF r
      <3>3. /\ active' \in ActiveSessions /\ active'.s = active.s /\ active'.c = active.c
            /\ active'.peer = active.peer /\ active'.deadline = active.deadline
            /\ active'.gen = active.gen
        BY <1>1, <3>1, <3>2 DEF ActiveSessions
      <3>4. active' # Nil
        BY <3>3, Limits
      <3>5. Types' /\ TaskOK' /\ Calm
        BY <1>1, <1>2, <3>1, <3>3, <3>4, GotoIsCalm DEF CoordinatorOK
      <3>6. WindowBounded'
        BY <3>3 DEF CoordinatorOK, WindowBounded
      <3>7. Shown
        BY <1>1 DEF CoordinatorOK, StatusOK
      <3>8. Shown'
        BY <3>1, <3>3, <3>4, <3>7 DEF Shown
      <3> QED
        BY <3>5, <3>6, <3>8 DEF CoordinatorOK, StatusOK
    <2> QED
      BY <2>1, <2>2
  <1> QED
    BY <1>3, <1>4, <1>5, <1>6 DEF handle_active_envelope
(* Dispatch: an ignored envelope, one for the active session, or a part of *)
(* an offer, the last of which starts a session.                           *)
LEMMA DispatchKeeps ==
  ASSUME CoordinatorOK, Dispatch
  PROVE  CoordinatorOK' /\ Calm
  <1> DEFINE e == task.env
  <1>1. /\ task.at = "dispatch" /\ task \in Tasks /\ e \in Envelopes
        /\ UNCHANGED <<grants, registry, terms, ipc, clock>>
        /\ pending \in PendingSessions \cup {Nil} /\ active \in ActiveSessions \cup {Nil}
        /\ task.now \in Nat /\ task.now <= clock /\ clock \in Nat
    BY DEF CoordinatorOK, Types, TaskOK, Tasks, Dispatch, sharedVars
  <1>2. task.at \in Settled /\ "online" \in Returns \ {"dispatch"}
    BY <1>1 DEF Settled, Returns, Resting
  <1>3. CASE Ignore /\ UNCHANGED pending
    BY <1>1, <1>2, <1>3, GotoKeeps DEF Ignore
  <1>4. CASE active # Nil /\ handle_active_envelope(e) /\ UNCHANGED pending
    BY <1>1, <1>4, ActiveEnvelopeKeeps
  <1>5. CASE active = Nil /\ handle_pending_envelope(e) /\ UNCHANGED <<active, status>>
    <2> DEFINE p == IF pending = Nil THEN NewPending(e.c, e.s, task.now) ELSE pending
    <2>1. e.c \in Controllers /\ e.s \in Sessions
      BY <1>1 DEF Envelopes
    <2>2. p \in PendingSessions
      BY <1>1, <2>1 DEF NewPending, PendingSessions
    <2>3. Absorb(p, e) \in PendingSessions
      BY <2>2, AbsorbType
    <2>4. pending' \in PendingSessions \cup {Nil}
      BY <1>1, <1>5, <2>3 DEF handle_pending_envelope
    <2>5. CASE Goto("online")
      BY <1>1, <1>2, <1>5, <2>4, <2>5, GotoKeeps
    <2>6. CASE ~Goto("online")
      <3>1. task' = [At("authenticate") EXCEPT !.c = e.c, !.s = e.s,
                                         !.ice = Absorb(p, e).ice, !.now = task.now]
        BY <1>5, <2>6 DEF handle_pending_envelope, Goto
      <3>2. Absorb(p, e).ice \in Nat
        BY <2>3 DEF PendingSessions
      <3> HIDE DEF p, e
      <3>3. /\ task' \in Tasks /\ task'.at = "authenticate" /\ task'.now = task.now
            /\ task'.c = e.c /\ task'.s = e.s
        BY <1>1, <2>1, <3>1, <3>2 DEF At, Tasks, Labels, Starting
      <3>4. Types' /\ TaskOK'
        BY <1>1, <1>5, <2>1, <2>4, <3>3 DEF CoordinatorOK, Types, TaskOK, Starting, Closing
      <3>5. Calm
        BY <1>1, <1>5, <3>3 DEF Calm, Running, Confirmed, Holds
      <3>6. Shown
        BY <1>2 DEF CoordinatorOK, StatusOK
      <3>7. WindowBounded' /\ StatusOK'
        BY <1>5, <3>6 DEF WindowBounded, StatusOK, Shown
      <3> QED
        BY <3>4, <3>5, <3>7 DEF CoordinatorOK
    <2> QED
      BY <2>5, <2>6
  <1> QED
    BY <1>3, <1>4, <1>5 DEF Dispatch

(* Taking a frame: the reconnect window is expired first, and the frame is *)
(* handled after the session is closed.                                    *)
LEMMA ReceiveKeeps ==
  ASSUME CoordinatorOK, NEW e \in Envelopes, ReceiveEnvelope(e)
  PROVE  CoordinatorOK' /\ Calm
  <1>1. /\ task.at = "online" /\ task \in Tasks /\ clock \in Nat
        /\ UNCHANGED <<grants, registry, terms, ipc, clock>>
        /\ active \in ActiveSessions \cup {Nil} /\ pending' \in PendingSessions \cup {Nil}
    BY DEF CoordinatorOK, Types, ReceiveEnvelope, sharedVars, expire_pending
  <1>2. CASE Expired(clock)
    <2>1. active # Nil /\ active \in ActiveSessions
      BY <1>1, <1>2 DEF Expired
    <2>2. active.c \in Controllers /\ active.s \in Sessions
      BY <2>1 DEF ActiveSessions
    <2>3. /\ active' = Nil
          /\ task' = [At("unregister") EXCEPT !.c = active.c, !.s = active.s, !.env = e,
                        !.now = clock, !.final = "failed", !.ok = "dispatch",
                        !.err = "failing"]
      BY <1>2 DEF ReceiveEnvelope
    <2>4. /\ task' \in Tasks /\ task'.at = "unregister" /\ task'.now = clock
          /\ task'.c = active.c /\ task'.s = active.s /\ task'.env = e
          /\ task'.final = "failed" /\ task'.ok = "dispatch" /\ task'.err = "failing"
      BY <1>1, <2>2, <2>3 DEF At, Tasks, Labels, Closing, Returns
    <2>5. Types' /\ TaskOK'
      BY <1>1, <2>2, <2>3, <2>4 DEF CoordinatorOK, Types, TaskOK, Starting, Closing, Returns
    <2>6. WindowBounded' /\ StatusOK'
      BY <2>3, <2>4 DEF WindowBounded, StatusOK, Settled, Resting
    <2>7. Calm
      BY <1>1, <2>3, <2>4 DEF Calm, Running, Confirmed, Holds
    <2> QED
      BY <2>5, <2>6, <2>7 DEF CoordinatorOK
  <1>3. CASE ~Expired(clock)
    <2>1. /\ task' = [At("dispatch") EXCEPT !.env = e, !.now = clock]
          /\ UNCHANGED <<active, status>>
      BY <1>3 DEF ReceiveEnvelope
    <2>2. task' \in Tasks /\ task'.at = "dispatch" /\ task'.now = clock /\ task'.env = e
      BY <1>1, <2>1 DEF At, Tasks, Labels, Returns
    <2>3. Types' /\ TaskOK'
      BY <1>1, <2>1, <2>2 DEF CoordinatorOK, Types, TaskOK, Starting, Closing
    <2>4. Shown
      BY <1>1 DEF CoordinatorOK, StatusOK, Settled, Resting
    <2>5. WindowBounded' /\ StatusOK'
      BY <1>1, <2>1, <2>4 DEF CoordinatorOK, WindowBounded, StatusOK, Shown
    <2>6. Calm
      BY <1>1, <2>1, <2>2 DEF Calm, Running, Confirmed, Holds
    <2> QED
      BY <2>3, <2>5, <2>6 DEF CoordinatorOK
  <1> QED
    BY <1>2, <1>3

(* A step of the peer, of the clock or of the outside that leaves the task *)
(* where it is and the session the one it was.                             *)
LEMMA StayKeeps ==
  ASSUME CoordinatorOK, UNCHANGED <<grants, registry, terms, ipc, task, pending>>,
         clock' \in Nat, clock <= clock', WindowBounded', StatusOK',
         active' \in ActiveSessions \cup {Nil},
         active # Nil => active' # Nil /\ active'.s = active.s /\ active'.c = active.c,
         active = Nil => active' = Nil,
         task.at = "restart" => active' = active
  PROVE  CoordinatorOK' /\ Calm
  <1>1. Types' /\ TaskOK'
    <2>1. task.now \in Nat /\ clock \in Nat /\ task.now <= clock
      BY DEF CoordinatorOK, Types, TaskOK, Tasks
    <2> QED
      BY <2>1 DEF CoordinatorOK, Types, TaskOK
  <1>2. Calm
    BY DEF Calm, Running, Confirmed, Holds
  <1> QED
    BY <1>1, <1>2 DEF CoordinatorOK

(* The native peer's events.                                               *)
LEMMA PeerKeeps ==
  ASSUME CoordinatorOK, PeerStep \/ ExpireOnline
  PROVE  CoordinatorOK' /\ Calm
  <1>1. /\ task.at = "online" /\ active # Nil /\ active \in ActiveSessions
        /\ UNCHANGED <<grants, registry, terms, ipc, clock, pending>>
        /\ pending' \in PendingSessions \cup {Nil} /\ clock \in Nat /\ task \in Tasks
    BY DEF CoordinatorOK, Types, PeerStep, ExpireOnline, PeerConnected, PeerLost, PeerInput,
           LocalStop, EventQueueFails, Polling, pollVars, sharedVars
  <1>2. {"online", "failing"} \subseteq Returns \ {"dispatch"} /\ task.at \in Settled
    BY <1>1 DEF Returns, Resting, Settled
  <1>3. CASE PeerInput \/ LocalStop \/ EventQueueFails \/ ExpireOnline
    <2>1. PICK final \in {"idle", "failed"}, ok \in {"online", "failing"} :
             close_active(final, ok, "failing")
      BY <1>3 DEF PeerInput, LocalStop, EventQueueFails, ExpireOnline
    <2> QED
      BY <1>1, <1>2, <2>1, CloseKeeps
  <1>4. CASE PeerConnected
    <2>1. /\ active' = [mark_connected(active) EXCEPT !.reconnect = Nil, !.deadline = Nil]
          /\ status' = Status("connected", active.s) /\ task' = task
      BY <1>4 DEF PeerConnected
    <2>2. /\ active' \in ActiveSessions /\ active'.s = active.s /\ active'.c = active.c
          /\ active'.peer = "Connected" /\ active'.deadline = Nil
      BY <1>1, <2>1 DEF mark_connected, ActiveSessions
    <2>3. active' # Nil
      BY <2>2, Limits
    <2>4. WindowBounded' /\ StatusOK'
      BY <2>1, <2>2, <2>3 DEF WindowBounded, StatusOK, Shown, Status
    <2> QED
      BY <1>1, <2>1, <2>2, <2>3, <2>4, StayKeeps
  <1>5. CASE PeerLost
    <2>1. CASE Goto("failing") /\ UNCHANGED <<active, status>>
      BY <1>1, <1>2, <2>1, GotoKeeps
    <2>2. CASE /\ active' = Suspended(clock) /\ UNCHANGED task
               /\ status' = Status("reconnecting", active.s)
      <3>1. /\ active' \in ActiveSessions /\ active'.s = active.s /\ active'.c = active.c
            /\ active'.peer = "Reconnecting"
        BY <1>1, <2>2, SuspendedType
      <3>2. WindowBounded' /\ Shown'
        BY <1>1, <2>2, <3>1, SuspendKeeps
      <3>3. active' # Nil
        BY <3>1, Limits
      <3> QED
        BY <1>1, <2>2, <3>1, <3>2, <3>3, StayKeeps DEF StatusOK
    <2> QED
      BY <1>5, <2>1, <2>2 DEF PeerLost
  <1> QED
    BY <1>3, <1>4, <1>5 DEF PeerStep
(* The runtime's own moves between its waits, and a lagging receiver.      *)
LEMMA RuntimeKeeps ==
  ASSUME CoordinatorOK,
         \/ ExpireOffline \/ ConnectRemote \/ LoseSignaling \/ BackoffOver
         \/ SeeShutdown \/ TerminationLagged
  PROVE  CoordinatorOK' /\ Calm
  <1>1. /\ UNCHANGED <<grants, registry, terms, ipc, clock, pending>>
        /\ pending' \in PendingSessions \cup {Nil} /\ task \in Tasks
        /\ active \in ActiveSessions \cup {Nil}
    BY DEF CoordinatorOK, Types, ExpireOffline, ConnectRemote, LoseSignaling, BackoffOver,
           SeeShutdown, TerminationLagged, pollVars, serviceVars, sharedVars, coordinatorVars
  <1>2. /\ Resting \cup {"failing", "dropping", "shutting"} \subseteq Returns \ {"dispatch"}
        /\ \A label \in Resting : OnError(label) \in Returns \ {"dispatch"}
    BY DEF Returns, Resting, OnError
  <1>3. CASE ExpireOffline
    <2>1. /\ active # Nil /\ task.at \in Resting
          /\ close_active("failed", task.at, OnError(task.at))
      BY <1>3 DEF ExpireOffline, Expired, Resting
    <2> QED
      BY <1>1, <1>2, <2>1, CloseKeeps
  <1>4. CASE \/ ConnectRemote \/ LoseSignaling \/ BackoffOver \/ SeeShutdown
             \/ TerminationLagged
    <2>1. /\ UNCHANGED <<active, status>> /\ task.at \in Settled
          /\ \E label \in Returns \ {"dispatch"} : Goto(label)
      BY <1>2, <1>4 DEF ConnectRemote, LoseSignaling, BackoffOver, SeeShutdown,
            TerminationLagged, serviceVars, coordinatorVars, Settled, Resting
    <2> QED
      BY <1>1, <2>1, GotoKeeps
  <1> QED
    BY <1>3, <1>4

(* Losing the signaling connection suspends the session or closes it.      *)
LEMMA SignalingLostKeeps ==
  ASSUME CoordinatorOK, signaling_lost
  PROVE  CoordinatorOK' /\ Calm
  <1>1. /\ task.at = "failing" /\ UNCHANGED <<grants, registry, terms, ipc, clock>>
        /\ pending' \in PendingSessions \cup {Nil} /\ clock \in Nat /\ task \in Tasks
        /\ active \in ActiveSessions \cup {Nil}
    BY DEF CoordinatorOK, Types, signaling_lost, sharedVars
  <1>2. task.at \in Settled /\ "backoff" \in Returns \ {"dispatch"}
    BY <1>1 DEF Settled, Returns, Resting
  <1>3. CASE active = Nil
    BY <1>1, <1>2, <1>3, GotoKeeps DEF signaling_lost
  <1>4. CASE active # Nil /\ close_active("failed", "backoff", "backoff")
    BY <1>1, <1>2, <1>4, CloseKeeps
  <1>5. CASE /\ active # Nil /\ active' = Suspended(clock) /\ Goto("backoff")
             /\ status' = Status("reconnecting", active.s)
    <2>1. /\ active' \in ActiveSessions /\ active'.s = active.s /\ active'.c = active.c
          /\ active'.peer = "Reconnecting"
      BY <1>1, <1>5, SuspendedType
    <2>2. WindowBounded' /\ Shown'
      BY <1>1, <1>5, <2>1, SuspendKeeps
    <2>3. active' # Nil
      BY <2>1, Limits
    <2>4. Types' /\ TaskOK' /\ Calm
      BY <1>1, <1>2, <1>5, <2>1, <2>3, GotoIsCalm DEF CoordinatorOK
    <2> QED
      BY <2>2, <2>4 DEF CoordinatorOK, StatusOK
  <1> QED
    BY <1>3, <1>4, <1>5 DEF signaling_lost

(* Shutdown, and the Drop that replaces it, close the session if any.      *)
LEMMA ShutdownKeeps ==
  ASSUME CoordinatorOK, shutdown \/ Drop
  PROVE  CoordinatorOK' /\ Calm
  <1>1. /\ task.at \in {"shutting", "dropping"}
        /\ \E ok \in {"stopped", "dead"}, err \in {"dropping", "dead"} :
              CloseCoordinator(ok, err)
    BY DEF shutdown, Drop
  <1>2. PICK ok \in {"stopped", "dead"}, err \in {"dropping", "dead"} :
           CloseCoordinator(ok, err)
    BY <1>1
  <1>3. /\ UNCHANGED <<grants, registry, terms, ipc, clock>>
        /\ pending' \in PendingSessions \cup {Nil} /\ active \in ActiveSessions \cup {Nil}
    BY <1>2 DEF CloseCoordinator, sharedVars, CoordinatorOK, Types
  <1>4. ok \in Returns \ {"dispatch"} /\ err \in Returns \ {"dispatch"}
    BY DEF Returns
  <1>5. CASE active # Nil
    BY <1>2, <1>3, <1>4, <1>5, CloseKeeps DEF CloseCoordinator
  <1>6. CASE active = Nil
    <2>1. Goto(ok) /\ active' = Nil
      BY <1>2, <1>6 DEF CloseCoordinator
    <2>2. Types' /\ TaskOK' /\ Calm
      BY <1>1, <1>3, <1>4, <1>6, <2>1, GotoIsCalm DEF CoordinatorOK
    <2>3. task'.at = ok
      BY <2>1 DEF Goto, At
    <2>4. WindowBounded' /\ StatusOK'
      BY <2>1, <2>3 DEF WindowBounded, StatusOK, Settled, Resting
    <2> QED
      BY <2>2, <2>4 DEF CoordinatorOK
  <1> QED
    BY <1>5, <1>6

(* The clock, a request to stop and a stuttering step.                     *)
LEMMA OutsideKeeps ==
  ASSUME CoordinatorOK, RequestShutdown \/ Tick \/ UNCHANGED vars
  PROVE  CoordinatorOK' /\ Calm
  <1>1. /\ UNCHANGED <<grants, registry, terms, ipc, task, pending, active, status>>
        /\ clock \in Nat /\ clock' \in {clock, clock + 1}
    BY DEF RequestShutdown, Tick, vars, serviceVars, coordinatorVars, CoordinatorOK, Types
  <1>2. StatusOK'
    BY <1>1 DEF CoordinatorOK, StatusOK, Shown
  <1>3. WindowBounded'
    <2>1. active # Nil => active.deadline \in Nat \cup {Nil}
      BY DEF CoordinatorOK, Types, ActiveSessions
    <2> QED
      BY <1>1, <2>1, Limits DEF CoordinatorOK, WindowBounded
  <1> QED
    BY <1>1, <1>2, <1>3, StayKeeps DEF CoordinatorOK, Types
----------------------------------------------------------------------------
(* The handlers that touch the registry, the grants or the channel.        *)

(* The registry holds the one session that holds it, so a session that is  *)
(* running and not registered leaves it empty.                             *)
LEMMA OneEntry ==
  ASSUME Types, TaskOK, RegistryTracksSession,
         NEW s \in Sessions, NEW c \in Controllers, Running(s, c)
  PROVE  \A t \in Sessions : registry[t] # Nil => t = s /\ registry[t] = c
  <1> SUFFICES ASSUME NEW t \in Sessions, registry[t] # Nil
               PROVE  t = s /\ registry[t] = c
    OBVIOUS
  <1>1. Holds(t, registry[t])
    BY DEF RegistryTracksSession, Holds
  <1>2. task.at \in Starting \cup Closing => active = Nil
    BY DEF TaskOK
  <1> QED
    BY <1>1, <1>2 DEF Holds, Running, Starting, Closing

(* Two entries are the same entry.                                         *)
LEMMA EntriesAgree ==
  ASSUME Types, TaskOK, RegistryTracksSession,
         NEW s \in Sessions, NEW t \in Sessions, registry[s] # Nil, registry[t] # Nil
  PROVE  s = t
  <1>1. Holds(s, registry[s]) /\ Holds(t, registry[t])
    BY DEF RegistryTracksSession, Holds
  <1>2. task.at \in Starting \cup Closing => active = Nil
    BY DEF TaskOK
  <1> QED
    BY <1>1, <1>2 DEF Holds, Starting, Closing

(* Closing and undoing take the session out of the registry.               *)
LEMMA UnregisterKeeps ==
  ASSUME HostInv, CloseUnregister \/ Undo
  PROVE  HostInv'
  <1>1. /\ task.at \in {"unregister", "undo"} /\ task \in Tasks /\ active = Nil
        /\ task.c \in Controllers /\ task.s \in Sessions
        /\ registry' = [registry EXCEPT ![task.s] = Nil]
        /\ UNCHANGED <<grants, terms, status, ipc, pending, active, clock>>
    BY DEF HostInv, Types, TaskOK, Starting, Closing, CloseUnregister, Undo,
           coordinatorVars, startVars
  <1>2. /\ task' \in Tasks /\ task'.c = task.c /\ task'.s = task.s /\ task'.now = task.now
        /\ task'.at \in {"finish", "report"}
        /\ task'.at = "finish" =>
             /\ task'.final \in {"idle", "failed"} /\ task'.ok \in Returns
             /\ task'.ok = "dispatch" => task'.env \in Envelopes
    <2>1. CASE Undo
      BY <1>1, <2>1, AdvanceType DEF Undo, Labels, Starting
    <2>2. CASE CloseUnregister
      <3>1. /\ task.at = "unregister" /\ task.final \in {"idle", "failed"}
            /\ task.ok \in Returns /\ task.err \in Returns \ {"dispatch"}
            /\ task.ok = "dispatch" => task.env \in Envelopes
        BY <2>2 DEF CloseUnregister, HostInv, TaskOK, Closing
      <3>2. PICK closed \in BOOLEAN :
               task' = [task EXCEPT !.at = "finish", !.ok = IF closed THEN @ ELSE task.err,
                                    !.err = Nil]
        BY <2>2 DEF CloseUnregister
      <3> DEFINE ok == IF closed THEN task.ok ELSE task.err
      <3>3. ok \in Returns /\ ok \in Labels /\ (ok = "dispatch" => task.env \in Envelopes)
        BY <3>1 DEF Labels
      <3>4. task' = [task EXCEPT !.at = "finish", !.ok = ok, !.err = Nil]
        BY <3>2
      <3> HIDE DEF ok
      <3>5. /\ task' \in Tasks /\ task'.c = task.c /\ task'.s = task.s
            /\ task'.now = task.now /\ task'.at = "finish" /\ task'.final = task.final
            /\ task'.ok = ok /\ task'.env = task.env
        BY <1>1, <3>3, <3>4 DEF Tasks, Labels, Closing
      <3> QED
        BY <3>1, <3>3, <3>5
    <2> QED
      BY <2>1, <2>2
  <1>3. \A s \in Sessions : registry'[s] = Nil
    <2> SUFFICES ASSUME NEW s \in Sessions, s # task.s, registry[s] # Nil
                 PROVE  FALSE
      BY <1>1 DEF HostInv, Types
    <2> QED
      BY <1>1 DEF HostInv, RegistryTracksSession
  <1>4. Types'
    BY <1>1, <1>2 DEF HostInv, Types
  <1>5. TaskOK'
    BY <1>1, <1>2 DEF HostInv, TaskOK, Starting, Closing
  <1>6. ClientsOK'
    BY <1>1 DEF HostInv, ClientsOK
  <1>7. RegistryTracksSession' /\ Reachable' /\ RevokerAtWork'
    BY <1>1, <1>2, <1>3 DEF RegistryTracksSession, Reachable, RevokerAtWork, Running, Confirmed
  <1>8. WindowBounded' /\ StatusOK'
    BY <1>1, <1>2 DEF WindowBounded, StatusOK, Settled, Resting
  <1> QED
    BY <1>4, <1>5, <1>6, <1>7, <1>8 DEF HostInv

(* register finds the registry empty, or reports the identifier as taken;  *)
(* record_authenticated_session goes on only while the grant is there.     *)
LEMMA RegisterKeeps ==
  ASSUME HostInv, register \/ record_authenticated_session
  PROVE  HostInv'
  <1>1. /\ task.at \in {"register", "record"} /\ task \in Tasks /\ active = Nil
        /\ task.c \in Controllers /\ task.s \in Sessions
        /\ UNCHANGED <<grants, terms, status, ipc, pending, active, clock>>
    BY DEF HostInv, Types, TaskOK, Starting, register, record_authenticated_session, startVars
  <1>2. {"report", "record", "connect", "undo"} \subseteq Labels
    BY DEF Labels, Starting
  <1>3. /\ task' \in Tasks /\ task'.c = task.c /\ task'.s = task.s /\ task'.now = task.now
        /\ task'.at \in {"report", "record", "connect", "undo"}
        /\ task'.at = "connect" => task.c \in grants
        /\ task.at = "register" =>
             \/ task'.at = "report" /\ registry' = registry
             \/ task'.at = "record" /\ registry' = [registry EXCEPT ![task.s] = task.c]
        /\ task.at = "record" => task'.at \in {"connect", "undo"} /\ registry' = registry
    <2>1. CASE register
      BY <1>1, <1>2, <2>1, AdvanceType DEF register
    <2>2. CASE record_authenticated_session
      BY <1>1, <1>2, <2>2, AdvanceType DEF record_authenticated_session
    <2> QED
      BY <2>1, <2>2
  <1>4. Types'
    BY <1>1, <1>3 DEF HostInv, Types
  <1>5. TaskOK'
    BY <1>1, <1>3 DEF HostInv, TaskOK, Starting, Closing
  <1>6. ClientsOK'
    BY <1>1 DEF HostInv, ClientsOK
  <1>7. WindowBounded' /\ StatusOK'
    BY <1>1, <1>3 DEF WindowBounded, StatusOK, Settled, Resting
  <1>8. RegistryTracksSession'
    BY <1>1, <1>3 DEF HostInv, Types, RegistryTracksSession
  <1>9. Reachable'
    <2> SUFFICES ASSUME NEW s \in Sessions, NEW c \in Controllers, Running(s, c)'
                 PROVE  (registry[s] = c \/ Sending(s, c) \/ Queued(s, c))'
      BY DEF Reachable
    <2>1. s = task.s /\ c = task.c /\ task'.at \in {"record", "connect"}
      BY <1>1, <1>3 DEF Running
    <2>2. CASE task.at = "register"
      BY <1>1, <1>3, <2>1, <2>2 DEF HostInv, Types
    <2>3. CASE task.at = "record"
      <3>1. registry[s] = c \/ Sending(s, c) \/ Queued(s, c)
        BY <2>1, <2>3 DEF HostInv, Reachable, Running
      <3> QED
        BY <1>1, <1>3, <2>3, <3>1 DEF Sending, Queued, HaveToSend
    <2> QED
      BY <1>1, <2>2, <2>3
  <1>10. RevokerAtWork'
    BY <1>1, <1>3 DEF RevokerAtWork, Confirmed
  <1> QED
    BY <1>4, <1>5, <1>6, <1>7, <1>8, <1>9, <1>10 DEF HostInv
(* A received termination is the running session's and closes it, or it    *)
(* leaves the channel and the session's own moves up.                      *)
LEMMA TerminationKeeps ==
  ASSUME HostInv, handle_termination
  PROVE  HostInv'
  <1>1. /\ task.at \in Resting /\ task \in Tasks /\ terms \in Seq(Events) /\ terms # <<>>
        /\ terms' = Tail(terms)
        /\ UNCHANGED <<grants, registry, ipc, pending, clock>>
        /\ active \in ActiveSessions \cup {Nil}
    BY DEF HostInv, Types, handle_termination
  <1>2. /\ Len(terms) \in Nat /\ Len(terms) > 0
        /\ terms' \in Seq(Events) /\ Len(terms') = Len(terms) - 1
        /\ \A j \in 1..Len(terms') : terms'[j] = terms[j + 1]
        /\ Head(terms) = terms[1]
    BY <1>1, EmptySeq, HeadTailProperties, LenProperties
  <1>3. ClientsOK'
    BY <1>1, <1>2, Limits DEF HostInv, ClientsOK
  <1>4. CASE active # Nil /\ active.s = Head(terms).s /\ active.c = Head(terms).c
    <2>1. PICK final \in {"idle", "failed"} :
             close_active(final, task.at, OnError(task.at))
      BY <1>4 DEF handle_termination
    <2>2. /\ task.at \in Returns \ {"dispatch"} /\ OnError(task.at) \in Returns \ {"dispatch"}
          /\ task.at \in Labels /\ OnError(task.at) \in Labels
      BY <1>1 DEF Resting, Returns, OnError, Labels
    <2>3. /\ active' = Nil /\ task' \in Tasks /\ task'.at = "unregister"
          /\ task'.c = active.c /\ task'.s = active.s /\ task'.now = task.now
          /\ task'.final = final /\ task'.ok = task.at /\ task'.err = OnError(task.at)
      BY <1>1, <1>4, <2>1, <2>2, CloseType
    <2>4. active.c \in Controllers /\ active.s \in Sessions
      BY <1>1, <1>4 DEF ActiveSessions
    <2>5. Types'
      BY <1>1, <1>2, <2>3 DEF HostInv, Types
    <2>6. TaskOK'
      BY <1>1, <2>2, <2>3, <2>4 DEF HostInv, TaskOK, Starting, Closing
    <2>7. RegistryTracksSession'
      BY <1>1, <2>3 DEF HostInv, RegistryTracksSession, Resting
    <2>8. Reachable' /\ RevokerAtWork' /\ WindowBounded' /\ StatusOK'
      BY <2>3 DEF Reachable, Running, RevokerAtWork, Confirmed, WindowBounded, StatusOK,
                  Settled, Resting
    <2> QED
      BY <1>3, <2>5, <2>6, <2>7, <2>8 DEF HostInv
  <1>5. CASE ~(active # Nil /\ active.s = Head(terms).s /\ active.c = Head(terms).c)
    <2>1. UNCHANGED <<active, status, task>>
      BY <1>5 DEF handle_termination
    <2>2. Types' /\ TaskOK'
      BY <1>1, <1>2, <2>1 DEF HostInv, Types, TaskOK
    <2>3. RegistryTracksSession' /\ WindowBounded' /\ StatusOK'
      BY <1>1, <2>1 DEF HostInv, RegistryTracksSession, WindowBounded, StatusOK, Shown
    <2>4. RevokerAtWork'
      BY <1>1, <2>1 DEF HostInv, RevokerAtWork, Confirmed, BeingRevoked
    <2>5. Reachable'
      <3> SUFFICES ASSUME NEW s \in Sessions, NEW c \in Controllers, Running(s, c)'
                   PROVE  (registry[s] = c \/ Sending(s, c) \/ Queued(s, c))'
        BY DEF Reachable
      <3>1. Running(s, c) /\ (s # Head(terms).s \/ c # Head(terms).c)
        BY <1>1, <1>5, <2>1 DEF Running, Resting
      <3>2. CASE registry[s] = c \/ Sending(s, c)
        BY <1>1, <3>2 DEF Sending
      <3>3. CASE Queued(s, c)
        <4>1. PICK i \in 1..Len(terms) :
                 /\ terms[i].s = s /\ terms[i].c = c
                 /\ (Len(terms) - i) + Cardinality(HaveToSend) < Cardinality(Clients)
          BY <3>3 DEF Queued
        <4>2. i - 1 \in 1..Len(terms') /\ terms'[i - 1] = terms[i]
          BY <1>2, <3>1, <4>1
        <4>3. Len(terms') - (i - 1) = Len(terms) - i /\ HaveToSend' = HaveToSend
          BY <1>1, <1>2, <4>1 DEF HaveToSend
        <4> QED
          BY <4>1, <4>2, <4>3 DEF Queued
      <3> QED
        BY <3>1, <3>2, <3>3 DEF HostInv, Reachable
    <2> QED
      BY <1>3, <2>2, <2>3, <2>4, <2>5 DEF HostInv
  <1> QED
    BY <1>4, <1>5

(* A request of a local client does not touch the coordinator.             *)
LEMMA LocalKeeps ==
  ASSUME HostInv, UNCHANGED localVars, StatusOK',
         registry' \in [Sessions -> Controllers \cup {Nil}],
         terms' \in Seq(Events), ipc' \in [Clients -> Requests]
  PROVE  Types' /\ TaskOK' /\ WindowBounded' /\ StatusOK'
  BY DEF localVars, coordinatorVars, HostInv, Types, TaskOK, WindowBounded

(* What the two requests that terminate sessions have in common: a client  *)
(* with nothing to send takes sessions out of the registry and has their   *)
(* terminations to send.                                                   *)
LEMMA TakeOutKeeps ==
  ASSUME HostInv, NEW k \in Clients, ipc[k].events = {},
         registry' \in [Sessions -> Controllers \cup {Nil}], ipc' \in [Clients -> Requests],
         \A s \in Sessions :
            \/ registry'[s] = registry[s]
            \/ registry'[s] = Nil /\ \E e \in ipc'[k].events : e.s = s /\ e.c = registry[s],
         \A e \in ipc'[k].events : registry[e.s] # Nil /\ e.c = registry[e.s],
         \A e, f \in ipc'[k].events : e.reason = f.reason,
         ipc'[k].at \in {"broadcast", "broadcastStop"},
         ipc'[k].at = "broadcastStop" => "stop" \in LocalRequests,
         \A j \in Clients \ {k} : ipc'[j] = ipc[j],
         UNCHANGED <<terms, status, localVars>>
  PROVE  /\ Types' /\ TaskOK' /\ WindowBounded' /\ StatusOK'
         /\ ClientsOK' /\ RegistryTracksSession' /\ Reachable'
  <1>1. /\ registry \in [Sessions -> Controllers \cup {Nil}] /\ terms \in Seq(Events)
        /\ ipc \in [Clients -> Requests]
        /\ UNCHANGED <<active, task, terms>>
    BY DEF HostInv, Types, localVars, coordinatorVars
  <1>2. ipc'[k].events \in SUBSET Events
    BY DEF Requests
  <1>3. Types' /\ TaskOK' /\ WindowBounded' /\ StatusOK'
    <2>1. StatusOK'
      BY <1>1 DEF HostInv, StatusOK, Shown
    <2> QED
      BY <1>1, <2>1, LocalKeeps
  <1>4. ClientsOK'
    <2>1. ASSUME NEW e \in ipc'[k].events, NEW f \in ipc'[k].events
          PROVE  e = f
      <3>1. e \in Events /\ f \in Events
        BY <1>2
      <3>2. e.s \in Sessions /\ f.s \in Sessions
        BY <3>1 DEF Events
      <3>3. e.s = f.s
        BY <3>2, EntriesAgree DEF HostInv
      <3>4. e.c = f.c /\ e.reason = f.reason
        BY <3>3
      <3> QED
        BY <3>1, <3>3, <3>4 DEF Events
    <2>2. Len(terms') <= TerminationCapacity
      BY <1>1 DEF HostInv, ClientsOK
    <2> QED
      BY <2>1, <2>2 DEF HostInv, ClientsOK
  <1>5. RegistryTracksSession'
    BY <1>1 DEF HostInv, RegistryTracksSession
  <1>6. Reachable'
    <2> SUFFICES ASSUME NEW s \in Sessions, NEW c \in Controllers, Running(s, c)'
                 PROVE  (registry[s] = c \/ Sending(s, c) \/ Queued(s, c))'
      BY DEF Reachable
    <2>1. Running(s, c) /\ (registry[s] = c \/ Sending(s, c) \/ Queued(s, c))
      BY <1>1 DEF Running, HostInv, Reachable
    <2>2. CASE registry[s] = c
      BY <2>2 DEF Sending
    <2>3. CASE Sending(s, c)
      BY <2>3 DEF Sending
    <2>4. CASE Queued(s, c) /\ registry[s] # c
      <3>1. \A t \in Sessions : registry[t] = Nil
        BY <2>1, <2>4, OneEntry DEF HostInv
      <3>2. ipc'[k].events = {}
        BY <1>2, <3>1 DEF Events
      <3>3. HaveToSend' = HaveToSend
        BY <3>2 DEF HaveToSend
      <3> QED
        BY <1>1, <2>4, <3>3 DEF Queued
    <2> QED
      BY <2>1, <2>2, <2>3, <2>4
  <1> QED
    BY <1>3, <1>4, <1>5, <1>6

(* Taking a set of registered sessions out leaves one event for each.      *)
LEMMA TerminatedEvents ==
  ASSUME registry \in [Sessions -> Controllers \cup {Nil}], NEW S \in SUBSET Sessions,
         NEW reason \in Reasons, \A s \in S : registry[s] # Nil
  PROVE  /\ Without(S) \in [Sessions -> Controllers \cup {Nil}]
         /\ \A s \in Sessions : Without(S)[s] = IF s \in S THEN Nil ELSE registry[s]
         /\ Terminated(S, reason) \in SUBSET Events
         /\ \A s \in S : \E e \in Terminated(S, reason) : e.s = s /\ e.c = registry[s]
         /\ \A e \in Terminated(S, reason) :
               registry[e.s] # Nil /\ e.c = registry[e.s] /\ e.reason = reason
  <1>1. \A s \in S : registry[s] \in Controllers /\ s \in Sessions
    OBVIOUS
  <1>2. Terminated(S, reason) \in SUBSET Events
    BY <1>1 DEF Terminated, Events
  <1>3. \A s \in S : \E e \in Terminated(S, reason) : e.s = s /\ e.c = registry[s]
    <2> SUFFICES ASSUME NEW s \in S
                 PROVE  \E e \in Terminated(S, reason) : e.s = s /\ e.c = registry[s]
      OBVIOUS
    <2> DEFINE e == [s |-> s, c |-> registry[s], reason |-> reason]
    <2>1. e \in Terminated(S, reason) /\ e.s = s /\ e.c = registry[s]
      BY DEF Terminated
    <2> QED
      BY <2>1
  <1>4. \A e \in Terminated(S, reason) :
           registry[e.s] # Nil /\ e.c = registry[e.s] /\ e.reason = reason
    BY DEF Terminated
  <1> QED
    BY <1>2, <1>3, <1>4 DEF Without

(* A revoker that has looked in the registry has left none of its          *)
(* Controller's sessions there.                                            *)
LEMMA TerminateKeeps ==
  ASSUME HostInv, NEW k \in Clients, terminate_controller(k)
  PROVE  HostInv'
  <1> DEFINE S == {s \in Sessions : registry[s] = ipc[k].c}
             E == Terminated(S, "revoked")
  <1>1. /\ ipc[k].at = "terminate" /\ ipc[k].events = {}
        /\ registry' = Without(S)
        /\ ipc' = [ipc EXCEPT ![k] = [Idle EXCEPT !.at = "broadcast", !.events = E]]
        /\ UNCHANGED <<grants, terms, status, localVars>>
        /\ ipc \in [Clients -> Requests]
        /\ registry \in [Sessions -> Controllers \cup {Nil}]
    BY DEF terminate_controller, HostInv, ClientsOK, Types
  <1>2. ipc[k].c \in Controllers
    BY <1>1 DEF HostInv, ClientsOK
  <1>3. \A s \in S : registry[s] # Nil
    BY <1>2, Limits
  <1>4. S \in SUBSET Sessions /\ "revoked" \in Reasons
    BY DEF Reasons
  <1>5. /\ registry' \in [Sessions -> Controllers \cup {Nil}]
        /\ \A s \in Sessions : registry'[s] = IF s \in S THEN Nil ELSE registry[s]
        /\ E \in SUBSET Events
        /\ \A s \in S : \E e \in E : e.s = s /\ e.c = registry[s]
        /\ \A e \in E : registry[e.s] # Nil /\ e.c = registry[e.s] /\ e.reason = "revoked"
    <2> HIDE DEF S
    <2> QED
      BY <1>1, <1>3, <1>4, TerminatedEvents
  <1>6. /\ ipc' \in [Clients -> Requests]
        /\ ipc'[k].at = "broadcast" /\ ipc'[k].events = E
        /\ \A j \in Clients \ {k} : ipc'[j] = ipc[j]
    <2> HIDE DEF E
    <2>1. [Idle EXCEPT !.at = "broadcast", !.events = E] \in Requests
      BY <1>5 DEF Idle, Requests
    <2> QED
      BY <1>1, <2>1 DEF Idle
  <1>7. /\ Types' /\ TaskOK' /\ WindowBounded' /\ StatusOK'
        /\ ClientsOK' /\ RegistryTracksSession' /\ Reachable'
    <2> HIDE DEF E, S
    <2> QED
      BY <1>1, <1>5, <1>6, TakeOutKeeps
  <1>8. RevokerAtWork'
    <2> SUFFICES ASSUME NEW s \in Sessions, NEW c \in Controllers, Confirmed(s, c)',
                        c \notin grants', registry'[s] = c
                 PROVE  BeingRevoked(c)'
      BY DEF RevokerAtWork
    <2>1. registry[s] = c /\ c # ipc[k].c
      BY <1>5, Limits
    <2>2. Confirmed(s, c) /\ c \notin grants
      BY <1>1 DEF Confirmed, localVars, coordinatorVars
    <2>3. PICK j \in Clients : ipc[j].at = "terminate" /\ ipc[j].c = c
      BY <2>1, <2>2 DEF HostInv, RevokerAtWork, BeingRevoked
    <2>4. j # k /\ ipc'[j] = ipc[j]
      BY <1>6, <2>1, <2>3
    <2> QED
      BY <2>3, <2>4 DEF BeingRevoked
  <1> QED
    BY <1>7, <1>8 DEF HostInv

(* An emergency stop empties the registry.                                 *)
LEMMA EmergencyStopKeeps ==
  ASSUME HostInv, NEW k \in Clients, emergency_stop(k)
  PROVE  HostInv'
  <1> DEFINE S == {s \in Sessions : registry[s] # Nil}
             E == Terminated(S, "stop")
  <1>1. /\ ipc[k].at = "idle" /\ ipc[k].events = {} /\ "stop" \in LocalRequests
        /\ registry' = Without(S)
        /\ ipc' = [ipc EXCEPT ![k] = [at |-> "broadcastStop", c |-> Nil, events |-> E]]
        /\ UNCHANGED <<grants, terms, status, localVars>>
        /\ ipc \in [Clients -> Requests]
        /\ registry \in [Sessions -> Controllers \cup {Nil}]
    BY DEF emergency_stop, Asks, HostInv, ClientsOK, Types
  <1>2. S \in SUBSET Sessions /\ (\A s \in S : registry[s] # Nil) /\ "stop" \in Reasons
    BY DEF Reasons
  <1>3. /\ registry' \in [Sessions -> Controllers \cup {Nil}]
        /\ \A s \in Sessions : registry'[s] = IF s \in S THEN Nil ELSE registry[s]
        /\ E \in SUBSET Events
        /\ \A s \in S : \E e \in E : e.s = s /\ e.c = registry[s]
        /\ \A e \in E : registry[e.s] # Nil /\ e.c = registry[e.s] /\ e.reason = "stop"
    <2> HIDE DEF S
    <2> QED
      BY <1>1, <1>2, TerminatedEvents
  <1>4. /\ ipc' \in [Clients -> Requests]
        /\ ipc'[k].at = "broadcastStop" /\ ipc'[k].events = E
        /\ \A j \in Clients \ {k} : ipc'[j] = ipc[j]
    <2> HIDE DEF E
    <2> QED
      BY <1>1, <1>3 DEF Requests
  <1>5. /\ Types' /\ TaskOK' /\ WindowBounded' /\ StatusOK'
        /\ ClientsOK' /\ RegistryTracksSession' /\ Reachable'
    <2> HIDE DEF E, S
    <2> QED
      BY <1>1, <1>3, <1>4, TakeOutKeeps
  <1>6. \A s \in Sessions : registry'[s] = Nil
    BY <1>3
  <1>7. RevokerAtWork'
    BY <1>6, Limits DEF RevokerAtWork
  <1> QED
    BY <1>5, <1>7 DEF HostInv

(* A sent event does not push out the one the running session needs.       *)
LEMMA BroadcastKeeps ==
  ASSUME HostInv, NEW k \in Clients, Broadcast(k)
  PROVE  HostInv'
  <1>1. PICK e \in ipc[k].events :
           /\ terms' = IF Len(Append(terms, e)) > TerminationCapacity
                       THEN Tail(Append(terms, e)) ELSE Append(terms, e)
           /\ ipc' = [ipc EXCEPT ![k].events = @ \ {e}]
           /\ UNCHANGED <<grants, registry, status, localVars>>
    BY DEF Broadcast
  <1> DEFINE sent == Append(terms, e)
  <1>2. /\ terms \in Seq(Events) /\ e \in Events /\ ipc \in [Clients -> Requests]
        /\ Len(terms) \in Nat /\ Len(terms) <= TerminationCapacity
        /\ UNCHANGED <<active, task, clock, pending>>
        /\ registry \in [Sessions -> Controllers \cup {Nil}]
    BY <1>1, LenProperties DEF HostInv, Types, ClientsOK, Requests, localVars, coordinatorVars
  <1>3. /\ sent \in Seq(Events) /\ Len(sent) = Len(terms) + 1 /\ sent # <<>>
        /\ \A i \in 1..Len(terms) : sent[i] = terms[i]
        /\ sent[Len(terms) + 1] = e
    BY <1>2, AppendProperties
  <1>4. /\ Tail(sent) \in Seq(Events) /\ Len(Tail(sent)) = Len(terms)
        /\ \A i \in 1..Len(terms) : Tail(sent)[i] = sent[i + 1]
    BY <1>2, <1>3, HeadTailProperties
  <1> HIDE DEF sent
  <1>5. \/ /\ Len(terms) < TerminationCapacity /\ terms' = sent
        \/ /\ Len(terms) = TerminationCapacity /\ terms' = Tail(sent)
    BY <1>1, <1>2, <1>3, Limits DEF sent
  <1>6. /\ terms' \in Seq(Events) /\ Len(terms') \in Nat
        /\ Len(terms') <= TerminationCapacity
        /\ Len(terms') >= 1 /\ terms'[Len(terms')] = e
    <2>1. CASE Len(terms) < TerminationCapacity /\ terms' = sent
      BY <1>2, <1>3, <2>1, Limits
    <2>2. CASE Len(terms) = TerminationCapacity /\ terms' = Tail(sent)
      <3>1. Len(terms') = Len(terms) /\ terms'[Len(terms)] = sent[Len(terms) + 1]
        BY <1>2, <1>4, <2>2, Limits
      <3> QED
        BY <1>2, <1>3, <1>4, <2>2, <3>1, Limits
    <2> QED
      BY <1>5, <2>1, <2>2
  <1>8. ipc[k].events = {e} /\ ipc[k] \in Requests
    BY <1>2 DEF HostInv, ClientsOK
  <1>9. /\ ipc' \in [Clients -> Requests]
        /\ ipc'[k].events = {} /\ ipc'[k].at = ipc[k].at /\ ipc'[k].c = ipc[k].c
        /\ \A j \in Clients \ {k} : ipc'[j] = ipc[j]
    BY <1>1, <1>2, <1>8 DEF Requests
  <1>10. /\ HaveToSend' = HaveToSend \ {k} /\ k \in HaveToSend
         /\ HaveToSend \subseteq Clients
    BY <1>8, <1>9 DEF HaveToSend
  <1>11. /\ Cardinality(HaveToSend) \in Nat /\ Cardinality(HaveToSend) >= 1
         /\ Cardinality(HaveToSend') = Cardinality(HaveToSend) - 1
         /\ Cardinality(HaveToSend) <= Cardinality(Clients)
         /\ Cardinality(Clients) \in Nat
    <2>1. IsFiniteSet(HaveToSend) /\ Cardinality(HaveToSend) <= Cardinality(Clients)
      BY <1>10, Limits, FS_Subset
    <2>2. /\ Cardinality(HaveToSend \ {k}) = Cardinality(HaveToSend) - 1
          /\ Cardinality(HaveToSend) \in Nat /\ Cardinality(HaveToSend \ {k}) \in Nat
      BY <1>10, <2>1, FS_RemoveElement, FS_CardinalityType
    <2> QED
      BY <1>10, <2>1, <2>2, Limits, FS_CardinalityType
  <1>12. Types' /\ TaskOK' /\ WindowBounded' /\ StatusOK'
    <2>1. StatusOK'
      BY <1>1, <1>2 DEF HostInv, StatusOK, Shown
    <2> QED
      BY <1>1, <1>2, <1>6, <1>9, <2>1, LocalKeeps
  <1>13. ClientsOK'
    BY <1>6, <1>9 DEF HostInv, ClientsOK
  <1>14. RegistryTracksSession'
    BY <1>1, <1>2 DEF HostInv, RegistryTracksSession
  <1>15. RevokerAtWork'
    BY <1>1, <1>2, <1>9 DEF HostInv, RevokerAtWork, Confirmed, BeingRevoked
  <1>16. Reachable'
    <2> SUFFICES ASSUME NEW s \in Sessions, NEW c \in Controllers, Running(s, c)'
                 PROVE  (registry[s] = c \/ Sending(s, c) \/ Queued(s, c))'
      BY DEF Reachable
    <2>1. registry[s] = c \/ Sending(s, c) \/ Queued(s, c)
      BY <1>2 DEF Running, HostInv, Reachable
    <2>2. CASE registry[s] = c
      BY <1>1, <2>2
    <2>3. CASE Sending(s, c)
      <3>1. PICK j \in Clients : \E f \in ipc[j].events : f.s = s /\ f.c = c
        BY <2>3 DEF Sending
      <3>2. CASE j # k
        BY <1>9, <3>1, <3>2 DEF Sending
      <3>3. CASE j = k
        <4>1. terms'[Len(terms')].s = s /\ terms'[Len(terms')].c = c
          BY <1>6, <1>8, <3>1, <3>3
        <4>2. (Len(terms') - Len(terms')) + Cardinality(HaveToSend') < Cardinality(Clients)
          BY <1>6, <1>11
        <4> QED
          BY <1>6, <4>1, <4>2 DEF Queued
      <3> QED
        BY <3>2, <3>3
    <2>4. CASE Queued(s, c)
      <3>1. PICK i \in 1..Len(terms) :
               /\ terms[i].s = s /\ terms[i].c = c
               /\ (Len(terms) - i) + Cardinality(HaveToSend) < Cardinality(Clients)
        BY <2>4 DEF Queued
      <3>2. CASE terms' = sent
        <4>1. /\ i \in 1..Len(terms') /\ terms'[i] = terms[i]
              /\ (Len(terms') - i) + Cardinality(HaveToSend') < Cardinality(Clients)
          BY <1>2, <1>3, <1>11, <3>1, <3>2
        <4> QED
          BY <3>1, <4>1 DEF Queued
      <3>3. CASE Len(terms) = TerminationCapacity /\ terms' = Tail(sent)
        <4>1. i > 1
          BY <1>2, <1>11, <3>1, <3>3, Limits
        <4>2. /\ i - 1 \in 1..Len(terms') /\ terms'[i - 1] = terms[i]
              /\ (Len(terms') - (i - 1)) + Cardinality(HaveToSend') < Cardinality(Clients)
          BY <1>2, <1>3, <1>4, <1>11, <3>1, <3>3, <4>1
        <4> QED
          BY <3>1, <4>2 DEF Queued
      <3> QED
        BY <1>5, <3>2, <3>3
    <2> QED
      BY <2>1, <2>2, <2>3, <2>4
  <1> QED
    BY <1>12, <1>13, <1>14, <1>15, <1>16 DEF HostInv
(* A request that returns has nothing left to send; that of an emergency   *)
(* stop publishes Idle.                                                    *)
LEMMA RespondKeeps ==
  ASSUME HostInv, NEW k \in Clients, Respond(k)
  PROVE  HostInv'
  <1>1. /\ ipc[k].events = {} /\ ipc[k].at \in {"broadcast", "broadcastStop"}
        /\ status' = IF ipc[k].at = "broadcastStop" THEN IdleStatus ELSE status
        /\ ipc' = [ipc EXCEPT ![k] = Idle] /\ ipc \in [Clients -> Requests]
        /\ UNCHANGED <<grants, registry, terms, localVars>>
        /\ UNCHANGED <<active, task, clock>>
    BY DEF Respond, HostInv, Types, localVars, coordinatorVars
  <1>2. /\ ipc' \in [Clients -> Requests]
        /\ ipc'[k].at = "idle" /\ ipc'[k].events = {}
        /\ \A j \in Clients \ {k} : ipc'[j] = ipc[j]
    BY <1>1 DEF Idle, Requests
  <1>3. StatusOK'
    <2>1. CASE ipc[k].at = "broadcastStop"
      <3>1. "stop" \in LocalRequests
        BY <2>1 DEF HostInv, ClientsOK
      <3> QED
        BY <1>1, <2>1, <3>1 DEF StatusOK, Shown, IdleStatus, Status
    <2>2. CASE ipc[k].at = "broadcast"
      BY <1>1, <2>2 DEF HostInv, StatusOK, Shown
    <2> QED
      BY <1>1, <2>1, <2>2
  <1>4. Types' /\ TaskOK' /\ WindowBounded' /\ StatusOK'
    <2>1. registry' \in [Sessions -> Controllers \cup {Nil}] /\ terms' \in Seq(Events)
      BY <1>1 DEF HostInv, Types
    <2> QED
      BY <1>1, <1>2, <1>3, <2>1, LocalKeeps
  <1>5. ClientsOK'
    BY <1>1, <1>2 DEF HostInv, ClientsOK
  <1>6. RegistryTracksSession'
    BY <1>1 DEF HostInv, RegistryTracksSession
  <1>7. RevokerAtWork'
    BY <1>1, <1>2 DEF HostInv, RevokerAtWork, Confirmed, BeingRevoked
  <1>8. Reachable'
    <2>1. HaveToSend' = HaveToSend
      BY <1>1, <1>2 DEF HaveToSend
    <2>2. \A s, c : (Running(s, c)' => Running(s, c)) /\ (Queued(s, c) => Queued(s, c)')
      BY <1>1, <2>1 DEF Running, Queued
    <2>3. \A s, c : Sending(s, c) => Sending(s, c)'
      BY <1>1, <1>2 DEF Sending
    <2> QED
      BY <1>1, <2>2, <2>3 DEF HostInv, Reachable
  <1> QED
    BY <1>4, <1>5, <1>6, <1>7, <1>8 DEF HostInv

(* Granting takes nothing away; a revocation leaves its client about to    *)
(* terminate the Controller's sessions.                                    *)
LEMMA GrantKeeps ==
  ASSUME HostInv, NEW k \in Clients, NEW d \in Controllers,
         create_controller_grant(k, d) \/ revoke_controller_grant(k, d)
  PROVE  HostInv'
  <1>1. /\ ipc[k].at = "idle" /\ ipc[k].events = {} /\ ipc \in [Clients -> Requests]
        /\ UNCHANGED <<registry, terms, status, localVars>>
        /\ UNCHANGED <<active, task, clock>>
        /\ registry' \in [Sessions -> Controllers \cup {Nil}] /\ terms' \in Seq(Events)
    BY DEF create_controller_grant, revoke_controller_grant, Asks, HostInv, Types, ClientsOK,
           localVars, coordinatorVars
  <1>2. StatusOK'
    BY <1>1 DEF HostInv, StatusOK, Shown
  <1>3. RegistryTracksSession'
    BY <1>1 DEF HostInv, RegistryTracksSession
  <1>4. CASE create_controller_grant(k, d)
    <2>1. ipc' = ipc /\ grants' = grants \cup {d}
      BY <1>4 DEF create_controller_grant
    <2>2. Types' /\ TaskOK' /\ WindowBounded' /\ StatusOK'
      BY <1>1, <1>2, <2>1, LocalKeeps
    <2>3. ClientsOK'
      BY <1>1, <2>1 DEF HostInv, ClientsOK
    <2>4. Reachable'
      <3>1. HaveToSend' = HaveToSend
        BY <2>1 DEF HaveToSend
      <3>2. \A s, c : /\ Running(s, c)' => Running(s, c)
                      /\ Sending(s, c) => Sending(s, c)'
                      /\ Queued(s, c) => Queued(s, c)'
        BY <1>1, <2>1, <3>1 DEF Running, Sending, Queued
      <3> QED
        BY <1>1, <3>2 DEF HostInv, Reachable
    <2>5. RevokerAtWork'
      BY <1>1, <2>1 DEF HostInv, RevokerAtWork, Confirmed, BeingRevoked
    <2> QED
      BY <1>3, <2>2, <2>3, <2>4, <2>5 DEF HostInv
  <1>5. CASE revoke_controller_grant(k, d)
    <2>1. /\ ipc' = [ipc EXCEPT ![k] = [Idle EXCEPT !.at = "terminate", !.c = d]]
          /\ grants' = grants \ {d}
      BY <1>5 DEF revoke_controller_grant
    <2>2. /\ ipc' \in [Clients -> Requests]
          /\ ipc'[k].at = "terminate" /\ ipc'[k].c = d /\ ipc'[k].events = {}
          /\ \A j \in Clients \ {k} : ipc'[j] = ipc[j]
      BY <1>1, <2>1 DEF Idle, Requests
    <2>3. Types' /\ TaskOK' /\ WindowBounded' /\ StatusOK'
      BY <1>1, <1>2, <2>2, LocalKeeps
    <2>4. ClientsOK'
      BY <1>1, <2>2 DEF HostInv, ClientsOK
    <2>5. Reachable'
      <3>1. HaveToSend' = HaveToSend
        BY <1>1, <2>2 DEF HaveToSend
      <3>2. \A s, c : (Running(s, c)' => Running(s, c)) /\ (Queued(s, c) => Queued(s, c)')
        BY <1>1, <3>1 DEF Running, Queued
      <3>3. \A s, c : Sending(s, c) => Sending(s, c)'
        BY <1>1, <2>2 DEF Sending
      <3> QED
        BY <1>1, <3>2, <3>3 DEF HostInv, Reachable
    <2>6. RevokerAtWork'
      <3> SUFFICES ASSUME NEW s \in Sessions, NEW c \in Controllers, Confirmed(s, c)',
                          c \notin grants', registry'[s] = c
                   PROVE  BeingRevoked(c)'
        BY DEF RevokerAtWork
      <3>1. CASE c = d
        BY <2>2, <3>1 DEF BeingRevoked
      <3>2. CASE c # d
        <4>1. BeingRevoked(c)
          BY <1>1, <2>1, <3>2 DEF HostInv, RevokerAtWork, Confirmed
        <4> QED
          BY <1>1, <2>2, <4>1 DEF BeingRevoked
      <3> QED
        BY <3>1, <3>2
    <2> QED
      BY <1>3, <2>3, <2>4, <2>5, <2>6 DEF HostInv
  <1> QED
    BY <1>4, <1>5

----------------------------------------------------------------------------
(* The theorems.                                                           *)

(* The invariant holds when the agent starts.                              *)
LEMMA HostInit == Init => HostInv
  <1> SUFFICES ASSUME Init PROVE HostInv
    OBVIOUS
  <1>1. task = At("connecting") /\ "connecting" \in Labels /\ active = Nil /\ clock = 0
    BY DEF Init, Labels, Returns, Resting
  <1>2. task \in Tasks /\ task.at = "connecting" /\ task.now = 0
    BY <1>1, AtType
  <1>3. /\ ipc \in [Clients -> Requests] /\ terms \in Seq(Events) /\ Len(terms) = 0
        /\ \A k \in Clients : ipc[k].at = "idle" /\ ipc[k].events = {}
    BY EmptySeq DEF Init, Idle, Requests
  <1>4. Types
    BY <1>2, <1>3 DEF Init, Types
  <1>5. TaskOK
    BY <1>1, <1>2 DEF TaskOK, Starting, Closing
  <1>6. ClientsOK
    BY <1>3, Limits DEF ClientsOK
  <1>7. RegistryTracksSession /\ Reachable /\ RevokerAtWork
    BY <1>1, <1>2 DEF Init, RegistryTracksSession, Reachable, RevokerAtWork, Running, Confirmed
  <1>8. WindowBounded /\ StatusOK
    BY <1>1 DEF Init, WindowBounded, StatusOK, Shown, IdleStatus, Status
  <1> QED
    BY <1>4, <1>5, <1>6, <1>7, <1>8 DEF HostInv

(* Every step keeps the invariant.                                         *)
LEMMA HostStep ==
  ASSUME HostInv, [Next]_vars
  PROVE  HostInv'
  <1>1. CoordinatorOK
    BY DEF HostInv, CoordinatorOK
  <1>2. ASSUME CoordinatorOK', Calm
        PROVE  HostInv'
    <2>1. ClientsOK' /\ RegistryTracksSession' /\ Reachable' /\ RevokerAtWork'
      BY <1>2, CalmKeeps DEF HostInv
    <2> QED
      BY <1>2, <2>1 DEF HostInv, CoordinatorOK
  <1>3. CASE TaskStep
    <2>1. CASE CloseUnregister \/ Undo
      BY <2>1, UnregisterKeeps
    <2>2. CASE register \/ record_authenticated_session
      BY <2>2, RegisterKeeps
    <2>3. CASE CloseFinish
      BY <1>1, <1>2, <2>3, CloseFinishKeeps
    <2>4. CASE Dispatch
      BY <1>1, <1>2, <2>4, DispatchKeeps
    <2>5. CASE restart_active
      BY <1>1, <1>2, <2>5, RestartKeeps
    <2>6. CASE Authenticate \/ verify_remote_offer \/ Report \/ Activate
      BY <1>1, <1>2, <2>6, StartKeeps
    <2>7. CASE signaling_lost
      BY <1>1, <1>2, <2>7, SignalingLostKeeps
    <2>8. CASE shutdown \/ Drop
      BY <1>1, <1>2, <2>8, ShutdownKeeps
    <2> QED
      BY <1>3, <2>1, <2>2, <2>3, <2>4, <2>5, <2>6, <2>7, <2>8 DEF TaskStep
  <1>4. CASE PeerStep \/ ExpireOnline
    BY <1>1, <1>2, <1>4, PeerKeeps
  <1>5. CASE \/ ExpireOffline \/ ConnectRemote \/ LoseSignaling \/ BackoffOver
             \/ SeeShutdown \/ TerminationLagged
    BY <1>1, <1>2, <1>5, RuntimeKeeps
  <1>6. CASE handle_termination
    BY <1>6, TerminationKeeps
  <1>7. ASSUME NEW e \in Envelopes, ReceiveEnvelope(e)
        PROVE  HostInv'
    BY <1>1, <1>2, <1>7, ReceiveKeeps
  <1>8. ASSUME NEW k \in Clients, ServeLocal(k) \/ emergency_stop(k)
        PROVE  HostInv'
    BY <1>8, TerminateKeeps, BroadcastKeeps, RespondKeeps, EmergencyStopKeeps DEF ServeLocal
  <1>9. ASSUME NEW k \in Clients, NEW c \in Controllers,
               create_controller_grant(k, c) \/ revoke_controller_grant(k, c)
        PROVE  HostInv'
    BY <1>9, GrantKeeps
  <1>10. CASE RequestShutdown \/ Tick \/ UNCHANGED vars
    BY <1>1, <1>2, <1>10, OutsideKeeps
  <1>11. CASE Rest
    BY <1>10, <1>11 DEF Rest
  <1> QED
    BY <1>3, <1>4, <1>5, <1>6, <1>7, <1>8, <1>9, <1>10, <1>11
       DEF Next, Expire, ReceiveTermination

(* An event of the session, sent or to be sent, is its termination.        *)
LEMMA TerminationOnItsWay ==
  ASSUME Types, NEW s \in Sessions, NEW c \in Controllers, Sending(s, c) \/ Queued(s, c)
  PROVE  Terminating(s, c)
  <1>1. \A e \in Events : e.s = s /\ e.c = c =>
           e.reason \in Reasons /\ e = Event(s, c, e.reason)
    BY DEF Events, Event
  <1>2. CASE Sending(s, c)
    <2>1. PICK k \in Clients : \E e \in ipc[k].events : e.s = s /\ e.c = c
      BY <1>2 DEF Sending
    <2>2. ipc[k].events \subseteq Events
      BY DEF Types, Requests
    <2> QED
      BY <1>1, <2>1, <2>2 DEF Terminating, Reasons
  <1>3. CASE Queued(s, c)
    <2>1. PICK i \in 1..Len(terms) : terms[i].s = s /\ terms[i].c = c
      BY <1>3 DEF Queued
    <2>2. terms[i] \in Events /\ i \in DOMAIN terms
      BY <2>1, ElementOfSeq, LenProperties DEF Types
    <2> QED
      BY <1>1, <2>1, <2>2 DEF Terminating, Reasons
  <1> QED
    BY <1>2, <1>3

(* The invariant says what the properties say.                             *)
LEMMA HostInvImplies ==
  ASSUME HostInv
  PROVE  Stoppable /\ RevocationNoticed /\ RegistryTracksSession /\ WindowBounded
         /\ StatusFollows
  <1>1. active # Nil => active.s \in Sessions /\ active.c \in Controllers
                        /\ Running(active.s, active.c) /\ Confirmed(active.s, active.c)
    BY DEF HostInv, Types, ActiveSessions, Running, Confirmed
  <1>2. Stoppable
    BY <1>1, TerminationOnItsWay DEF Stoppable, HostInv, Reachable
  <1>3. RevocationNoticed
    BY <1>1, TerminationOnItsWay DEF RevocationNoticed, HostInv, Reachable, RevokerAtWork
  <1>4. StatusFollows
    BY DEF HostInv, StatusOK, Settled, Shown, StatusFollows
  <1> QED
    BY <1>2, <1>3, <1>4 DEF HostInv

(* HostInv is an invariant.                                                *)
THEOREM HostInvariant == Spec => []HostInv
  <1>1. Init => HostInv
    BY HostInit
  <1>2. HostInv /\ [Next]_vars => HostInv'
    BY HostStep
  <1> QED
    BY <1>1, <1>2, PTL DEF Spec

(* A running session can always be stopped: it is registered, or its       *)
(* termination is on its way and the bounded channel cannot lose it.       *)
THEOREM SessionsAreStoppable == Spec => []Stoppable
  <1>1. HostInv => Stoppable
    BY HostInvImplies
  <1> QED
    BY <1>1, HostInvariant, PTL

(* No running session outlives its grant unnoticed, wherever in the start  *)
(* of the session the revocation came.                                     *)
THEOREM RevocationsAreNoticed == Spec => []RevocationNoticed
  <1>1. HostInv => RevocationNoticed
    BY HostInvImplies
  <1> QED
    BY <1>1, HostInvariant, PTL

(* The session registry keeps no session the coordinator does not have.    *)
THEOREM RegistryIsTheCoordinators == Spec => []RegistryTracksSession
  <1>1. HostInv => RegistryTracksSession
    BY HostInvImplies
  <1> QED
    BY <1>1, HostInvariant, PTL

(* A suspended session has a deadline at most a window away, and a         *)
(* connected one has none.                                                 *)
THEOREM WindowsAreBounded == Spec => []WindowBounded
  <1>1. HostInv => WindowBounded
    BY HostInvImplies
  <1> QED
    BY <1>1, HostInvariant, PTL

(* Whenever the task waits, the local user is shown the session there is,  *)
(* or the Idle of an emergency stop.                                       *)
THEOREM StatusIsTheSessions == Spec => []StatusFollows
  <1>1. HostInv => StatusFollows
    BY HostInvImplies
  <1> QED
    BY <1>1, HostInvariant, PTL
=============================================================================
