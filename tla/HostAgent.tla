----------------------------- MODULE HostAgent -----------------------------
(***************************************************************************)
(* The Host agent process and what it keeps on disk (crates/host-agent and *)
(* crates/host-platform):                                                  *)
(*   runtime.rs, main.rs  starting, local clients, shutdown                *)
(*   identity.rs          the protected identity, created on first start   *)
(*   authorization.rs     the registry of grants, behind one mutex         *)
(*   grant_store.rs, restricted_fs.rs   the grant file, replaced by rename *)
(*   session_auth.rs      verification of session offers, replay cache     *)
(*   ipc/protocol.rs, auth.rs           the handshake of a local client    *)
(* Requests of local clients run on blocking threads that outlive a client *)
(* which gave up.  A write of the grant file is three steps, and the       *)
(* process or the machine may stop between any two of them.  One process   *)
(* runs at a time.                                                         *)
(***************************************************************************)
EXTENDS Integers, Sequences, FiniteSets, ChannelAuth

CONSTANTS
    Clients,         \* bound: local clients
    Controllers,     \* devices that may be granted control
    PermissionSets,  \* bound: the permission lists requests name
    Offers,          \* bound: session offers, records of an OfferType
    MaxGrants,       \* MAX_CONTROLLER_GRANTS
    MaxLocalClients, \* MAX_LOCAL_CLIENTS
    MaxReplays,      \* MAX_REPLAY_CACHE_ENTRIES
    MaxLifetime,     \* SESSION_AUTH_MAX_LIFETIME_MS
    FutureSkew,      \* SESSION_AUTH_FUTURE_SKEW_MS
    MaxIssued,       \* bound: grants written for one Controller
    MaxRequests,     \* bound: requests of local clients
    MaxFaults,       \* bound: failed steps and stops without warning
    MaxClock         \* bound: the clock

ASSUME AgentAssumption ==
    /\ {MaxGrants, MaxLocalClients, MaxReplays, MaxLifetime, FutureSkew, MaxIssued,
        MaxRequests, MaxFaults, MaxClock} \subseteq Nat
    /\ \A o \in Offers : o.controller \in Controllers /\ o.issued \in Nat /\ o.expires \in Nat

VARIABLES
    seed,      \* the protected secret: 0, or the identity it derives
    file,      \* controller-grants.bin as the file system shows it
    durable,   \* the same after a power failure
    agent,     \* the process: its phase, identity, registry and replay cache
    op,        \* the holder of the authorization mutex while it persists
    conn,      \* each local client's connection
    request,   \* the request each client's thread works on
    outcome,   \* what the registry last returned for each Controller
    accepted,  \* offers this process accepted, and how often
    issued,    \* grant identifiers drawn for each Controller
    requests, faults, clock

vars == <<seed, file, durable, agent, op, conn, request, outcome, accepted,
          issued, requests, faults, clock>>
disk == <<seed, file, durable>>
counters == <<issued, requests, faults, clock>>

None == [kind |-> "none"]
Off == [phase |-> "off", identity |-> 0, registry |-> {}, nonces |-> {}]
Running == agent.phase \in {"serving", "stopping"}
\* a step that can fail does so at most MaxFaults times
Fails(ok) == faults + (IF ok THEN 0 ELSE 1) <= MaxFaults
Counted(ok) == faults' = IF ok THEN faults ELSE faults + 1

-----------------------------------------------------------------------------
(* What is stored, and reading it back.                                    *)

Snapshot(host, grants) == [kind |-> "snapshot", host |-> host, grants |-> grants]
GrantId(c, n) == <<c, n>>
Grant(c, n, permissions) ==
    [controller |-> c, id |-> GrantId(c, n), permissions |-> permissions, seen |-> 0]
GrantsOf(grants, c) == {g \in grants : g.controller = c}

\* normalize_stored_permissions: no duplicates, no control without view
NormalPermissions(p) == p # {} /\ ("control" \in p => "view" \in p)
ValidStoredGrant(g) == g.controller \in Controllers /\ NormalPermissions(g.permissions)
\* decode_envelope, then AuthorizationRegistry::load
DecodesFor(f, host) == f.kind = "snapshot" /\ f.host = host
Loads(f, host) ==
    \/ f = None
    \/ /\ DecodesFor(f, host)
       /\ Cardinality(f.grants) <= MaxGrants
       /\ \A g \in f.grants : ValidStoredGrant(g)
       /\ \A g, h \in f.grants : (g.id = h.id \/ g.controller = h.controller) => g = h
Stored(f) == IF f = None THEN {} ELSE f.grants

-----------------------------------------------------------------------------
(* Starting: the identity first, then the grants, then the endpoint.       *)

\* the protected store may have kept a seed although it reports a failure
StoreSeed(stored) == IF stored THEN {1} ELSE {0, 1}
\* load_or_create: only a store that says there is no seed makes the agent draw one
LoadIdentity(readable, stored) ==
    /\ agent.phase = "off" /\ Fails(readable /\ stored) /\ Counted(readable /\ stored)
    /\ \/ ~readable /\ UNCHANGED <<seed, agent>>
       \/ /\ readable /\ seed # 0 /\ stored
          /\ agent' = [agent EXCEPT !.phase = "identified", !.identity = seed]
          /\ UNCHANGED seed
       \/ /\ readable /\ seed = 0
          /\ seed' \in StoreSeed(stored)
          /\ agent' = IF stored THEN [agent EXCEPT !.phase = "identified", !.identity = 1]
                      ELSE agent
StartIdentity(readable, stored) ==
    /\ LoadIdentity(readable, stored)
    /\ UNCHANGED <<file, durable, op, conn, request, outcome, accepted, issued, requests, clock>>

StartGrants(readable) ==
    /\ agent.phase = "identified" /\ Fails(readable) /\ Counted(readable)
    /\ agent' = IF readable /\ Loads(file, agent.identity)
                THEN [agent EXCEPT !.phase = "loaded", !.registry = Stored(file)] ELSE Off
    /\ UNCHANGED <<disk, op, conn, request, outcome, accepted, issued, requests, clock>>

\* the instance identifier, the token, bind_listener, prepare_remote, then run_agent
StartServing(ok) ==
    /\ agent.phase = "loaded" /\ Fails(ok) /\ Counted(ok)
    /\ agent' = IF ok THEN [agent EXCEPT !.phase = "serving"] ELSE Off
    /\ accepted' = [o \in Offers |-> 0]
    /\ UNCHANGED <<disk, op, conn, request, outcome, issued, requests, clock>>

-----------------------------------------------------------------------------
(* The registry.  One operation holds the mutex from its checks until the  *)
(* file is written and the map is changed.                                 *)

Persisting(by, c, next, result) ==
    [kind |-> "persist", by |-> by, controller |-> c, next |-> next,
     result |-> result, stage |-> "temporary"]

\* create_controller_grant: an identical grant is returned as it is
CreateGrant(by, c, permissions) ==
    LET existing == GrantsOf(agent.registry, c)
        new == Grant(c, issued[c] + 1, permissions)
    IN IF ~NormalPermissions(permissions) \/ existing # {}
          \/ Cardinality(agent.registry) >= MaxGrants
       THEN UNCHANGED <<op, issued>>
       ELSE /\ op' = Persisting(by, c, agent.registry \cup {new}, "granted")
            /\ issued' = [issued EXCEPT ![c] = @ + 1]
\* revoke_controller_grant: by identifier, so a stale request finds nothing
RevokeGrant(by, id) ==
    LET found == {g \in agent.registry : g.id = id}
    IN IF found = {} THEN UNCHANGED op
       ELSE op' = Persisting(by, id[1], agent.registry \ found, "revoked")
\* record_authenticated_session: later than the recorded time only
RecordSession(by, c) ==
    LET updated == {[g EXCEPT !.seen = clock] : g \in GrantsOf(agent.registry, c)}
    IN IF \E g \in GrantsOf(agent.registry, c) : clock > g.seen
       THEN op' = Persisting(by, c, (agent.registry \ GrantsOf(agent.registry, c)) \cup updated,
                             "recorded")
       ELSE UNCHANGED op

\* atomic_write_private, step by step
WriteTemporary(ok) ==
    /\ op.kind = "persist" /\ op.stage = "temporary" /\ Fails(ok) /\ Counted(ok)
    /\ op' = IF ok THEN [op EXCEPT !.stage = "rename"] ELSE [op EXCEPT !.stage = "failed"]
    /\ outcome' = [outcome EXCEPT ![op.controller] =
                     IF op.result = "recorded" THEN @ ELSE "unknown"]
    /\ UNCHANGED <<disk, agent, conn, request, accepted, issued, requests, clock>>
\* Mutant of Rename: the file is overwritten in place.
RenameInPlace(ok) ==
    /\ op.kind = "persist" /\ op.stage = "rename" /\ Fails(ok)
    /\ IF ok
       THEN /\ file' = IF file.kind = "torn" THEN Snapshot(agent.identity, op.next)
                       ELSE [kind |-> "torn"]
            /\ op' = IF file.kind = "torn" THEN [op EXCEPT !.stage = "sync"] ELSE op
       ELSE op' = [op EXCEPT !.stage = "failed"] /\ UNCHANGED file
Rename(ok) ==
    /\ op.kind = "persist" /\ op.stage = "rename" /\ Fails(ok)
    /\ file' = IF ok THEN Snapshot(agent.identity, op.next) ELSE file
    /\ op' = [op EXCEPT !.stage = IF ok THEN "sync" ELSE "failed"]
PersistRename(ok) ==
    /\ Rename(ok) /\ Counted(ok)
    /\ UNCHANGED <<seed, durable, agent, conn, request, outcome, accepted, issued, requests, clock>>
\* Mutant of DirectorySync: the directory is not synced.
NoDirectorySync(ok) == op' = [op EXCEPT !.stage = "written"] /\ UNCHANGED durable
\* restrict_file_permissions and sync_directory
DirectorySync(ok) ==
    /\ op' = [op EXCEPT !.stage = IF ok THEN "written" ELSE "failed"]
    /\ durable' = IF ok THEN file ELSE durable
PersistSync(ok) ==
    /\ op.kind = "persist" /\ op.stage = "sync" /\ Fails(ok) /\ Counted(ok)
    /\ DirectorySync(ok)
    /\ UNCHANGED <<seed, file, agent, conn, request, outcome, accepted, issued, requests, clock>>

\* the map follows the file; the mutex is released and the thread has its result
Commit ==
    /\ op.kind = "persist" /\ op.stage \in {"written", "failed"}
    /\ agent' = [agent EXCEPT !.registry = IF op.stage = "written" THEN op.next ELSE @]
    /\ outcome' = [outcome EXCEPT ![op.controller] =
                     IF op.stage = "failed" \/ op.result = "recorded" THEN @ ELSE op.result]
    /\ request' = IF op.by \in Clients THEN [request EXCEPT ![op.by] = [kind |-> "done"]]
                  ELSE request
    /\ op' = None
    /\ UNCHANGED <<disk, conn, accepted, counters>>

-----------------------------------------------------------------------------
(* Local clients.                                                          *)

Connected == {k \in Clients : conn[k] # "none"}
SetConn(k, phase) == conn' = [conn EXCEPT ![k] = phase]
local == <<disk, agent, op, outcome, accepted, issued, faults, clock>>

\* spawn_connection: no permit, no connection
AcceptClient(k) ==
    /\ agent.phase = "serving" /\ conn[k] = "none" /\ request[k] = None
    /\ requests < MaxRequests
    /\ Cardinality(Connected) < MaxLocalClients
    /\ SetConn(k, "challenged")
    /\ UNCHANGED <<local, request, requests>>

\* ServerProtocol::authenticate: against the token in the agent's private file; a
\* wrong proof is answered with an error and the connection ends
ProofFrom(secret) == ChannelClientProof(secret, "FlutterHost", "instance", "nonces")
Authenticate(k, proof) ==
    /\ conn[k] = "challenged"
    /\ SetConn(k, IF VerifyClientProof("token", "FlutterHost", "instance", "nonces", proof)
                  THEN "ready" ELSE "none")
    /\ UNCHANGED <<local, request, requests>>

\* Mutant of Disconnect: a connection does not notice that the agent stops.
IgnoresCancel(k) ==
    /\ agent.phase = "serving" /\ conn[k] \in {"challenged", "ready"}
    /\ SetConn(k, "none")
    /\ UNCHANGED <<local, request, requests>>
\* the handshake timeout, the end of the stream, a frame that does not decode, a
\* client that does not read its answers, or the cancellation of every connection
Disconnect(k) ==
    /\ conn[k] \in {"challenged", "ready"}
    /\ SetConn(k, "none")
    /\ UNCHANGED <<local, request, requests>>

\* next_frame, by what a request does to the registry: accepting a pairing (whose own
\* checks are in HostPairing) creates a grant, a revocation names one by identifier
LocalRequests ==
    [kind : {"create"}, controller : Controllers, permissions : PermissionSets]
    \cup [kind : {"revoke"}, id : {GrantId(c, n) : c \in Controllers, n \in 1..MaxIssued}]
    \cup [kind : {"read"}]
MayIssue(c) ==
    issued[c] + Cardinality({k \in Clients : request[k].kind = "create" /\ request[k].controller = c})
        < MaxIssued
\* begin_request: one at a time, because the loop waits for the answer
BeginRequest(k, q) ==
    /\ conn[k] = "ready" /\ request[k] = None /\ requests < MaxRequests
    /\ q.kind = "create" => MayIssue(q.controller)
    /\ SetConn(k, "busy")
    /\ request' = [request EXCEPT ![k] = q]
    /\ requests' = requests + 1
    /\ UNCHANGED local

\* handle_payload on the blocking thread, up to the first write
HandlePayload(k) ==
    /\ Running /\ request[k].kind \in {"create", "revoke", "read"} /\ op = None
    /\ \/ request[k].kind = "create"
          /\ CreateGrant(k, request[k].controller, request[k].permissions)
       \/ request[k].kind = "revoke" /\ RevokeGrant(k, request[k].id) /\ UNCHANGED issued
       \/ request[k].kind = "read" /\ UNCHANGED <<op, issued>>
    /\ request' = [request EXCEPT ![k] = IF op' = None THEN [kind |-> "done"]
                                         ELSE [kind |-> "writing"]]
    /\ UNCHANGED <<disk, agent, conn, outcome, accepted, requests, faults, clock>>
\* the answer goes to the connection that waits for it, if one still does
Respond(k) ==
    /\ request[k].kind = "done"
    /\ request' = [request EXCEPT ![k] = None]
    /\ IF conn[k] = "busy" THEN SetConn(k, "ready") ELSE UNCHANGED conn
    /\ UNCHANGED <<local, requests>>
\* REQUEST_TIMEOUT: the connection ends, the thread goes on
RequestTimeout(k) ==
    /\ conn[k] = "busy" /\ Fails(FALSE) /\ Counted(FALSE)
    /\ SetConn(k, "none")
    /\ UNCHANGED <<disk, agent, op, request, outcome, accepted, issued, requests, clock>>

-----------------------------------------------------------------------------
(* The remote side: offers and authenticated sessions.                     *)

ValidTime(o) ==
    /\ o.expires >= o.issued /\ o.expires - o.issued <= MaxLifetime
    /\ o.issued <= clock + FutureSkew /\ o.expires >= clock
OfferTranscript(o) ==
    <<"SessionOffer", o.controller, o.host, o.nonce, o.issued, o.expires, o.permissions, o.sdp>>
\* an answer repeats the offer and adds the Host's own description
AnswerTranscript(o) ==
    <<"SessionAnswer">> \o Tail(OfferTranscript(o)) \o <<"answer">>
Signature(signer, transcript) == <<signer, transcript>>
VerifySignature(signer, transcript, signature) == signature = Signature(signer, transcript)
RequestNormal(o) == NormalPermissions(o.permissions)
Granted(o) == \E g \in GrantsOf(agent.registry, o.controller) : o.permissions \subseteq g.permissions
\* sign_canonical_transcript: answers and reconnects that name this Host, nothing else
HostSigns(transcript) ==
    /\ transcript[1] \in {"SessionAnswer", "SessionReconnect"}
    /\ transcript[3] = agent.identity
NonceKey(o) == [key |-> <<o.controller, o.nonce>>, expires |-> o.expires]
\* Mutant of Retained: a nonce is forgotten one instant early.
RetainedLate == {n \in agent.nonces : n.expires > clock}
Retained == {n \in agent.nonces : n.expires >= clock}
VerifyOffer(o) ==
    /\ agent.phase = "serving" /\ op = None /\ accepted[o] < 2
    /\ o.host = agent.identity /\ ValidTime(o) /\ RequestNormal(o) /\ Granted(o)
    /\ VerifySignature(o.controller, OfferTranscript(o), o.signature)
    /\ \A n \in Retained : n.key # NonceKey(o).key
    /\ Cardinality(Retained) < MaxReplays
    /\ agent' = [agent EXCEPT !.nonces = Retained \cup {NonceKey(o)}]
    /\ accepted' = [accepted EXCEPT ![o] = @ + 1]
    /\ UNCHANGED <<disk, op, conn, request, outcome, counters>>
\* sign_remote_answer, then record_authenticated_session
SessionAuthenticated(o) ==
    /\ agent.phase = "serving" /\ op = None /\ accepted[o] > 0
    /\ HostSigns(AnswerTranscript(o))
    /\ RecordSession("remote", o.controller)
    /\ UNCHANGED <<disk, agent, conn, request, outcome, accepted, counters>>

-----------------------------------------------------------------------------
(* Stopping.                                                               *)

\* a signal, or an error of the listener or the remote runtime (try_join)
StopRequested(orderly) ==
    /\ agent.phase = "serving" /\ Fails(orderly) /\ Counted(orderly)
    /\ agent' = [agent EXCEPT !.phase = "stopping"]
    /\ conn' = IF orderly THEN conn ELSE [k \in Clients |-> "none"]
    /\ UNCHANGED <<disk, op, request, outcome, accepted, issued, requests, clock>>
\* stop_connections has joined every connection, and the process ends with its threads
Exit ==
    /\ agent.phase = "stopping" /\ Connected = {} /\ op = None
    /\ \A k \in Clients : request[k] = None
    /\ agent' = Off
    /\ UNCHANGED <<disk, op, conn, request, outcome, accepted, counters>>

\* the process is killed; with the machine, what was not synced may be gone too
Crash(power) ==
    /\ agent.phase # "off" /\ Fails(FALSE) /\ Counted(FALSE)
    /\ agent' = Off /\ op' = None
    /\ conn' = [k \in Clients |-> "none"] /\ request' = [k \in Clients |-> None]
    /\ file' = IF power THEN durable ELSE file
    /\ UNCHANGED <<seed, durable, outcome, accepted, issued, requests, clock>>

Advance ==
    /\ clock < MaxClock /\ clock' = clock + 1
    /\ UNCHANGED <<disk, agent, op, conn, request, outcome, accepted, issued, requests, faults>>

-----------------------------------------------------------------------------
Init ==
    /\ seed = 0 /\ file = None /\ durable = None
    /\ agent = Off /\ op = None
    /\ conn = [k \in Clients |-> "none"] /\ request = [k \in Clients |-> None]
    /\ outcome = [c \in Controllers |-> "unknown"]
    /\ accepted = [o \in Offers |-> 0]
    /\ issued = [c \in Controllers |-> 0]
    /\ requests = 0 /\ faults = 0 /\ clock = 0

Starting ==
    \/ \E readable, stored \in BOOLEAN : StartIdentity(readable, stored)
    \/ \E ok \in BOOLEAN : StartGrants(ok) \/ StartServing(ok)
Persistence ==
    \/ \E ok \in BOOLEAN : WriteTemporary(ok) \/ PersistRename(ok) \/ PersistSync(ok)
    \/ Commit
ClientProofs == {ProofFrom("token"), ProofFrom("other")}
Locals == \E k \in Clients :
    \/ AcceptClient(k)
    \/ \E p \in ClientProofs : Authenticate(k, p)
    \/ \E q \in LocalRequests : BeginRequest(k, q)
    \/ HandlePayload(k) \/ Respond(k) \/ RequestTimeout(k) \/ Disconnect(k)
Remotes == \E o \in Offers : VerifyOffer(o) \/ SessionAuthenticated(o)
Stops == Exit \/ \E x \in BOOLEAN : StopRequested(x) \/ Crash(x)
Next == Starting \/ Persistence \/ Locals \/ Remotes \/ Stops \/ Advance
Spec == Init /\ [][Next]_vars

\* Threads and connections are scheduled; the disk answers; a connection notices
\* the cancellation at its next wait.
Fairness ==
    /\ WF_vars(Persistence) /\ WF_vars(Exit)
    /\ \A k \in Clients :
         /\ WF_vars(HandlePayload(k)) /\ WF_vars(Respond(k))
         /\ WF_vars(agent.phase = "stopping" /\ Disconnect(k))
FairSpec == Spec /\ Fairness

-----------------------------------------------------------------------------
\* What the registry wrote and reported holds ever after: a grant it reported
\* created is in the file and in the registry, one it reported revoked is in
\* neither, across failed writes, killed processes and power failures
\* (AuthorizationRegistry persists before it changes its map).
ReportedHolds ==
    \A c \in Controllers :
        LET holds(grants) == GrantsOf(grants, c) # {}
        IN outcome[c] \in {"granted", "revoked"} =>
             /\ holds(Stored(file)) = (outcome[c] = "granted")
             /\ holds(Stored(durable)) = (outcome[c] = "granted")
             /\ Running => holds(agent.registry) = (outcome[c] = "granted")

\* The agent can always be started again: whatever was interrupted, the grant
\* file is complete, within its limits, and belongs to the stored identity.
Restartable ==
    \A f \in {file, durable} : f # None => seed # 0 /\ Loads(f, seed)

\* No session offer is accepted twice by a process (OfferVerifier::verify), up to
\* and including the millisecond in which it expires and its nonce may be forgotten.
OffersOnce == \A o \in Offers : accepted[o] <= 1

\* Once it is asked to stop, the agent ends, even with a request running whose
\* client has gone or a write in progress (stop_connections waits for them).
AgentStops == (agent.phase = "stopping") ~> (agent.phase = "off")
============================================================================
