-------------------------- MODULE HostAgentProofs --------------------------
(***************************************************************************)
(* The Host agent's grants and offers, for any clients, Controllers,       *)
(* offers and limits, through failed writes, killed processes and power    *)
(* failures.                                                               *)
(*                                                                         *)
(* What was reported holds because an operation forgets what was reported  *)
(* of its Controller before it can change the file (Reported says nothing  *)
(* then), because what it writes differs from the registry for that        *)
(* Controller only, and because it reports after file and directory are    *)
(* written (PersistOK).  An offer is accepted once because its nonce is    *)
(* kept as long as its time is valid (NoncesKept).                         *)
(***************************************************************************)
EXTENDS HostAgent, FiniteSetTheorems, TLAPS

GrantIds == Controllers \X Nat
Grants == [controller : Controllers, id : GrantIds, permissions : PermissionSets, seen : Nat]

(* A registry AuthorizationRegistry::load accepts.                         *)
GoodGrants(G) ==
    /\ G \in SUBSET Grants /\ IsFiniteSet(G) /\ Cardinality(G) <= MaxGrants
    /\ \A g \in G : NormalPermissions(g.permissions) /\ g.id[1] = g.controller
    /\ \A g, h \in G : g.controller = h.controller => g = h

Files == [kind : {"snapshot"}, host : Nat, grants : SUBSET Grants]
Ops ==
    [kind : {"persist"}, by : Clients \cup {"remote"}, controller : Controllers,
     next : SUBSET Grants, result : {"granted", "revoked", "recorded"},
     stage : {"temporary", "rename", "sync", "written", "failed"}]
Agents ==
    [phase : {"off", "identified", "loaded", "serving", "stopping"}, identity : Nat,
     registry : SUBSET Grants, nonces : SUBSET {NonceKey(o) : o \in Offers}]
Requested ==
    [kind : {"create"}, controller : Controllers, permissions : PermissionSets]
    \cup [kind : {"revoke"}, id : GrantIds]
    \cup [kind : {"read", "writing", "done", "none"}]

Types ==
    /\ seed \in Nat
    /\ file \in Files \cup {None} /\ durable \in Files \cup {None}
    /\ agent \in Agents
    /\ op \in Ops \cup {None}
    /\ request \in [Clients -> Requested]
    /\ outcome \in [Controllers -> {"unknown", "granted", "revoked"}]
    /\ accepted \in [Offers -> Nat]
    /\ issued \in [Controllers -> Nat]
    /\ clock \in Nat

(* A file is a snapshot of good grants under the stored identity.          *)
FileOK(f) == f # None => seed # 0 /\ f.host = seed /\ GoodGrants(f.grants)

Loaded == agent.phase \in {"loaded", "serving", "stopping"}
ProcessOK ==
    /\ agent.phase # "off" => seed # 0 /\ agent.identity = seed
    /\ Loaded => GoodGrants(agent.registry)

Has(G, c) == GrantsOf(G, c) # {}

(* ReportedHolds from the moment the grants are loaded.                    *)
Reported ==
    \A c \in Controllers :
        outcome[c] \in {"granted", "revoked"} =>
            /\ Has(Stored(file), c) = (outcome[c] = "granted")
            /\ Has(Stored(durable), c) = (outcome[c] = "granted")
            /\ Loaded => Has(agent.registry, c) = (outcome[c] = "granted")

(* What the operation that holds the mutex is about to write.              *)
PersistOK ==
    op # None =>
        /\ Running /\ GoodGrants(op.next)
        /\ \A c \in Controllers :
              c # op.controller \/ op.result = "recorded" =>
                  Has(op.next, c) = Has(agent.registry, c)
        /\ op.result = "granted" => Has(op.next, op.controller)
        /\ op.result = "revoked" => ~Has(op.next, op.controller)
        /\ op.stage # "temporary" /\ op.result # "recorded" =>
              outcome[op.controller] = "unknown"
        /\ op.stage \in {"sync", "written"} => Stored(file) = op.next
        /\ op.stage = "written" => Stored(durable) = op.next

NoncesKept ==
    agent.phase = "serving" =>
        \A o \in Offers : accepted[o] > 0 => o.expires < clock \/ NonceKey(o) \in agent.nonces

AgentInv ==
    /\ Types /\ FileOK(file) /\ FileOK(durable)
    /\ ProcessOK /\ Reported /\ PersistOK
    /\ NoncesKept /\ OffersOnce
----------------------------------------------------------------------------
(* Sets of grants.                                                         *)

(* Nothing is not a file, an operation or a request.                       *)
LEMMA NoneIsNothing ==
  /\ \A f \in Files : f # None /\ f.kind = "snapshot" /\ Stored(f) = f.grants
  /\ \A p \in Ops : p # None
  /\ Stored(None) = {}
  BY DEF Files, Ops, None, Stored

(* A registry with no grant is good.                                       *)
LEMMA EmptyGood == GoodGrants({})
  BY FS_EmptySet, AgentAssumption DEF GoodGrants, AgentAssumption

(* A new grant of a Controller that has none leaves a good registry below  *)
(* the limit good, and gives that Controller alone a grant.                *)
LEMMA AddGood ==
  ASSUME NEW G, GoodGrants(G), NEW c \in Controllers, NEW n \in Nat,
         NEW permissions \in PermissionSets, NormalPermissions(permissions),
         ~Has(G, c), ~(Cardinality(G) >= MaxGrants)
  PROVE  LET H == G \cup {Grant(c, n, permissions)}
         IN  /\ GoodGrants(H) /\ Has(H, c)
             /\ \A d \in Controllers \ {c} : Has(H, d) = Has(G, d)
  <1> DEFINE g == Grant(c, n, permissions)
             H == G \cup {g}
  <1>1. g \in Grants /\ g.controller = c /\ g.id[1] = c /\ g.permissions = permissions
    BY DEF Grant, GrantId, Grants, GrantIds
  <1> HIDE DEF g
  <1>2. \A h \in G : h.controller # c
    BY DEF Has, GrantsOf
  <1>3. /\ IsFiniteSet(H) /\ Cardinality(H) <= MaxGrants
    <2>1. g \notin G
      BY <1>1, <1>2
    <2>2. IsFiniteSet(H) /\ Cardinality(H) = Cardinality(G) + 1 /\ Cardinality(G) \in Nat
      BY <2>1, FS_AddElement, FS_CardinalityType DEF GoodGrants
    <2> QED
      BY <2>2, AgentAssumption DEF AgentAssumption
  <1>4. GoodGrants(H)
    BY <1>1, <1>2, <1>3 DEF GoodGrants
  <1>5. Has(H, c) /\ \A d \in Controllers \ {c} : Has(H, d) = Has(G, d)
    BY <1>1 DEF Has, GrantsOf
  <1> QED
    BY <1>4, <1>5 DEF g

(* Taking the grant with an identifier out leaves its Controller alone     *)
(* without one.                                                            *)
LEMMA RemoveGood ==
  ASSUME NEW G, GoodGrants(G), NEW id, {g \in G : g.id = id} # {}
  PROVE  LET H == G \ {g \in G : g.id = id}
         IN  /\ id[1] \in Controllers /\ GoodGrants(H) /\ ~Has(H, id[1])
             /\ \A d \in Controllers \ {id[1]} : Has(H, d) = Has(G, d)
  <1> DEFINE H == G \ {g \in G : g.id = id}
  <1>1. PICK f \in G : f.id = id
    OBVIOUS
  <1>2. f.controller \in Controllers /\ f.controller = id[1]
    BY <1>1 DEF GoodGrants, Grants
  <1>3. \A g \in G : g.id = id => g.controller = id[1]
    BY DEF GoodGrants
  <1>4. H = G \ {f}
    BY <1>1, <1>2, <1>3 DEF GoodGrants
  <1>5. IsFiniteSet(H) /\ Cardinality(H) <= Cardinality(G)
        /\ Cardinality(H) \in Nat /\ Cardinality(G) \in Nat
    BY FS_Subset, FS_CardinalityType DEF GoodGrants
  <1>6. GoodGrants(H)
    BY <1>5, AgentAssumption DEF GoodGrants, AgentAssumption
  <1>7. ~Has(H, id[1])
    BY <1>1, <1>2, <1>4 DEF Has, GrantsOf, GoodGrants
  <1>8. \A d \in Controllers \ {id[1]} : Has(H, d) = Has(G, d)
    BY <1>3 DEF Has, GrantsOf
  <1> QED
    BY <1>2, <1>6, <1>7, <1>8

(* Recording a session replaces the Controller's one grant by itself with  *)
(* a later time, so every Controller has a grant that had one.             *)
LEMMA RecordGood ==
  ASSUME NEW G, GoodGrants(G), NEW c \in Controllers, NEW now \in Nat, Has(G, c)
  PROVE  LET H == (G \ GrantsOf(G, c)) \cup {[g EXCEPT !.seen = now] : g \in GrantsOf(G, c)}
         IN  GoodGrants(H) /\ \A d \in Controllers : Has(H, d) = Has(G, d)
  <1> DEFINE H == (G \ GrantsOf(G, c)) \cup {[g EXCEPT !.seen = now] : g \in GrantsOf(G, c)}
  <1>1. PICK f \in G : f.controller = c
    BY DEF Has, GrantsOf
  <1>2. GrantsOf(G, c) = {f}
    BY <1>1 DEF GrantsOf, GoodGrants
  <1> DEFINE r == [f EXCEPT !.seen = now]
  <1>3. f \in Grants
    BY DEF GoodGrants
  <1>4. /\ r \in Grants /\ r.controller = c /\ r.id = f.id /\ r.permissions = f.permissions
    BY <1>1, <1>3 DEF Grants
  <1>5. H = (G \ {f}) \cup {r}
    BY <1>2
  <1> HIDE DEF r, H
  <1>6. \A g \in G \ {f} : g.controller # c
    BY <1>1 DEF GoodGrants
  <1>7. IsFiniteSet(H) /\ Cardinality(H) <= MaxGrants
    <2>1. /\ IsFiniteSet(G \ {f}) /\ Cardinality(G \ {f}) = Cardinality(G) - 1
          /\ Cardinality(G) \in Nat
      BY FS_RemoveElement, FS_CardinalityType DEF GoodGrants
    <2>2. r \notin G \ {f}
      BY <1>4, <1>6
    <2>3. IsFiniteSet(H) /\ Cardinality(H) = Cardinality(G \ {f}) + 1
      BY <1>5, <2>1, <2>2, FS_AddElement
    <2> QED
      BY <2>1, <2>3 DEF GoodGrants
  <1>8. NormalPermissions(r.permissions) /\ r.id[1] = r.controller
    BY <1>1, <1>4 DEF GoodGrants
  <1>9. GoodGrants(H)
    BY <1>4, <1>5, <1>6, <1>7, <1>8 DEF GoodGrants
  <1>10. \A d \in Controllers : Has(H, d) = Has(G, d)
    BY <1>1, <1>4, <1>5 DEF Has, GrantsOf
  <1> QED
    BY <1>9, <1>10 DEF H
----------------------------------------------------------------------------
(* The invariant in three parts, and what each part reads.                 *)

Storage == FileOK(file) /\ FileOK(durable) /\ ProcessOK /\ Reported /\ PersistOK
Replay == NoncesKept /\ OffersOnce

LEMMA Parts == AgentInv <=> Types /\ Storage /\ Replay
  BY DEF AgentInv, Storage, Replay

(* A step that leaves the disk, the process, the mutex and the reports     *)
(* alone keeps the invariant of what is stored.                            *)
LEMMA StorageFrame ==
  ASSUME Storage, UNCHANGED <<seed, file, durable, agent, op, outcome>>
  PROVE  Storage'
  BY DEF Storage, FileOK, ProcessOK, Reported, PersistOK, Loaded, Running, Has

(* A step that accepts no offer, forgets no nonce, and starts no process,  *)
(* keeps the invariant of the replay cache.                                *)
LEMMA ReplayFrame ==
  ASSUME Types, Replay, UNCHANGED accepted, clock' \in Nat, clock' >= clock,
         agent'.phase = "serving" => agent.phase = "serving" /\ agent'.nonces = agent.nonces
  PROVE  Replay'
  <1>1. \A o \in Offers : o.expires \in Nat
    BY AgentAssumption DEF AgentAssumption
  <1> QED
    BY <1>1 DEF Types, Replay, NoncesKept, OffersOnce

(* The stopped process is a process.                                       *)
LEMMA OffTyped ==
  Off \in Agents /\ Off.phase = "off" /\ Off.registry = {} /\ Off.nonces = {}
  BY DEF Off, Agents
----------------------------------------------------------------------------
(* The actions of local clients touch neither disk nor registry.           *)

LEMMA LocalKeeps ==
  ASSUME AgentInv, UNCHANGED local, request' \in [Clients -> Requested]
  PROVE  AgentInv'
  <1>1. Types /\ Storage /\ Replay
    BY Parts
  <1>2. Storage'
    BY <1>1, StorageFrame DEF local, disk
  <1>3. Replay'
    BY <1>1, ReplayFrame DEF local, disk, Types
  <1>4. Types'
    BY <1>1 DEF Types, local, disk
  <1> QED
    BY <1>2, <1>3, <1>4, Parts DEF AgentInv, Storage, Replay

LEMMA ClientsKeep ==
  ASSUME AgentInv, NEW k \in Clients,
         \/ AcceptClient(k) \/ Disconnect(k) \/ Respond(k) \/ RequestTimeout(k)
         \/ \E p \in ClientProofs : Authenticate(k, p)
         \/ \E q \in LocalRequests : BeginRequest(k, q)
  PROVE  AgentInv'
  <1>1. Types /\ Storage /\ Replay
    BY Parts
  <1>2. request \in [Clients -> Requested] /\ None \in Requested
    BY <1>1 DEF Types, None, Requested
  <1>3. CASE AcceptClient(k)
    BY <1>2, <1>3, LocalKeeps DEF AcceptClient
  <1>4. CASE Disconnect(k)
    BY <1>2, <1>4, LocalKeeps DEF Disconnect
  <1>5. CASE Respond(k)
    <2>1. request' \in [Clients -> Requested]
      BY <1>2, <1>5 DEF Respond
    <2> QED
      BY <2>1, <1>5, LocalKeeps DEF Respond
  <1>6. CASE \E p \in ClientProofs : Authenticate(k, p)
    BY <1>2, <1>6, LocalKeeps DEF Authenticate
  <1>7. CASE \E q \in LocalRequests : BeginRequest(k, q)
    <2>1. PICK q \in LocalRequests : BeginRequest(k, q)
      BY <1>7
    <2>2. LocalRequests \subseteq Requested
      BY AgentAssumption DEF LocalRequests, Requested, GrantIds, GrantId, AgentAssumption
    <2>3. request' \in [Clients -> Requested]
      BY <1>2, <2>1, <2>2 DEF BeginRequest
    <2> QED
      BY <2>1, <2>3, LocalKeeps DEF BeginRequest
  <1>8. CASE RequestTimeout(k)
    <2>1. Storage'
      BY <1>1, <1>8, StorageFrame DEF RequestTimeout, disk
    <2>2. Replay'
      BY <1>1, <1>8, ReplayFrame DEF RequestTimeout, disk, Types
    <2>3. Types'
      BY <1>1, <1>8 DEF Types, RequestTimeout, disk
    <2> QED
      BY <2>1, <2>2, <2>3, Parts DEF AgentInv, Storage, Replay
  <1> QED
    BY <1>3, <1>4, <1>5, <1>6, <1>7, <1>8
----------------------------------------------------------------------------
(* Starting and stopping.                                                  *)

(* A process that goes off, and its file if nothing else changed.          *)
LEMMA OffKeeps ==
  ASSUME AgentInv, agent' = Off, op' = None, UNCHANGED <<seed, durable, outcome>>,
         file' \in {file, durable}
  PROVE  Storage'
  <1>1. ~Loaded' /\ agent'.phase = "off"
    BY OffTyped DEF Loaded
  <1>2. FileOK(file)' /\ FileOK(durable)'
    BY DEF AgentInv, FileOK
  <1>3. ProcessOK'
    BY <1>1 DEF ProcessOK
  <1>4. Reported'
    BY <1>1 DEF AgentInv, Reported, Has
  <1>5. PersistOK'
    BY DEF PersistOK
  <1> QED
    BY <1>2, <1>3, <1>4, <1>5 DEF Storage

(* An operation holds the mutex only while the process runs.               *)
LEMMA IdleUnlessRunning ==
  ASSUME AgentInv, ~Running
  PROVE  op = None
  BY DEF AgentInv, PersistOK

LEMMA StartIdentityKeeps ==
  ASSUME AgentInv, NEW readable \in BOOLEAN, NEW stored \in BOOLEAN,
         StartIdentity(readable, stored)
  PROVE  AgentInv'
  <1>1. Types /\ Storage /\ Replay /\ agent \in Agents /\ agent.phase = "off" /\ seed \in Nat
    BY Parts DEF Types, StartIdentity, LoadIdentity
  <1>2. op = None
    BY <1>1, IdleUnlessRunning DEF Running
  <1>3. /\ UNCHANGED <<file, durable, op, request, outcome, accepted, issued, clock>>
        /\ seed' \in Nat /\ (seed # 0 => seed' = seed)
    BY <1>1 DEF StartIdentity, LoadIdentity, StoreSeed
  <1>4. /\ agent' \in Agents
        /\ \/ agent' = agent
           \/ agent'.phase = "identified" /\ agent'.identity = seed' /\ seed' # 0
    <2>1. LoadIdentity(readable, stored)
      BY DEF StartIdentity
    <2>2. CASE ~readable
      BY <1>1, <2>1, <2>2 DEF LoadIdentity
    <2>3. CASE readable /\ seed # 0
      BY <1>1, <2>1, <2>3 DEF LoadIdentity, Agents
    <2>4. CASE readable /\ seed = 0 /\ stored
      <3>1. seed' = 1
        BY <2>1, <2>4 DEF LoadIdentity, StoreSeed
      <3>2. agent' = [agent EXCEPT !.phase = "identified", !.identity = 1]
        BY <2>1, <2>4 DEF LoadIdentity
      <3>3. agent' \in Agents /\ agent'.phase = "identified" /\ agent'.identity = 1
        BY <1>1, <3>2 DEF Agents
      <3> QED
        BY <3>1, <3>3
    <2>5. CASE readable /\ seed = 0 /\ ~stored
      BY <1>1, <2>1, <2>5 DEF LoadIdentity
    <2> QED
      BY <2>2, <2>3, <2>4, <2>5
  <1>5. Types'
    BY <1>1, <1>3, <1>4 DEF Types
  <1>6. FileOK(file)' /\ FileOK(durable)'
    BY <1>1, <1>3 DEF Storage, FileOK
  <1>7. ~Loaded' /\ agent'.phase # "serving"
    BY <1>1, <1>4 DEF Loaded
  <1>8. ProcessOK'
    BY <1>1, <1>4, <1>7 DEF ProcessOK
  <1>9. Reported' /\ PersistOK'
    BY <1>1, <1>2, <1>3, <1>7 DEF Storage, Reported, PersistOK, Has
  <1>10. Replay'
    BY <1>1, <1>3, <1>7, ReplayFrame DEF Types
  <1> QED
    BY <1>5, <1>6, <1>8, <1>9, <1>10 DEF AgentInv, Replay

LEMMA StartGrantsKeeps ==
  ASSUME AgentInv, NEW readable \in BOOLEAN, StartGrants(readable)
  PROVE  AgentInv'
  <1>1. /\ Types /\ Storage /\ Replay /\ agent \in Agents /\ agent.phase = "identified"
        /\ file \in Files \cup {None}
    BY Parts DEF Types, StartGrants
  <1>2. op = None /\ op' = None
    BY <1>1, IdleUnlessRunning DEF Running, StartGrants
  <1>3. /\ UNCHANGED <<seed, file, durable, op, request, outcome, accepted, issued, clock>>
        /\ \/ agent' = Off
           \/ agent' = [agent EXCEPT !.phase = "loaded", !.registry = Stored(file)]
    BY DEF StartGrants, disk
  <1>4. Stored(file) \in SUBSET Grants /\ GoodGrants(Stored(file))
    BY <1>1, NoneIsNothing, EmptyGood DEF Storage, FileOK, Files, GoodGrants
  <1>5. CASE agent' = Off
    <2>1. Storage'
      BY <1>2, <1>3, <1>5, OffKeeps
    <2>2. Types'
      BY <1>1, <1>3, <1>5, OffTyped DEF Types
    <2>3. Replay'
      BY <1>1, <1>3, <1>5, OffTyped, ReplayFrame DEF Types
    <2> QED
      BY <2>1, <2>2, <2>3 DEF AgentInv, Storage, Replay
  <1>6. CASE agent' = [agent EXCEPT !.phase = "loaded", !.registry = Stored(file)]
    <2>1. /\ agent' \in Agents /\ agent'.phase = "loaded" /\ agent'.identity = agent.identity
          /\ agent'.registry = Stored(file)
      BY <1>1, <1>4, <1>6 DEF Agents
    <2>2. Types'
      BY <1>1, <1>3, <2>1 DEF Types
    <2>3. FileOK(file)' /\ FileOK(durable)'
      BY <1>1, <1>3 DEF Storage, FileOK
    <2>4. ProcessOK'
      BY <1>1, <1>3, <1>4, <2>1 DEF Storage, ProcessOK
    <2>5. Reported' /\ PersistOK'
      BY <1>1, <1>2, <1>3, <2>1 DEF Storage, Reported, PersistOK
    <2>6. Replay'
      BY <1>1, <1>3, <2>1, ReplayFrame DEF Types
    <2> QED
      BY <2>2, <2>3, <2>4, <2>5, <2>6 DEF AgentInv, Replay
  <1> QED
    BY <1>3, <1>5, <1>6

LEMMA StartServingKeeps ==
  ASSUME AgentInv, NEW ok \in BOOLEAN, StartServing(ok)
  PROVE  AgentInv'
  <1>1. Types /\ Storage /\ Replay /\ agent \in Agents /\ agent.phase = "loaded"
    BY Parts DEF Types, StartServing
  <1>2. op = None /\ op' = None
    BY <1>1, IdleUnlessRunning DEF Running, StartServing
  <1>3. /\ UNCHANGED <<seed, file, durable, op, request, outcome, issued, clock>>
        /\ accepted' = [o \in Offers |-> 0]
        /\ agent' = Off \/ agent' = [agent EXCEPT !.phase = "serving"]
    BY DEF StartServing, disk
  <1>4. accepted' \in [Offers -> Nat] /\ Replay'
    BY <1>3 DEF Replay, NoncesKept, OffersOnce
  <1>5. CASE agent' = Off
    <2>1. Storage'
      BY <1>2, <1>3, <1>5, OffKeeps
    <2>2. Types'
      BY <1>1, <1>3, <1>4, <1>5, OffTyped DEF Types
    <2> QED
      BY <2>1, <2>2, <1>4 DEF AgentInv, Storage, Replay
  <1>6. CASE agent' = [agent EXCEPT !.phase = "serving"]
    <2>1. /\ agent' \in Agents /\ agent'.phase = "serving" /\ agent'.identity = agent.identity
          /\ agent'.registry = agent.registry
      BY <1>1, <1>6 DEF Agents
    <2>2. Types'
      BY <1>1, <1>3, <1>4, <2>1 DEF Types
    <2>3. FileOK(file)' /\ FileOK(durable)'
      BY <1>1, <1>3 DEF Storage, FileOK
    <2>4. ProcessOK'
      BY <1>1, <1>3, <2>1 DEF Storage, ProcessOK, Loaded
    <2>5. Reported' /\ PersistOK'
      BY <1>1, <1>2, <1>3, <2>1 DEF Storage, Reported, PersistOK, Loaded
    <2> QED
      BY <1>4, <2>2, <2>3, <2>4, <2>5 DEF AgentInv, Replay
  <1> QED
    BY <1>3, <1>5, <1>6

LEMMA StopsKeep ==
  ASSUME AgentInv, Exit \/ \E x \in BOOLEAN : StopRequested(x) \/ Crash(x)
  PROVE  AgentInv'
  <1>1. Types /\ Storage /\ Replay /\ agent \in Agents
    BY Parts DEF Types
  <1>2. CASE Exit
    <2>1. /\ agent' = Off /\ op' = None
          /\ UNCHANGED <<seed, file, durable, op, request, outcome, accepted, issued, clock>>
      BY <1>2 DEF Exit, disk, counters
    <2>2. Storage'
      BY <2>1, OffKeeps
    <2>3. Types'
      BY <1>1, <2>1, OffTyped DEF Types
    <2>4. Replay'
      BY <1>1, <2>1, OffTyped, ReplayFrame DEF Types
    <2> QED
      BY <2>2, <2>3, <2>4 DEF AgentInv, Storage, Replay
  <1>3. CASE \E x \in BOOLEAN : StopRequested(x)
    <2>1. PICK x \in BOOLEAN : StopRequested(x)
      BY <1>3
    <2>2. /\ agent.phase = "serving" /\ agent' = [agent EXCEPT !.phase = "stopping"]
          /\ UNCHANGED <<seed, file, durable, op, request, outcome, accepted, issued, clock>>
      BY <2>1 DEF StopRequested, disk
    <2>3. /\ agent' \in Agents /\ agent'.phase = "stopping" /\ agent'.identity = agent.identity
          /\ agent'.registry = agent.registry
      BY <1>1, <2>2 DEF Agents
    <2>4. Types'
      BY <1>1, <2>2, <2>3 DEF Types
    <2>5. FileOK(file)' /\ FileOK(durable)'
      BY <1>1, <2>2 DEF Storage, FileOK
    <2>6. ProcessOK'
      BY <1>1, <2>2, <2>3 DEF Storage, ProcessOK, Loaded
    <2>7. Reported'
      BY <1>1, <2>2, <2>3 DEF Storage, Reported, Loaded
    <2>8. PersistOK'
      BY <1>1, <2>2, <2>3 DEF Storage, PersistOK, Running
    <2>9. Replay'
      BY <1>1, <2>2, <2>3, ReplayFrame DEF Types
    <2> QED
      BY <2>4, <2>5, <2>6, <2>7, <2>8, <2>9 DEF AgentInv, Replay
  <1>4. CASE \E x \in BOOLEAN : Crash(x)
    <2>1. PICK x \in BOOLEAN : Crash(x)
      BY <1>4
    <2>2. /\ agent' = Off /\ op' = None /\ file' \in {file, durable}
          /\ UNCHANGED <<seed, durable, outcome, accepted, issued, clock>>
          /\ request' = [k \in Clients |-> None]
      BY <2>1 DEF Crash
    <2>3. Storage'
      BY <2>2, OffKeeps
    <2>4. request' \in [Clients -> Requested]
      BY <2>2 DEF None, Requested
    <2>5. Types'
      BY <1>1, <2>2, <2>4, OffTyped DEF Types
    <2>6. Replay'
      BY <1>1, <2>2, OffTyped, ReplayFrame DEF Types
    <2> QED
      BY <2>3, <2>5, <2>6 DEF AgentInv, Storage, Replay
  <1> QED
    BY <1>2, <1>3, <1>4

LEMMA AdvanceKeeps ==
  ASSUME AgentInv, Advance
  PROVE  AgentInv'
  <1>1. Types /\ Storage /\ Replay
    BY Parts
  <1>2. Storage'
    BY <1>1, StorageFrame DEF Advance, disk
  <1>3. Replay'
    BY <1>1, ReplayFrame DEF Advance, disk, Types
  <1>4. Types'
    BY <1>1 DEF Types, Advance, disk
  <1> QED
    BY <1>2, <1>3, <1>4 DEF AgentInv, Storage, Replay
----------------------------------------------------------------------------
(* Writing the file: temporary file, rename, directory, then the map.      *)

(* A step of the writer leaves everything of its operation but the stage.  *)
LEMMA StageStep ==
  ASSUME op \in Ops,
         \E s \in {"temporary", "rename", "sync", "written", "failed"} :
             op' = [op EXCEPT !.stage = s]
  PROVE  /\ op' \in Ops /\ op # None /\ op' # None
         /\ op'.controller = op.controller /\ op'.next = op.next /\ op'.result = op.result
  BY NoneIsNothing DEF Ops

LEMMA WriterTyped ==
  ASSUME AgentInv, op.kind = "persist"
  PROVE  /\ op \in Ops /\ op # None /\ agent \in Agents /\ agent.identity \in Nat
         /\ Running /\ Loaded /\ GoodGrants(op.next) /\ op.next \in SUBSET Grants
         /\ seed # 0 /\ agent.identity = seed
  <1>1. op \in Ops /\ op # None /\ agent \in Agents
    BY NoneIsNothing DEF AgentInv, Types, None
  <1>2. Running /\ GoodGrants(op.next)
    BY <1>1 DEF AgentInv, PersistOK
  <1>3. Loaded /\ agent.phase # "off"
    BY <1>2 DEF Running, Loaded
  <1> QED
    BY <1>1, <1>2, <1>3 DEF AgentInv, ProcessOK, Agents, Ops

LEMMA WriteTemporaryKeeps ==
  ASSUME AgentInv, NEW ok \in BOOLEAN, WriteTemporary(ok)
  PROVE  AgentInv'
  <1>1. Types /\ Storage /\ Replay
    BY Parts
  <1>2. /\ op \in Ops /\ op # None /\ Running /\ Loaded
    BY WriterTyped DEF WriteTemporary
  <1>3. /\ UNCHANGED <<seed, file, durable, agent, request, accepted, issued, clock>>
        /\ outcome' = [outcome EXCEPT ![op.controller] =
                         IF op.result = "recorded" THEN @ ELSE "unknown"]
    BY DEF WriteTemporary, disk
  <1>4. \E s \in {"rename", "failed"} : op' = [op EXCEPT !.stage = s] 
    BY DEF WriteTemporary
  <1>5. /\ op' \in Ops /\ op'.controller = op.controller /\ op'.next = op.next
        /\ op'.result = op.result /\ op'.stage \in {"rename", "failed"}
    <2>1. op'.stage \in {"rename", "failed"}
      BY <1>2, <1>4 DEF Ops
    <2> QED
      BY <2>1, <1>2, <1>4, StageStep
  <1>6. op.controller \in Controllers
    BY <1>2 DEF Ops
  <1>7. /\ outcome' \in [Controllers -> {"unknown", "granted", "revoked"}]
        /\ \A c \in Controllers : outcome'[c] # "unknown" =>
              outcome'[c] = outcome[c] /\ (c # op.controller \/ op.result = "recorded")
        /\ op.result # "recorded" => outcome'[op.controller] = "unknown"
    BY <1>1, <1>3, <1>6 DEF Types
  <1>8. Types'
    BY <1>1, <1>3, <1>5, <1>7 DEF Types
  <1>9. FileOK(file)' /\ FileOK(durable)' /\ ProcessOK'
    BY <1>1, <1>3 DEF Storage, FileOK, ProcessOK, Loaded
  <1>10. Reported'
    BY <1>1, <1>3, <1>7 DEF Storage, Reported, Loaded
  <1>11. PersistOK'
    BY <1>1, <1>2, <1>3, <1>5, <1>7 DEF Storage, PersistOK, Running
  <1>12. Replay'
    BY <1>1, <1>3, ReplayFrame DEF Types
  <1> QED
    BY <1>8, <1>9, <1>10, <1>11, <1>12 DEF AgentInv, Replay

LEMMA PersistRenameKeeps ==
  ASSUME AgentInv, NEW ok \in BOOLEAN, PersistRename(ok)
  PROVE  AgentInv'
  <1>1. Types /\ Storage /\ Replay
    BY Parts
  <1>2. /\ op \in Ops /\ op # None /\ Running /\ Loaded /\ GoodGrants(op.next)
        /\ op.next \in SUBSET Grants /\ seed # 0 /\ agent.identity = seed /\ seed \in Nat
    BY <1>1, WriterTyped DEF PersistRename, Rename, Types
  <1>3. /\ UNCHANGED <<seed, durable, agent, request, outcome, accepted, issued, clock>>
        /\ op.stage = "rename"
        /\ op' = [op EXCEPT !.stage = IF ok THEN "sync" ELSE "failed"]
        /\ file' = IF ok THEN Snapshot(agent.identity, op.next) ELSE file
    BY DEF PersistRename, Rename
  <1>4. /\ op' \in Ops /\ op'.controller = op.controller /\ op'.next = op.next
        /\ op'.result = op.result /\ op'.stage = IF ok THEN "sync" ELSE "failed"
    BY <1>2, <1>3 DEF Ops
  <1>5. \/ ~ok /\ file' = file
        \/ /\ ok /\ file' \in Files /\ file'.host = seed /\ file'.grants = op.next
           /\ Stored(file') = op.next
    BY <1>2, <1>3 DEF Snapshot, Files, Stored, None
  <1>6. Types'
    BY <1>1, <1>3, <1>4, <1>5 DEF Types
  <1>7. FileOK(file)' /\ FileOK(durable)' /\ ProcessOK'
    <2>1. FileOK(file)'
      BY <1>1, <1>2, <1>3, <1>5 DEF Storage, FileOK
    <2> QED
      BY <2>1, <1>1, <1>3 DEF Storage, FileOK, ProcessOK, Loaded
  <1>8. ok => \A c \in Controllers : outcome[c] \in {"granted", "revoked"} =>
                 Has(op.next, c) = (outcome[c] = "granted")
    BY <1>1, <1>2, <1>3 DEF Storage, Reported, PersistOK
  <1>9. Reported'
    BY <1>1, <1>3, <1>5, <1>8 DEF Storage, Reported, Loaded
  <1>10. PersistOK'
    BY <1>1, <1>2, <1>3, <1>4, <1>5 DEF Storage, PersistOK, Running
  <1>11. Replay'
    BY <1>1, <1>3, ReplayFrame DEF Types
  <1> QED
    BY <1>6, <1>7, <1>9, <1>10, <1>11 DEF AgentInv, Replay

LEMMA PersistSyncKeeps ==
  ASSUME AgentInv, NEW ok \in BOOLEAN, PersistSync(ok)
  PROVE  AgentInv'
  <1>1. Types /\ Storage /\ Replay
    BY Parts
  <1>2. op \in Ops /\ op # None
    BY WriterTyped DEF PersistSync
  <1>3. /\ UNCHANGED <<seed, file, agent, request, outcome, accepted, issued, clock>>
        /\ op.stage = "sync"
        /\ op' = [op EXCEPT !.stage = IF ok THEN "written" ELSE "failed"]
        /\ durable' = IF ok THEN file ELSE durable
    BY DEF PersistSync, DirectorySync
  <1>4. /\ op' \in Ops /\ op'.controller = op.controller /\ op'.next = op.next
        /\ op'.result = op.result /\ op'.stage = IF ok THEN "written" ELSE "failed"
    BY <1>2, <1>3 DEF Ops
  <1>5. Types'
    BY <1>1, <1>3, <1>4 DEF Types
  <1>6. FileOK(file)' /\ FileOK(durable)' /\ ProcessOK'
    BY <1>1, <1>3 DEF Storage, FileOK, ProcessOK, Loaded
  <1>7. Reported'
    BY <1>1, <1>3 DEF Storage, Reported, Loaded
  <1>8. PersistOK'
    BY <1>1, <1>2, <1>3, <1>4 DEF Storage, PersistOK, Running
  <1>9. Replay'
    BY <1>1, <1>3, ReplayFrame DEF Types
  <1> QED
    BY <1>5, <1>6, <1>7, <1>8, <1>9 DEF AgentInv, Replay

LEMMA CommitKeeps ==
  ASSUME AgentInv, Commit
  PROVE  AgentInv'
  <1>1. Types /\ Storage /\ Replay
    BY Parts
  <1>2. /\ op \in Ops /\ op # None /\ Running /\ Loaded /\ GoodGrants(op.next)
        /\ op.next \in SUBSET Grants /\ agent \in Agents
    BY WriterTyped DEF Commit
  <1>3. /\ UNCHANGED <<seed, file, durable, accepted, issued, clock>> /\ op' = None
        /\ op.stage \in {"written", "failed"}
        /\ agent' = [agent EXCEPT !.registry = IF op.stage = "written" THEN op.next ELSE @]
        /\ outcome' = [outcome EXCEPT ![op.controller] =
                         IF op.stage = "failed" \/ op.result = "recorded" THEN @ ELSE op.result]
    BY DEF Commit, disk, counters
  <1>4. /\ agent' \in Agents /\ agent'.phase = agent.phase /\ agent'.identity = agent.identity
        /\ agent'.nonces = agent.nonces
        /\ agent'.registry = IF op.stage = "written" THEN op.next ELSE agent.registry
    BY <1>2, <1>3 DEF Agents
  <1>5. op.controller \in Controllers /\ op.result \in {"granted", "revoked", "recorded"}
    BY <1>2 DEF Ops
  <1>6. /\ outcome' \in [Controllers -> {"unknown", "granted", "revoked"}]
        /\ \A c \in Controllers :
              outcome'[c] = IF c # op.controller \/ op.stage = "failed" \/ op.result = "recorded"
                            THEN outcome[c] ELSE op.result
    BY <1>1, <1>3, <1>5 DEF Types
  <1>7. request' \in [Clients -> Requested]
    <2>1. [kind |-> "done"] \in Requested
      BY DEF Requested
    <2> QED
      BY <1>1, <2>1 DEF Commit, Types
  <1>8. Types'
    BY <1>1, <1>3, <1>4, <1>6, <1>7 DEF Types
  <1>9. FileOK(file)' /\ FileOK(durable)' /\ ProcessOK'
    BY <1>1, <1>2, <1>3, <1>4 DEF Storage, FileOK, ProcessOK, Loaded
  <1>10. Reported'
    <2>1. CASE op.stage = "written"
      <3>1. Stored(file) = op.next /\ Stored(durable) = op.next /\ agent'.registry = op.next
        BY <1>1, <1>2, <1>4, <2>1 DEF Storage, PersistOK
      <3>2. ASSUME NEW c \in Controllers, outcome'[c] \in {"granted", "revoked"}
            PROVE  Has(op.next, c) = (outcome'[c] = "granted")
        <4>1. CASE c # op.controller \/ op.result = "recorded"
          BY <1>1, <1>2, <1>6, <3>2, <4>1 DEF Storage, Reported, PersistOK
        <4>2. CASE c = op.controller /\ op.result # "recorded"
          <5>1. outcome'[c] = op.result
            BY <1>6, <2>1, <3>2, <4>2
          <5>2. /\ op.result = "granted" => Has(op.next, op.controller)
                /\ op.result = "revoked" => ~Has(op.next, op.controller)
            BY <1>1, <1>2 DEF Storage, PersistOK
          <5>3. CASE op.result = "granted"
            BY <4>2, <5>1, <5>2, <5>3 DEF Has
          <5>4. CASE op.result = "revoked"
            BY <4>2, <5>1, <5>2, <5>4 DEF Has
          <5> QED
            BY <1>5, <4>2, <5>3, <5>4
        <4> QED
          BY <4>1, <4>2
      <3> QED
        BY <1>3, <3>1, <3>2 DEF Reported, Has
    <2>2. CASE op.stage = "failed"
      BY <1>1, <1>3, <1>4, <1>6, <2>2 DEF Storage, Reported, Loaded
    <2> QED
      BY <1>3, <2>1, <2>2
  <1>11. PersistOK'
    BY <1>3 DEF PersistOK
  <1>12. Replay'
    BY <1>1, <1>3, <1>4, ReplayFrame DEF Types
  <1> QED
    BY <1>8, <1>9, <1>10, <1>11, <1>12 DEF AgentInv, Replay
----------------------------------------------------------------------------
(* Taking the mutex: what is about to be written.                          *)

(* An operation that begins has changed nothing yet.                       *)
LEMMA OperationBegins ==
  ASSUME AgentInv, Types', PersistOK',
         UNCHANGED <<seed, file, durable, agent, outcome, accepted, clock>>
  PROVE  AgentInv'
  <1>1. Types /\ Storage /\ Replay
    BY Parts
  <1>2. FileOK(file)' /\ FileOK(durable)' /\ ProcessOK' /\ Reported'
    BY <1>1 DEF Storage, FileOK, ProcessOK, Reported, Loaded
  <1>3. Replay'
    BY <1>1, ReplayFrame DEF Types
  <1> QED
    BY <1>2, <1>3 DEF AgentInv, Replay

(* The new grant of create_controller_grant.                               *)
LEMMA CreatePersists ==
  ASSUME AgentInv, Running, op = None, UNCHANGED <<seed, file, durable, agent, outcome>>,
         NEW k \in Clients, NEW c \in Controllers, NEW permissions \in PermissionSets,
         CreateGrant(k, c, permissions)
  PROVE  op' \in Ops \cup {None} /\ issued' \in [Controllers -> Nat] /\ PersistOK'
  <1>1. Types /\ Storage /\ GoodGrants(agent.registry)
    BY Parts DEF Storage, ProcessOK, Loaded, Running
  <1>2. CASE UNCHANGED <<op, issued>>
    BY <1>1, <1>2 DEF Types, PersistOK
  <1>3. CASE ~UNCHANGED <<op, issued>>
    <2> DEFINE n == issued[c] + 1
               H == agent.registry \cup {Grant(c, n, permissions)}
    <2>1. /\ NormalPermissions(permissions) /\ ~Has(agent.registry, c)
          /\ ~(Cardinality(agent.registry) >= MaxGrants)
          /\ op' = Persisting(k, c, H, "granted")
          /\ issued' = [issued EXCEPT ![c] = @ + 1]
      BY <1>3 DEF CreateGrant, Has
    <2>2. n \in Nat /\ issued' \in [Controllers -> Nat]
      BY <1>1, <2>1 DEF Types
    <2>3. /\ GoodGrants(H) /\ Has(H, c)
          /\ \A d \in Controllers \ {c} : Has(H, d) = Has(agent.registry, d)
      BY <1>1, <2>1, <2>2, AddGood
    <2> HIDE DEF n, H
    <2>4. /\ op' \in Ops /\ op'.controller = c /\ op'.next = H /\ op'.result = "granted"
          /\ op'.stage = "temporary"
      BY <2>1, <2>3 DEF Persisting, Ops, GoodGrants
    <2>5. PersistOK'
      BY <2>3, <2>4 DEF PersistOK, Running
    <2> QED
      BY <2>2, <2>4, <2>5
  <1> QED
    BY <1>2, <1>3

(* The registry without the grant revoke_controller_grant names.           *)
LEMMA RevokePersists ==
  ASSUME AgentInv, Running, op = None, UNCHANGED <<seed, file, durable, agent, outcome>>,
         NEW k \in Clients, NEW id, RevokeGrant(k, id)
  PROVE  op' \in Ops \cup {None} /\ PersistOK'
  <1>1. Types /\ Storage /\ GoodGrants(agent.registry)
    BY Parts DEF Storage, ProcessOK, Loaded, Running
  <1> DEFINE found == {g \in agent.registry : g.id = id}
             H == agent.registry \ found
  <1>2. CASE found = {}
    BY <1>1, <1>2 DEF Types, PersistOK, RevokeGrant
  <1>3. CASE found # {}
    <2>1. op' = Persisting(k, id[1], H, "revoked")
      BY <1>3 DEF RevokeGrant
    <2>2. /\ id[1] \in Controllers /\ GoodGrants(H) /\ ~Has(H, id[1])
          /\ \A d \in Controllers \ {id[1]} : Has(H, d) = Has(agent.registry, d)
      <3>1. ASSUME NEW G, G = agent.registry
            PROVE  LET R == G \ {g \in G : g.id = id}
                   IN  /\ id[1] \in Controllers /\ GoodGrants(R) /\ ~Has(R, id[1])
                       /\ \A d \in Controllers \ {id[1]} : Has(R, d) = Has(G, d)
        <4>1. GoodGrants(G) /\ {g \in G : g.id = id} # {}
          BY <1>1, <1>3, <3>1
        <4> QED
          BY <4>1, RemoveGood
      <3> QED
        BY <3>1
    <2> HIDE DEF found, H
    <2>3. /\ op' \in Ops /\ op'.controller = id[1] /\ op'.next = H /\ op'.result = "revoked"
          /\ op'.stage = "temporary"
      BY <2>1, <2>2 DEF Persisting, Ops, GoodGrants
    <2>4. PersistOK'
      BY <2>2, <2>3 DEF PersistOK, Running
    <2> QED
      BY <2>3, <2>4
  <1> QED
    BY <1>2, <1>3

(* The registry with the later time of record_authenticated_session.       *)
LEMMA RecordPersists ==
  ASSUME AgentInv, Running, op = None, UNCHANGED <<seed, file, durable, agent, outcome>>,
         NEW c \in Controllers, RecordSession("remote", c)
  PROVE  op' \in Ops \cup {None} /\ PersistOK'
  <1>1. Types /\ Storage /\ GoodGrants(agent.registry) /\ clock \in Nat
    BY Parts DEF Storage, ProcessOK, Loaded, Running, Types
  <1> DEFINE H == (agent.registry \ GrantsOf(agent.registry, c))
                    \cup {[g EXCEPT !.seen = clock] : g \in GrantsOf(agent.registry, c)}
  <1>2. CASE ~\E g \in GrantsOf(agent.registry, c) : clock > g.seen
    BY <1>1, <1>2 DEF Types, PersistOK, RecordSession
  <1>3. CASE \E g \in GrantsOf(agent.registry, c) : clock > g.seen
    <2>1. op' = Persisting("remote", c, H, "recorded") /\ Has(agent.registry, c)
      BY <1>3 DEF RecordSession, Has
    <2>2. GoodGrants(H) /\ \A d \in Controllers : Has(H, d) = Has(agent.registry, d)
      BY <1>1, <2>1, RecordGood
    <2> HIDE DEF H
    <2>3. /\ op' \in Ops /\ op'.controller = c /\ op'.next = H /\ op'.result = "recorded"
          /\ op'.stage = "temporary"
      BY <2>1, <2>2 DEF Persisting, Ops, GoodGrants
    <2>4. PersistOK'
      BY <2>2, <2>3 DEF PersistOK, Running
    <2> QED
      BY <2>3, <2>4
  <1> QED
    BY <1>2, <1>3

LEMMA HandlePayloadKeeps ==
  ASSUME AgentInv, NEW k \in Clients, HandlePayload(k)
  PROVE  AgentInv'
  <1>1. /\ Types /\ request[k] \in Requested /\ Running /\ op = None
        /\ UNCHANGED <<seed, file, durable, agent, outcome, accepted, clock>>
    BY DEF AgentInv, Types, HandlePayload, disk
  <1>2. request' \in [Clients -> Requested]
    <2>1. [kind |-> "done"] \in Requested /\ [kind |-> "writing"] \in Requested
      BY DEF Requested
    <2> QED
      BY <1>1, <2>1 DEF HandlePayload, Types
  <1>3. op' \in Ops \cup {None} /\ issued' \in [Controllers -> Nat] /\ PersistOK'
    <2>1. CASE request[k].kind = "create" /\ CreateGrant(k, request[k].controller, request[k].permissions)
      <3>1. request[k].controller \in Controllers /\ request[k].permissions \in PermissionSets
        BY <1>1, <2>1 DEF Requested
      <3> QED
        BY <1>1, <2>1, <3>1, CreatePersists
    <2>2. CASE RevokeGrant(k, request[k].id) /\ UNCHANGED issued
      BY <1>1, <2>2, RevokePersists DEF Types
    <2>3. CASE UNCHANGED <<op, issued>>
      BY <1>1, <2>3 DEF Types, PersistOK
    <2> QED
      BY <2>1, <2>2, <2>3 DEF HandlePayload
  <1>4. Types'
    BY <1>1, <1>2, <1>3 DEF Types
  <1> QED
    BY <1>1, <1>3, <1>4, OperationBegins

LEMMA SessionAuthenticatedKeeps ==
  ASSUME AgentInv, NEW o \in Offers, SessionAuthenticated(o)
  PROVE  AgentInv'
  <1>1. /\ Types /\ Running /\ op = None /\ o.controller \in Controllers
        /\ UNCHANGED <<seed, file, durable, agent, outcome, accepted, clock, request, issued>>
    BY AgentAssumption DEF AgentInv, SessionAuthenticated, disk, counters, Running, AgentAssumption
  <1>2. op' \in Ops \cup {None} /\ PersistOK'
    BY <1>1, RecordPersists DEF SessionAuthenticated
  <1>3. Types'
    BY <1>1, <1>2 DEF Types
  <1> QED
    BY <1>1, <1>2, <1>3, OperationBegins
----------------------------------------------------------------------------
(* Offers.                                                                 *)

LEMMA VerifyOfferKeeps ==
  ASSUME AgentInv, NEW o \in Offers, VerifyOffer(o)
  PROVE  AgentInv'
  <1>1. Types /\ Storage /\ Replay /\ agent \in Agents /\ agent.phase = "serving"
    BY Parts DEF Types, VerifyOffer
  <1>2. /\ UNCHANGED <<seed, file, durable, op, request, outcome, issued, clock>>
        /\ agent' = [agent EXCEPT !.nonces = Retained \cup {NonceKey(o)}]
        /\ accepted' = [accepted EXCEPT ![o] = @ + 1]
        /\ \A n \in Retained : n.key # NonceKey(o).key
        /\ o.expires >= clock
    BY DEF VerifyOffer, disk, counters, ValidTime
  <1>3. /\ agent' \in Agents /\ agent'.phase = "serving" /\ agent'.identity = agent.identity
        /\ agent'.registry = agent.registry /\ agent'.nonces = Retained \cup {NonceKey(o)}
    <2>1. Retained \cup {NonceKey(o)} \in SUBSET {NonceKey(p) : p \in Offers}
      BY <1>1 DEF Retained, Agents
    <2> QED
      BY <1>1, <1>2, <2>1 DEF Agents
  <1>4. \A p \in Offers : p.expires \in Nat /\ NonceKey(p).expires = p.expires
    BY AgentAssumption DEF AgentAssumption, NonceKey
  <1>5. \A p \in Offers : accepted[p] > 0 => p.expires < clock \/ NonceKey(p) \in Retained
    BY <1>1, <1>4 DEF Replay, NoncesKept, Types, Retained
  <1>6. accepted[o] = 0
    <2>1. NonceKey(o) \notin Retained
      BY <1>2
    <2>2. accepted[o] \in Nat /\ clock \in Nat
      BY <1>1 DEF Types
    <2> QED
      BY <1>2, <1>4, <1>5, <2>1, <2>2
  <1>7. /\ accepted' \in [Offers -> Nat] /\ accepted'[o] = 1
        /\ \A p \in Offers \ {o} : accepted'[p] = accepted[p]
    BY <1>1, <1>2, <1>6 DEF Types
  <1>8. Replay'
    BY <1>1, <1>2, <1>3, <1>5, <1>7 DEF Replay, NoncesKept, OffersOnce
  <1>9. Types'
    BY <1>1, <1>2, <1>3, <1>7 DEF Types
  <1>10. FileOK(file)' /\ FileOK(durable)' /\ ProcessOK'
    BY <1>1, <1>2, <1>3 DEF Storage, FileOK, ProcessOK, Loaded
  <1>11. Reported'
    BY <1>1, <1>2, <1>3 DEF Storage, Reported, Loaded
  <1>12. PersistOK'
    BY <1>1, <1>2, <1>3 DEF Storage, PersistOK, Running
  <1> QED
    BY <1>8, <1>9, <1>10, <1>11, <1>12 DEF AgentInv, Replay
----------------------------------------------------------------------------
(* The theorems.                                                           *)

LEMMA InitAgent == Init => AgentInv
  <1> SUFFICES ASSUME Init PROVE AgentInv
    OBVIOUS
  <1>1. Types
    <2>1. None \in Requested
      BY DEF None, Requested
    <2> QED
      BY <2>1, OffTyped DEF Init, Types
  <1>2. FileOK(file) /\ FileOK(durable) /\ ProcessOK /\ Reported /\ PersistOK
    BY OffTyped DEF Init, FileOK, ProcessOK, Reported, PersistOK, Loaded
  <1>3. NoncesKept /\ OffersOnce
    BY DEF Init, NoncesKept, OffersOnce
  <1> QED
    BY <1>1, <1>2, <1>3 DEF AgentInv

LEMMA NextAgent ==
  ASSUME AgentInv, [Next]_vars
  PROVE  AgentInv'
  <1>1. CASE Starting
    BY <1>1, StartIdentityKeeps, StartGrantsKeeps, StartServingKeeps DEF Starting
  <1>2. CASE Persistence
    BY <1>2, WriteTemporaryKeeps, PersistRenameKeeps, PersistSyncKeeps, CommitKeeps DEF Persistence
  <1>3. CASE Locals
    BY <1>3, ClientsKeep, HandlePayloadKeeps DEF Locals
  <1>4. CASE Remotes
    BY <1>4, VerifyOfferKeeps, SessionAuthenticatedKeeps DEF Remotes
  <1>5. CASE Stops
    BY <1>5, StopsKeep DEF Stops
  <1>6. CASE Advance
    BY <1>6, AdvanceKeeps
  <1>7. CASE UNCHANGED vars
    <2>1. UNCHANGED local /\ UNCHANGED request
      BY <1>7 DEF vars, local, disk
    <2>2. request' \in [Clients -> Requested]
      BY <2>1 DEF AgentInv, Types
    <2> QED
      BY <2>1, <2>2, LocalKeeps
  <1> QED
    BY <1>1, <1>2, <1>3, <1>4, <1>5, <1>6, <1>7 DEF Next

(* The inductive invariant of the agent, its files and its replay cache.   *)
THEOREM AgentInvariant == Spec => []AgentInv
  BY InitAgent, NextAgent, PTL DEF Spec

(* ReportedHolds: a grant the registry reported created is in the file, in *)
(* what a power failure leaves of it and in the running registry, and one  *)
(* it reported revoked is in none of them (AuthorizationRegistry persists  *)
(* before it changes its map), for any number of clients and Controllers.  *)
THEOREM ReportsHold == Spec => []ReportedHolds
  <1>1. AgentInv => ReportedHolds
    BY DEF AgentInv, Reported, ReportedHolds, Has, Loaded, Running
  <1> QED
    BY <1>1, AgentInvariant, PTL

(* Restartable: whatever step a write was interrupted in, the grant file   *)
(* decodes under the stored identity, within its limits and without        *)
(* duplicates, so AuthorizationRegistry::load accepts it.                  *)
THEOREM AgentRestarts == Spec => []Restartable
  <1>1. AgentInv => Restartable
    <2> SUFFICES ASSUME AgentInv, NEW f \in {file, durable}, f # None
                 PROVE  seed # 0 /\ Loads(f, seed)
      BY DEF Restartable
    <2>1. f \in Files /\ f.kind = "snapshot" /\ FileOK(f)
      BY NoneIsNothing DEF AgentInv, Types
    <2>2. seed # 0 /\ f.host = seed /\ GoodGrants(f.grants)
      BY <2>1 DEF FileOK
    <2>3. \A g \in f.grants : ValidStoredGrant(g)
      BY <2>2 DEF GoodGrants, ValidStoredGrant, Grants
    <2>4. \A g, h \in f.grants : (g.id = h.id \/ g.controller = h.controller) => g = h
      BY <2>2 DEF GoodGrants
    <2> QED
      BY <2>1, <2>2, <2>3, <2>4 DEF Loads, DecodesFor, GoodGrants
  <1> QED
    BY <1>1, AgentInvariant, PTL

(* OffersOnce: OfferVerifier::verify accepts no offer twice in the life of *)
(* a process, whatever its nonces, times and the size of the cache.        *)
THEOREM OffersAreAcceptedOnce == Spec => []OffersOnce
  <1>1. AgentInv => OffersOnce
    BY DEF AgentInv
  <1> QED
    BY <1>1, AgentInvariant, PTL
=============================================================================
