--------------------------- MODULE RendezvousOps ---------------------------
(***************************************************************************)
(* The signaling service's in-memory pairing rendezvous store              *)
(* (services/signaling/internal/state/rendezvous.go).                      *)
(*                                                                         *)
(* A rendezvous is kept in a primary map and in four derived structures: a *)
(* code index, a per-device member index, a per-host counter and an expiry *)
(* heap.  Every operation runs under one mutex, so it is one step here;    *)
(* what can go wrong is that an operation forgets one of the structures.   *)
(*                                                                         *)
(* An operation is a pure operator from a store value to a result          *)
(* [store, removed, err, rdv, peer]; the actions of RendezvousStore and of *)
(* SignalingServer apply it to their variable store.                       *)
(***************************************************************************)
EXTENDS Integers, FiniteSets

CONSTANTS
    Devices,        \* device identifiers
    RIds,           \* rendezvous identifiers
    Codes,          \* normalized desktop pairing codes (their hash is injective)
    Nil,            \* the absent device, rendezvous, code
    MaxPerHost,     \* options.MaxRendezvousPerHost
    MaxTotal,       \* options.MaxRendezvous
    RendezvousTTL   \* options.RendezvousTTL

ASSUME StoreAssumption ==
    /\ Nil \notin Devices /\ Nil \notin RIds /\ Nil \notin Codes
    /\ Nil \notin [kind : {"qr", "desktop"}, host : Devices,
                   controller : Devices \cup {Nil}, code : Codes \cup {Nil},
                   expiresAt : Int]
    /\ IsFiniteSet(RIds)
    /\ MaxPerHost \in Nat \ {0}
    /\ MaxTotal \in Nat \ {0}
    /\ RendezvousTTL \in Nat \ {0}

Kinds == {"qr", "desktop"}

Rendezvous ==
    [kind : Kinds, host : Devices, controller : Devices \cup {Nil},
     code : Codes \cup {Nil}, expiresAt : Int]

(* A pairing code as typed: the service upper-cases and trims it.          *)
CodeTexts == [word : Codes, upper : BOOLEAN]

pairingCodeHash(text) == text.word

Members(z) == {z.host, z.controller} \ {Nil}

Stored(s) == {r \in RIds : s.byID[r] # Nil}

HostedBy(s, d) == {r \in Stored(s) : s.byID[r].host = d}

NewRendezvousStore ==
    [byID        |-> [r \in RIds |-> Nil],
     codeIndex   |-> [k \in Codes |-> Nil],
     memberIndex |-> [d \in Devices |-> {}],
     hostCounts  |-> [d \in Devices |-> 0],
     expirations |-> {}]

----------------------------------------------------------------------------
(* Helpers that run with the mutex held.                                   *)

(* Mutant of deleteLocked: the host counter of every member goes down.     *)
deleteLockedCountsMembers(s, R) ==
    [byID        |-> [r \in RIds |-> IF r \in R THEN Nil ELSE s.byID[r]],
     codeIndex   |-> [k \in Codes |-> IF s.codeIndex[k] \in R THEN Nil ELSE s.codeIndex[k]],
     memberIndex |-> [d \in Devices |-> s.memberIndex[d] \ R],
     hostCounts  |-> [d \in Devices |->
                        s.hostCounts[d] - Cardinality({r \in R : d \in Members(s.byID[r])})],
     expirations |-> {e \in s.expirations : e.id \notin R}]

(* Mutant of deleteLocked: the heap entry stays behind.                    *)
deleteLockedKeepsExpiry(s, R) ==
    [byID        |-> [r \in RIds |-> IF r \in R THEN Nil ELSE s.byID[r]],
     codeIndex   |-> [k \in Codes |-> IF s.codeIndex[k] \in R THEN Nil ELSE s.codeIndex[k]],
     memberIndex |-> [d \in Devices |-> s.memberIndex[d] \ R],
     hostCounts  |-> [d \in Devices |->
                        s.hostCounts[d] - Cardinality({r \in R : s.byID[r].host = d})],
     expirations |-> s.expirations]

(* deleteLocked, for a whole set R of stored rendezvous at once.           *)
deleteLocked(s, R) ==
    [byID        |-> [r \in RIds |-> IF r \in R THEN Nil ELSE s.byID[r]],
     codeIndex   |-> [k \in Codes |->
                        IF \E r \in R : /\ s.byID[r].kind = "desktop"
                                        /\ s.byID[r].code = k
                        THEN Nil ELSE s.codeIndex[k]],
     memberIndex |-> [d \in Devices |->
                        s.memberIndex[d] \ {r \in R : d \in Members(s.byID[r])}],
     hostCounts  |-> [d \in Devices |->
                        LET remaining == s.hostCounts[d]
                              - Cardinality({r \in R : s.byID[r].host = d})
                        IN  IF remaining <= 0 THEN 0 ELSE remaining],
     expirations |-> {e \in s.expirations : e.id \notin R}]

(* The heap entries that are not After(now): the loop of sweepLocked pops   *)
(* the earliest entry until the earliest one lies in the future.           *)
Due(s, now) == {e.id : e \in {x \in s.expirations : x.expiresAt <= now}}

sweepLocked(s, now) == deleteLocked(s, Due(s, now))

(* Mutant of activeLocked: a rendezvous stays active until it is swept.    *)
activeUntilSwept(s, id, now) == s.byID[id] # Nil

(* activeLocked: present and not expired, whether or not swept yet.        *)
activeLocked(s, id, now) == s.byID[id] # Nil /\ s.byID[id].expiresAt > now

insertLocked(s, id, z) ==
    [byID        |-> [s.byID EXCEPT ![id] = z],
     codeIndex   |-> IF z.kind = "desktop"
                     THEN [s.codeIndex EXCEPT ![z.code] = id]
                     ELSE s.codeIndex,
     memberIndex |-> [s.memberIndex EXCEPT ![z.host] = @ \cup {id}],
     hostCounts  |-> [s.hostCounts EXCEPT ![z.host] = @ + 1],
     expirations |-> s.expirations \cup {[id |-> id, expiresAt |-> z.expiresAt]}]

(* Mutant of setController: a joined controller is not indexed as a member. *)
setControllerUnindexed(s, id, controller) ==
    [s EXCEPT !.byID = [@ EXCEPT ![id] = [@ EXCEPT !.controller = controller]]]

setController(s, id, controller) ==
    [byID        |-> [s.byID EXCEPT ![id] = [@ EXCEPT !.controller = controller]],
     codeIndex   |-> s.codeIndex,
     memberIndex |-> [s.memberIndex EXCEPT ![controller] = @ \cup {id}],
     hostCounts  |-> s.hostCounts,
     expirations |-> s.expirations]

----------------------------------------------------------------------------
(* The exported operations.                                                *)

Result(s, err) == [store |-> s, err |-> err, removed |-> {}, rdv |-> Nil, peer |-> Nil]

Snapshot(s, R) == {[id |-> r, rdv |-> s.byID[r]] : r \in R}

(* Mutant of createError: the total limit is off by one.                   *)
createErrorOffByOne(s, id, z) ==
    IF s.byID[id] # Nil THEN "exists"
    ELSE IF z.kind = "desktop" /\ s.codeIndex[z.code] # Nil THEN "code_exists"
    ELSE IF Cardinality(Stored(s)) > MaxTotal THEN "capacity"
    ELSE IF s.hostCounts[z.host] >= MaxPerHost THEN "limit" ELSE "none"

createError(s, id, z) ==
    IF s.byID[id] # Nil THEN "exists"
    ELSE IF z.kind = "desktop" /\ s.codeIndex[z.code] # Nil THEN "code_exists"
    ELSE IF Cardinality(Stored(s)) >= MaxTotal THEN "capacity"
    ELSE IF s.hostCounts[z.host] >= MaxPerHost THEN "limit" ELSE "none"

(* text = Nil stands for the empty pairing code.                           *)
Create(s, id, kind, host, text, expiresAt, now) ==
    IF (kind = "qr") # (text = Nil) \/ expiresAt <= now
    THEN Result(s, "invalid")
    ELSE LET swept == sweepLocked(s, now)
             z     == [kind |-> kind, host |-> host, controller |-> Nil,
                       code |-> IF text = Nil THEN Nil ELSE pairingCodeHash(text),
                       expiresAt |-> expiresAt]
             err   == createError(swept, id, z)
         IN  [Result(IF err = "none" THEN insertLocked(swept, id, z) ELSE swept, err)
                EXCEPT !.removed = Snapshot(s, Due(s, now))]

joinLocked(s, id, controller, now) ==
    IF ~activeLocked(s, id, now) THEN Result(s, "not_found")
    ELSE IF s.byID[id].host = controller THEN Result(s, "self_join")
    ELSE IF s.byID[id].controller = controller
         THEN [Result(s, "none") EXCEPT !.rdv = s.byID[id]]
    ELSE IF s.byID[id].controller # Nil THEN Result(s, "full")
    ELSE [Result(setController(s, id, controller), "none")
            EXCEPT !.rdv = [s.byID[id] EXCEPT !.controller = controller]]

JoinByID(s, id, controller, now) == joinLocked(s, id, controller, now)

JoinByCode(s, text, controller, now) ==
    LET id == s.codeIndex[pairingCodeHash(text)]
    IN  IF id = Nil THEN Result(s, "not_found")
        ELSE joinLocked(s, id, controller, now)

Peer(s, id, sender, now) ==
    IF ~activeLocked(s, id, now) THEN Result(s, "not_found")
    ELSE LET z == s.byID[id]
         IN  IF z.controller = Nil THEN Result(s, "not_joined")
             ELSE IF sender = z.host
                  THEN [Result(s, "none") EXCEPT !.peer = z.controller]
             ELSE IF sender = z.controller
                  THEN [Result(s, "none") EXCEPT !.peer = z.host]
             ELSE Result(s, "not_member")

Complete(s, id, host, now) ==
    IF ~activeLocked(s, id, now) THEN Result(s, "not_found")
    ELSE IF s.byID[id].host # host THEN Result(s, "not_host")
    ELSE [Result(deleteLocked(s, {id}), "none") EXCEPT !.rdv = s.byID[id]]

(* Mutant of RemoveForDevice: the removal is not filtered by device.       *)
RemoveForAnyDevice(s, d) ==
    [Result(deleteLocked(s, Stored(s)), "none") EXCEPT !.removed = Snapshot(s, Stored(s))]

RemoveForDevice(s, d) ==
    LET R == {r \in s.memberIndex[d] : s.byID[r] # Nil}
    IN  [Result(deleteLocked(s, R), "none") EXCEPT !.removed = Snapshot(s, R)]

Sweep(s, now) ==
    [Result(sweepLocked(s, now), "none") EXCEPT !.removed = Snapshot(s, Due(s, now))]

----------------------------------------------------------------------------
Entries == [id : RIds, expiresAt : Int]

StoreType ==
    [byID        : [RIds -> Rendezvous \cup {Nil}],
     codeIndex   : [Codes -> RIds \cup {Nil}],
     memberIndex : [Devices -> SUBSET RIds],
     hostCounts  : [Devices -> Nat],
     expirations : SUBSET Entries]

(* The primary map and the expiry heap hold the same rendezvous, once.     *)
(* sweepLocked never terminates on a heap entry whose rendezvous is gone   *)
(* (deleteLocked returns early and leaves the entry), with the mutex held. *)
HeapOK(s) ==
    s.expirations = {[id |-> r, expiresAt |-> s.byID[r].expiresAt] : r \in Stored(s)}

CodeIndexOK(s) ==
    /\ \A r \in Stored(s) :
          /\ (s.byID[r].kind = "desktop") = (s.byID[r].code # Nil)
          /\ s.byID[r].kind = "desktop" => s.codeIndex[s.byID[r].code] = r
    /\ \A k \in Codes : s.codeIndex[k] # Nil =>
          /\ s.byID[s.codeIndex[k]] # Nil
          /\ s.byID[s.codeIndex[k]].kind = "desktop"
          /\ s.byID[s.codeIndex[k]].code = k

MemberIndexOK(s) ==
    \A d \in Devices : s.memberIndex[d] = {r \in Stored(s) : d \in Members(s.byID[r])}

HostCountsOK(s) ==
    \A d \in Devices : s.hostCounts[d] = Cardinality(HostedBy(s, d))

IndexOK(s) == HeapOK(s) /\ CodeIndexOK(s) /\ MemberIndexOK(s) /\ HostCountsOK(s)
============================================================================
