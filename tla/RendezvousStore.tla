-------------------------- MODULE RendezvousStore --------------------------
(***************************************************************************)
(* The rendezvous store by itself: callers invoke any operation at any     *)
(* time, the mutex makes each call one step.  Names differ from those of   *)
(* SignalingServer, whose proofs rest on the store's.                      *)
(***************************************************************************)
EXTENDS RendezvousOps

CONSTANT LastTime    \* bound: the clock stops here

ASSUME TimeAssumption == LastTime \in Nat

VARIABLES
    table,   \* the RendezvousStore value
    time,    \* options.Now(), advanced by StoreTick
    reply    \* what the last call on the store returned

storeVars == <<table, time, reply>>

Apply(res) ==
    /\ table' = res.store
    /\ reply' = [err |-> res.err, removed |-> res.removed, rdv |-> res.rdv, peer |-> res.peer]
    /\ UNCHANGED time

DoCreate(id, kind, host, text) ==
    Apply(Create(table, id, kind, host, text, time + RendezvousTTL, time))
DoJoinByID(id, d)       == Apply(JoinByID(table, id, d, time))
DoJoinByCode(text, d)   == Apply(JoinByCode(table, text, d, time))
DoPeer(id, d)           == Apply(Peer(table, id, d, time))
DoComplete(id, d)       == Apply(Complete(table, id, d, time))
DoRemoveForDevice(d)    == Apply(RemoveForDevice(table, d))
DoSweep                 == Apply(Sweep(table, time))

StoreTick ==
    /\ time < LastTime
    /\ time' = time + 1
    /\ UNCHANGED <<table, reply>>

StoreInit ==
    /\ table = NewRendezvousStore
    /\ time = 0
    /\ reply = [err |-> "none", removed |-> {}, rdv |-> Nil, peer |-> Nil]

StoreNext ==
    \/ \E id \in RIds, kind \in Kinds, d \in Devices, text \in CodeTexts \cup {Nil} :
          DoCreate(id, kind, d, text)
    \/ \E id \in RIds, d \in Devices :
          DoJoinByID(id, d) \/ DoPeer(id, d) \/ DoComplete(id, d)
    \/ \E text \in CodeTexts, d \in Devices : DoJoinByCode(text, d)
    \/ \E d \in Devices : DoRemoveForDevice(d)
    \/ DoSweep
    \/ StoreTick

StoreSpec == StoreInit /\ [][StoreNext]_storeVars

----------------------------------------------------------------------------
(* The type of the store's variables.                                      *)
TypeOK ==
    /\ table \in StoreType
    /\ time \in Int

(* Every derived structure of the store agrees with the primary map after  *)
(* any sequence of creates, joins, completions, disconnects and sweeps.    *)
IndexesAgree == IndexOK(table)

(* Expired, abandoned and completed rendezvous give back their capacity:   *)
(* neither limit is ever exceeded, counted over what is really stored.     *)
CapacityBounds ==
    /\ Cardinality(Stored(table)) <= MaxTotal
    /\ \A d \in Devices : Cardinality(HostedBy(table, d)) <= MaxPerHost
    /\ \A r \in Stored(table) : table.byID[r].host # table.byID[r].controller

(* The promise is about the primary map alone.                             *)
Promise == INSTANCE RendezvousPromise
           WITH live <- table.byID, clock <- time, MaxTime <- LastTime

(* The store, with its indexes, counters and heap, implements the promise  *)
(* that is stated without them: what a call changes and what it answers    *)
(* follow from the live rendezvous and the time alone.                     *)
ImplementsPromise == Promise!Spec
============================================================================
