----------------------- MODULE RendezvousStoreProofs -----------------------
(***************************************************************************)
(* First lemmas about the store's operations: every one of them keeps the  *)
(* five structures in agreement and within the limits, for any number of   *)
(* devices, rendezvous and codes.  The operations are compositions of      *)
(* three primitive updates: deleting a set of stored rendezvous, inserting *)
(* a fresh one and filling in a controller.  Each gets a lemma; the        *)
(* operations follow.  The signaling server's proofs use them as well.     *)
(*                                                                         *)
(* Then the store by itself: its structures agree and its limits hold      *)
(* after every sequence of operations, by the inductive invariant StoreOK  *)
(* that every operation preserves, and it implements its promise.          *)
(***************************************************************************)
EXTENDS RendezvousStore, FiniteSetTheorems, TLAPS

(* Every subset of RIds is finite, so its cardinality is a number.         *)
LEMMA FiniteParts ==
    ASSUME NEW R \in SUBSET RIds
    PROVE  IsFiniteSet(R) /\ Cardinality(R) \in Nat
  <1>1. IsFiniteSet(R)
    BY FS_Subset, StoreAssumption
  <1> QED
    BY <1>1, FS_CardinalityType

(* A rendezvous is not Nil, so a stored identifier maps to a record.       *)
LEMMA StoredIsRendezvous ==
    ASSUME NEW s \in StoreType, NEW r \in Stored(s)
    PROVE  r \in RIds /\ s.byID[r] \in Rendezvous
  BY DEF Stored, StoreType

(* Deleting keeps the types.                                               *)
LEMMA DeleteType ==
    ASSUME NEW s \in StoreType, NEW R \in SUBSET Stored(s)
    PROVE  deleteLocked(s, R) \in StoreType
  <1> DEFINE t == deleteLocked(s, R)
             gone(d) == {r \in R : s.byID[r].host = d}
  <1>1. R \in SUBSET RIds
    BY DEF Stored
  <1>2. \A d \in Devices : Cardinality(gone(d)) \in Nat
    BY <1>1, FiniteParts
  <1>3. t.byID \in [RIds -> Rendezvous \cup {Nil}]
    BY DEF StoreType, deleteLocked
  <1>4. t.codeIndex \in [Codes -> RIds \cup {Nil}]
    BY DEF StoreType, deleteLocked
  <1>5. t.memberIndex \in [Devices -> SUBSET RIds]
    BY DEF StoreType, deleteLocked
  <1>6. t.hostCounts \in [Devices -> Nat]
    <2>1. \A d \in Devices : s.hostCounts[d] \in Nat
      BY DEF StoreType
    <2>2. \A d \in Devices : t.hostCounts[d] =
              IF s.hostCounts[d] - Cardinality(gone(d)) <= 0 THEN 0
              ELSE s.hostCounts[d] - Cardinality(gone(d))
      BY DEF deleteLocked
    <2>3. \A d \in Devices : t.hostCounts[d] \in Nat
      <3> HIDE DEF t, gone
      <3> QED BY <1>2, <2>1, <2>2
    <2> QED
      BY <2>3 DEF deleteLocked
  <1>7. t.expirations \in SUBSET Entries
    BY DEF StoreType, deleteLocked
  <1> QED
    BY <1>3, <1>4, <1>5, <1>6, <1>7 DEF StoreType, deleteLocked

(* Deleting stored rendezvous keeps every index exact.                     *)
LEMMA DeleteIndex ==
    ASSUME NEW s \in StoreType, IndexOK(s), NEW R \in SUBSET Stored(s)
    PROVE  /\ IndexOK(deleteLocked(s, R))
           /\ Stored(deleteLocked(s, R)) = Stored(s) \ R
  <1> DEFINE t == deleteLocked(s, R)
  <1>0. R \subseteq RIds
    BY DEF Stored
  <1>1. /\ \A r \in RIds \ R : t.byID[r] = s.byID[r]
        /\ \A r \in R : t.byID[r] = Nil
    BY <1>0 DEF deleteLocked
  <1>2. Stored(t) = Stored(s) \ R
    BY <1>1, <1>0 DEF Stored
  <1>3. HeapOK(t)
    <2>1. t.expirations = {e \in s.expirations : e.id \notin R}
      BY DEF deleteLocked
    <2>2. s.expirations = {[id |-> r, expiresAt |-> s.byID[r].expiresAt] : r \in Stored(s)}
      BY DEF IndexOK, HeapOK
    <2>3. \A r \in Stored(t) : t.byID[r] = s.byID[r]
      BY <1>1, <1>2 DEF Stored
    <2>4. t.expirations = {[id |-> r, expiresAt |-> s.byID[r].expiresAt] : r \in Stored(s) \ R}
      BY <2>1, <2>2
    <2> HIDE DEF t
    <2>5. {[id |-> r, expiresAt |-> s.byID[r].expiresAt] : r \in Stored(t)}
            = {[id |-> r, expiresAt |-> t.byID[r].expiresAt] : r \in Stored(t)}
      BY <2>3
    <2> QED
      BY <2>4, <2>5, <1>2 DEF HeapOK
  <1>4. CodeIndexOK(t)
    <2>1. ASSUME NEW r \in Stored(t)
          PROVE  /\ (t.byID[r].kind = "desktop") = (t.byID[r].code # Nil)
                 /\ t.byID[r].kind = "desktop" => t.codeIndex[t.byID[r].code] = r
      BY <1>1, <1>2, StoredIsRendezvous
         DEF CodeIndexOK, IndexOK, deleteLocked, Stored, Rendezvous
    <2>2. ASSUME NEW k \in Codes, t.codeIndex[k] # Nil
          PROVE  /\ t.byID[t.codeIndex[k]] # Nil
                 /\ t.byID[t.codeIndex[k]].kind = "desktop"
                 /\ t.byID[t.codeIndex[k]].code = k
      <3>1. /\ t.codeIndex[k] = s.codeIndex[k]
            /\ ~\E r \in R : s.byID[r].kind = "desktop" /\ s.byID[r].code = k
        BY <2>2 DEF deleteLocked
      <3>2. s.codeIndex[k] \in RIds \ R
        BY <3>1, <2>2 DEF StoreType, CodeIndexOK, IndexOK
      <3> QED
        BY <3>1, <3>2, <1>1, <2>2 DEF CodeIndexOK, IndexOK
    <2> QED
      BY <2>1, <2>2 DEF CodeIndexOK
  <1>5. MemberIndexOK(t)
    BY <1>1, <1>2 DEF MemberIndexOK, IndexOK, deleteLocked, Stored
  <1>6. HostCountsOK(t)
    <2> SUFFICES ASSUME NEW d \in Devices
                 PROVE  t.hostCounts[d] = Cardinality(HostedBy(t, d))
      BY DEF HostCountsOK
    <2> DEFINE H == HostedBy(s, d)
               G == {r \in R : s.byID[r].host = d}
    <2>1. HostedBy(t, d) = H \ G
      BY <1>1, <1>2 DEF HostedBy, Stored
    <2>2. H \cap G = G
      BY DEF HostedBy
    <2>3. IsFiniteSet(H) /\ Cardinality(H) \in Nat /\ Cardinality(G) \in Nat
      BY <1>0, FiniteParts DEF HostedBy, Stored
    <2>4. Cardinality(H \ G) = Cardinality(H) - Cardinality(G)
      BY <2>2, <2>3, FS_Difference
    <2>5. Cardinality(H \ G) \in Nat
      BY FiniteParts DEF HostedBy, Stored
    <2>6. s.hostCounts[d] = Cardinality(H)
      BY DEF IndexOK, HostCountsOK
    <2>7. t.hostCounts[d] = IF Cardinality(H) - Cardinality(G) <= 0 THEN 0
                            ELSE Cardinality(H) - Cardinality(G)
      BY <2>6 DEF deleteLocked
    <2> HIDE DEF H, G
    <2> QED
      BY <2>1, <2>3, <2>4, <2>5, <2>7
  <1> QED
    BY <1>2, <1>3, <1>4, <1>5, <1>6 DEF IndexOK

----------------------------------------------------------------------------
(* A rendezvous Create may insert: fresh identifier, free code.            *)
Insertable(s, id, z) ==
    /\ id \in RIds /\ z \in Rendezvous /\ z.controller = Nil
    /\ s.byID[id] = Nil
    /\ (z.kind = "desktop") = (z.code # Nil)
    /\ z.kind = "desktop" => s.codeIndex[z.code] = Nil

(* Inserting keeps the types.                                              *)
LEMMA InsertType ==
    ASSUME NEW s \in StoreType, NEW id, NEW z, Insertable(s, id, z)
    PROVE  insertLocked(s, id, z) \in StoreType
  <1> DEFINE t == insertLocked(s, id, z)
  <1>0. /\ id \in RIds /\ z \in Rendezvous /\ z.host \in Devices /\ z.expiresAt \in Int
        /\ z.kind = "desktop" => z.code \in Codes
    BY DEF Insertable, Rendezvous
  <1>1. t.byID \in [RIds -> Rendezvous \cup {Nil}]
    BY <1>0 DEF StoreType, insertLocked
  <1>2. t.codeIndex \in [Codes -> RIds \cup {Nil}]
    BY <1>0 DEF StoreType, insertLocked
  <1>3. t.memberIndex \in [Devices -> SUBSET RIds]
    BY <1>0 DEF StoreType, insertLocked
  <1>4. t.hostCounts \in [Devices -> Nat]
    BY <1>0 DEF StoreType, insertLocked
  <1>5. t.expirations \in SUBSET Entries
    BY <1>0 DEF StoreType, insertLocked, Entries
  <1> QED
    BY <1>1, <1>2, <1>3, <1>4, <1>5 DEF StoreType, insertLocked

(* Inserting a fresh rendezvous under a free code keeps every index exact. *)
LEMMA InsertIndex ==
    ASSUME NEW s \in StoreType, IndexOK(s), NEW id, NEW z, Insertable(s, id, z)
    PROVE  /\ IndexOK(insertLocked(s, id, z))
           /\ Stored(insertLocked(s, id, z)) = Stored(s) \cup {id}
  <1> DEFINE t == insertLocked(s, id, z)
  <1>0. /\ id \in RIds /\ z \in Rendezvous /\ z.host \in Devices
        /\ z.controller = Nil /\ z # Nil /\ id \notin Stored(s)
        /\ z.kind = "desktop" => z.code \in Codes
    BY StoreAssumption DEF Insertable, Rendezvous, Stored, Kinds
  <1>1. /\ \A r \in RIds \ {id} : t.byID[r] = s.byID[r]
        /\ t.byID[id] = z
    BY <1>0 DEF insertLocked, StoreType
  <1>2. Stored(t) = Stored(s) \cup {id}
    BY <1>0, <1>1 DEF Stored
  <1>3. HeapOK(t)
    <2>1. t.expirations = s.expirations \cup {[id |-> id, expiresAt |-> z.expiresAt]}
      BY DEF insertLocked
    <2>2. s.expirations = {[id |-> r, expiresAt |-> s.byID[r].expiresAt] : r \in Stored(s)}
      BY DEF IndexOK, HeapOK
    <2>3. \A r \in Stored(s) : t.byID[r] = s.byID[r]
      BY <1>0, <1>1 DEF Stored
    <2> HIDE DEF t
    <2>4. t.expirations = {[id |-> r, expiresAt |-> t.byID[r].expiresAt] :
                              r \in Stored(s) \cup {id}}
      BY <2>1, <2>2, <2>3, <1>1
    <2> QED
      BY <2>4, <1>2 DEF HeapOK
  <1>4. CodeIndexOK(t)
    <2>1. ASSUME NEW r \in Stored(t)
          PROVE  /\ (t.byID[r].kind = "desktop") = (t.byID[r].code # Nil)
                 /\ t.byID[r].kind = "desktop" => t.codeIndex[t.byID[r].code] = r
      <3>1. CASE r = id
        BY <3>1, <1>0, <1>1 DEF Insertable, insertLocked, StoreType
      <3>2. CASE r # id
        <4>1. r \in Stored(s) /\ t.byID[r] = s.byID[r]
          BY <3>2, <1>1, <1>2 DEF Stored
        <4>2. s.byID[r].kind = "desktop" => s.byID[r].code \in Codes
          BY <4>1, StoredIsRendezvous DEF CodeIndexOK, IndexOK, Rendezvous
        <4>3. s.byID[r].kind = "desktop" /\ z.kind = "desktop" => s.byID[r].code # z.code
          BY <4>1, <1>0, StoreAssumption DEF CodeIndexOK, IndexOK, Insertable, Stored
        <4> QED
          BY <4>1, <4>2, <4>3, <1>0 DEF CodeIndexOK, IndexOK, insertLocked, StoreType
      <3> QED
        BY <3>1, <3>2
    <2>2. ASSUME NEW k \in Codes, t.codeIndex[k] # Nil
          PROVE  /\ t.byID[t.codeIndex[k]] # Nil
                 /\ t.byID[t.codeIndex[k]].kind = "desktop"
                 /\ t.byID[t.codeIndex[k]].code = k
      <3>1. CASE z.kind = "desktop" /\ k = z.code
        BY <3>1, <1>0, <1>1 DEF insertLocked, StoreType
      <3>2. CASE ~(z.kind = "desktop" /\ k = z.code)
        <4>1. t.codeIndex[k] = s.codeIndex[k]
          BY <3>2, <1>0 DEF insertLocked, StoreType
        <4>2. s.codeIndex[k] \in Stored(s)
          BY <4>1, <2>2 DEF CodeIndexOK, IndexOK, StoreType, Stored
        <4>3. t.byID[s.codeIndex[k]] = s.byID[s.codeIndex[k]]
          BY <4>2, <1>0, <1>1 DEF Stored
        <4> QED
          BY <4>1, <4>2, <4>3, <2>2 DEF CodeIndexOK, IndexOK
      <3> QED
        BY <3>1, <3>2
    <2> QED
      BY <2>1, <2>2 DEF CodeIndexOK
  <1>5. MemberIndexOK(t)
    <2> SUFFICES ASSUME NEW d \in Devices
                 PROVE  t.memberIndex[d] = {r \in Stored(t) : d \in Members(t.byID[r])}
      BY DEF MemberIndexOK
    <2>1. s.memberIndex[d] = {r \in Stored(s) : d \in Members(s.byID[r])}
      BY DEF IndexOK, MemberIndexOK
    <2>2. Members(z) = {z.host}
      BY <1>0, StoreAssumption DEF Members
    <2>3. t.memberIndex[d] = IF d = z.host THEN s.memberIndex[d] \cup {id}
                             ELSE s.memberIndex[d]
      BY <1>0 DEF insertLocked, StoreType
    <2>4. \A r \in Stored(s) : t.byID[r] = s.byID[r]
      BY <1>0, <1>1 DEF Stored
    <2> HIDE DEF t
    <2> QED
      BY <1>1, <1>2, <2>1, <2>2, <2>3, <2>4
  <1>6. HostCountsOK(t)
    <2> SUFFICES ASSUME NEW d \in Devices
                 PROVE  t.hostCounts[d] = Cardinality(HostedBy(t, d))
      BY DEF HostCountsOK
    <2> DEFINE H == HostedBy(s, d)
    <2>1. HostedBy(t, d) = IF d = z.host THEN H \cup {id} ELSE H
      BY <1>0, <1>1, <1>2 DEF HostedBy, Stored
    <2>2. IsFiniteSet(H) /\ Cardinality(H) \in Nat /\ id \notin H
      BY <1>0, FiniteParts DEF HostedBy, Stored
    <2>3. Cardinality(H \cup {id}) = Cardinality(H) + 1
      BY <2>2, FS_AddElement
    <2>4. s.hostCounts[d] = Cardinality(H)
      BY DEF IndexOK, HostCountsOK
    <2>5. t.hostCounts[d] = IF d = z.host THEN s.hostCounts[d] + 1 ELSE s.hostCounts[d]
      BY <1>0 DEF insertLocked, StoreType
    <2> HIDE DEF H, t
    <2> QED
      BY <2>1, <2>3, <2>4, <2>5
  <1> QED
    BY <1>2, <1>3, <1>4, <1>5, <1>6 DEF IndexOK

----------------------------------------------------------------------------
(* A join fills in the controller of a stored, unjoined rendezvous.        *)
LEMMA JoinType ==
    ASSUME NEW s \in StoreType, NEW id \in Stored(s), NEW d \in Devices
    PROVE  setController(s, id, d) \in StoreType
  <1> DEFINE t == setController(s, id, d)
             z == [s.byID[id] EXCEPT !.controller = d]
  <1>1. id \in RIds /\ z \in Rendezvous
    BY StoredIsRendezvous DEF Rendezvous
  <1>2. t = [byID |-> [s.byID EXCEPT ![id] = z], codeIndex |-> s.codeIndex,
             memberIndex |-> [s.memberIndex EXCEPT ![d] = @ \cup {id}],
             hostCounts |-> s.hostCounts, expirations |-> s.expirations]
    BY DEF setController
  <1>3. /\ s.byID \in [RIds -> Rendezvous \cup {Nil}] /\ s.codeIndex \in [Codes -> RIds \cup {Nil}]
        /\ s.memberIndex \in [Devices -> SUBSET RIds] /\ s.hostCounts \in [Devices -> Nat]
        /\ s.expirations \in SUBSET Entries
    BY DEF StoreType
  <1> HIDE DEF t, z
  <1>4. /\ [s.byID EXCEPT ![id] = z] \in [RIds -> Rendezvous \cup {Nil}]
        /\ [s.memberIndex EXCEPT ![d] = @ \cup {id}] \in [Devices -> SUBSET RIds]
    BY <1>1, <1>3
  <1>5. t \in StoreType
    BY <1>2, <1>3, <1>4 DEF StoreType
  <1> QED
    BY <1>5 DEF t

(* Filling in the controller keeps every index exact.                      *)
LEMMA JoinIndex ==
    ASSUME NEW s \in StoreType, IndexOK(s), NEW id \in Stored(s), NEW d \in Devices,
           s.byID[id].controller = Nil
    PROVE  /\ IndexOK(setController(s, id, d))
           /\ Stored(setController(s, id, d)) = Stored(s)
  <1> DEFINE t == setController(s, id, d)
             z == [s.byID[id] EXCEPT !.controller = d]
  <1>0. id \in RIds /\ s.byID[id] \in Rendezvous
    BY StoredIsRendezvous
  <1>1. t = [byID |-> [s.byID EXCEPT ![id] = z], codeIndex |-> s.codeIndex,
             memberIndex |-> [s.memberIndex EXCEPT ![d] = @ \cup {id}],
             hostCounts |-> s.hostCounts, expirations |-> s.expirations]
    BY DEF setController
  <1>2. /\ z \in Rendezvous /\ z # Nil
        /\ z.host = s.byID[id].host /\ z.kind = s.byID[id].kind
        /\ z.code = s.byID[id].code /\ z.expiresAt = s.byID[id].expiresAt
        /\ z.controller = d
    BY <1>0, StoreAssumption DEF Rendezvous, Kinds
  <1>3. /\ \A r \in RIds \ {id} : t.byID[r] = s.byID[r]
        /\ t.byID[id] = z
    BY <1>0, <1>1 DEF StoreType
  <1>4. Stored(t) = Stored(s)
    BY <1>0, <1>2, <1>3 DEF Stored
  <1>5. \A r \in Stored(s) :
           /\ t.byID[r].host = s.byID[r].host /\ t.byID[r].kind = s.byID[r].kind
           /\ t.byID[r].code = s.byID[r].code /\ t.byID[r].expiresAt = s.byID[r].expiresAt
    BY <1>2, <1>3 DEF Stored
  <1>6. HeapOK(t)
    <2>1. t.expirations = s.expirations
      BY <1>1
    <2>2. s.expirations = {[id |-> r, expiresAt |-> s.byID[r].expiresAt] : r \in Stored(s)}
      BY DEF IndexOK, HeapOK
    <2> HIDE DEF t, z
    <2> QED
      BY <1>4, <1>5, <2>1, <2>2 DEF HeapOK
  <1>7. CodeIndexOK(t)
    <2>1. t.codeIndex = s.codeIndex
      BY <1>1
    <2>2. CodeIndexOK(s) /\ s.codeIndex \in [Codes -> RIds \cup {Nil}]
      BY DEF IndexOK, StoreType
    <2>3. \A r \in RIds : t.byID[r] # Nil <=> s.byID[r] # Nil
      BY <1>4 DEF Stored
    <2> HIDE DEF t, z
    <2> QED
      BY <1>4, <1>5, <2>1, <2>2, <2>3 DEF CodeIndexOK, Stored
  <1>8. MemberIndexOK(t)
    <2> SUFFICES ASSUME NEW e \in Devices
                 PROVE  t.memberIndex[e] = {r \in Stored(t) : e \in Members(t.byID[r])}
      BY DEF MemberIndexOK
    <2>1. s.memberIndex[e] = {r \in Stored(s) : e \in Members(s.byID[r])}
      BY DEF IndexOK, MemberIndexOK
    <2>2. e \in Members(z) <=> e = d \/ e \in Members(s.byID[id])
      BY <1>2, StoreAssumption DEF Members
    <2>3. t.memberIndex[e] = IF e = d THEN s.memberIndex[e] \cup {id} ELSE s.memberIndex[e]
      <3>1. t.memberIndex = [s.memberIndex EXCEPT ![d] = @ \cup {id}]
        BY <1>1
      <3>2. s.memberIndex \in [Devices -> SUBSET RIds]
        BY DEF StoreType
      <3> HIDE DEF t, z
      <3> QED BY <3>1, <3>2
    <2>4. \A r \in Stored(s) \ {id} : t.byID[r] = s.byID[r]
      BY <1>3 DEF Stored
    <2> HIDE DEF t, z
    <2> QED
      BY <1>3, <1>4, <2>1, <2>2, <2>3, <2>4
  <1>9. HostCountsOK(t)
    <2>1. \A e \in Devices : HostedBy(t, e) = HostedBy(s, e)
      BY <1>4, <1>5 DEF HostedBy
    <2>2. t.hostCounts = s.hostCounts
      BY <1>1
    <2> HIDE DEF t, z
    <2> QED
      BY <2>1, <2>2 DEF HostCountsOK, IndexOK
  <1> QED
    BY <1>4, <1>6, <1>7, <1>8, <1>9 DEF IndexOK

----------------------------------------------------------------------------
(* What every operation preserves: types, exact indexes, the two limits    *)
(* and that nobody pairs with itself.                                      *)
LimitsOK(s) ==
    /\ Cardinality(Stored(s)) <= MaxTotal
    /\ \A d \in Devices : Cardinality(HostedBy(s, d)) <= MaxPerHost
    /\ \A r \in Stored(s) : s.byID[r].host # s.byID[r].controller

StoreOK(s) == s \in StoreType /\ IndexOK(s) /\ LimitsOK(s)

(* A smaller subset of RIds has no larger cardinality.                     *)
LEMMA SmallerPart ==
    ASSUME NEW R \in SUBSET RIds, NEW S \in SUBSET R
    PROVE  Cardinality(S) <= Cardinality(R)
  BY FiniteParts, FS_Subset

(* What the heap calls due is stored.                                      *)
LEMMA DueStored ==
    ASSUME NEW s, HeapOK(s), NEW now
    PROVE  Due(s, now) \in SUBSET Stored(s)
  BY DEF Due, HeapOK

(* deleteLocked preserves the invariant.                                   *)
LEMMA DeleteOK ==
    ASSUME NEW s, StoreOK(s), NEW R \in SUBSET Stored(s)
    PROVE  StoreOK(deleteLocked(s, R))
  <1> DEFINE t == deleteLocked(s, R)
  <1>1. t \in StoreType /\ IndexOK(t) /\ Stored(t) = Stored(s) \ R
    BY DeleteType, DeleteIndex DEF StoreOK
  <1>2. \A r \in Stored(t) : t.byID[r] = s.byID[r]
    BY <1>1 DEF deleteLocked, Stored
  <1>3. Cardinality(Stored(t)) <= MaxTotal
    <2>1. Stored(s) \in SUBSET RIds /\ Stored(t) \in SUBSET Stored(s)
      BY <1>1 DEF Stored
    <2>2. Cardinality(Stored(t)) <= Cardinality(Stored(s))
      BY <2>1, SmallerPart
    <2>3. Cardinality(Stored(s)) \in Nat /\ Cardinality(Stored(t)) \in Nat
      BY <2>1, FiniteParts
    <2> QED
      BY <2>2, <2>3, StoreAssumption DEF StoreOK, LimitsOK
  <1>4. ASSUME NEW d \in Devices
        PROVE  Cardinality(HostedBy(t, d)) <= MaxPerHost
    <2>1. HostedBy(s, d) \in SUBSET RIds /\ HostedBy(t, d) \in SUBSET HostedBy(s, d)
      BY <1>1, <1>2 DEF HostedBy, Stored
    <2>2. Cardinality(HostedBy(t, d)) <= Cardinality(HostedBy(s, d))
      BY <2>1, SmallerPart
    <2>3. Cardinality(HostedBy(s, d)) \in Nat /\ Cardinality(HostedBy(t, d)) \in Nat
      BY <2>1, FiniteParts
    <2> QED
      BY <2>2, <2>3, StoreAssumption DEF StoreOK, LimitsOK
  <1>5. \A r \in Stored(t) : t.byID[r].host # t.byID[r].controller
    BY <1>1, <1>2 DEF StoreOK, LimitsOK
  <1> QED
    BY <1>1, <1>3, <1>4, <1>5 DEF StoreOK, LimitsOK

(* insertLocked preserves it when Create's checks have passed.             *)
LEMMA InsertOK ==
    ASSUME NEW s, StoreOK(s), NEW id, NEW z, Insertable(s, id, z),
           Cardinality(Stored(s)) < MaxTotal, s.hostCounts[z.host] < MaxPerHost
    PROVE  StoreOK(insertLocked(s, id, z))
  <1> DEFINE t == insertLocked(s, id, z)
  <1>0. /\ s \in StoreType /\ IndexOK(s) /\ LimitsOK(s)
        /\ id \in RIds /\ z \in Rendezvous /\ z.host \in Devices /\ z.controller = Nil
        /\ id \notin Stored(s)
    BY DEF StoreOK, Insertable, Rendezvous, Stored
  <1>1. t \in StoreType /\ IndexOK(t) /\ Stored(t) = Stored(s) \cup {id}
    BY <1>0, InsertType, InsertIndex
  <1>2. t.byID[id] = z /\ \A r \in Stored(s) : t.byID[r] = s.byID[r]
    BY <1>0 DEF insertLocked, StoreType, Stored
  <1>3. Cardinality(Stored(t)) <= MaxTotal
    <2>1. IsFiniteSet(Stored(s)) /\ Cardinality(Stored(s)) \in Nat
      BY FiniteParts DEF Stored
    <2>2. Cardinality(Stored(s) \cup {id}) = Cardinality(Stored(s)) + 1
      BY <2>1, <1>0, FS_AddElement
    <2> QED
      BY <2>1, <2>2, <1>1, StoreAssumption
  <1>4. ASSUME NEW d \in Devices
        PROVE  Cardinality(HostedBy(t, d)) <= MaxPerHost
    <2>1. /\ s.hostCounts[d] = Cardinality(HostedBy(s, d))
          /\ t.hostCounts[d] = Cardinality(HostedBy(t, d))
          /\ s.hostCounts[d] \in Nat
      BY <1>0, <1>1 DEF IndexOK, HostCountsOK, StoreType
    <2>2. t.hostCounts[d] = IF d = z.host THEN s.hostCounts[d] + 1 ELSE s.hostCounts[d]
      BY <1>0 DEF insertLocked, StoreType
    <2>3. s.hostCounts[d] <= MaxPerHost
      BY <1>0, <2>1 DEF LimitsOK
    <2> HIDE DEF t
    <2> QED
      BY <2>1, <2>2, <2>3, StoreAssumption
  <1>5. \A r \in Stored(t) : t.byID[r].host # t.byID[r].controller
    BY <1>0, <1>1, <1>2, StoreAssumption DEF LimitsOK
  <1> QED
    BY <1>1, <1>3, <1>4, <1>5 DEF StoreOK, LimitsOK

(* setController preserves it for an unjoined rendezvous of another host.  *)
LEMMA SetControllerOK ==
    ASSUME NEW s, StoreOK(s), NEW id \in Stored(s), NEW d \in Devices,
           s.byID[id].controller = Nil, s.byID[id].host # d
    PROVE  StoreOK(setController(s, id, d))
  <1> DEFINE t == setController(s, id, d)
  <1>0. s \in StoreType /\ IndexOK(s) /\ LimitsOK(s) /\ id \in RIds /\ s.byID[id] \in Rendezvous
    BY StoredIsRendezvous DEF StoreOK
  <1>1. t \in StoreType /\ IndexOK(t) /\ Stored(t) = Stored(s)
    BY <1>0, JoinType, JoinIndex
  <1>2. \A r \in Stored(s) \ {id} : t.byID[r] = s.byID[r]
    BY <1>0 DEF setController, StoreType, Stored
  <1>3. t.byID[id].host = s.byID[id].host /\ t.byID[id].controller = d
    BY <1>0 DEF setController, StoreType, Rendezvous
  <1>4. \A e \in Devices : HostedBy(t, e) = HostedBy(s, e)
    BY <1>1, <1>2, <1>3 DEF HostedBy
  <1>5. \A r \in Stored(t) : t.byID[r].host # t.byID[r].controller
    BY <1>0, <1>1, <1>2, <1>3 DEF LimitsOK
  <1> QED
    BY <1>0, <1>1, <1>4, <1>5 DEF StoreOK, LimitsOK

----------------------------------------------------------------------------
(* The empty store satisfies the invariant.                                *)
LEMMA InitialOK == StoreOK(NewRendezvousStore)
  <1> DEFINE s == NewRendezvousStore
  <1>1. Stored(s) = {} /\ \A d \in Devices : HostedBy(s, d) = {}
    BY DEF Stored, HostedBy, NewRendezvousStore
  <1>2. Cardinality({}) = 0
    BY FS_EmptySet
  <1>3. s \in StoreType
    BY DEF NewRendezvousStore, StoreType, Entries
  <1>4. HeapOK(s) /\ CodeIndexOK(s) /\ MemberIndexOK(s)
    BY <1>1 DEF HeapOK, CodeIndexOK, MemberIndexOK, NewRendezvousStore
  <1>5. HostCountsOK(s)
    BY <1>1, <1>2 DEF HostCountsOK, NewRendezvousStore
  <1>6. LimitsOK(s)
    BY <1>1, <1>2, StoreAssumption DEF LimitsOK
  <1> QED
    BY <1>3, <1>4, <1>5, <1>6 DEF StoreOK, IndexOK

(* sweepLocked preserves the invariant.                                    *)
LEMMA SweepOK ==
    ASSUME NEW s, StoreOK(s), NEW now
    PROVE  StoreOK(sweepLocked(s, now))
  BY DeleteOK, DueStored DEF sweepLocked, StoreOK, IndexOK

(* Create preserves the invariant: it inserts only when createError found  *)
(* neither a collision nor a reached limit in the swept store.             *)
LEMMA CreateOK ==
    ASSUME NEW s, StoreOK(s), NEW id \in RIds, NEW kind \in Kinds, NEW host \in Devices,
           NEW text \in CodeTexts \cup {Nil}, NEW expiresAt \in Int, NEW now \in Int
    PROVE  StoreOK(Create(s, id, kind, host, text, expiresAt, now).store)
  <1> DEFINE bad == (kind = "qr") # (text = Nil) \/ expiresAt <= now
             swept == sweepLocked(s, now)
             z == [kind |-> kind, host |-> host, controller |-> Nil,
                   code |-> IF text = Nil THEN Nil ELSE pairingCodeHash(text),
                   expiresAt |-> expiresAt]
             err == createError(swept, id, z)
  <1>1. CASE bad
    BY <1>1 DEF Create, Result
  <1>2. CASE ~bad
    <2>1. StoreOK(swept)
      BY SweepOK
    <2>2. Create(s, id, kind, host, text, expiresAt, now).store
             = IF err = "none" THEN insertLocked(swept, id, z) ELSE swept
      BY <1>2 DEF Create, Result
    <2>3. CASE err = "none"
      <3>0. swept \in StoreType
        BY <2>1 DEF StoreOK
      <3>1. /\ z \in Rendezvous /\ z.controller = Nil /\ z.host = host
            /\ (z.kind = "desktop") = (z.code # Nil)
            /\ z.kind = "desktop" => z.code \in Codes
        BY <1>2, StoreAssumption DEF Rendezvous, Kinds, CodeTexts, pairingCodeHash
      <3> HIDE DEF swept, z
      <3>2. /\ swept.byID[id] = Nil
            /\ z.kind = "desktop" => swept.codeIndex[z.code] = Nil
            /\ ~(Cardinality(Stored(swept)) >= MaxTotal)
            /\ ~(swept.hostCounts[z.host] >= MaxPerHost)
        BY <2>3 DEF createError
      <3>3. Cardinality(Stored(swept)) < MaxTotal /\ swept.hostCounts[z.host] < MaxPerHost
        <4>1. Cardinality(Stored(swept)) \in Nat
          BY FiniteParts DEF Stored
        <4>2. swept.hostCounts[z.host] \in Nat
          BY <3>0, <3>1 DEF StoreType
        <4> QED
          BY <4>1, <4>2, <3>2, StoreAssumption
      <3>4. Insertable(swept, id, z)
        BY <3>1, <3>2 DEF Insertable
      <3>5. StoreOK(insertLocked(swept, id, z))
        BY <2>1, <3>3, <3>4, InsertOK
      <3> QED
        BY <2>2, <2>3, <3>5
    <2>4. CASE err # "none"
      BY <2>1, <2>2, <2>4
    <2> QED
      BY <2>3, <2>4
  <1> QED
    BY <1>1, <1>2

(* joinLocked preserves the invariant.                                     *)
LEMMA JoinOK ==
    ASSUME NEW s, StoreOK(s), NEW id \in RIds, NEW d \in Devices, NEW now
    PROVE  StoreOK(joinLocked(s, id, d, now).store)
  <1>1. CASE /\ activeLocked(s, id, now) /\ s.byID[id].host # d
             /\ s.byID[id].controller # d /\ s.byID[id].controller = Nil
    <2>1. id \in Stored(s)
      BY <1>1 DEF activeLocked, Stored
    <2>2. StoreOK(setController(s, id, d))
      BY <1>1, <2>1, SetControllerOK
    <2> QED
      BY <1>1, <2>2 DEF joinLocked, Result
  <1>2. CASE ~(/\ activeLocked(s, id, now) /\ s.byID[id].host # d
               /\ s.byID[id].controller # d /\ s.byID[id].controller = Nil)
    <2>1. joinLocked(s, id, d, now).store = s
      BY <1>2 DEF joinLocked, Result
    <2> QED
      BY <2>1
  <1> QED
    BY <1>1, <1>2

(* JoinByCode resolves the code to an identifier and joins that.           *)
LEMMA JoinByCodeOK ==
    ASSUME NEW s, StoreOK(s), NEW text \in CodeTexts, NEW d \in Devices, NEW now
    PROVE  StoreOK(JoinByCode(s, text, d, now).store)
  <1> DEFINE id == s.codeIndex[pairingCodeHash(text)]
  <1>1. id \in RIds \cup {Nil}
    BY DEF StoreOK, StoreType, pairingCodeHash, CodeTexts
  <1>2. CASE id = Nil
    BY <1>2 DEF JoinByCode, Result
  <1>3. CASE id # Nil
    BY <1>1, <1>3, JoinOK DEF JoinByCode
  <1> QED
    BY <1>2, <1>3

(* Complete preserves the invariant.                                       *)
LEMMA CompleteOK ==
    ASSUME NEW s, StoreOK(s), NEW id \in RIds, NEW d, NEW now
    PROVE  StoreOK(Complete(s, id, d, now).store)
  <1>1. CASE activeLocked(s, id, now) /\ s.byID[id].host = d
    <2>1. {id} \in SUBSET Stored(s)
      BY <1>1 DEF activeLocked, Stored
    <2>2. StoreOK(deleteLocked(s, {id}))
      BY <2>1, DeleteOK
    <2> QED
      BY <1>1, <2>2 DEF Complete, Result
  <1>2. CASE ~(activeLocked(s, id, now) /\ s.byID[id].host = d)
    BY <1>2 DEF Complete, Result
  <1> QED
    BY <1>1, <1>2

(* RemoveForDevice preserves the invariant.                                *)
LEMMA RemoveForDeviceOK ==
    ASSUME NEW s, StoreOK(s), NEW d \in Devices
    PROVE  StoreOK(RemoveForDevice(s, d).store)
  <1> DEFINE R == {r \in s.memberIndex[d] : s.byID[r] # Nil}
  <1>1. R \in SUBSET Stored(s)
    BY DEF StoreOK, StoreType, Stored
  <1>2. StoreOK(deleteLocked(s, R))
    BY <1>1, DeleteOK
  <1> QED
    BY <1>2 DEF RemoveForDevice, Result

----------------------------------------------------------------------------
(* What the operations do to the primary map.                              *)

(* t has lost some rendezvous of s and changed none.                       *)
Shrinks(s, t) == \A r \in Stored(t) : r \in Stored(s) /\ t.byID[r] = s.byID[r]

(* deleteLocked only loses rendezvous, exactly the given ones.             *)
LEMMA DeleteShrinks ==
    ASSUME NEW s, StoreOK(s), NEW R \in SUBSET Stored(s)
    PROVE  Shrinks(s, deleteLocked(s, R)) /\ Stored(deleteLocked(s, R)) = Stored(s) \ R
  <1>1. Stored(deleteLocked(s, R)) = Stored(s) \ R
    BY DeleteIndex DEF StoreOK
  <1> QED
    BY <1>1 DEF Shrinks, Stored, deleteLocked

(* sweepLocked, Complete and RemoveForDevice only lose rendezvous.         *)
LEMMA SweepShrinks ==
    ASSUME NEW s, StoreOK(s), NEW now
    PROVE  Shrinks(s, sweepLocked(s, now))
  BY DeleteShrinks, DueStored DEF sweepLocked, StoreOK, IndexOK

(* Complete loses the completed rendezvous at most.                        *)
LEMMA CompleteShrinks ==
    ASSUME NEW s, StoreOK(s), NEW id \in RIds, NEW d, NEW now
    PROVE  /\ Shrinks(s, Complete(s, id, d, now).store)
           /\ Complete(s, id, d, now).err = "none" => id \notin Stored(Complete(s, id, d, now).store)
  <1>1. CASE activeLocked(s, id, now) /\ s.byID[id].host = d
    <2>1. {id} \in SUBSET Stored(s)
      BY <1>1 DEF activeLocked, Stored
    <2>2. /\ Shrinks(s, deleteLocked(s, {id}))
          /\ Stored(deleteLocked(s, {id})) = Stored(s) \ {id}
      BY <2>1, DeleteShrinks
    <2>3. Complete(s, id, d, now).store = deleteLocked(s, {id})
      BY <1>1 DEF Complete, Result
    <2> QED
      BY <2>2, <2>3
  <1>2. CASE ~(activeLocked(s, id, now) /\ s.byID[id].host = d)
    <2>1. Complete(s, id, d, now).store = s /\ Complete(s, id, d, now).err # "none"
      BY <1>2 DEF Complete, Result
    <2> QED
      BY <2>1 DEF Shrinks
  <1> QED
    BY <1>1, <1>2

(* RemoveForDevice removes every rendezvous the device is a member of, and *)
(* no other.                                                               *)
LEMMA RemoveForDeviceShrinks ==
    ASSUME NEW s, StoreOK(s), NEW d \in Devices
    PROVE  LET t == RemoveForDevice(s, d).store
           IN  /\ Shrinks(s, t)
               /\ \A r \in Stored(t) : d \notin Members(t.byID[r])
               /\ \A r \in Stored(s) : r \notin Stored(t) => d \in Members(s.byID[r])
  <1> DEFINE R == {r \in s.memberIndex[d] : s.byID[r] # Nil}
             t == RemoveForDevice(s, d).store
  <1>1. s.memberIndex[d] = {r \in Stored(s) : d \in Members(s.byID[r])}
    BY DEF StoreOK, IndexOK, MemberIndexOK
  <1>2. R = {r \in Stored(s) : d \in Members(s.byID[r])} /\ R \in SUBSET Stored(s)
    BY <1>1 DEF Stored
  <1>3. t = deleteLocked(s, R)
    BY DEF RemoveForDevice, Result
  <1> HIDE DEF t, R
  <1>4. Shrinks(s, t) /\ Stored(t) = Stored(s) \ R
    BY <1>2, <1>3, DeleteShrinks
  <1>5. \A r \in Stored(t) : d \notin Members(t.byID[r])
    BY <1>2, <1>4 DEF Shrinks
  <1> QED
    BY <1>2, <1>4, <1>5 DEF t

(* res has lost rendezvous of s and, if it succeeded, gained id of host.   *)
Adds(s, res, id, host) ==
    \A r \in Stored(res.store) :
       \/ /\ r \in Stored(s) /\ res.store.byID[r] = s.byID[r]
          /\ res.err = "none" => r # id
       \/ res.err = "none" /\ r = id /\ Members(res.store.byID[r]) = {host}

(* res has changed nothing of s but, if it succeeded, one membership.      *)
Enrols(s, res, id, d) ==
    \A r \in Stored(res.store) :
       /\ r \in Stored(s)
       /\ \/ res.store.byID[r] = s.byID[r]
          \/ /\ res.err = "none" /\ r = id
             /\ Members(res.store.byID[r]) \subseteq Members(s.byID[r]) \cup {d}

(* Create loses what has expired and adds at most one rendezvous, whose    *)
(* only member is its host.                                                *)
LEMMA CreateEffect ==
    ASSUME NEW s, StoreOK(s), NEW id \in RIds, NEW kind \in Kinds, NEW host \in Devices,
           NEW text \in CodeTexts \cup {Nil}, NEW expiresAt \in Int, NEW now \in Int
    PROVE  Adds(s, Create(s, id, kind, host, text, expiresAt, now), id, host)
  <1> DEFINE res == Create(s, id, kind, host, text, expiresAt, now)
             bad == (kind = "qr") # (text = Nil) \/ expiresAt <= now
             swept == sweepLocked(s, now)
             z == [kind |-> kind, host |-> host, controller |-> Nil,
                   code |-> IF text = Nil THEN Nil ELSE pairingCodeHash(text),
                   expiresAt |-> expiresAt]
             err == createError(swept, id, z)
  <1>1. CASE bad
    <2>1. res.store = s /\ res.err = "invalid"
      BY <1>1 DEF Create, Result
    <2> QED
      BY <2>1 DEF Adds
  <1>2. CASE ~bad
    <2>1. StoreOK(swept) /\ Shrinks(s, swept)
      BY SweepOK, SweepShrinks
    <2>2. /\ res.store = IF err = "none" THEN insertLocked(swept, id, z) ELSE swept
          /\ res.err = err
      BY <1>2 DEF Create, Result
    <2>3. Members(z) = {host}
      BY StoreAssumption DEF Members
    <2> HIDE DEF res, swept, z
    <2>4. CASE err = "none"
      <3>1. swept.byID[id] = Nil
        BY <2>4 DEF createError
      <3>2. /\ insertLocked(swept, id, z).byID[id] = z
            /\ \A r \in RIds \ {id} : insertLocked(swept, id, z).byID[r] = swept.byID[r]
        BY <2>1 DEF insertLocked, StoreOK, StoreType
      <3>3. \A r \in Stored(res.store) : r # id => r \in Stored(swept)
        BY <2>2, <2>4, <3>2 DEF Stored
      <3> QED
        BY <2>1, <2>2, <2>3, <2>4, <3>2, <3>3 DEF Adds, Shrinks, Stored, res
    <2>5. CASE err # "none"
      BY <2>1, <2>2, <2>5 DEF Adds, Shrinks, res
    <2> QED
      BY <2>4, <2>5
  <1> QED
    BY <1>1, <1>2

(* joinLocked changes nothing but, when it succeeds, one membership.       *)
LEMMA JoinEffect ==
    ASSUME NEW s, StoreOK(s), NEW id \in RIds, NEW d \in Devices, NEW now
    PROVE  Enrols(s, joinLocked(s, id, d, now), id, d)
  <1> DEFINE res == joinLocked(s, id, d, now)
             fills == /\ activeLocked(s, id, now) /\ s.byID[id].host # d
                      /\ s.byID[id].controller # d /\ s.byID[id].controller = Nil
  <1>1. CASE fills
    <2>1. id \in Stored(s) /\ s.byID[id] \in Rendezvous
      BY <1>1, StoredIsRendezvous DEF activeLocked, Stored, StoreOK
    <2>2. res.store = setController(s, id, d) /\ res.err = "none"
      BY <1>1 DEF joinLocked, Result
    <2>3. Stored(setController(s, id, d)) = Stored(s)
      BY <1>1, <2>1, JoinIndex DEF StoreOK
    <2>4. \A r \in Stored(s) \ {id} : setController(s, id, d).byID[r] = s.byID[r]
      BY <2>1 DEF setController, StoreOK, StoreType, Stored
    <2>5. setController(s, id, d).byID[id] = [s.byID[id] EXCEPT !.controller = d]
      BY DEF setController, StoreOK, StoreType
    <2>6. Members([s.byID[id] EXCEPT !.controller = d]) \subseteq Members(s.byID[id]) \cup {d}
      BY <2>1 DEF Members, Rendezvous
    <2> QED
      BY <2>2, <2>3, <2>4, <2>5, <2>6 DEF Enrols
  <1>2. CASE ~fills
    <2>1. res.store = s
      BY <1>2 DEF joinLocked, Result
    <2> QED
      BY <2>1 DEF Enrols
  <1> QED
    BY <1>1, <1>2

----------------------------------------------------------------------------
(* What the operations report.                                             *)

(* removed are snapshots of rendezvous, among them every one t has lost.   *)
Reports(s, t, removed) ==
    /\ \A x \in removed : x.id \in RIds /\ x.rdv \in Rendezvous
    /\ \A r \in Stored(s) : r \notin Stored(t) => [id |-> r, rdv |-> s.byID[r]] \in removed

(* A snapshot of what deleteLocked deletes reports it.                     *)
LEMMA DeleteReports ==
    ASSUME NEW s, StoreOK(s), NEW R \in SUBSET Stored(s)
    PROVE  Reports(s, deleteLocked(s, R), Snapshot(s, R))
  <1>1. \A r \in R : r \in RIds /\ s.byID[r] \in Rendezvous
    BY StoredIsRendezvous DEF StoreOK
  <1>2. \A r \in Stored(s) : r \notin Stored(deleteLocked(s, R)) => r \in R
    BY DeleteShrinks
  <1> QED
    BY <1>1, <1>2 DEF Reports, Snapshot

(* Sweep reports every rendezvous it removes.                              *)
LEMMA SweepReports ==
    ASSUME NEW s, StoreOK(s), NEW now
    PROVE  Reports(s, Sweep(s, now).store, Sweep(s, now).removed)
  <1>1. Due(s, now) \in SUBSET Stored(s)
    BY DueStored DEF StoreOK, IndexOK
  <1>2. /\ Sweep(s, now).store = deleteLocked(s, Due(s, now))
        /\ Sweep(s, now).removed = Snapshot(s, Due(s, now))
    BY DEF Sweep, Result, sweepLocked
  <1> QED
    BY <1>1, <1>2, DeleteReports

(* RemoveForDevice reports every rendezvous it removes.                    *)
LEMMA RemoveForDeviceReports ==
    ASSUME NEW s, StoreOK(s), NEW d \in Devices
    PROVE  Reports(s, RemoveForDevice(s, d).store, RemoveForDevice(s, d).removed)
  <1> DEFINE R == {r \in s.memberIndex[d] : s.byID[r] # Nil}
  <1>1. R \in SUBSET Stored(s)
    BY DEF StoreOK, StoreType, Stored
  <1>2. /\ RemoveForDevice(s, d).store = deleteLocked(s, R)
        /\ RemoveForDevice(s, d).removed = Snapshot(s, R)
    BY DEF RemoveForDevice, Result
  <1> QED
    BY <1>1, <1>2, DeleteReports

(* Create reports every rendezvous its sweep removes, also when it is      *)
(* refused.                                                                *)
LEMMA CreateReports ==
    ASSUME NEW s, StoreOK(s), NEW id \in RIds, NEW kind \in Kinds, NEW host \in Devices,
           NEW text \in CodeTexts \cup {Nil}, NEW expiresAt \in Int, NEW now \in Int
    PROVE  LET res == Create(s, id, kind, host, text, expiresAt, now)
           IN  Reports(s, res.store, res.removed)
  <1> DEFINE res == Create(s, id, kind, host, text, expiresAt, now)
             bad == (kind = "qr") # (text = Nil) \/ expiresAt <= now
             swept == sweepLocked(s, now)
             z == [kind |-> kind, host |-> host, controller |-> Nil,
                   code |-> IF text = Nil THEN Nil ELSE pairingCodeHash(text),
                   expiresAt |-> expiresAt]
             err == createError(swept, id, z)
  <1>1. CASE bad
    <2>1. res.store = s /\ res.removed = {}
      BY <1>1 DEF Create, Result
    <2> QED
      BY <2>1 DEF Reports
  <1>2. CASE ~bad
    <2>1. /\ res.store = IF err = "none" THEN insertLocked(swept, id, z) ELSE swept
          /\ res.removed = Snapshot(s, Due(s, now))
      BY <1>2 DEF Create, Result
    <2>2. Reports(s, swept, Snapshot(s, Due(s, now)))
      BY DeleteReports, DueStored DEF StoreOK, IndexOK, sweepLocked
    <2>3. z # Nil
      <3>1. text # Nil => pairingCodeHash(text) \in Codes
        BY DEF pairingCodeHash, CodeTexts
      <3>2. z \in Rendezvous
        BY <3>1 DEF Rendezvous
      <3> QED
        BY <3>2, StoreAssumption DEF Rendezvous, Kinds
    <2>4. StoreOK(swept)
      BY SweepOK
    <2> HIDE DEF res, swept, z
    <2>5. err = "none" => \A r \in Stored(swept) : r \in Stored(insertLocked(swept, id, z))
      BY <2>3, <2>4 DEF insertLocked, Stored, StoreOK, StoreType
    <2>6. \A r \in Stored(s) : r \notin Stored(res.store) => r \notin Stored(swept)
      BY <2>1, <2>5
    <2>7. Reports(s, res.store, res.removed)
      BY <2>1, <2>2, <2>6 DEF Reports
    <2> QED
      BY <2>7 DEF res
  <1> QED
    BY <1>1, <1>2

(* Complete removes at most the completed rendezvous, and then its host    *)
(* asked for it and its snapshot is the answer.                            *)
LEMMA CompleteEffect ==
    ASSUME NEW s, StoreOK(s), NEW id \in RIds, NEW d, NEW now
    PROVE  LET res == Complete(s, id, d, now)
           IN  /\ \A r \in Stored(s) : r \notin Stored(res.store) => r = id /\ res.err = "none"
               /\ res.err = "none" => /\ id \in Stored(s) /\ s.byID[id].host = d
                                      /\ res.rdv = s.byID[id]
  <1>1. CASE activeLocked(s, id, now) /\ s.byID[id].host = d
    <2>1. id \in Stored(s)
      BY <1>1 DEF activeLocked, Stored
    <2>2. Stored(deleteLocked(s, {id})) = Stored(s) \ {id}
      BY <2>1, DeleteShrinks
    <2>3. /\ Complete(s, id, d, now).store = deleteLocked(s, {id})
          /\ Complete(s, id, d, now).rdv = s.byID[id]
          /\ Complete(s, id, d, now).err = "none"
      BY <1>1 DEF Complete, Result
    <2> QED
      BY <1>1, <2>1, <2>2, <2>3
  <1>2. CASE ~(activeLocked(s, id, now) /\ s.byID[id].host = d)
    <2>1. Complete(s, id, d, now).store = s /\ Complete(s, id, d, now).err # "none"
      BY <1>2 DEF Complete, Result
    <2> QED
      BY <2>1
  <1> QED
    BY <1>1, <1>2

(* joinLocked keeps every rendezvous and every member; a successful joiner *)
(* is a member.                                                            *)
LEMMA JoinKeeps ==
    ASSUME NEW s, StoreOK(s), NEW id \in RIds, NEW d \in Devices, NEW now
    PROVE  LET res == joinLocked(s, id, d, now)
           IN  /\ \A r \in Stored(s) : /\ r \in Stored(res.store)
                                       /\ Members(s.byID[r]) \subseteq Members(res.store.byID[r])
               /\ res.err = "none" => id \in Stored(s) /\ d \in Members(res.store.byID[id])
  <1> DEFINE res == joinLocked(s, id, d, now)
             fills == /\ activeLocked(s, id, now) /\ s.byID[id].host # d
                      /\ s.byID[id].controller # d /\ s.byID[id].controller = Nil
  <1>1. CASE fills
    <2>1. id \in Stored(s) /\ s.byID[id] \in Rendezvous
      BY <1>1, StoredIsRendezvous DEF activeLocked, Stored, StoreOK
    <2>2. res.store = setController(s, id, d)
      BY <1>1 DEF joinLocked, Result
    <2>3. Stored(setController(s, id, d)) = Stored(s)
      BY <1>1, <2>1, JoinIndex DEF StoreOK
    <2>4. \A r \in Stored(s) \ {id} : setController(s, id, d).byID[r] = s.byID[r]
      BY <2>1 DEF setController, StoreOK, StoreType, Stored
    <2>5. setController(s, id, d).byID[id] = [s.byID[id] EXCEPT !.controller = d]
      BY DEF setController, StoreOK, StoreType
    <2>6. /\ Members(s.byID[id]) \subseteq Members([s.byID[id] EXCEPT !.controller = d])
          /\ d \in Members([s.byID[id] EXCEPT !.controller = d])
      BY <1>1, <2>1, StoreAssumption DEF Members, Rendezvous
    <2> QED
      BY <2>1, <2>2, <2>3, <2>4, <2>5, <2>6
  <1>2. CASE ~fills
    <2>1. res.store = s
      BY <1>2 DEF joinLocked, Result
    <2>2. res.err = "none" => /\ activeLocked(s, id, now) /\ s.byID[id].controller = d
      BY <1>2 DEF joinLocked, Result
    <2>3. res.err = "none" => id \in Stored(s) /\ d \in Members(s.byID[id])
      BY <2>2, StoreAssumption DEF activeLocked, Stored, Members
    <2> QED
      BY <2>1, <2>3
  <1> QED
    BY <1>1, <1>2

(* A rendezvous that Create accepted is stored.                            *)
LEMMA CreateStores ==
    ASSUME NEW s, StoreOK(s), NEW id \in RIds, NEW kind \in Kinds, NEW host \in Devices,
           NEW text \in CodeTexts \cup {Nil}, NEW expiresAt \in Int, NEW now \in Int,
           Create(s, id, kind, host, text, expiresAt, now).err = "none"
    PROVE  id \in Stored(Create(s, id, kind, host, text, expiresAt, now).store)
  <1> DEFINE res == Create(s, id, kind, host, text, expiresAt, now)
             swept == sweepLocked(s, now)
             z == [kind |-> kind, host |-> host, controller |-> Nil,
                   code |-> IF text = Nil THEN Nil ELSE pairingCodeHash(text),
                   expiresAt |-> expiresAt]
  <1>1. res.store = insertLocked(swept, id, z)
    BY DEF Create, Result
  <1>2. z \in Rendezvous
    <2>1. text # Nil => pairingCodeHash(text) \in Codes
      BY DEF pairingCodeHash, CodeTexts
    <2> QED
      BY <2>1 DEF Rendezvous
  <1>3. StoreOK(swept) /\ z # Nil
    BY <1>2, SweepOK, StoreAssumption DEF Rendezvous, Kinds
  <1> HIDE DEF swept, z
  <1>4. id \in Stored(insertLocked(swept, id, z))
    BY <1>3 DEF insertLocked, Stored, StoreOK, StoreType
  <1> QED
    BY <1>1, <1>4

----------------------------------------------------------------------------
(* The store by itself.                                                    *)

(* The inductive invariant of the store's specification.                   *)
StoreInv == StoreOK(table) /\ time \in Int

(* The invariant holds initially.                                          *)
LEMMA StoreInvInit == StoreInit => StoreInv
  BY InitialOK DEF StoreInit, StoreInv

(* Every step of the store preserves the invariant.                        *)
LEMMA StoreInvStep == StoreInv /\ [StoreNext]_storeVars => StoreInv'
  <1> SUFFICES ASSUME StoreInv, [StoreNext]_storeVars
               PROVE  StoreInv'
    OBVIOUS
  <1>0. StoreOK(table) /\ time \in Int /\ RendezvousTTL \in Int
    BY StoreAssumption DEF StoreInv
  <1>1. ASSUME NEW id \in RIds, NEW kind \in Kinds, NEW d \in Devices,
               NEW text \in CodeTexts \cup {Nil}, DoCreate(id, kind, d, text)
        PROVE  StoreInv'
    <2>1. time + RendezvousTTL \in Int
      BY <1>0
    <2> QED
      BY <1>0, <1>1, <2>1, CreateOK DEF DoCreate, Apply, StoreInv
  <1>2. ASSUME NEW id \in RIds, NEW d \in Devices, DoJoinByID(id, d)
        PROVE  StoreInv'
    BY <1>0, <1>2, JoinOK DEF DoJoinByID, JoinByID, Apply, StoreInv
  <1>3. ASSUME NEW id \in RIds, NEW d \in Devices, DoPeer(id, d)
        PROVE  StoreInv'
    <2>1. Peer(table, id, d, time).store = table
      BY DEF Peer, Result
    <2> QED
      BY <1>0, <1>3, <2>1 DEF DoPeer, Apply, StoreInv
  <1>4. ASSUME NEW id \in RIds, NEW d \in Devices, DoComplete(id, d)
        PROVE  StoreInv'
    BY <1>0, <1>4, CompleteOK DEF DoComplete, Apply, StoreInv
  <1>5. ASSUME NEW text \in CodeTexts, NEW d \in Devices, DoJoinByCode(text, d)
        PROVE  StoreInv'
    BY <1>0, <1>5, JoinByCodeOK DEF DoJoinByCode, Apply, StoreInv
  <1>6. ASSUME NEW d \in Devices, DoRemoveForDevice(d)
        PROVE  StoreInv'
    BY <1>0, <1>6, RemoveForDeviceOK DEF DoRemoveForDevice, Apply, StoreInv
  <1>7. CASE DoSweep
    <2>1. Sweep(table, time).store = sweepLocked(table, time)
      BY DEF Sweep, Result
    <2> QED
      BY <1>0, <1>7, <2>1, SweepOK DEF DoSweep, Apply, StoreInv
  <1>8. CASE StoreTick
    BY <1>0, <1>8 DEF StoreTick, StoreInv
  <1>9. CASE UNCHANGED storeVars
    BY <1>0, <1>9 DEF storeVars, StoreInv
  <1> QED
    BY <1>1, <1>2, <1>3, <1>4, <1>5, <1>6, <1>7, <1>8, <1>9 DEF StoreNext

(* The types of the store hold in every reachable state.                   *)
THEOREM TypeCorrect == StoreSpec => []TypeOK
  <1>1. StoreInv => TypeOK
    BY DEF StoreInv, StoreOK, TypeOK
  <1> QED
    BY <1>1, StoreInvInit, StoreInvStep, PTL DEF StoreSpec

(* The code index, the member index, the host counters and the expiry heap *)
(* describe exactly the stored rendezvous in every reachable state: no     *)
(* sequence of calls leaves a dangling heap entry for sweepLocked to spin  *)
(* on, or a counter that locks a host out.                                 *)
THEOREM IndexesAlwaysAgree == StoreSpec => []IndexesAgree
  <1>1. StoreInv => IndexesAgree
    BY DEF StoreInv, StoreOK, IndexesAgree
  <1> QED
    BY <1>1, StoreInvInit, StoreInvStep, PTL DEF StoreSpec

(* Neither limit is ever exceeded and no host ever joins its own           *)
(* rendezvous, in every reachable state.                                   *)
THEOREM CapacityRespected == StoreSpec => []CapacityBounds
  <1>1. StoreInv => CapacityBounds
    BY DEF StoreInv, StoreOK, LimitsOK, CapacityBounds
  <1> QED
    BY <1>1, StoreInvInit, StoreInvStep, PTL DEF StoreSpec

----------------------------------------------------------------------------
(* The store implements its promise.                                       *)

(* The heap calls due exactly what the promise calls expired.              *)
LEMMA DueIsExpired ==
    ASSUME NEW s, HeapOK(s), NEW now
    PROVE  Due(s, now) = {r \in Stored(s) : s.byID[r].expiresAt <= now}
  <1>1. ASSUME NEW r \in Due(s, now)
        PROVE  r \in Stored(s) /\ s.byID[r].expiresAt <= now
    BY <1>1 DEF Due, HeapOK
  <1>2. ASSUME NEW r \in Stored(s), s.byID[r].expiresAt <= now
        PROVE  r \in Due(s, now)
    <2>1. [id |-> r, expiresAt |-> s.byID[r].expiresAt] \in s.expirations
      BY DEF HeapOK
    <2> QED
      BY <1>2, <2>1 DEF Due
  <1> QED
    BY <1>1, <1>2

(* The promise counts as the store counts.                                 *)
LEMMA PromiseCounts == \A S : Promise!Cardinality(S) = Cardinality(S)
  BY DEF Promise!Cardinality, Cardinality

(* The promise's words for the store's state.                              *)
LEMMA PromiseWords ==
    ASSUME StoreInv
    PROVE  /\ Promise!Live = Stored(table)
           /\ Promise!Expired = Due(table, time)
           /\ \A R : Promise!Without(R) = deleteLocked(table, R).byID
           /\ \A R : Promise!Report(R) = Snapshot(table, R)
           /\ \A r \in RIds : Promise!Active(r) = activeLocked(table, r, time)
  <1>0. HeapOK(table) /\ table \in StoreType /\ time \in Int
    BY DEF StoreInv, StoreOK, IndexOK
  <1>1. Promise!Live = Stored(table)
    BY DEF Promise!Live, Stored
  <1>2. Promise!Expired = Due(table, time)
    BY <1>0, <1>1, DueIsExpired DEF Promise!Expired
  <1>3. \A R : Promise!Without(R) = deleteLocked(table, R).byID
    BY DEF Promise!Without, deleteLocked
  <1>4. \A R : Promise!Report(R) = Snapshot(table, R)
    BY DEF Promise!Report, Snapshot
  <1>5. \A r \in RIds : Promise!Active(r) = activeLocked(table, r, time)
    <2> TAKE r \in RIds
    <2>1. table.byID[r] # Nil => table.byID[r].expiresAt \in Int
      BY <1>0, StoredIsRendezvous DEF Stored, Rendezvous
    <2> QED
      BY <1>0, <1>1, <2>1 DEF Promise!Active, Promise!Expired, activeLocked, Stored
  <1> QED
    BY <1>1, <1>2, <1>3, <1>4, <1>5

(* The store begins where its promise begins.                              *)
LEMMA PromiseInit == StoreInit => Promise!Init
  BY DEF StoreInit, Promise!Init, NewRendezvousStore

(* What a call leaves in the variables.                                    *)
LEMMA Applied ==
    ASSUME NEW res, Apply(res)
    PROVE  /\ table'.byID = res.store.byID /\ time' = time
           /\ reply' = [err |-> res.err, removed |-> res.removed, rdv |-> res.rdv, peer |-> res.peer]
  BY DEF Apply

(* A refused call changes nothing, and the promise allows it.              *)
LEMMA RefusalKept ==
    ASSUME NEW err \in {"invalid", "not_found", "self_join", "full", "not_joined",
                        "not_member", "not_host"},
           Apply(Result(table, err))
    PROVE  Promise!Next
  <1>1. Promise!Refuse(err)
    BY Applied DEF Result, Promise!Refuse, Promise!Answers
  <1>2. Promise!Refused
    BY <1>1 DEF Promise!Refused
  <1> QED
    BY <1>2, Applied DEF Promise!Next

(* A successful call gives the answer the promise asks for.                *)
LEMMA AnswerKept ==
    ASSUME NEW res, Apply(res)
    PROVE  Promise!Answers(res.err, res.removed, res.rdv, res.peer)
  BY Applied DEF Promise!Answers

(* Joins, by identifier or by code.                                        *)
LEMMA JoinKept ==
    ASSUME StoreInv, NEW id \in RIds, NEW d \in Devices,
           Apply(joinLocked(table, id, d, time))
    PROVE  Promise!Next
  <1> DEFINE z == table.byID[id]
             res == joinLocked(table, id, d, time)
  <1>1. CASE ~activeLocked(table, id, time)
    <2>1. res = Result(table, "not_found")
      BY <1>1 DEF joinLocked
    <2> QED
      BY <2>1, RefusalKept
  <1>2. CASE activeLocked(table, id, time) /\ z.host = d
    <2>1. res = Result(table, "self_join")
      BY <1>2 DEF joinLocked
    <2> QED
      BY <2>1, RefusalKept
  <1>3. CASE activeLocked(table, id, time) /\ z.host # d /\ z.controller \notin {Nil, d}
    <2>1. res = Result(table, "full")
      BY <1>3 DEF joinLocked
    <2> QED
      BY <2>1, RefusalKept
  <1>4. CASE activeLocked(table, id, time) /\ z.host # d /\ z.controller \in {Nil, d}
    <2>1. z \in Rendezvous /\ table.byID \in [RIds -> Rendezvous \cup {Nil}]
      BY <1>4, StoredIsRendezvous DEF StoreInv, StoreOK, StoreType, activeLocked, Stored
    <2>2. /\ res.err = "none" /\ res.removed = {} /\ res.peer = Nil
          /\ res.rdv = [z EXCEPT !.controller = d]
          /\ res.store.byID = [table.byID EXCEPT ![id] = [z EXCEPT !.controller = d]]
      <3>1. CASE z.controller = d
        <4>1. res = [Result(table, "none") EXCEPT !.rdv = z]
          BY <1>4, <3>1 DEF joinLocked
        <4>2. z = [z EXCEPT !.controller = d]
          BY <2>1, <3>1 DEF Rendezvous
        <4>3. table.byID = [table.byID EXCEPT ![id] = z]
          BY <2>1
        <4>4. /\ res.err = "none" /\ res.removed = {} /\ res.peer = Nil /\ res.rdv = z
              /\ res.store = table
          BY <4>1 DEF Result
        <4> QED
          BY <4>2, <4>3, <4>4
      <3>2. CASE z.controller # d /\ z.controller = Nil
        <4>1. res = [Result(setController(table, id, d), "none")
                       EXCEPT !.rdv = [z EXCEPT !.controller = d]]
          BY <1>4, <3>2 DEF joinLocked
        <4> QED
          BY <4>1 DEF Result, setController
      <3> QED
        BY <1>4, <3>1, <3>2
    <2>3. Promise!Active(id)
      BY <1>4, PromiseWords
    <2>4. Promise!Answers("none", {}, [z EXCEPT !.controller = d], Nil)
      BY <2>2, AnswerKept
    <2>5. table'.byID = [table.byID EXCEPT ![id].controller = d] /\ time' = time
      BY <2>2, Applied
    <2>6. Promise!Join
      BY <1>4, <2>3, <2>4, <2>5 DEF Promise!Join
    <2> QED
      BY <2>5, <2>6 DEF Promise!Next
  <1> QED
    BY <1>1, <1>2, <1>3, <1>4

(* A code leads to the rendezvous that carries it, or nowhere.             *)
LEMMA JoinByCodeKept ==
    ASSUME StoreInv, NEW text \in CodeTexts, NEW d \in Devices, DoJoinByCode(text, d)
    PROVE  Promise!Next
  <1> DEFINE id == table.codeIndex[pairingCodeHash(text)]
  <1>1. id \in RIds \cup {Nil}
    BY DEF StoreInv, StoreOK, StoreType, pairingCodeHash, CodeTexts
  <1>2. CASE id = Nil
    <2>1. Apply(Result(table, "not_found"))
      BY <1>2 DEF DoJoinByCode, JoinByCode
    <2> QED
      BY <2>1, RefusalKept
  <1>3. CASE id # Nil
    <2>1. Apply(joinLocked(table, id, d, time))
      BY <1>3 DEF DoJoinByCode, JoinByCode
    <2> QED
      BY <1>1, <1>3, <2>1, JoinKept
  <1> QED
    BY <1>2, <1>3

(* Only the two members of a joined rendezvous are given each other.       *)
LEMMA PeerKept ==
    ASSUME StoreInv, NEW id \in RIds, NEW d \in Devices, DoPeer(id, d)
    PROVE  Promise!Next
  <1> DEFINE z == table.byID[id]
             res == Peer(table, id, d, time)
  <1>0. Apply(res)
    BY DEF DoPeer
  <1>1. CASE ~activeLocked(table, id, time)
    <2>1. res = Result(table, "not_found")
      BY <1>1 DEF Peer
    <2> QED
      BY <1>0, <2>1, RefusalKept
  <1>2. CASE activeLocked(table, id, time) /\ z.controller = Nil
    <2>1. res = Result(table, "not_joined")
      BY <1>2 DEF Peer
    <2> QED
      BY <1>0, <2>1, RefusalKept
  <1>3. CASE activeLocked(table, id, time) /\ z.controller # Nil /\ d \notin {z.host, z.controller}
    <2>1. res = Result(table, "not_member")
      BY <1>3 DEF Peer
    <2> QED
      BY <1>0, <2>1, RefusalKept
  <1>4. CASE activeLocked(table, id, time) /\ z.controller # Nil /\ d \in {z.host, z.controller}
    <2>1. z \in Rendezvous /\ id \in Stored(table) /\ z.host # z.controller
      BY <1>4, StoredIsRendezvous DEF StoreInv, StoreOK, LimitsOK, activeLocked, Stored
    <2>2. z.host \in Devices /\ z.controller \in Devices
      BY <1>4, <2>1 DEF Rendezvous
    <2>3. PICK p \in Devices :
            /\ {d, p} = {z.host, z.controller} /\ d # p
            /\ res = [Result(table, "none") EXCEPT !.peer = p]
      <3>1. CASE d = z.host
        BY <1>4, <2>1, <2>2, <3>1 DEF Peer
      <3>2. CASE d # z.host /\ d = z.controller
        BY <1>4, <2>1, <2>2, <3>2 DEF Peer
      <3> QED
        BY <1>4, <3>1, <3>2
    <2>4. /\ res.err = "none" /\ res.removed = {} /\ res.rdv = Nil /\ res.peer = p
          /\ res.store = table
      BY <2>3 DEF Result
    <2>5. Promise!Answers("none", {}, Nil, p)
      BY <1>0, <2>4, AnswerKept
    <2>6. table'.byID = table.byID /\ time' = time
      BY <1>0, <2>4, Applied
    <2>7. Promise!Active(id)
      BY <1>4, PromiseWords
    <2>8. Promise!Peer
      BY <2>3, <2>5, <2>6, <2>7 DEF Promise!Peer
    <2> QED
      BY <2>6, <2>8 DEF Promise!Next
  <1> QED
    BY <1>1, <1>2, <1>3, <1>4

(* Completing removes the one rendezvous and returns it.                   *)
LEMMA CompleteKept ==
    ASSUME StoreInv, NEW id \in RIds, NEW d \in Devices, DoComplete(id, d)
    PROVE  Promise!Next
  <1> DEFINE z == table.byID[id]
             res == Complete(table, id, d, time)
  <1>0. Apply(res)
    BY DEF DoComplete
  <1>1. CASE ~activeLocked(table, id, time)
    <2>1. res = Result(table, "not_found")
      BY <1>1 DEF Complete
    <2> QED
      BY <1>0, <2>1, RefusalKept
  <1>2. CASE activeLocked(table, id, time) /\ z.host # d
    <2>1. res = Result(table, "not_host")
      BY <1>2 DEF Complete
    <2> QED
      BY <1>0, <2>1, RefusalKept
  <1>3. CASE activeLocked(table, id, time) /\ z.host = d
    <2>1. /\ res.err = "none" /\ res.removed = {} /\ res.rdv = z /\ res.peer = Nil
          /\ res.store = deleteLocked(table, {id})
      BY <1>3 DEF Complete, Result
    <2>2. Promise!Answers("none", {}, z, Nil)
      BY <1>0, <2>1, AnswerKept
    <2>3. table'.byID = Promise!Without({id}) /\ time' = time
      BY <1>0, <2>1, Applied, PromiseWords
    <2>4. Promise!Active(id)
      BY <1>3, PromiseWords
    <2>5. Promise!Complete
      BY <2>2, <2>3, <2>4 DEF Promise!Complete
    <2> QED
      BY <2>3, <2>5 DEF Promise!Next
  <1> QED
    BY <1>1, <1>2, <1>3

(* A disconnect removes all that the device is a member of, because the    *)
(* member index is exact.                                                  *)
LEMMA RemoveForDeviceKept ==
    ASSUME StoreInv, NEW d \in Devices, DoRemoveForDevice(d)
    PROVE  Promise!Next
  <1> DEFINE res == RemoveForDevice(table, d)
             R == {r \in table.memberIndex[d] : table.byID[r] # Nil}
             Q == {r \in Promise!Live : d \in {table.byID[r].host, table.byID[r].controller}}
  <1>0. Apply(res)
    BY DEF DoRemoveForDevice
  <1>1. R = Q
    <2>1. table.memberIndex[d] = {r \in Stored(table) : d \in Members(table.byID[r])}
      BY DEF StoreInv, StoreOK, IndexOK, MemberIndexOK
    <2>2. d # Nil
      BY StoreAssumption
    <2> QED
      BY <2>1, <2>2, PromiseWords DEF Stored, Members
  <1>2. /\ res.err = "none" /\ res.removed = Snapshot(table, R) /\ res.rdv = Nil
        /\ res.peer = Nil /\ res.store = deleteLocked(table, R)
    BY DEF RemoveForDevice, Result
  <1> HIDE DEF R
  <1>3. Promise!Answers("none", Promise!Report(R), Nil, Nil)
    BY <1>0, <1>2, AnswerKept, PromiseWords
  <1>4. table'.byID = Promise!Without(R) /\ time' = time
    BY <1>0, <1>2, Applied, PromiseWords
  <1>5. Promise!RemoveForDevice
    BY <1>1, <1>3, <1>4 DEF Promise!RemoveForDevice
  <1> QED
    BY <1>4, <1>5 DEF Promise!Next

(* A sweep removes and reports what has expired.                           *)
LEMMA SweepKept ==
    ASSUME StoreInv, DoSweep
    PROVE  Promise!Next
  <1> DEFINE res == Sweep(table, time)
             R == Due(table, time)
  <1>0. Apply(res) /\ R = Promise!Expired
    BY PromiseWords DEF DoSweep
  <1>2. /\ res.err = "none" /\ res.removed = Snapshot(table, R) /\ res.rdv = Nil
        /\ res.peer = Nil /\ res.store = deleteLocked(table, R)
    BY DEF Sweep, sweepLocked, Result
  <1>3. Promise!Answers("none", Promise!Report(R), Nil, Nil)
    BY <1>0, <1>2, AnswerKept, PromiseWords
  <1>4. table'.byID = Promise!Without(R) /\ time' = time
    BY <1>0, <1>2, Applied, PromiseWords
  <1>5. Promise!Sweep
    BY <1>0, <1>3, <1>4 DEF Promise!Sweep
  <1> QED
    BY <1>4, <1>5 DEF Promise!Next

(* An answer to a create that counting and searching the rendezvous that   *)
(* have not expired would also give.                                       *)
Justified(err, id, host, code) ==
    LET kept  == Promise!Live \ Promise!Expired
        taken == id \in kept
        clash == code # Nil /\ \E r \in kept : table.byID[r].code = code
        full  == Cardinality(kept) >= MaxTotal
        limit == Cardinality({r \in kept : table.byID[r].host = host}) >= MaxPerHost
    IN  \/ err = "none" /\ ~taken /\ ~clash /\ ~full /\ ~limit
        \/ err = "exists" /\ taken
        \/ err = "code_exists" /\ clash
        \/ err = "capacity" /\ full
        \/ err = "limit" /\ limit

(* createError gives such an answer from the indexes of the swept store.   *)
LEMMA CreateErrorKept ==
    ASSUME StoreInv, NEW id \in RIds, NEW kind \in Kinds, NEW host \in Devices,
           NEW code \in Codes \cup {Nil}, (kind = "qr") = (code = Nil), NEW expiresAt \in Int
    PROVE  Justified(createError(sweepLocked(table, time), id,
                                 [kind |-> kind, host |-> host, controller |-> Nil,
                                  code |-> code, expiresAt |-> expiresAt]),
                     id, host, code)
  <1> DEFINE kept == Promise!Live \ Promise!Expired
             swept == sweepLocked(table, time)
             z == [kind |-> kind, host |-> host, controller |-> Nil, code |-> code,
                   expiresAt |-> expiresAt]
             err == createError(swept, id, z)
             clash == code # Nil /\ \E r \in kept : table.byID[r].code = code
  <1>1. StoreOK(swept) /\ Due(table, time) \in SUBSET Stored(table)
    BY SweepOK, DueStored DEF StoreInv, StoreOK, IndexOK
  <1>2. Stored(swept) = kept /\ kept \in SUBSET RIds
    BY <1>1, DeleteShrinks, PromiseWords DEF StoreInv, sweepLocked, Stored
  <1>3. \A r \in kept : swept.byID[r] = table.byID[r]
    BY <1>2, PromiseWords DEF sweepLocked, deleteLocked
  <1>4. \A r \in RIds : (swept.byID[r] # Nil) = (r \in kept)
    BY <1>2 DEF Stored
  <1>5. z.kind = "desktop" /\ swept.codeIndex[z.code] # Nil <=> clash
    <2>1. CodeIndexOK(swept) /\ swept \in StoreType
      BY <1>1 DEF StoreOK, IndexOK
    <2>2. (kind = "desktop") = (code # Nil)
      BY DEF Kinds
    <2>3. ASSUME kind = "desktop", swept.codeIndex[code] # Nil
          PROVE  clash
      <3>1. code \in Codes /\ swept.codeIndex[code] \in RIds
        BY <2>1, <2>2, <2>3 DEF StoreType
      <3>2. /\ swept.byID[swept.codeIndex[code]] # Nil
            /\ swept.byID[swept.codeIndex[code]].code = code
        BY <2>1, <2>3, <3>1 DEF CodeIndexOK
      <3> QED
        BY <1>3, <1>4, <2>2, <2>3, <3>1, <3>2
    <2>4. ASSUME clash
          PROVE  kind = "desktop" /\ swept.codeIndex[code] # Nil
      <3>1. PICK r \in kept : table.byID[r].code = code
        BY <2>4
      <3>2. r \in Stored(swept) /\ swept.byID[r].code = code /\ r # Nil
        BY <1>2, <1>3, <3>1, StoreAssumption
      <3> QED
        BY <2>1, <2>2, <2>4, <3>2 DEF CodeIndexOK
    <2> QED
      BY <2>3, <2>4
  <1>6. swept.hostCounts[host] = Cardinality({r \in kept : table.byID[r].host = host})
    <2>1. HostedBy(swept, host) = {r \in kept : table.byID[r].host = host}
      BY <1>2, <1>3 DEF HostedBy
    <2> QED
      BY <1>1, <2>1 DEF StoreOK, IndexOK, HostCountsOK
  <1>7. z.host = host
    OBVIOUS
  <1>8. /\ Cardinality(kept) \in Nat
        /\ Cardinality({r \in kept : table.byID[r].host = host}) \in Nat
    BY <1>2, FiniteParts
  <1> HIDE DEF kept, swept, clash, z
  <1> QED
    BY <1>2, <1>4, <1>5, <1>6, <1>7, <1>8 DEF Justified, createError, kept, clash, swept, z

(* Creating reports and drops what has expired, then inserts or refuses.   *)
LEMMA CreateKept ==
    ASSUME StoreInv, NEW id \in RIds, NEW kind \in Kinds, NEW host \in Devices,
           NEW text \in CodeTexts \cup {Nil}, DoCreate(id, kind, host, text)
    PROVE  Promise!Next
  <1> DEFINE expires == time + RendezvousTTL
             res == Create(table, id, kind, host, text, expires, time)
             code == IF text = Nil THEN Nil ELSE pairingCodeHash(text)
             R == Due(table, time)
             swept == sweepLocked(table, time)
             z == [kind |-> kind, host |-> host, controller |-> Nil, code |-> code,
                   expiresAt |-> expires]
             err == createError(swept, id, z)
             kept == Promise!Live \ Promise!Expired
             taken == id \in kept
             clash == code # Nil /\ \E r \in kept : table.byID[r].code = code
             full  == Cardinality(kept) >= MaxTotal
             limit == Cardinality({r \in kept : table.byID[r].host = host}) >= MaxPerHost
             new == [kind |-> IF code = Nil THEN "qr" ELSE "desktop", host |-> host,
                     controller |-> Nil, code |-> code, expiresAt |-> time + RendezvousTTL]
  <1>0. Apply(res)
    BY DEF DoCreate
  <1>1. time \in Int /\ expires \in Int /\ expires > time
    BY StoreAssumption DEF StoreInv
  <1>2. CASE (kind = "qr") # (text = Nil)
    <2>1. res = Result(table, "invalid")
      BY <1>2 DEF Create
    <2> QED
      BY <1>0, <2>1, RefusalKept
  <1>3. CASE (kind = "qr") = (text = Nil)
    <2>1. code \in Codes \cup {Nil} /\ (kind = "qr") = (code = Nil)
      BY <1>3, StoreAssumption DEF CodeTexts, pairingCodeHash
    <2>2. z = new
      BY <2>1 DEF Kinds
    <2>3. ~((kind = "qr") # (text = Nil) \/ expires <= time)
      BY <1>1, <1>3
    <2>4. res = [Result(IF err = "none" THEN insertLocked(swept, id, z) ELSE swept, err)
                   EXCEPT !.removed = Snapshot(table, R)]
      BY <2>3 DEF Create
    <2>5. /\ res.err = err /\ res.removed = Snapshot(table, R) /\ res.rdv = Nil
          /\ res.peer = Nil
          /\ res.store = IF err = "none" THEN insertLocked(swept, id, z) ELSE swept
      BY <2>4 DEF Result
    <2>6. \/ err = "none" /\ ~taken /\ ~clash /\ ~full /\ ~limit
          \/ err = "exists" /\ taken
          \/ err = "code_exists" /\ clash
          \/ err = "capacity" /\ full
          \/ err = "limit" /\ limit
      <3>1. PICK k \in Codes \cup {Nil}, e \in Int : k = code /\ e = expires
        BY <1>1, <2>1
      <3>2. (kind = "qr") = (k = Nil)
        BY <2>1, <3>1
      <3>3. Justified(err, id, host, code)
        BY <3>1, <3>2, CreateErrorKept
      <3> QED
        BY <3>3 DEF Justified
    <2>7. swept.byID = Promise!Without(Promise!Expired)
          /\ Snapshot(table, R) = Promise!Report(Promise!Expired)
      BY PromiseWords DEF sweepLocked
    <2>8. insertLocked(swept, id, z).byID = [swept.byID EXCEPT ![id] = z]
      BY DEF insertLocked
    <2> HIDE DEF res, R, swept, z, err
    <2>9. Promise!Answers(err, Promise!Report(Promise!Expired), Nil, Nil) /\ time' = time
      BY <1>0, <2>5, <2>7, AnswerKept, Applied
    <2>10. table'.byID = IF err = "none"
                         THEN [Promise!Without(Promise!Expired) EXCEPT ![id] = new]
                         ELSE Promise!Without(Promise!Expired)
      BY <1>0, <2>2, <2>5, <2>7, <2>8, Applied
    <2>11. Promise!Create
      <3>1. \/ /\ ~taken /\ ~clash /\ ~full /\ ~limit
               /\ table'.byID = [Promise!Without(Promise!Expired) EXCEPT ![id] = new]
               /\ Promise!Answers("none", Promise!Report(Promise!Expired), Nil, Nil)
            \/ /\ table'.byID = Promise!Without(Promise!Expired)
               /\ \/ taken /\ Promise!Answers("exists", Promise!Report(Promise!Expired), Nil, Nil)
                  \/ clash /\ Promise!Answers("code_exists", Promise!Report(Promise!Expired), Nil, Nil)
                  \/ full  /\ Promise!Answers("capacity", Promise!Report(Promise!Expired), Nil, Nil)
                  \/ limit /\ Promise!Answers("limit", Promise!Report(Promise!Expired), Nil, Nil)
        <4> HIDE DEF taken, clash, full, limit, new
        <4> QED
          BY <2>6, <2>9, <2>10
      <3> HIDE DEF code
      <3> QED
        BY <2>1, <3>1, PromiseCounts DEF Promise!Create
    <2> QED
      BY <2>9, <2>11 DEF Promise!Next
  <1> QED
    BY <1>2, <1>3

(* Every step of the store is a step of its promise, or changes nothing    *)
(* the promise speaks of.                                                  *)
LEMMA PromiseStep == StoreInv /\ [StoreNext]_storeVars => [Promise!Next]_(Promise!promiseVars)
  <1> SUFFICES ASSUME StoreInv, [StoreNext]_storeVars
               PROVE  Promise!Next \/ UNCHANGED Promise!promiseVars
    OBVIOUS
  <1>1. ASSUME NEW id \in RIds, NEW d \in Devices, DoJoinByID(id, d)
        PROVE  Promise!Next
    BY <1>1, JoinKept DEF DoJoinByID, JoinByID
  <1>2. CASE StoreTick
    BY <1>2 DEF StoreTick, Promise!Tick, Promise!Next
  <1>3. CASE UNCHANGED storeVars
    BY <1>3 DEF storeVars, Promise!promiseVars
  <1> QED
    BY <1>1, <1>2, <1>3, CreateKept, PeerKept, CompleteKept, JoinByCodeKept,
       RemoveForDeviceKept, SweepKept DEF StoreNext

(* The store implements its promise for any sets and limits: no caller can *)
(* tell its indexes, counters and lazily swept heap from a search through  *)
(* the rendezvous that are alive at the time of the call.                  *)
THEOREM StoreKeepsPromise == StoreSpec => ImplementsPromise
  BY PromiseInit, PromiseStep, StoreInvInit, StoreInvStep, PTL
     DEF StoreSpec, ImplementsPromise, Promise!Spec
=============================================================================
