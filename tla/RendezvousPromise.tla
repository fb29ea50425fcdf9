------------------------- MODULE RendezvousPromise -------------------------
(***************************************************************************)
(* What the rendezvous store promises, stated over the live rendezvous     *)
(* alone: no index, no counter, no heap.  Limits are counted, a code is    *)
(* found by searching, a disconnect removes whatever the device is a       *)
(* member of.  RendezvousStore implements it.                              *)
(***************************************************************************)
EXTENDS Integers, FiniteSets

CONSTANTS Devices, RIds, Codes, Nil, MaxPerHost, MaxTotal, RendezvousTTL, MaxTime

VARIABLES live, clock, reply

promiseVars == <<live, clock, reply>>

Live == {r \in RIds : live[r] # Nil}
Expired == {r \in Live : live[r].expiresAt <= clock}
Without(R) == [r \in RIds |-> IF r \in R THEN Nil ELSE live[r]]
Report(R) == {[id |-> r, rdv |-> live[r]] : r \in R}
Active(r) == r \in Live \ Expired

Answers(err, removed, rdv, peer) ==
    reply' = [err |-> err, removed |-> removed, rdv |-> rdv, peer |-> peer]

Refuse(err) == Answers(err, {}, Nil, Nil) /\ UNCHANGED live

(* A create first reports and drops what has expired; it then succeeds     *)
(* unless the identifier or code is taken or a limit is reached.           *)
Create ==
    \E id \in RIds, host \in Devices, code \in Codes \cup {Nil} :
      LET kept   == Live \ Expired
          taken  == id \in kept
          clash  == code # Nil /\ \E r \in kept : live[r].code = code
          full   == Cardinality(kept) >= MaxTotal
          limit  == Cardinality({r \in kept : live[r].host = host}) >= MaxPerHost
          new    == [kind |-> IF code = Nil THEN "qr" ELSE "desktop", host |-> host,
                     controller |-> Nil, code |-> code,
                     expiresAt |-> clock + RendezvousTTL]
      IN  \/ /\ ~taken /\ ~clash /\ ~full /\ ~limit
             /\ live' = [Without(Expired) EXCEPT ![id] = new]
             /\ Answers("none", Report(Expired), Nil, Nil)
          \/ /\ live' = Without(Expired)
             /\ \/ taken /\ Answers("exists", Report(Expired), Nil, Nil)
                \/ clash /\ Answers("code_exists", Report(Expired), Nil, Nil)
                \/ full  /\ Answers("capacity", Report(Expired), Nil, Nil)
                \/ limit /\ Answers("limit", Report(Expired), Nil, Nil)

(* One controller at a time, never the host itself; a repeated join by the *)
(* same controller is idempotent.                                          *)
Join ==
    \E r \in RIds, d \in Devices :
      /\ Active(r)
      /\ d # live[r].host
      /\ live[r].controller \in {Nil, d}
      /\ live' = [live EXCEPT ![r].controller = d]
      /\ Answers("none", {}, [live[r] EXCEPT !.controller = d], Nil)

(* Only the two members of an active, joined rendezvous have a peer.       *)
Peer ==
    \E r \in RIds, d, p \in Devices :
      /\ Active(r)
      /\ {d, p} = {live[r].host, live[r].controller} /\ d # p
      /\ Answers("none", {}, Nil, p)
      /\ UNCHANGED live

Complete ==
    \E r \in RIds :
      /\ Active(r)
      /\ live' = Without({r})
      /\ Answers("none", {}, live[r], Nil)

RemoveForDevice ==
    \E d \in Devices :
      LET R == {r \in Live : d \in {live[r].host, live[r].controller}}
      IN  live' = Without(R) /\ Answers("none", Report(R), Nil, Nil)

Sweep == live' = Without(Expired) /\ Answers("none", Report(Expired), Nil, Nil)

Refused ==
    \E err \in {"invalid", "not_found", "self_join", "full", "not_joined",
                "not_member", "not_host"} : Refuse(err)

Tick == clock' = clock + 1 /\ UNCHANGED <<live, reply>>

Init ==
    /\ live = [r \in RIds |-> Nil]
    /\ clock = 0
    /\ reply = [err |-> "none", removed |-> {}, rdv |-> Nil, peer |-> Nil]

Next ==
    \/ /\ Create \/ Join \/ Peer \/ Complete \/ RemoveForDevice \/ Sweep \/ Refused
       /\ UNCHANGED clock
    \/ Tick

Spec == Init /\ [][Next]_promiseVars
============================================================================
