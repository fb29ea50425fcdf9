------------------------- MODULE MCRendezvousStore -------------------------
(* Two hosts and controllers, two rendezvous, one code: every limit (one   *)
(* per host, two in all) and every kind of collision is reachable.         *)
EXTENDS RendezvousStore, TLC

(* Devices and rendezvous identifiers are only ever compared for equality. *)
Symmetry == Permutations(Devices) \cup Permutations(RIds)
============================================================================
