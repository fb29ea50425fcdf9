----------------------- MODULE MCTransportConnection -----------------------
(* Two connections, two senders, two source IPs: reservations fail at      *)
(* every level and roll back while the other connection reserves.          *)
EXTENDS TransportConnection, TLC

Symmetry == Permutations(Conns) \cup Permutations(IPs) \cup Permutations(Senders)
============================================================================
