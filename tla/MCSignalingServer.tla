------------------------- MODULE MCSignalingServer -------------------------
(* Three connections of two devices: a device reconnects while its old     *)
(* connection is still cleaning up and its peer is still using it.         *)
EXTENDS SignalingServer, TLC

Symmetry == Permutations(Conns) \cup Permutations(Devices) \cup Permutations(RIds)
============================================================================
