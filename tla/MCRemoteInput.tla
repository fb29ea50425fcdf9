--------------------------- MODULE MCRemoteInput ---------------------------
(* The instances of RemoteInput that TLC checks.                           *)
EXTENDS RemoteInput, TLC

Symmetry == Permutations(Keys)
============================================================================
