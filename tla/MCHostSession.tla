--------------------------- MODULE MCHostSession ---------------------------
(* The instances of HostSession that TLC checks.                           *)
EXTENDS HostSession, TLC

Symmetry ==
    Permutations(Controllers) \cup Permutations(Sessions) \cup Permutations(Clients)
============================================================================
