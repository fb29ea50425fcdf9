--------------------------- MODULE MCHostPairing ---------------------------
(* The instances of HostPairing that TLC checks.                           *)
EXTENDS HostPairing

TestEndpoints ==
    {[scheme |-> "wss", host |-> "public", credentials |-> FALSE, oversized |-> FALSE],
     [scheme |-> "ws", host |-> "private", credentials |-> FALSE, oversized |-> FALSE]}
============================================================================
