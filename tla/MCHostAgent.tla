---------------------------- MODULE MCHostAgent ----------------------------
(* The instance of HostAgent that TLC checks: one offer as its Controller  *)
(* signed it, and the same with other permissions put in afterwards.       *)
EXTENDS HostAgent, TLC

CONSTANTS c1, c2
Unsigned ==
    [controller |-> c1, nonce |-> 1, host |-> 1, issued |-> 0, expires |-> 0, sdp |-> "sdp",
     permissions |-> {"view"}, signature |-> "none"]
Signed == [Unsigned EXCEPT !.signature = Signature(c1, OfferTranscript(Unsigned))]
TestOffers == {Signed, [Signed EXCEPT !.permissions = {"view", "control"}]}
TestPermissions == {{"view", "control"}, {"control"}}
============================================================================
