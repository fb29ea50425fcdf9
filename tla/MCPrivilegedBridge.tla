------------------------- MODULE MCPrivilegedBridge -------------------------
(* The instances of PrivilegedBridge that TLC checks: sessions that may    *)
(* control and sessions that may only look, and a process that was         *)
(* installed before the broker was.                                        *)
EXTENDS PrivilegedBridge

Current == [token |-> "token", executable |-> "new", osSession |-> 1]
Outdated == [Current EXCEPT !.executable = "old"]
BothCredentials == {Current, Outdated}
OneCredential == {Current}
Control == [kind |-> "context", permissions |-> {"view", "control"}, name |-> "phone"]
ViewOnly == [Control EXCEPT !.permissions = {"view"}]
BothContexts == {Control, ViewOnly}
OneContext == {Control}
FastFirst == <<"fast", "critical">>
============================================================================
