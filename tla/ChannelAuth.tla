---------------------------- MODULE ChannelAuth ----------------------------
(***************************************************************************)
(* The proofs with which the two ends of a local channel show each other   *)
(* that they hold its secret (crates/ipc/src/auth.rs).  A proof is a MAC   *)
(* over the direction and channel it is for, the instance and both nonces; *)
(* the MAC is kept as the tuple of what it covers, so that two proofs are  *)
(* equal exactly when all of it is.                                        *)
(***************************************************************************)

\* client_domain, server_domain: one per direction and channel
Channels == {"FlutterHost", "PrivilegedHost", "PrivilegedHelper"}
ClientDomain(channel) == <<"client", channel>>
ServerDomain(channel) == <<"server", channel>>

ProofMac(secret, domain, instance, nonces) == <<secret, domain, instance, nonces>>

ChannelClientProof(secret, channel, instance, nonces) ==
    ProofMac(secret, ClientDomain(channel), instance, nonces)
ChannelServerProof(secret, channel, instance, nonces) ==
    ProofMac(secret, ServerDomain(channel), instance, nonces)

VerifyClientProof(secret, channel, instance, nonces, candidate) ==
    candidate = ProofMac(secret, ClientDomain(channel), instance, nonces)
VerifyServerProof(secret, channel, instance, nonces, candidate) ==
    candidate = ProofMac(secret, ServerDomain(channel), instance, nonces)
============================================================================
