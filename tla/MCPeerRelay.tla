---------------------------- MODULE MCPeerRelay ----------------------------
(* Instances of PeerRelay for TLC. *)
EXTENDS PeerRelay, TLC

CONSTANT m1
MCTo == m1 :> <<"r1", "r2">>
=============================================================================
