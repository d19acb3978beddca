--------------------------- MODULE MCSMPPManager ---------------------------
(* Instances of SMPPManager for TLC. *)
EXTENDS SMPPManager, TLC

CONSTANTS n1, n2
MCRank == n1 :> 1 @@ n2 :> 2
=============================================================================
