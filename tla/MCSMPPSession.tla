--------------------------- MODULE MCSMPPSession ---------------------------
(* Instances of SMPPSession for TLC. *)
EXTENDS SMPPSession, TLC
=============================================================================
