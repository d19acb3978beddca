-------------------------- MODULE MCBillingExport --------------------------
(* Instances of BillingExport for TLC. *)
EXTENDS BillingExport, TLC
=============================================================================
