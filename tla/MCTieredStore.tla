--------------------------- MODULE MCTieredStore ---------------------------
(* Instances of TieredStore for TLC. *)
EXTENDS TieredStore, TLC
=============================================================================
