------------------------- MODULE MCReceiptTracking -------------------------
(* Instances of ReceiptTracking for TLC. *)
EXTENDS ReceiptTracking, TLC

Symmetry ==
    Permutations(Handlers) \cup Permutations(Pushers)
        \cup Permutations(Upstreams) \cup Permutations(Ids)
=============================================================================
