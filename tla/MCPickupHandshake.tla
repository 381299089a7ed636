------------------------- MODULE MCPickupHandshake -------------------------
(* Small instances of PickupHandshake: p1 holds the primary request. *)
EXTENDS PickupHandshake

CONSTANTS p1, p2
=============================================================================
