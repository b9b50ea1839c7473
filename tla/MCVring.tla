------------------------------ MODULE MCVring ------------------------------
(* Small instances of the virtqueue for TLC. *)
EXTENDS VringProps
=============================================================================
