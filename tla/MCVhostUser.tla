---------------------------- MODULE MCVhostUser ----------------------------
(* Small instances of the vhost-user server for TLC. *)
EXTENDS VhostUserProps
=============================================================================
