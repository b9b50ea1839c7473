----------------------------- MODULE MCUdpEcho -----------------------------
(* Small instances of the UDP echo server for TLC. *)
EXTENDS UdpEchoProps, TLC

\* Clients are interchangeable.
Symmetry == Permutations(Client)
=============================================================================
