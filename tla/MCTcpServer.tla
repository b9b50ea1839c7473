---------------------------- MODULE MCTcpServer ----------------------------
(* Small instances of the TCP server for TLC. *)
EXTENDS TcpServerProps, TLC

\* Peers are interchangeable.
Symmetry == Permutations(Peer)
=============================================================================
