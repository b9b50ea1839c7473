------------------------------ MODULE MCTcpApi ------------------------------
(* A small instance of the lesson 10 server for TLC. *)
EXTENDS TcpApiProps
=============================================================================
