------------------------------ MODULE MCTcpSeq ------------------------------
(* A small instance of the stream of lessons 08 and 09 for TLC.            *)
EXTENDS TcpSeqProps
=============================================================================
