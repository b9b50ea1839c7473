---------------------------- MODULE MCEventPoll ----------------------------
(* Small instances of the epoll for TLC. *)
EXTENDS Epoll
=============================================================================
