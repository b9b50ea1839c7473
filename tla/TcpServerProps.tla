--------------------------- MODULE TcpServerProps ---------------------------
(***************************************************************************)
(* What the TCP server of lesson 14 keeps true.  A socket call strays when *)
(* its lookup returns another stream than the one accepted under that      *)
(* descriptor, when a concurrent removal cuts its walk short, when the     *)
(* descriptors are exhausted, and when nrecv meets a fragment longer than  *)
(* its buffer; the properties below are promised up to that point.         *)
(***************************************************************************)
EXTENDS TcpServer

Straight == strayed = "no"

Step == {"wait", "serve", "listener", "apt", "acceptwait", "assign", "add", "recv", "dequeue", "send",
         "del", "close", "lastack", "aborted"}

\* Every variable holds a value of its type.
TypeOK ==
  /\ tcb_set \in Seq(Peer)
  /\ status \in [Peer -> {"none", "SYN_RCVD", "ESTABLISHED", "CLOSE_WAIT", "LAST_ACK"}]
  /\ fd \in [Peer -> -1 .. MaxFd] /\ fd_table \subseteq 1 .. MaxFd
  /\ rcvbuf \in [Peer -> Seq(Seq(Nat))]
  /\ sndbuf \in [Peer -> Seq([flags : {"psh", "fin"}, data : Seq(Nat)])]
  /\ registered \subseteq Item /\ known \subseteq Item /\ ready \subseteq Item /\ handed \subseteq Item
  /\ itemfd \in [Item -> -1 .. MaxFd] /\ conn \in [Item -> Peer \cup {NoPeer}]
  /\ tpc \in {"idle", "listener", "data", "datafin", "fin", "finpost"} /\ tstream \in Peer \cup {NoPeer}
  /\ spc \in Step /\ todo \subseteq Item /\ ev \in Item /\ cur \in Peer \cup {NoPeer}
  /\ buff \in Seq(Nat) /\ torn \in BOOLEAN
  /\ segs \in [Peer -> 0 .. MaxSegs] /\ rcvd \in [Peer -> Nat] /\ wire \in [Peer -> Seq(Nat)]
  /\ strayed \in {"no", "alias", "torn", "exhausted", "oversize"}

Open(p) == status[p] \in {"SYN_RCVD", "ESTABLISHED", "CLOSE_WAIT"} /\ fd[p] # Unused

\* Events never outnumber fragments, although events are merged and a fragment
\* may be read before its own event is posted: the nrecv of the only server
\* thread, marked "//block", always finds a fragment.
RecvNeverWaits == Straight /\ spc = "dequeue" => rcvbuf[cur] # <<>>

\* The same for naccept: whoever it takes (streams half open included), an event
\* of the listener leaves it a stream to take.
AcceptNeverWaits == Straight => spc # "acceptwait"

\* The only server thread never waits inside naccept or nrecv: it is called for
\* an event, and events are posted after what they announce.
ServerNeverWaits == RecvNeverWaits /\ AcceptNeverWaits

\* No two open connections share a descriptor, and the bitmap marks the
\* descriptors of the open connections and no others (all within the range
\* get_fd_frombitmap searches).
FdsOwned ==
  TypeOK /\ (Straight =>
    /\ \A p, q \in Peer : Open(p) /\ Open(q) /\ fd[p] = fd[q] => p = q
    /\ fd_table = {fd[p] : p \in {q \in Peer : Open(q)}})

\* nepoll_ctl(DEL) frees the epitem: it is never one that rdlist still links.
DelNeverReady == [][ Straight /\ Del => {i \in registered : itemfd[i] = itemfd[ev]} \cap ready = {} ]_vars

\* What is sent on a connection is what arrived on it, in order, without a gap.
EchoInOrder == Straight => \A p \in Peer : \A k \in 1 .. Len(wire[p]) : wire[p][k] = k

\* A connection is closed by the server only when it has read all that the
\* peer sent before its FIN.
ClosedAfterAll ==
  [][ Straight /\ CloseStatus => status[cur] = "CLOSE_WAIT" /\ rcvbuf[cur] = <<>> ]_vars

\* nepoll_ctl(DEL) and nclose come at the end of a connection: no event is
\* pending for the item that is freed and nothing is left unread.
ClosesCleanly == DelNeverReady /\ ClosedAfterAll

\* An event in the ready list is served: neither a socket call nor the removal
\* of another connection keeps the server thread from coming back for it.  Only
\* the free() of a removed epitem may end the process first.
EventServed == \A i \in Item : i \in ready ~> i \notin ready \/ ~Straight \/ ~Running
=============================================================================
