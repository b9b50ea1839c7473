----------------------------- MODULE TcpApiProps -----------------------------
(* What the blocking socket API of lesson 10 keeps and brings about.       *)
EXTENDS TcpApi

\* Every variable holds a value of its type.
TypeOK ==
  /\ tInst \in {"none", "pkt", "srv"} /\ tcb_set \in [{"pkt", "srv"} -> SUBSET (Peer \cup {Listener})]
  /\ fd_table \subseteq Fds /\ listener \in {"none", "CLOSED", "LISTEN"} /\ lfd \in 0 .. MaxFd
  /\ status \in [Peer -> {"none", "SYN_RCVD", "ESTABLISHED", "CLOSE_WAIT", "LAST_ACK"}]
  /\ fd \in [Peer -> {Unused} \cup Fds]
  /\ rcvbuf \in [Peer -> Seq(Seq(Nat))]
  /\ sndbuf \in [Peer -> Seq([flags : {"synack", "psh", "fin"}, data : Seq(Nat)])]
  /\ uhost \in {"none", "unbound", "bound"} /\ ufd \in 0 .. MaxFd
  /\ urcv \in Seq(1 .. dsent) /\ usnd \in Seq(1 .. dsent)
  /\ known \subseteq Peer \cup {UdpHost} /\ missed \subseteq Peer \cup {UdpHost} /\ hasty \subseteq Peer
  /\ kpc \in {"start", "alloc", "idle", "listener", "signal", "fin", "sigudp"}
  /\ kcur \in Peer \cup {NoPeer} /\ kfin \in BOOLEAN
  /\ spc \in {"socket", "mark", "alloc", "link", "linkown", "listen", "lookup", "accept",
              "acceptwait", "assign", "recv", "recvwait", "send", "close", "lastack"}
  /\ pick \in [fd : 0 .. MaxFd, seen : SUBSET Fds] /\ upick \in [fd : 0 .. MaxFd, seen : SUBSET Fds]
  /\ cfd \in {Unused} \cup 0 .. MaxFd /\ cur \in Peer \cup {NoPeer} /\ buff \in Seq(Nat) /\ torn \in BOOLEAN
  /\ upc \in {"socket", "mark", "bind", "recv", "wait", "send"} /\ udata \in 0 .. dsent
  /\ pst \in [Peer -> {"new", "syn", "open", "fin"}] /\ heard \in [Peer -> SUBSET {"synack", "fin"}]
  /\ acks \in [Peer -> SUBSET {"psh", "fin"}]
  /\ rcvd \in [Peer -> Nat] /\ wire \in [Peer -> Seq(Nat)] /\ finwire \in [Peer -> Nat]
  /\ dsent \in 0 .. MaxDgrams /\ echoed \subseteq 1 .. dsent
  /\ retaken \in BOOLEAN /\ fault \in {"none", "sharedfd", "nullring"}

(* No blocking call sleeps on what it waits for: naccept on an established *)
(* stream nobody has accepted, nrecv on a fragment, nrecvfrom on a         *)
(* datagram, except until pkt_process, which enqueues or changes the       *)
(* status without the mutex, has signalled the condition.                  *)
WakeupsKept ==
  /\ TypeOK
  /\ spc = "acceptwait" /\ (\E p \in Holder(Unused) : status[p] = "ESTABLISHED") => kpc = "listener"
  /\ spc = "recvwait" /\ rcvbuf[cur] # <<>> => kpc = "signal" /\ kcur = cur
  /\ upc = "wait" /\ urcv # <<>> => kpc = "sigudp"

(* A peer whose MAC was always known gets back its bytes in order, and the *)
(* FIN of nclose after the last of them: the server answers a connection   *)
(* that was never accepted, or through the descriptor -1, all the same.    *)
FinAfterEcho ==
  \A p \in Peer \ missed :
    /\ \A k \in 1 .. Len(wire[p]) : wire[p][k] = k
    /\ "fin" \in heard[p] => finwire[p] = rcvd[p] /\ Len(wire[p]) = rcvd[p]

(* In the end every connection its peer has ended is closed and its stream *)
(* freed, so that the next peer can be served, unless an acknowledgement   *)
(* came out of turn (before nclose had set LAST_ACK, or one of data after  *)
(* it), or naccept took a stream that was closed already and waits for its *)
(* last acknowledgement: one served through the descriptor -1 still looks  *)
(* as if nobody had accepted it, and the server then sleeps on it for ever.*)
(* Every datagram is echoed (or it met no bound socket) even then.  After  *)
(* a crash nothing is promised.                                            *)
EveryoneServed ==
  <>[](\/ fault # "none"
       \/ /\ retaken \/ \A p \in Peer \ hasty : status[p] \notin {"CLOSE_WAIT", "LAST_ACK"}
          /\ echoed = 1 .. dsent)
=============================================================================
