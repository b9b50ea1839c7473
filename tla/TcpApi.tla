------------------------------- MODULE TcpApi -------------------------------
(***************************************************************************)
(* The blocking socket API of lesson 10.  Three lcores share the           *)
(* descriptor bitmap, the list of UDP hosts and the stream table, none of  *)
(* them under a lock: pkt_process, udp_server_entry and tcp_server_entry,  *)
(* which serves one connection at a time.                                  *)
(*                                                                         *)
(* Every stream asks for rings named "sndbuf" and "rcvbuf", so a second    *)
(* stream gets none and its first enqueue takes the process down: the peer *)
(* streams exist one at a time.  A stream is named by its peer, its bytes  *)
(* are numbered from 1 as they arrive.  The peers are TCP clients that     *)
(* connect once; the network neither loses nor reorders (see TcpSeq).      *)
(* Left out: allocation failures, full rings, mbuf ownership, splitting of *)
(* datagrams (see UdpEcho), sequence numbers and the segments that only    *)
(* acknowledge (see TcpSeq), and what happens after two sockets have got   *)
(* the same descriptor or the process has crashed.                         *)
(***************************************************************************)
EXTENDS Integers, Sequences, FiniteSets, Functions

CONSTANTS Peers,      \* TCP clients, numbered in the order in which they connect
          MaxFd,      \* descriptors 1 .. MaxFd; 3 .. MAX_FD_COUNT in the code
          BufferSize, \* BUFFER_SIZE
          MSS,        \* longest payload of a segment; longer ones than BUFFER_SIZE are in TcpServer
          MaxBytes,   \* bytes the peers send in all (a bound of the model)
          MaxDgrams,  \* datagrams the UDP client sends (a bound of the model)
          MaxCalls    \* connections and datagrams in all (a bound of the model)

ASSUME ApiAssumption ==
  /\ Peers \in Nat /\ MaxFd \in Nat \ 0 .. 3 /\ BufferSize \in Nat \ {0} /\ MSS \in 1 .. BufferSize
  /\ MaxBytes \in Nat /\ MaxDgrams \in Nat /\ MaxCalls \in Nat

Peer == 1 .. Peers
NoPeer == 0
Listener == Peers + 1   \* the listening stream, in tcb_set
UdpHost == Peers + 2    \* the UDP client

VARIABLES
  tInst, tcb_set,          \* the table the global names; the streams each table links
  fd_table,                \* descriptors in use
  listener,                \* the listening stream: its status
  lfd,                     \* ... and its descriptor
  status, fd, rcvbuf, sndbuf,   \* streams of the peers
  uhost, ufd, urcv, usnd,  \* struct localhost of the UDP server
  known,                   \* hosts in the ARP table
  kpc, kcur, kfin,         \* pkt_process: step, stream, FIN of the segment still to do
  spc, pick, cfd, cur, buff,    \* tcp_server_entry: step, descriptor found free, connfd, stream, what nrecv returned
  torn,                    \* ... a stream was unlinked during its walk
  upc, upick, udata,       \* udp_server_entry: step, descriptor found free, datagram read
  pst, heard, acks,        \* peers: state, flags received, acknowledgements under way
  rcvd, wire, finwire,     \* bytes received, bytes the peer got, bytes it had got when the FIN came
  dsent, echoed,           \* datagrams sent; datagrams settled
  missed, hasty,           \* history: hosts met without a MAC, peers whose ACK came out of turn,
  retaken, fault           \* ... a closed stream was accepted again, crash

table   == <<tInst, tcb_set>>
lsock   == <<listener, lfd>>
stream  == <<status, fd, rcvbuf, sndbuf>>
udphost == <<uhost, ufd, urcv, usnd>>
packet  == <<kpc, kcur, kfin>>
server  == <<spc, pick, cfd, cur, buff, torn>>
userver == <<upc, upick, udata>>
peers   == <<pst, heard, acks, rcvd, wire, finwire>>
dgrams  == <<dsent, echoed>>
history == <<missed, hasty, retaken>>
vars    == <<table, fd_table, lsock, stream, udphost, known, packet, server, userver, peers, dgrams, history, fault>>

Unused == -1
NoFd == 0
Fds == 1 .. MaxFd
\* get_fd_frombitmap reads a byte, and sets the bit in it some instructions later.
NoPick == [fd |-> NoFd, seen |-> {}]
\* Mutant: the search starts at 0 instead of DEFAULT_FD_NUM.
FoundFromZero(seen) == [fd |-> CHOOSE f \in (0 .. MaxFd) \ seen : \A g \in (0 .. MaxFd) \ seen : f <= g, seen |-> seen]
Found(seen) == [fd |-> CHOOSE f \in Fds \ seen : \A g \in Fds \ seen : f <= g, seen |-> seen]
Written(p) == {fd_table \cup {p.fd}, p.seen \cup {p.fd}}
\* The descriptor found free is marked; another thread may have marked it too.
Mark(p) == /\ fd_table' \in Written(p)
           /\ fault' = IF p.fd \in fd_table THEN "sharedfd" ELSE fault

Linked(x) == tInst # "none" /\ x \in tcb_set[tInst]
Listed(p) == Linked(p) /\ status[p] # "none"
Streams == {p \in Peer : Listed(p)}
\* What get_hostinfo_fromfd finds among the streams.
Holder(f) == {p \in Streams : fd[p] = f}
Without(x) == [tcb_set EXCEPT ![tInst] = @ \ {x}]
LL_ADD(t, x) == tcb_set' = [tcb_set EXCEPT ![t] = @ \cup {x}]
\* ng_tcp_stream_search: the listener a SYN reaches.
Listening == Linked(Listener) /\ listener = "LISTEN"

\* struct ng_tcp_fragment
Fragment(flags, data) == [flags |-> flags, data |-> data]
\* Mutant: the newest fragment is dequeued first.
EnqueueFront(buf, p, x) == [buf EXCEPT ![p] = <<x>> \o @]
Enqueue(buf, p, x) == [buf EXCEPT ![p] = Append(@, x)]

Init ==
  /\ tInst = "none" /\ tcb_set = [t \in {"pkt", "srv"} |-> {}] /\ fd_table = {}
  /\ listener = "none" /\ lfd = NoFd
  /\ status = [p \in Peer |-> "none"] /\ fd = [p \in Peer |-> Unused]
  /\ rcvbuf = [p \in Peer |-> <<>>] /\ sndbuf = [p \in Peer |-> <<>>]
  /\ uhost = "none" /\ ufd = NoFd /\ urcv = <<>> /\ usnd = <<>>
  /\ known \in {{}, Peer \cup {UdpHost}}   \* the ARP timer has run before, or not
  /\ kpc = "start" /\ kcur = NoPeer /\ kfin = FALSE
  /\ spc = "socket" /\ pick = NoPick /\ cfd = NoFd /\ cur = NoPeer /\ buff = <<>> /\ torn = FALSE
  /\ upc = "socket" /\ upick = NoPick /\ udata = 0
  /\ pst = [p \in Peer |-> "new"] /\ heard = [p \in Peer |-> {}] /\ acks = [p \in Peer |-> {}]
  /\ rcvd = [p \in Peer |-> 0] /\ wire = [p \in Peer |-> <<>>] /\ finwire = [p \in Peer |-> 0]
  /\ dsent = 0 /\ echoed = {} /\ missed = {} /\ hasty = {} /\ retaken = FALSE /\ fault = "none"

-----------------------------------------------------------------------------
(* pkt_process: the stream table                                           *)

\* tcpInstance, unlocked: seen NULL, then allocated, over a table of another thread.
PktInstance ==
  /\ kpc = "start" /\ kpc' = (IF tInst = "none" THEN "alloc" ELSE "idle")
  /\ UNCHANGED <<table, fd_table, lsock, stream, udphost, known, kcur, kfin, server, userver, peers, dgrams, history, fault>>
PktAllocate ==
  /\ kpc = "alloc" /\ kpc' = "idle" /\ tInst' = "pkt"
  /\ UNCHANGED <<tcb_set, fd_table, lsock, stream, udphost, known, kcur, kfin, server, userver, peers, dgrams, history, fault>>

Calls == Cardinality({p \in Peer : pst[p] # "new"}) + dsent
Connects(p) == pst[p] = "new" /\ Calls < MaxCalls /\ \A q \in 1 .. p - 1 : pst[q] # "new"
\* ng_tcp_handle_listen with ng_tcp_stream_create; without rings it crashes.
TcpSyn(p) ==
  /\ kpc = "idle" /\ Connects(p) /\ Listening /\ Streams = {}
  /\ LL_ADD(tInst, p) /\ status' = [status EXCEPT ![p] = "SYN_RCVD"]
  /\ sndbuf' = Enqueue(sndbuf, p, Fragment("synack", <<>>))
  /\ pst' = [pst EXCEPT ![p] = "syn"]
  /\ UNCHANGED <<tInst, fd_table, lsock, fd, rcvbuf, udphost, known, packet, server, userver,
                 heard, acks, rcvd, wire, finwire, dgrams, history, fault>>
TcpSynCrash(p) ==
  /\ kpc = "idle" /\ Connects(p) /\ Listening /\ Streams # {}
  /\ fault' = "nullring"
  /\ UNCHANGED <<table, fd_table, lsock, stream, udphost, known, packet, server, userver, peers, dgrams, history>>

\* ng_tcp_handle_syn_rcvd: the status first, then the listener's condition.
TcpEstablish(p) ==
  /\ kpc = "idle" /\ Listed(p) /\ status[p] = "SYN_RCVD" /\ "synack" \in heard[p]
  /\ status' = [status EXCEPT ![p] = "ESTABLISHED"] /\ pst' = [pst EXCEPT ![p] = "open"]
  /\ kpc' = "listener"
  /\ UNCHANGED <<table, fd_table, lsock, fd, rcvbuf, sndbuf, udphost, known, kcur, kfin, server, userver,
                 heard, acks, rcvd, wire, finwire, dgrams, history, fault>>
\* Mutant: the new stream's condition is signalled, not the listener's.
SignalStream ==
  /\ kpc = "listener" /\ kpc' = "idle"
  /\ UNCHANGED <<table, fd_table, lsock, stream, udphost, known, kcur, kfin, server, userver, peers, dgrams, history, fault>>
SignalListener ==
  /\ kpc = "listener" /\ kpc' = "idle"
  /\ spc' = IF spc = "acceptwait" THEN "accept" ELSE spc
  /\ UNCHANGED <<table, fd_table, lsock, stream, udphost, known, kcur, kfin, pick, cfd, cur, buff, torn,
                 userver, peers, dgrams, history, fault>>

Total(f) == FoldFunction(+, 0, f)
\* ng_tcp_handle_established: PSH, FIN, or both in one segment.
TcpData(p, n, fin) ==
  /\ kpc = "idle" /\ Listed(p) /\ status[p] = "ESTABLISHED" /\ pst[p] = "open" /\ Total(rcvd) + n <= MaxBytes
  /\ rcvbuf' = Enqueue(rcvbuf, p, [k \in 1 .. n |-> rcvd[p] + k])
  /\ rcvd' = [rcvd EXCEPT ![p] = @ + n] /\ pst' = [pst EXCEPT ![p] = IF fin THEN "fin" ELSE @]
  /\ kpc' = "signal" /\ kcur' = p /\ kfin' = fin
  /\ UNCHANGED <<table, fd_table, lsock, status, fd, sndbuf, udphost, known, server, userver,
                 heard, acks, wire, finwire, dgrams, history, fault>>
\* The FIN queues an empty fragment, which nrecv reports as end of stream.
CloseWait(p) ==
  /\ status' = [status EXCEPT ![p] = "CLOSE_WAIT"]
  /\ rcvbuf' = Enqueue(rcvbuf, p, <<>>)
  /\ kpc' = "signal" /\ kcur' = p /\ kfin' = FALSE
  /\ UNCHANGED <<table, fd_table, lsock, fd, sndbuf, udphost, known, server, userver,
                 heard, acks, rcvd, wire, finwire, dgrams, history, fault>>
TcpFin(p) ==
  /\ kpc = "idle" /\ Listed(p) /\ status[p] = "ESTABLISHED" /\ pst[p] = "open"
  /\ pst' = [pst EXCEPT ![p] = "fin"] /\ CloseWait(p)
TcpDataFin == kpc = "fin" /\ CloseWait(kcur) /\ UNCHANGED pst
\* ng_tcp_enqueue_recvbuffer signals the stream's condition; then the FIN, if any.
SignalRecv ==
  /\ kpc = "signal" /\ kpc' = (IF kfin THEN "fin" ELSE "idle") /\ kcur' = (IF kfin THEN kcur ELSE NoPeer)
  /\ spc' = IF spc = "recvwait" /\ cur = kcur THEN "recv" ELSE spc
  /\ UNCHANGED <<table, fd_table, lsock, stream, udphost, known, kfin, pick, cfd, cur, buff, torn,
                 userver, peers, dgrams, history, fault>>

\* An acknowledgement of data or of the FIN: only LAST_ACK heeds it, whatever it
\* acknowledges, and then unlinks and frees the stream with its rings.
TcpAck(p, what) ==
  /\ kpc = "idle" /\ Listed(p) /\ what \in acks[p]
  /\ acks' = [acks EXCEPT ![p] = @ \ {what}]
  /\ IF status[p] = "LAST_ACK"
     THEN /\ tcb_set' = Without(p)
          /\ status' = [status EXCEPT ![p] = "none"] /\ fd' = [fd EXCEPT ![p] = Unused]
          /\ rcvbuf' = [rcvbuf EXCEPT ![p] = <<>>] /\ sndbuf' = [sndbuf EXCEPT ![p] = <<>>]
          /\ torn' = (spc = "lookup")
          /\ hasty' = IF what = "fin" THEN hasty ELSE hasty \cup {p}
     ELSE /\ hasty' = IF what = "fin" THEN hasty \cup {p} ELSE hasty
          /\ UNCHANGED <<tcb_set, stream, torn>>
  /\ UNCHANGED <<tInst, fd_table, lsock, udphost, known, packet, spc, pick, cfd, cur, buff, userver,
                 pst, heard, rcvd, wire, finwire, dgrams, missed, retaken, fault>>

\* ng_tcp_out: no MAC yet, so ask and put the fragment behind the others.
TcpOutMiss(p) ==
  /\ kpc = "idle" /\ Listed(p) /\ sndbuf[p] # <<>> /\ p \notin known
  /\ sndbuf' = [sndbuf EXCEPT ![p] = Append(Tail(@), Head(@))]
  /\ missed' = missed \cup {p}
  /\ UNCHANGED <<table, fd_table, lsock, status, fd, rcvbuf, udphost, known, packet, server, userver, peers, dgrams, hasty, retaken, fault>>
TcpOut(p) ==
  LET f == Head(sndbuf[p]) IN
  /\ kpc = "idle" /\ Listed(p) /\ sndbuf[p] # <<>> /\ p \in known
  /\ sndbuf' = [sndbuf EXCEPT ![p] = Tail(@)]
  /\ heard' = [heard EXCEPT ![p] = @ \cup ({f.flags} \cap {"synack", "fin"})]
  /\ acks' = [acks EXCEPT ![p] = @ \cup ({f.flags} \cap {"psh", "fin"})]
  /\ wire' = [wire EXCEPT ![p] = @ \o f.data]
  /\ finwire' = [finwire EXCEPT ![p] = IF f.flags = "fin" THEN Len(wire[p]) ELSE @]
  /\ UNCHANGED <<table, fd_table, lsock, status, fd, rcvbuf, udphost, known, packet, server, userver,
                 pst, rcvd, dgrams, history, fault>>
ArpReply(h) ==
  /\ kpc = "idle" /\ h \in missed \ known /\ known' = known \cup {h}
  /\ UNCHANGED <<table, fd_table, lsock, stream, udphost, packet, server, userver, peers, dgrams, history, fault>>

\* udp_process: no bound host, or enqueued and then signalled.
UdpArrives ==
  /\ kpc = "idle" /\ dsent < MaxDgrams /\ Calls < MaxCalls /\ dsent' = dsent + 1
  /\ IF uhost = "bound"
     THEN urcv' = Append(urcv, dsent + 1) /\ kpc' = "sigudp" /\ UNCHANGED echoed
     ELSE echoed' = echoed \cup {dsent + 1} /\ UNCHANGED <<urcv, kpc>>
  /\ UNCHANGED <<table, fd_table, lsock, stream, uhost, ufd, usnd, known, kcur, kfin, server, userver, peers, history, fault>>
SignalUdp ==
  /\ kpc = "sigudp" /\ kpc' = "idle"
  /\ upc' = IF upc = "wait" THEN "recv" ELSE upc
  /\ UNCHANGED <<table, fd_table, lsock, stream, udphost, known, kcur, kfin, server, upick, udata, peers, dgrams, history, fault>>
\* udp_out
UdpOutMiss ==
  /\ kpc = "idle" /\ usnd # <<>> /\ UdpHost \notin known
  /\ usnd' = Append(Tail(usnd), Head(usnd)) /\ missed' = missed \cup {UdpHost}
  /\ UNCHANGED <<table, fd_table, lsock, stream, uhost, ufd, urcv, known, packet, server, userver, peers, dgrams, hasty, retaken, fault>>
UdpOut ==
  /\ kpc = "idle" /\ usnd # <<>> /\ UdpHost \in known
  /\ usnd' = Tail(usnd) /\ echoed' = echoed \cup {Head(usnd)}
  /\ UNCHANGED <<table, fd_table, lsock, stream, uhost, ufd, urcv, known, packet, server, userver, peers, dsent, history, fault>>

-----------------------------------------------------------------------------
(* tcp_server_entry                                                        *)

Goto(to) == spc' = to /\ UNCHANGED <<pick, cfd, cur, buff, torn>>
Quiet == UNCHANGED <<known, packet, userver, udphost, peers, dgrams, history>>

\* nsocket(SOCK_STREAM): a descriptor, the table, the list.
SocketFd ==
  /\ spc = "socket" /\ spc' = "mark" /\ pick' = Found(fd_table)
  /\ UNCHANGED <<table, fd_table, lsock, stream, cfd, cur, buff, torn, fault>> /\ Quiet
SocketMark ==
  /\ spc = "mark" /\ spc' = (IF tInst = "none" THEN "alloc" ELSE "link")
  /\ Mark(pick) /\ lfd' = pick.fd /\ pick' = NoPick /\ listener' = "CLOSED"
  /\ UNCHANGED <<table, stream, cfd, cur, buff, torn>> /\ Quiet
SocketAllocate ==
  /\ spc = "alloc" /\ Goto("linkown") /\ tInst' = "srv"
  /\ UNCHANGED <<tcb_set, fd_table, lsock, stream, fault>> /\ Quiet
\* The table was read before the list is changed; the global may have moved on.
SocketLink ==
  /\ spc \in {"link", "linkown"} /\ Goto("listen")
  /\ \E t \in {tInst} \cup (IF spc = "linkown" THEN {"srv"} ELSE {}) : LL_ADD(t, Listener)
  /\ UNCHANGED <<tInst, fd_table, lsock, stream, fault>> /\ Quiet
\* nbind and nlisten look the descriptor up; their result is ignored.
BindListen ==
  /\ spc = "listen" /\ Goto("lookup")
  /\ listener' = IF Linked(Listener) THEN "LISTEN" ELSE listener
  /\ UNCHANGED <<table, fd_table, lfd, stream, fault>> /\ Quiet

\* naccept: without its listener it returns -1, the descriptor of every stream
\* that has not been accepted.
AcceptLookup ==
  /\ spc = "lookup" /\ torn' = FALSE
  /\ \/ Linked(Listener) /\ spc' = "accept" /\ UNCHANGED cfd
     \/ ~Linked(Listener) /\ spc' = "recv" /\ cfd' = Unused
     \/ torn /\ spc' = "recv" /\ cfd' = Unused
  /\ UNCHANGED <<table, fd_table, lsock, stream, pick, cur, buff, fault>> /\ Quiet
\* get_accept_tcb under the listener's mutex: half-open streams are taken too.
AcceptTake ==
  /\ spc = "accept"
  /\ IF Holder(Unused) # {}
     THEN /\ spc' = "assign" /\ cur' = (CHOOSE p \in Holder(Unused) : TRUE)
          /\ pick' = Found(fd_table) /\ UNCHANGED <<cfd, buff, torn>>
          /\ retaken' = (retaken \/ status[cur'] = "LAST_ACK")
     ELSE Goto("acceptwait") /\ UNCHANGED retaken
  /\ UNCHANGED <<table, fd_table, lsock, stream, known, packet, userver, udphost, peers, dgrams,
                 missed, hasty, fault>>
AcceptMark ==
  /\ spc = "assign" /\ spc' = "recv" /\ Mark(pick) /\ pick' = NoPick
  /\ fd' = [fd EXCEPT ![cur] = pick.fd] /\ cfd' = pick.fd /\ cur' = NoPeer
  /\ UNCHANGED <<table, lsock, status, rcvbuf, sndbuf, buff, torn>> /\ Quiet

\* nrecv: end of stream, or a fragment copied whole; it waits on an empty ring.
\* A descriptor nobody holds makes the loop spin.
Recv ==
  \E p \in Holder(cfd) :
    /\ spc = "recv" /\ cur' = p
    /\ IF rcvbuf[p] = <<>>
       THEN spc' = "recvwait" /\ UNCHANGED <<rcvbuf, buff>>
       ELSE /\ rcvbuf' = [rcvbuf EXCEPT ![p] = Tail(@)] /\ buff' = Head(rcvbuf[p])
            /\ spc' = IF Head(rcvbuf[p]) = <<>> THEN "close" ELSE "send"
    /\ UNCHANGED <<table, fd_table, lsock, status, fd, sndbuf, pick, cfd, torn, fault>> /\ Quiet
Send ==
  /\ spc = "send" /\ spc' = "recv" /\ buff' = <<>>
  /\ sndbuf' = Enqueue(sndbuf, cur, Fragment("psh", buff))
  /\ UNCHANGED <<table, fd_table, lsock, status, fd, rcvbuf, pick, cfd, cur, torn, fault>> /\ Quiet
\* Mutant: nclose queues no FIN.
CloseSilent ==
  /\ spc = "close" /\ Goto("lastack")
  /\ UNCHANGED <<table, fd_table, lsock, stream, fault>> /\ Quiet
\* nclose: the FIN is queued before the status says what its ACK means.
Close ==
  /\ spc = "close" /\ Goto("lastack")
  /\ sndbuf' = Enqueue(sndbuf, cur, Fragment("fin", <<>>))
  /\ UNCHANGED <<table, fd_table, lsock, status, fd, rcvbuf, fault>> /\ Quiet
CloseStatus ==
  /\ spc = "lastack" /\ spc' = "lookup" /\ cur' = NoPeer /\ cfd' = NoFd /\ UNCHANGED <<pick, buff, torn>>
  /\ status' = [status EXCEPT ![cur] = "LAST_ACK"]
  /\ fd_table' = fd_table \ {cfd}
  /\ UNCHANGED <<table, lsock, fd, rcvbuf, sndbuf, fault>> /\ Quiet

-----------------------------------------------------------------------------
(* udp_server_entry                                                        *)

Still == UNCHANGED <<table, lsock, stream, known, packet, server, peers, dgrams, history>>
UdpFd ==
  /\ upc = "socket" /\ upc' = "mark" /\ upick' = Found(fd_table)
  /\ UNCHANGED <<fd_table, udphost, udata, fault>> /\ Still
UdpMark ==
  /\ upc = "mark" /\ upc' = "bind" /\ Mark(upick) /\ ufd' = upick.fd /\ upick' = NoPick /\ uhost' = "unbound"
  /\ UNCHANGED <<urcv, usnd, udata>> /\ Still
UdpBind ==
  /\ upc = "bind" /\ upc' = "recv" /\ uhost' = "bound"
  /\ UNCHANGED <<fd_table, ufd, urcv, usnd, upick, udata, fault>> /\ Still
\* nrecvfrom
UdpRecv ==
  /\ upc = "recv"
  /\ IF urcv = <<>> THEN upc' = "wait" /\ UNCHANGED <<urcv, udata>>
     ELSE upc' = "send" /\ udata' = Head(urcv) /\ urcv' = Tail(urcv)
  /\ UNCHANGED <<fd_table, uhost, ufd, usnd, upick, fault>> /\ Still
\* nsendto
UdpSend ==
  /\ upc = "send" /\ upc' = "recv" /\ usnd' = Append(usnd, udata) /\ udata' = 0
  /\ UNCHANGED <<fd_table, uhost, ufd, urcv, upick, fault>> /\ Still

-----------------------------------------------------------------------------
Arrives(p) == \/ TcpSyn(p) \/ TcpSynCrash(p)
              \/ \E n \in 1 .. MSS, fin \in BOOLEAN : TcpData(p, n, fin)
Answers(p) == TcpEstablish(p) \/ TcpFin(p) \/ \E what \in {"psh", "fin"} : TcpAck(p, what)
PacketStep ==
  \/ PktInstance \/ PktAllocate \/ SignalListener \/ TcpDataFin \/ SignalRecv \/ SignalUdp
  \/ UdpOut \/ \E p \in Peer : TcpOut(p)
Misses == UdpOutMiss \/ \E p \in Peer : TcpOutMiss(p)
TcpServerStep ==
  \/ SocketFd \/ SocketMark \/ SocketAllocate \/ SocketLink \/ BindListen
  \/ AcceptLookup \/ AcceptTake \/ AcceptMark \/ Recv \/ Send \/ Close \/ CloseStatus
UdpServerStep == UdpFd \/ UdpMark \/ UdpBind \/ UdpRecv \/ UdpSend

Next ==
  /\ fault = "none"
  /\ \/ (\E p \in Peer : Arrives(p) \/ Answers(p)) \/ UdpArrives
     \/ (\E h \in Peer \cup {UdpHost} : ArpReply(h))
     \/ PacketStep \/ Misses \/ TcpServerStep \/ UdpServerStep
Spec == Init /\ [][Next]_vars

(* The lcores run their loops for ever, and a round of pkt_process does    *)
(* not only meet missing MACs; a connected client answers segments and ARP *)
(* requests and ends its connection some time.                             *)
Alive(A) == fault = "none" /\ A
Fairness ==
  /\ WF_vars(Alive(\/ PacketStep \/ Misses \/ \E p \in Peer : Answers(p)))
  /\ WF_vars(Alive(PacketStep \/ (\E p \in Peer : Answers(p)) \/ \E h \in Peer \cup {UdpHost} : ArpReply(h)))
  /\ WF_vars(Alive(TcpServerStep)) /\ WF_vars(Alive(UdpServerStep))
FairSpec == Spec /\ Fairness
=============================================================================
