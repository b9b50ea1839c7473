----------------------------- MODULE TcpServer -----------------------------
(***************************************************************************)
(* The TCP server of lesson 14: the packet thread (ng_tcp_process) runs    *)
(* the stream table, the server thread (tcp_server_entry) the socket calls *)
(* naccept, nrecv, nsend, nclose, driven by the epoll, which is used here  *)
(* as the event set it implements.  The two threads share the list of      *)
(* streams, the descriptor of each stream and its two rings, and no lock   *)
(* covers a walk of the list.                                              *)
(*                                                                         *)
(* A stream is named by its peer: ng_tcp_stream_search finds the stream of *)
(* an address pair before one is created, so a peer has at most one.       *)
(* The bytes of a stream are numbered from 1 in the order they arrive.     *)
(* nepoll_ctl(DEL) gives the epitem, which is rte_malloc memory, to libc's *)
(* free(): undefined, so the process may end there or go on.               *)
(* Left out: sequence numbers, the segments that carry nothing else        *)
(* (SYN|ACK and ACK, which are queued to sndbuf too), and allocation       *)
(* failures.  The peers send any segments in any order; data segments are  *)
(* never empty.  Locals are reset where they go out of use.                *)
(***************************************************************************)
EXTENDS Integers, Sequences, FiniteSets

CONSTANTS Peer,       \* remote address and port
          NoPeer,
          MaxFd,      \* descriptors left for connections, MAX_FD_COUNT in the code
          BufferSize, \* BUFFER_SIZE, what one nrecv asks for
          MSS,        \* longest payload of a segment
          MaxSegs     \* segments that arrive from one peer (a bound of the model)

ASSUME PeerAssumption == NoPeer \notin Peer /\ IsFiniteSet(Peer)
ASSUME SizeAssumption == /\ MaxFd \in Nat /\ MaxSegs \in Nat
                         /\ BufferSize \in Nat \ {0} /\ MSS \in 1 .. 2 * BufferSize

listenfd == 0
Unused == -1          \* stream->fd = -1; //unused
ListenItem == 0       \* the epitem of listenfd
Item == 0 .. MaxSegs * Cardinality(Peer)

VARIABLES
  tcb_set, status, fd, rcvbuf, sndbuf,   \* streams: list, newest first, and their fields
  fd_table,                              \* descriptors in use
  registered, known, ready, handed,      \* the epoll: see EventSet
  itemfd, conn,                          \* each item's sockfd, the stream accept gave it to
  tpc, tstream,                          \* packet thread: step, stream
  spc, todo, ev, cur, buff, torn,        \* server thread: step, events left, event, stream,
                                         \* what nrecv returned, removal during the walk
  segs, rcvd, wire,                      \* per peer: segments, bytes received, bytes echoed
  strayed                                \* "no", or what a socket call got wrong first

streams == <<tcb_set, status, fd, rcvbuf, sndbuf, fd_table>>
epoll   == <<registered, known, ready, handed, itemfd, conn>>
packet  == <<tpc, tstream>>
srv     == <<spc, todo, ev, cur, buff>>
history == <<segs, rcvd, wire>>
vars    == <<streams, epoll, packet, srv, torn, history, strayed>>

ES == INSTANCE EventSet

\* libc has not ended the process.
Running == spc # "aborted"
Listed(p) == \E k \in 1 .. Len(tcb_set) : tcb_set[k] = p
\* The first stream a walk of tcb_set meets among those of S.
First(S) ==
  IF \E k \in 1 .. Len(tcb_set) : tcb_set[k] \in S
  THEN tcb_set[CHOOSE k \in 1 .. Len(tcb_set) :
                 tcb_set[k] \in S /\ \A j \in 1 .. k - 1 : tcb_set[j] \notin S]
  ELSE NoPeer
get_accept_tcb == First({p \in Peer : fd[p] = Unused})
get_hostinfo_fromfd(f) == First({p \in Peer : fd[p] = f})
\* A stream is in the list once.
LL_REMOVE(p) ==
  LET k == CHOOSE k \in 1 .. Len(tcb_set) : tcb_set[k] = p
  IN  SubSeq(tcb_set, 1, k - 1) \o SubSeq(tcb_set, k + 1, Len(tcb_set))
\* It clears the links of the node: a walk it overtakes may end early.
Walk(p) == {p} \cup IF torn THEN {NoPeer} ELSE {}
\* Mutant: the search starts at 0 instead of DEFAULT_FD_NUM.
get_fd_fromzero ==
  LET unused == (0 .. MaxFd) \ fd_table
  IN  IF unused = {} THEN Unused ELSE CHOOSE f \in unused : \A g \in unused : f <= g
get_fd_frombitmap ==
  LET unused == (1 .. MaxFd) \ fd_table
  IN  IF unused = {} THEN Unused ELSE CHOOSE f \in unused : \A g \in unused : f <= g
Stray(what) == strayed' = IF strayed = "no" THEN what ELSE strayed
\* A lookup for the connection of event e has returned p.
Judge(p, e) ==
  IF p = conn[e] THEN UNCHANGED strayed ELSE Stray(IF p = NoPeer THEN "torn" ELSE "alias")

Init ==
  /\ tcb_set = <<>> /\ status = [p \in Peer |-> "none"] /\ fd = [p \in Peer |-> Unused]
  /\ rcvbuf = [p \in Peer |-> <<>>] /\ sndbuf = [p \in Peer |-> <<>>] /\ fd_table = {}
  /\ registered = {ListenItem} /\ known = {ListenItem} /\ ready = {} /\ handed = {}
  /\ itemfd = [i \in Item |-> IF i = ListenItem THEN listenfd ELSE Unused]
  /\ conn = [i \in Item |-> NoPeer]
  /\ tpc = "idle" /\ tstream = NoPeer
  /\ spc = "wait" /\ todo = {} /\ ev = ListenItem /\ cur = NoPeer /\ buff = <<>> /\ torn = FALSE
  /\ segs = [p \in Peer |-> 0] /\ rcvd = [p \in Peer |-> 0] /\ wire = [p \in Peer |-> <<>>]
  /\ strayed = "no"

-----------------------------------------------------------------------------
(* Packet thread: ng_tcp_process                                           *)

Arrives(p) == /\ Running /\ tpc = "idle" /\ segs[p] < MaxSegs
              /\ segs' = [segs EXCEPT ![p] = @ + 1]
\* Mutant: every registered socket is made ready.
CallbackAll(f) ==
  /\ ready' = ready \cup registered
  /\ UNCHANGED <<registered, known, handed, itemfd, conn>>
\* epoll_event_callback(ep, f, EPOLLIN): posted, merged, or lost.
Callback(f) ==
  LET items == {i \in registered : itemfd[i] = f} IN
  /\ ready' = ready \cup items
  /\ UNCHANGED <<registered, known, handed, itemfd, conn>>
\* Mutant: the newest fragment is dequeued first.
EnqueueFront(buf, p, x) == [buf EXCEPT ![p] = <<x>> \o @]
Enqueue(buf, p, x) == [buf EXCEPT ![p] = Append(@, x)]
\* A fragment to send: what it is, and its payload.
Fragment(flags, data) == [flags |-> flags, data |-> data]

\* ng_tcp_handle_listen, from the listener: no stream of this peer exists.
TcpSyn(p) ==
  /\ Arrives(p) /\ ~Listed(p)
  /\ tcb_set' = <<p>> \o tcb_set /\ status' = [status EXCEPT ![p] = "SYN_RCVD"]
  /\ fd' = [fd EXCEPT ![p] = Unused]
  /\ rcvbuf' = [rcvbuf EXCEPT ![p] = <<>>] /\ sndbuf' = [sndbuf EXCEPT ![p] = <<>>]
  /\ rcvd' = [rcvd EXCEPT ![p] = 0] /\ wire' = [wire EXCEPT ![p] = <<>>]
  /\ UNCHANGED <<fd_table, epoll, packet, srv, torn, strayed>>

\* ng_tcp_handle_syn_rcvd: established, and the listener's condition signalled.
TcpEstablish(p) ==
  /\ Arrives(p) /\ Listed(p) /\ status[p] = "SYN_RCVD"
  /\ status' = [status EXCEPT ![p] = "ESTABLISHED"]
  /\ tpc' = "listener"
  /\ spc' = IF spc = "acceptwait" THEN "apt" ELSE spc
  /\ torn' = IF spc = "acceptwait" THEN FALSE ELSE torn
  /\ UNCHANGED <<tcb_set, fd, rcvbuf, sndbuf, fd_table, epoll, tstream, todo, ev, cur, buff, rcvd, wire, strayed>>

TcpPostListener ==
  /\ Running /\ tpc = "listener" /\ tpc' = "idle"
  /\ Callback(listenfd)
  /\ UNCHANGED <<streams, tstream, srv, torn, history, strayed>>

\* Mutant: data is taken in CLOSE_WAIT too.
TcpDataAfterFin(p, n, fin) ==
  /\ Arrives(p) /\ Listed(p) /\ status[p] \in {"ESTABLISHED", "CLOSE_WAIT"}
  /\ rcvbuf' = Enqueue(rcvbuf, p, [k \in 1 .. n |-> rcvd[p] + k])
  /\ rcvd' = [rcvd EXCEPT ![p] = @ + n]
  /\ tpc' = (IF fin THEN "datafin" ELSE "data") /\ tstream' = p
  /\ UNCHANGED <<tcb_set, status, fd, sndbuf, fd_table, epoll, srv, torn, wire, strayed>>

\* ng_tcp_handle_established, PSH: enqueue the payload, then post and acknowledge.
TcpData(p, n, fin) ==
  /\ Arrives(p) /\ Listed(p) /\ status[p] = "ESTABLISHED"
  /\ rcvbuf' = Enqueue(rcvbuf, p, [k \in 1 .. n |-> rcvd[p] + k])
  /\ rcvd' = [rcvd EXCEPT ![p] = @ + n]
  /\ tpc' = (IF fin THEN "datafin" ELSE "data") /\ tstream' = p
  /\ UNCHANGED <<tcb_set, status, fd, sndbuf, fd_table, epoll, srv, torn, wire, strayed>>

TcpPostData ==
  /\ Running /\ tpc \in {"data", "datafin"}
  /\ IF tpc = "data" THEN tpc' = "idle" /\ tstream' = NoPeer ELSE tpc' = "fin" /\ UNCHANGED tstream
  /\ Callback(fd[tstream])
  /\ UNCHANGED <<streams, srv, torn, history, strayed>>

\* ng_tcp_handle_established, FIN: the empty fragment that ends the stream.
CloseWait(p) ==
  /\ status' = [status EXCEPT ![p] = "CLOSE_WAIT"]
  /\ rcvbuf' = Enqueue(rcvbuf, p, <<>>)
  /\ tpc' = "finpost" /\ tstream' = p
  /\ UNCHANGED <<tcb_set, fd, sndbuf, fd_table, epoll, srv, torn, rcvd, wire, strayed>>

TcpFin(p) == /\ Arrives(p) /\ Listed(p) /\ status[p] = "ESTABLISHED"
             /\ CloseWait(p)

TcpDataFin == /\ Running /\ tpc = "fin"
              /\ CloseWait(tstream) /\ UNCHANGED segs

TcpPostFin ==
  /\ Running /\ tpc = "finpost" /\ tpc' = "idle" /\ tstream' = NoPeer
  /\ Callback(fd[tstream])
  /\ UNCHANGED <<streams, srv, torn, history, strayed>>

\* ng_tcp_handle_last_ack: any acknowledgement removes and frees the stream.
TcpLastAck(p) ==
  /\ Arrives(p) /\ Listed(p) /\ status[p] = "LAST_ACK"
  /\ tcb_set' = LL_REMOVE(p)
  /\ status' = [status EXCEPT ![p] = "none"] /\ fd' = [fd EXCEPT ![p] = Unused]
  /\ rcvbuf' = [rcvbuf EXCEPT ![p] = <<>>] /\ sndbuf' = [sndbuf EXCEPT ![p] = <<>>]
  /\ torn' = (torn \/ spc \in {"listener", "apt", "recv", "send", "close"})
  /\ UNCHANGED <<fd_table, epoll, packet, srv, rcvd, wire, strayed>>

\* ng_tcp_out: one fragment of a stream goes to the wire.
TcpOut(p) ==
  /\ Running /\ tpc = "idle" /\ Listed(p) /\ sndbuf[p] # <<>>
  /\ sndbuf' = [sndbuf EXCEPT ![p] = Tail(@)]
  /\ wire' = [wire EXCEPT ![p] = @ \o Head(sndbuf[p]).data]
  /\ UNCHANGED <<tcb_set, status, fd, rcvbuf, fd_table, epoll, packet, srv, torn, segs, rcvd, strayed>>

-----------------------------------------------------------------------------
(* Server thread: tcp_server_entry.  A step named for a socket call ends   *)
(* the walk of the list that the call begins with.                         *)

Goto(to) == spc' = to /\ torn' = FALSE
\* The call is over: on to the next event.
Done == Goto("serve") /\ ev' = ListenItem /\ cur' = NoPeer /\ buff' = <<>>

\* nepoll_wait copies out one ready item.
WaitTake(i) ==
  /\ spc = "wait" /\ ES!Take(i)
  /\ UNCHANGED <<streams, itemfd, conn, packet, srv, torn, history, strayed>>

WaitReturn ==
  /\ spc = "wait" /\ handed # {}
  /\ Goto("serve") /\ todo' = handed
  /\ UNCHANGED <<streams, epoll, packet, ev, cur, buff, history, strayed>>

Serve(i) ==
  /\ spc = "serve" /\ i \in todo
  /\ ev' = i /\ todo' = todo \ {i}
  /\ Goto(IF itemfd[i] = listenfd THEN "listener" ELSE "recv")
  /\ UNCHANGED <<streams, epoll, packet, cur, buff, history, strayed>>

WaitAgain ==
  /\ spc = "serve" /\ todo = {}
  /\ Goto("wait") /\ ES!Begin
  /\ UNCHANGED <<streams, itemfd, conn, packet, todo, ev, cur, buff, history, strayed>>

\* naccept: the listener, then the first stream without a descriptor.  A
\* listener that is not found makes it return -1.
AcceptFindListener ==
  /\ spc = "listener" /\ cur' = NoPeer
  /\ \/ Goto("apt") /\ UNCHANGED strayed
     \/ torn /\ Goto("add") /\ Stray("torn")
  /\ UNCHANGED <<streams, epoll, packet, todo, ev, buff, history>>

AcceptFindStream ==
  /\ spc = "apt"
  /\ \E p \in Walk(get_accept_tcb) :
       /\ cur' = p
       /\ Goto(IF p = NoPeer THEN "acceptwait" ELSE "assign")
       /\ IF p = get_accept_tcb THEN UNCHANGED strayed ELSE Stray("torn")
  /\ UNCHANGED <<streams, epoll, packet, todo, ev, buff, history>>

AcceptAssign ==
  /\ spc = "assign" /\ Goto("add")
  /\ fd' = [fd EXCEPT ![cur] = get_fd_frombitmap]
  /\ fd_table' = fd_table \cup ({get_fd_frombitmap} \ {Unused})
  /\ IF get_fd_frombitmap = Unused THEN Stray("exhausted") ELSE UNCHANGED strayed
  /\ UNCHANGED <<tcb_set, status, rcvbuf, sndbuf, epoll, packet, todo, ev, cur, buff, history>>

\* nepoll_ctl(ADD) of what naccept returned; one that is there already is kept.
Add ==
  LET f == IF cur = NoPeer THEN Unused ELSE fd[cur]
      i == Cardinality(known)
  IN
  /\ spc = "add" /\ Done
  /\ IF \E j \in registered : itemfd[j] = f
     THEN UNCHANGED epoll
     ELSE /\ i \in Item   \* a bound of the model: there is a segment for every item
          /\ ES!Register(i)
          /\ itemfd' = [itemfd EXCEPT ![i] = f] /\ conn' = [conn EXCEPT ![i] = cur]
  /\ UNCHANGED <<streams, packet, todo, history, strayed>>

RecvFind ==
  /\ spc = "recv"
  /\ \E p \in Walk(get_hostinfo_fromfd(itemfd[ev])) :
       /\ cur' = p /\ Judge(p, ev)
       /\ Goto(IF p = NoPeer THEN "del" ELSE "dequeue")
  /\ UNCHANGED <<streams, epoll, packet, todo, ev, buff, history>>

\* Mutant: one nrecv drains the ring.
RecvDrain ==
  /\ spc = "dequeue" /\ rcvbuf[cur] # <<>>
  /\ rcvbuf' = [rcvbuf EXCEPT ![cur] = <<>>]
  /\ buff' = Head(rcvbuf[cur]) /\ Goto(IF Head(rcvbuf[cur]) = <<>> THEN "del" ELSE "send")
  /\ UNCHANGED <<tcb_set, status, fd, sndbuf, fd_table, epoll, packet, todo, ev, cur, history, strayed>>

\* nrecv with its fragment: too long for the buffer, empty, or copied whole.
\* A long one returns the length of the rest, which goes back to the tail.
RecvDequeue ==
  LET f    == Head(rcvbuf[cur])
      rest == SubSeq(f, BufferSize + 1, Len(f))
  IN
  /\ spc = "dequeue" /\ rcvbuf[cur] # <<>>
  /\ IF Len(f) > BufferSize
     THEN /\ rcvbuf' = [rcvbuf EXCEPT ![cur] = Append(Tail(@), rest)]
          /\ buff' = SubSeq(f, 1, Len(rest)) /\ Goto("send") /\ Stray("oversize")
     ELSE /\ rcvbuf' = [rcvbuf EXCEPT ![cur] = Tail(@)]
          /\ buff' = f /\ Goto(IF f = <<>> THEN "del" ELSE "send") /\ UNCHANGED strayed
  /\ UNCHANGED <<tcb_set, status, fd, sndbuf, fd_table, epoll, packet, todo, ev, cur, history>>

Send ==
  /\ spc = "send" /\ Done
  /\ \E p \in Walk(get_hostinfo_fromfd(itemfd[ev])) :
       /\ Judge(p, ev)
       /\ sndbuf' = IF p = NoPeer THEN sndbuf ELSE Enqueue(sndbuf, p, Fragment("psh", buff))
  /\ UNCHANGED <<tcb_set, status, fd, rcvbuf, fd_table, epoll, packet, todo, history>>

\* nepoll_ctl(DEL): an item that is found is unlinked and given to free().
Del ==
  LET items == {i \in registered : itemfd[i] = itemfd[ev]} IN
  /\ spc = "del"
  /\ \/ items = {} /\ Goto("close") /\ UNCHANGED <<registered, known, ready, handed>>
     \/ \E i \in items : ES!Unregister(i) /\ (Goto("close") \/ Goto("aborted"))
  /\ UNCHANGED <<streams, itemfd, conn, packet, todo, ev, cur, buff, history, strayed>>

\* nclose: queue a FIN; then LAST_ACK, and the descriptor is free again while
\* the stream, which still carries it, waits for its last acknowledgement.
CloseFind ==
  /\ spc = "close"
  /\ \E p \in Walk(get_hostinfo_fromfd(itemfd[ev])) :
       /\ Judge(p, ev)
       /\ IF p = NoPeer
          THEN Done /\ UNCHANGED sndbuf
          ELSE /\ Goto("lastack") /\ cur' = p /\ UNCHANGED <<ev, buff>>
               /\ sndbuf' = Enqueue(sndbuf, p, Fragment("fin", <<>>))
  /\ UNCHANGED <<tcb_set, status, fd, rcvbuf, fd_table, epoll, packet, todo, history>>

\* Mutant: the descriptor is not given back.
CloseKeepsFd ==
  /\ spc = "lastack" /\ Done
  /\ status' = [status EXCEPT ![cur] = "LAST_ACK"]
  /\ UNCHANGED <<tcb_set, fd, rcvbuf, sndbuf, fd_table, epoll, packet, todo, history, strayed>>

CloseStatus ==
  /\ spc = "lastack" /\ Done
  /\ status' = [status EXCEPT ![cur] = "LAST_ACK"]
  /\ fd_table' = fd_table \ {itemfd[ev]}
  /\ UNCHANGED <<tcb_set, fd, rcvbuf, sndbuf, epoll, packet, todo, history, strayed>>

-----------------------------------------------------------------------------
PacketArrives(p) ==
  \/ TcpSyn(p) \/ TcpEstablish(p) \/ TcpFin(p) \/ TcpLastAck(p)
  \/ \E n \in 1 .. MSS, fin \in BOOLEAN : TcpData(p, n, fin)

PacketStep == \/ TcpPostListener \/ TcpPostData \/ TcpDataFin \/ TcpPostFin
              \/ \E p \in Peer : TcpOut(p)

ServerStep ==
  \/ (\E i \in Item : WaitTake(i) \/ Serve(i)) \/ WaitReturn \/ WaitAgain
  \/ AcceptFindListener \/ AcceptFindStream \/ AcceptAssign \/ Add
  \/ RecvFind \/ RecvDequeue \/ Send \/ Del \/ CloseFind \/ CloseStatus

Next == (\E p \in Peer : PacketArrives(p)) \/ PacketStep \/ ServerStep

Spec == Init /\ [][Next]_vars

\* Both threads run endless loops on lcores of their own; nothing is assumed
\* about the peers.
FairSpec == Spec /\ WF_vars(PacketStep) /\ WF_vars(ServerStep)
=============================================================================
