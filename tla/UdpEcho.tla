------------------------------ MODULE UdpEcho ------------------------------
(***************************************************************************)
(* The UDP echo server of lesson 07.  Three lcores: the main loop moves    *)
(* frames between the port and the rings in and out and runs the ARP       *)
(* timer; pkt_process answers ARP and ICMP, fills the socket's receive     *)
(* ring (udp_process) and empties its send ring (udp_out); the server      *)
(* waits in nrecvfrom and echoes with nsendto.  Every ring is bounded and  *)
(* every enqueue's result is ignored.                                      *)
(*                                                                         *)
(* A datagram is named by its number and its payload by the positions of   *)
(* its bytes, none of which is NUL.  ol->length counts the UDP header, so  *)
(* what a read copies may run past the payload: those bytes, and those     *)
(* strlen meets behind a full buffer, are undefined.  A reply is counted   *)
(* by the bytes it carries of the datagram; one that carries none is sent  *)
(* if the undefined bytes look like text.                                  *)
(* Left out: mbuf ownership, and the crash when nrecvfrom has no memory    *)
(* for the rest of a datagram.  The three parts of the main loop may run   *)
(* in any order here, and a round of the ARP timer is one step.            *)
(***************************************************************************)
EXTENDS Integers, Sequences, FiniteSets

CONSTANTS Client,     \* remote addresses
          Nobody,
          Lens,       \* payload lengths
          H,          \* sizeof(struct rte_udp_hdr), 8
          B,          \* UDP_APP_RECV_BUFFER_SIZE, 128
          RingSize,   \* capacity of the rings in and out
          BufSize,    \* capacity of rcvbuf and sndbuf
          Burst,      \* BURST_SIZE
          RxSize,     \* descriptors of the receive queue
          MaxDgrams,  \* datagrams sent (a bound of the model)
          MaxCtl,     \* other frames sent (a bound of the model)
          MaxFrames,  \* frames of both kinds sent (a bound of the model)
          MaxTicks,   \* rounds of the ARP timer (a bound of the model)
          MayFail     \* allocations may fail and the port may refuse frames

ASSUME ClientAssumption == IsFiniteSet(Client) /\ Nobody \notin Client
ASSUME SizeAssumption ==
  /\ Lens \subseteq Nat /\ H \in Nat \ {0} /\ B \in Nat \ {0}
  /\ RingSize \in Nat \ {0} /\ BufSize \in Nat \ {0} /\ Burst \in Nat \ {0}
  /\ RxSize \in Nat /\ MaxDgrams \in Nat /\ MaxCtl \in Nat /\ MaxFrames \in Nat /\ MaxTicks \in Nat
  /\ MayFail \in BOOLEAN

VARIABLES
  rx, asked,            \* frames at the port; clients with an ARP request under way
  in, out,              \* the rings
  arp,                  \* addresses in the ARP table
  wpc, burst, held,     \* pkt_process: step, frames left of the burst, offload of udp_out
  rcvbuf, sndbuf,       \* the socket's rings
  spc, ol, caddr, text, \* server: step, offload, clientaddr, what buffer holds
  dgram, ctl, ticks,    \* datagrams and other frames sent, rounds of the timer
  got,                  \* history: replies per client
  missed, lost          \* history: clients met without a MAC, bytes given up

port   == <<rx, asked>>
worker == <<wpc, burst, held>>
server == <<spc, ol, caddr, text>>
sent   == <<dgram, ctl, ticks>>
vars   == <<port, in, out, arp, worker, rcvbuf, sndbuf, server, sent, got, missed, lost>>

AtMost(a, b) == IF a < b THEN a ELSE b
\* struct offload: the other side, the datagram, bytes before this piece, length.
Piece(who, id, off, len) == [who |-> who, id |-> id, off |-> off, len |-> len]
NoPiece(c) == Piece(c, 0, 0, 0)
Frame(t, p) == [t |-> t, p |-> p]
\* The frames this host sends.
ArpFrame(c)  == Frame("arp", NoPiece(c))
ArpAnswer(p) == Frame("arpanswer", p)
IcmpAnswer(p) == Frame("icmpanswer", p)
UdpFrame(p)  == Frame("udp", p)
Payload(id) == dgram[id].n
\* The bytes of a datagram still in an offload of rcvbuf; those a reply carries.
Rest(p) == {<<p.id, b>> : b \in p.off + 1 .. Payload(p.id)}
Part(p) == {<<p.id, b>> : b \in p.off + 1 .. p.off + p.len}

\* ng_get_dst_macaddr finds an entry.
Known(c) == c \in arp

\* Mutant: a ring holds as many entries as it has slots.
FitsOneMore(ring, size) == Len(ring) <= size
\* rte_ring_*_enqueue: nothing happens when the ring is full.
Fits(ring, size) == Len(ring) < size
Put(ring, size, x) == IF Fits(ring, size) THEN Append(ring, x) ELSE ring
\* rte_ring_*_dequeue_burst and rte_eth_rx_burst.
Taken(ring) == SubSeq(ring, 1, AtMost(Burst, Len(ring)))
Left(ring)  == SubSeq(ring, AtMost(Burst, Len(ring)) + 1, Len(ring))
\* A burst enqueue takes the frames that fit.
PutBurst(ring, size, xs) == ring \o SubSeq(xs, 1, AtMost(Len(xs), size - Len(ring)))
Refused(ring, size, xs) == SubSeq(xs, AtMost(Len(xs), size - Len(ring)) + 1, Len(xs))
LostIn(frames) == UNION {Rest(frames[i].p) : i \in {j \in 1 .. Len(frames) : frames[j].t = "udp"}}
LostOut(frames) == UNION {Part(frames[i].p) : i \in {j \in 1 .. Len(frames) : frames[j].t = "udp"}}

None == NoPiece(Nobody)
Init ==
  /\ rx = <<>> /\ asked = {} /\ in = <<>> /\ out = <<>> /\ arp = {}
  /\ wpc = "poll" /\ burst = <<>> /\ held = None
  /\ rcvbuf = <<>> /\ sndbuf = <<>>
  /\ spc = "socket" /\ ol = None /\ caddr = Nobody /\ text = None
  /\ dgram = <<>> /\ ctl = 0 /\ ticks = 0 /\ got = [c \in Client |-> <<>>] /\ missed = {} /\ lost = {}

-----------------------------------------------------------------------------
(* The network and the clients                                             *)

ClientSends(c, n) ==
  /\ Len(dgram) < MaxDgrams /\ Len(dgram) + ctl < MaxFrames /\ Fits(rx, RxSize)
  /\ dgram' = Append(dgram, [from |-> c, n |-> n])
  /\ rx' = Append(rx, Frame("udp", Piece(c, Len(dgram) + 1, 0, n + H)))
  /\ UNCHANGED <<asked, in, out, arp, worker, rcvbuf, sndbuf, server, ctl, ticks, got, missed, lost>>

ClientAnswersArp(c) ==
  /\ c \in asked /\ Fits(rx, RxSize)
  /\ asked' = asked \ {c} /\ rx' = Append(rx, Frame("arpreply", NoPiece(c)))
  /\ UNCHANGED <<in, out, arp, worker, rcvbuf, sndbuf, server, sent, got, missed, lost>>

ArpLost(c) ==
  /\ c \in asked /\ asked' = asked \ {c}
  /\ UNCHANGED <<rx, in, out, arp, worker, rcvbuf, sndbuf, server, sent, got, missed, lost>>

\* An ARP request, an ICMP echo request, or a frame that pkt_process skips.
ClientCtl(c, t) ==
  /\ ctl < MaxCtl /\ Len(dgram) + ctl < MaxFrames /\ Fits(rx, RxSize)
  /\ ctl' = ctl + 1 /\ rx' = Append(rx, Frame(t, NoPiece(c)))
  /\ UNCHANGED <<asked, in, out, arp, worker, rcvbuf, sndbuf, server, dgram, ticks, got, missed, lost>>

-----------------------------------------------------------------------------
(* The main loop                                                           *)

MainRx ==
  /\ rx # <<>> /\ rx' = Left(rx)
  /\ in' = PutBurst(in, RingSize, Taken(rx))
  /\ lost' = lost \cup LostIn(Refused(in, RingSize, Taken(rx)))
  /\ UNCHANGED <<asked, out, arp, worker, rcvbuf, sndbuf, server, sent, got, missed>>

\* The numbers of a set in their order, and the replies to c among frames.
Ascending(S) ==
  CHOOSE f \in [1 .. Cardinality(S) -> S] : \A i, j \in 1 .. Cardinality(S) : i < j => f[i] < f[j]
RepliesTo(c, frames) ==
  LET at == {j \in 1 .. Len(frames) : frames[j].t = "udp" /\ frames[j].p.who = c}
  IN  [j \in 1 .. Cardinality(at) |-> frames[Ascending(at)[j]].p]
\* The port accepts the first k frames of the burst; all are freed.
MainTx ==
  /\ out # <<>>
  /\ LET tx == Taken(out) IN
     \E k \in IF MayFail THEN 0 .. Len(tx) ELSE {Len(tx)} :
       /\ got' = [c \in Client |-> got[c] \o RepliesTo(c, SubSeq(tx, 1, k))]
       /\ asked' = asked \cup {tx[j].p.who : j \in {i \in 1 .. k : tx[i].t = "arp"}}
       /\ lost' = lost \cup LostOut(SubSeq(tx, k + 1, Len(tx)))
  /\ out' = Left(out)
  /\ UNCHANGED <<rx, in, arp, worker, rcvbuf, sndbuf, server, sent, missed>>

\* rte_timer_manage runs arp_request_timer_cb: a request to every address.
TimerCallback ==
  \E order \in [1 .. Cardinality(Client) -> Client] :
    /\ \A i, j \in 1 .. Cardinality(Client) : order[i] = order[j] => i = j
    /\ out' = PutBurst(out, RingSize, [i \in DOMAIN order |-> ArpFrame(order[i])])
MainTimer ==
  /\ ticks < MaxTicks /\ ticks' = ticks + 1 /\ TimerCallback
  /\ UNCHANGED <<port, in, arp, worker, rcvbuf, sndbuf, server, dgram, ctl, got, missed, lost>>

-----------------------------------------------------------------------------
(* pkt_process                                                             *)

Poll ==
  /\ wpc = "poll" /\ wpc' = "frames"
  /\ burst' = Taken(in) /\ in' = Left(in)
  /\ UNCHANGED <<port, out, arp, held, rcvbuf, sndbuf, server, sent, got, missed, lost>>

Next1(t) == /\ wpc = "frames" /\ burst # <<>> /\ Head(burst).t = t
            /\ burst' = Tail(burst)

\* A frame of our own is queued in answer to the request at the head.
Answer(reply) ==
  /\ out' = Put(out, RingSize, reply)
  /\ UNCHANGED <<port, in, arp, wpc, held, rcvbuf, sndbuf, server, sent, got, missed, lost>>
ArpRequest  == Next1("arpreq") /\ Answer(ArpAnswer(Head(burst).p))
IcmpRequest == Next1("icmp") /\ Answer(IcmpAnswer(Head(burst).p))

\* Mutant: the test for a known address is inverted.
ArpReplyKnown ==
  /\ Next1("arpreply")
  /\ arp' = IF Known(Head(burst).p.who) THEN arp \cup {Head(burst).p.who} ELSE arp
  /\ UNCHANGED <<port, in, out, wpc, held, rcvbuf, sndbuf, server, sent, got, missed, lost>>
ArpReply ==
  /\ Next1("arpreply")
  /\ arp' = arp \cup {Head(burst).p.who}
  /\ UNCHANGED <<port, in, out, wpc, held, rcvbuf, sndbuf, server, sent, got, missed, lost>>

Skip ==
  /\ Next1("other")
  /\ UNCHANGED <<port, in, out, arp, wpc, held, rcvbuf, sndbuf, server, sent, got, missed, lost>>

Bound == spc \notin {"socket", "bind", "failed"}
\* udp_process: no such socket, no memory, or no payload to allocate for.
UdpDrop ==
  /\ Next1("udp")
  /\ \/ ~Bound \/ MayFail \/ Head(burst).p.len = H
  /\ lost' = lost \cup Rest(Head(burst).p)
  /\ UNCHANGED <<port, in, out, arp, wpc, held, rcvbuf, sndbuf, server, sent, got, missed>>
\* Mutant: the server is woken before the offload is in the ring.
UdpSignalFirst ==
  /\ Next1("udp") /\ Bound /\ Head(burst).p.len # H
  /\ rcvbuf' = Put(rcvbuf, BufSize, Head(burst).p)
  /\ lost' = IF Fits(rcvbuf, BufSize) THEN lost ELSE lost \cup Rest(Head(burst).p)
  /\ UNCHANGED <<port, in, out, arp, wpc, held, sndbuf, server, sent, got, missed>>
UdpProcess ==
  /\ Next1("udp") /\ Bound /\ Head(burst).p.len # H
  /\ rcvbuf' = Put(rcvbuf, BufSize, Head(burst).p)
  /\ lost' = IF Fits(rcvbuf, BufSize) THEN lost ELSE lost \cup Rest(Head(burst).p)
  /\ wpc' = "signal"
  /\ UNCHANGED <<port, in, out, arp, held, sndbuf, server, sent, got, missed>>
UdpSignal ==
  /\ wpc = "signal" /\ wpc' = "frames"
  /\ spc' = IF spc = "wait" THEN "recv" ELSE spc
  /\ UNCHANGED <<port, in, out, arp, burst, held, rcvbuf, sndbuf, ol, caddr, text, sent, got, missed, lost>>

\* udp_out, once per burst: one offload of the only socket.
UdpOutTake ==
  /\ wpc = "frames" /\ burst = <<>>
  /\ IF sndbuf = <<>>
     THEN wpc' = "poll" /\ UNCHANGED <<held, sndbuf>>
     ELSE wpc' = "out" /\ held' = Head(sndbuf) /\ sndbuf' = Tail(sndbuf)
  /\ UNCHANGED <<port, in, out, arp, burst, rcvbuf, server, sent, got, missed, lost>>
\* Mutant: the offload is not put back.
UdpOutMissDrops ==
  /\ wpc = "out" /\ ~Known(held.who)
  /\ out' = Put(out, RingSize, ArpFrame(held.who))
  /\ wpc' = "poll" /\ held' = None /\ missed' = missed \cup {held.who}
  /\ UNCHANGED <<port, in, arp, burst, rcvbuf, sndbuf, server, sent, got, lost>>
\* No MAC yet: ask for it and put the offload behind the others.
UdpOutMiss ==
  /\ wpc = "out" /\ ~Known(held.who)
  /\ out' = Put(out, RingSize, ArpFrame(held.who))
  /\ sndbuf' = Put(sndbuf, BufSize, held)
  /\ lost' = IF Fits(sndbuf, BufSize) THEN lost ELSE lost \cup Part(held)
  /\ wpc' = "poll" /\ held' = None /\ missed' = missed \cup {held.who}
  /\ UNCHANGED <<port, in, arp, burst, rcvbuf, server, sent, got>>
UdpOutSend ==
  /\ wpc = "out" /\ Known(held.who)
  /\ out' = Put(out, RingSize, UdpFrame(held))
  /\ lost' = IF Fits(out, RingSize) THEN lost ELSE lost \cup Part(held)
  /\ wpc' = "poll" /\ held' = None
  /\ UNCHANGED <<port, in, arp, burst, rcvbuf, sndbuf, server, sent, got, missed>>

-----------------------------------------------------------------------------
(* The server                                                              *)

Socket ==
  /\ spc = "socket" /\ spc' \in {"bind"} \cup IF MayFail THEN {"failed"} ELSE {}
  /\ UNCHANGED <<port, in, out, arp, worker, rcvbuf, sndbuf, ol, caddr, text, sent, got, missed, lost>>
Bind ==
  /\ spc = "bind" /\ spc' = "recv"
  /\ UNCHANGED <<port, in, out, arp, worker, rcvbuf, sndbuf, ol, caddr, text, sent, got, missed, lost>>

\* nrecvfrom under the socket's mutex: wait, or take an offload and its sender.
RecvWait ==
  /\ spc = "recv" /\ rcvbuf = <<>> /\ spc' = "wait"
  /\ UNCHANGED <<port, in, out, arp, worker, rcvbuf, sndbuf, ol, caddr, text, sent, got, missed, lost>>
RecvTake ==
  /\ spc = "recv" /\ rcvbuf # <<>> /\ spc' = "copy"
  /\ ol' = Head(rcvbuf) /\ rcvbuf' = Tail(rcvbuf) /\ caddr' = Head(rcvbuf).who
  /\ UNCHANGED <<port, in, out, arp, worker, sndbuf, text, sent, got, missed, lost>>

\* What B bytes from ol->data hold of the datagram.
Copied(p) ==
  LET left == Payload(p.id) - p.off
  IN  Piece(caddr, p.id, p.off, IF left < 0 THEN 0 ELSE AtMost(B, left))
Forward(p) == Piece(p.who, p.id, p.off + B, p.len - B)
\* Mutant: the rest is copied from the start of the data.
RecvCopyAgain ==
  /\ spc = "copy" /\ spc' = "send" /\ text' = Copied(ol) /\ ol' = None
  /\ LET rest == Piece(ol.who, ol.id, ol.off, ol.len - B) IN
     IF B < ol.len
     THEN /\ rcvbuf' = Put(rcvbuf, BufSize, rest)
          /\ lost' = IF Fits(rcvbuf, BufSize) THEN lost ELSE lost \cup Rest(rest)
     ELSE UNCHANGED <<rcvbuf, lost>>
  /\ UNCHANGED <<port, in, out, arp, worker, sndbuf, caddr, sent, got, missed>>
\* len < ol->length: the rest goes back, behind what has come in meanwhile.
RecvCopy ==
  /\ spc = "copy" /\ spc' = "send" /\ text' = Copied(ol) /\ ol' = None
  /\ IF B < ol.len
     THEN /\ rcvbuf' = Put(rcvbuf, BufSize, Forward(ol))
          /\ lost' = IF Fits(rcvbuf, BufSize) THEN lost ELSE lost \cup Rest(Forward(ol))
     ELSE UNCHANGED <<rcvbuf, lost>>
  /\ UNCHANGED <<port, in, out, arp, worker, sndbuf, caddr, sent, got, missed>>

\* Mutant: the newest reply is sent first.
PutFront(ring, x) == <<x>> \o ring
PutBack(ring, x) == Append(ring, x)
\* nsendto of strlen(buffer) bytes: none, no memory, ring full, or queued.
SendNothing ==
  /\ spc = "send" /\ spc' = "recv" /\ text' = None
  /\ \/ text.len = 0 \/ MayFail \/ ~Fits(sndbuf, BufSize)
  /\ lost' = lost \cup Part(text)
  /\ UNCHANGED <<port, in, out, arp, worker, rcvbuf, sndbuf, ol, caddr, sent, got, missed>>
SendTo ==
  /\ spc = "send" /\ spc' = "recv" /\ text' = None /\ Fits(sndbuf, BufSize)
  /\ sndbuf' = PutBack(sndbuf, text)
  /\ UNCHANGED <<port, in, out, arp, worker, rcvbuf, ol, caddr, sent, got, missed, lost>>

-----------------------------------------------------------------------------
Network == \E c \in Client : \/ \E n \in Lens : ClientSends(c, n)
                             \/ ClientAnswersArp(c) \/ ArpLost(c)
                             \/ \E t \in {"arpreq", "icmp", "other"} : ClientCtl(c, t)
MainStep == MainRx \/ MainTx \/ MainTimer
WorkerStep == \/ Poll \/ ArpRequest \/ IcmpRequest
              \/ ArpReply \/ Skip \/ UdpDrop \/ UdpProcess \/ UdpSignal
              \/ UdpOutTake \/ UdpOutMiss \/ UdpOutSend
ServerStep == Socket \/ Bind \/ RecvWait \/ RecvTake \/ RecvCopy \/ SendNothing \/ SendTo
Next == Network \/ MainStep \/ WorkerStep \/ ServerStep
Spec == Init /\ [][Next]_vars

(* Each lcore runs its loop for ever; a client that is asked again and     *)
(* again answers once.                                                     *)
Fairness == /\ WF_vars(MainRx) /\ WF_vars(MainTx) /\ WF_vars(WorkerStep) /\ WF_vars(ServerStep)
            /\ \A c \in Client : SF_vars(ClientAnswersArp(c))
FairSpec == Spec /\ Fairness
=============================================================================
