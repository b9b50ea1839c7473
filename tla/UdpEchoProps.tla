---------------------------- MODULE UdpEchoProps ----------------------------
(* What the UDP echo server keeps: its types, its datagrams and its order. *)
EXTENDS UdpEcho

Kind == {"udp", "arp", "arpreq", "arpreply", "arpanswer", "icmp", "icmpanswer", "other"}
Pieces == [who : Client, id : Nat, off : Nat, len : Nat]
Frames == [t : Kind, p : Pieces]

(* The rings stay within their capacity and every lcore is at a step of    *)
(* its loop; an offload of udp_out or nrecvfrom is held only between the   *)
(* dequeue and the enqueue or free that follows it.                        *)
TypeOK ==
  /\ rx \in Seq(Frames) /\ Len(rx) <= RxSize /\ asked \subseteq Client
  /\ in \in Seq(Frames) /\ Len(in) <= RingSize
  /\ out \in Seq(Frames) /\ Len(out) <= RingSize
  /\ arp \subseteq Client /\ missed \subseteq Client
  /\ wpc \in {"poll", "frames", "signal", "out"}
  /\ burst \in Seq(Frames) /\ Len(burst) <= Burst
  /\ IF wpc = "out" THEN held \in Pieces ELSE held = None
  /\ rcvbuf \in Seq(Pieces) /\ Len(rcvbuf) <= BufSize
  /\ sndbuf \in Seq(Pieces) /\ Len(sndbuf) <= BufSize
  /\ spc \in {"socket", "bind", "failed", "recv", "wait", "copy", "send"}
  /\ IF spc = "copy" THEN ol \in Pieces ELSE ol = None
  /\ IF spc = "send" THEN text \in Pieces ELSE text = None
  /\ caddr \in Client \cup {Nobody}
  /\ dgram \in Seq([from : Client, n : Lens]) /\ ctl \in 0 .. MaxCtl /\ ticks \in 0 .. MaxTicks
  /\ got \in [Client -> Seq(Pieces)]
  /\ lost \subseteq (1 .. Len(dgram)) \X Nat

(* nrecvfrom never sleeps on a ring that holds an offload, except until    *)
(* udp_process, which has enqueued it, signals the condition.              *)
NoLostWakeup == spc = "wait" /\ rcvbuf # <<>> => wpc = "signal"

\* The bytes in each place a datagram can be, in one sequence of sets.
OfFrames(s, Of(_)) == [i \in 1 .. Len(s) |-> IF s[i].t = "udp" THEN Of(s[i].p) ELSE {}]
OfPieces(s, Of(_)) == [i \in 1 .. Len(s) |-> Of(s[i])]
Replies == UNION {{c} \X (1 .. Len(got[c])) : c \in Client}
Inside ==
  OfFrames(rx, Rest) \o OfFrames(in, Rest) \o OfFrames(burst, Rest)
  \o OfPieces(rcvbuf, Rest) \o (IF spc = "copy" THEN <<Rest(ol)>> ELSE <<>>)
  \o (IF spc = "send" THEN <<Part(text)>> ELSE <<>>) \o OfPieces(sndbuf, Part)
  \o (IF wpc = "out" THEN <<Part(held)>> ELSE <<>>) \o OfFrames(out, Part) \o <<lost>>
Copies(places, b) == Cardinality({i \in 1 .. Len(places) : b \in places[i]})
                     + Cardinality({r \in Replies : b \in Part(got[r[1]][r[2]])})

(* However a datagram is split by nrecvfrom, put back behind others by     *)
(* nrecvfrom and udp_out, and dropped at a full ring, each byte of its     *)
(* payload is in one place: on its way, echoed once, or given up.          *)
EveryByteOnce ==
  LET places == Inside IN
  \A d \in 1 .. Len(dgram) : \A b \in 1 .. dgram[d].n : Copies(places, <<d, b>>) = 1

(* A reply goes to the client whose datagram it carries, although the      *)
(* server keeps one clientaddr for all of them and pieces of datagrams of  *)
(* several clients alternate in rcvbuf.                                    *)
RepliesToSender == \A c \in Client : \A i \in 1 .. Len(got[c]) : dgram[got[c][i].id].from = c

(* While udp_out has always found a client's MAC, its replies keep their   *)
(* order: the pieces of a datagram, and the first (second, ...) pieces of  *)
(* successive datagrams.                                                   *)
OrderedUnlessMissed ==
  \A c \in Client \ missed : \A i, j \in 1 .. Len(got[c]) :
    LET p == got[c][i] q == got[c][j] IN
    i < j => /\ p.id = q.id => p.off < q.off
             /\ p.off = q.off => p.id < q.id

(* A datagram of n bytes is answered by at most (n + H) / B replies,       *)
(* rounded up, one of which may carry none of its bytes: the one that      *)
(* length, which counts the UDP header, adds when n is close below a       *)
(* multiple of B.                                                          *)
RepliesBounded ==
  \A c \in Client : \A d \in 1 .. Len(dgram) :
    LET r == {i \in 1 .. Len(got[c]) : got[c][i].id = d}
        n == dgram[d].n
    IN  /\ Cardinality(r) * B < n + H + B
        /\ \A i \in r : got[c][i].len = 0 => got[c][i].off >= n

(* Rings and lcores stay within their types; every reply goes to the       *)
(* client it answers, there are no more replies than pieces, and only a    *)
(* miss changes their order.                                               *)
RepliesRight == TypeOK /\ RepliesToSender /\ RepliesBounded /\ OrderedUnlessMissed

\* The bytes that have come back; a datagram none of whose bytes is under way.
Back == UNION {Part(got[r[1]][r[2]]) : r \in Replies}
Settled(d) == {<<d, b>> : b \in 1 .. dgram[d].n} \subseteq Back \cup lost

(* Every datagram is settled: each of its bytes comes back or was dropped  *)
(* at a full ring; none is left behind a sleeping server or an ARP miss.   *)
EveryDatagramSettled ==
  \A d \in 1 .. MaxDgrams : (d <= Len(dgram)) ~> (d <= Len(dgram) /\ Settled(d))

(* A client whose reply met no MAC is eventually in the ARP table, however *)
(* many requests and answers are lost: udp_out asks again.                 *)
MissResolved == \A c \in Client : (c \in missed) ~> (c \in arp)

(* What the three lcores bring about together: datagrams are settled,      *)
(* misses are resolved by asking again, and only a miss changes the order. *)
UdpProgress == EveryDatagramSettled /\ MissResolved /\ []OrderedUnlessMissed
=============================================================================
