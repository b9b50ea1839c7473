------------------------------- MODULE TcpSeq -------------------------------
(***************************************************************************)
(* The TCP stream of lessons 08 and 09 on a network that loses, repeats    *)
(* and reorders.  The packet thread answers the SYN of a client, and in    *)
(* lesson 09 acknowledges and echoes every segment with PSH; it compares   *)
(* no sequence number with what it expects and sends nothing twice.        *)
(*                                                                         *)
(* Sequence numbers live in 0 .. SeqSpace - 1 (2^32 in the code), data is  *)
(* named by the positions of its bytes.  The client is a real TCP: it      *)
(* repeats what is not acknowledged, drops what acknowledges bytes it has  *)
(* not sent, and takes data at the next number only; its acknowledgements  *)
(* without data, which the server ignores once ESTABLISHED, are left out   *)
(* from then on.  A segment with a bad checksum is a lost one.  The rings  *)
(* in and out, which keep or drop frames, are part of the network.         *)
(***************************************************************************)
EXTENDS Integers, Sequences, FiniteSets

CONSTANTS SeqSpace,   \* sequence numbers, 2^32
          Lessons,    \* which of the two programs run, a subset of {8, 9}
          PeerIsn,    \* initial numbers of the client
          OwnIss,     \* initial numbers of the server (rand_r % TCP_MAX_SEQ)
          Mss,        \* bytes of a segment
          BufSize,    \* capacity of sndbuf and rcvbuf
          MaxBytes,   \* bytes the client sends (a bound of the model)
          MaxFaults   \* losses, repeats and failed allocations (a bound of the model)

ASSUME SizeAssumption ==
  /\ SeqSpace \in Nat \ {0} /\ Lessons \subseteq {8, 9}
  /\ PeerIsn \subseteq 0 .. SeqSpace - 1 /\ OwnIss \subseteq 0 .. SeqSpace - 2
  /\ Mss \in Nat \ {0} /\ BufSize \in Nat \ {0} /\ MaxBytes \in Nat /\ MaxFaults \in Nat

VARIABLES
  lesson, crashed,                 \* the program; a second stream has killed it
  status, snd_nxt, rcv_nxt,        \* struct ng_tcp_stream
  sndbuf, rcvbuf,                  \* its rings, what the second holds by its length
  arp,                             \* the MAC of the client: unknown, asked, known
  net,                             \* segments under way
  isn, pst, una, pnxt, prcv, got,  \* client: number, state, bytes acknowledged and sent,
                                   \* next number expected, bytes received
  taken, twice, disorder,          \* history: bytes counted; some twice; not in order
  piped, lost, faults              \* history: data sent before the echo of what precedes it;
                                   \* what failed; how often

stream  == <<status, snd_nxt, rcv_nxt, sndbuf, rcvbuf>>
client  == <<isn, pst, una, pnxt, prcv, got>>
counted == <<taken, twice, disorder>>
vars == <<lesson, crashed, stream, arp, net, client, counted, piped, lost, faults>>

Plus(a, b) == (a + b) % SeqSpace
Segment(to, flags, seq, ack, data) ==
  [to |-> to, flags |-> flags, seq |-> seq, ack |-> ack, data |-> data]
\* struct ng_tcp_fragment: what ng_tcp_out makes a segment of.
Fragment(flags, seqnum, acknum, data) ==
  [flags |-> flags, seqnum |-> seqnum, acknum |-> acknum, data |-> data]
\* Mutant: a ring holds as many entries as it has slots.
PutOneMore(ring, frag) == IF Len(ring) <= BufSize THEN Append(ring, frag) ELSE ring
\* rte_ring_mp_enqueue: nothing happens when the ring is full.
Put(ring, frag) == IF Len(ring) < BufSize THEN Append(ring, frag) ELSE ring
\* The bytes an acknowledgement covers.
Covers(ack) == (ack - isn - 1) % SeqSpace
Bytes(s) == {s[i] : i \in 1 .. Len(s)}
Positions(from, n) == [i \in 1 .. n |-> from + i]

Stray == Segment("server", {"ack"}, 0, 0, <<>>)

\* stream is NULL; an acknowledgement of an earlier connection may be under way.
Init ==
  /\ lesson \in Lessons /\ crashed = FALSE
  /\ status = "none" /\ snd_nxt = 0 /\ rcv_nxt = 0 /\ sndbuf = <<>> /\ rcvbuf = 0
  /\ arp = "unknown" /\ net \in {{}, {Stray}}
  /\ isn \in PeerIsn /\ pst = "closed" /\ una = 0 /\ pnxt = 0 /\ prcv = 0 /\ got = <<>>
  /\ taken = {} /\ twice = FALSE /\ disorder = FALSE /\ piped = FALSE /\ lost = {} /\ faults = 0

-----------------------------------------------------------------------------
(* The client                                                              *)

Quiet == net = {} /\ sndbuf = <<>>
Says(flags, seq, data) == net' = net \cup {Segment("server", flags, seq, prcv, data)}
NumberOf(b) == Plus(isn, b)        \* the sequence number of byte b

\* The SYN, and the SYN again when no answer came.
Connect ==
  /\ pst = "closed" \/ (pst = "syn" /\ Quiet)
  /\ pst' = "syn" /\ Says({"syn"}, isn, <<>>)
  /\ UNCHANGED <<lesson, crashed, stream, arp, isn, una, pnxt, prcv, got, counted, piped, lost, faults>>

SendData(n) ==
  /\ pst = "open" /\ pnxt + n <= MaxBytes
  /\ pnxt' = pnxt + n /\ piped' = (piped \/ Len(got) < pnxt)
  /\ Says({"ack", "psh"}, NumberOf(pnxt + 1), Positions(pnxt, n))
  /\ UNCHANGED <<lesson, crashed, stream, arp, isn, pst, una, prcv, got, counted, lost, faults>>

(* The retransmission timer.  A bound of the model: once a segment has     *)
(* been counted twice nothing is repeated, or rcv_nxt would go round.      *)
Resend(n) ==
  /\ pst \in {"open", "fin"} /\ Quiet /\ una + n <= pnxt /\ ~twice
  /\ Says({"ack", "psh"}, NumberOf(una + 1), Positions(una, n))
  /\ piped' = (piped \/ Len(got) < una)
  /\ UNCHANGED <<lesson, crashed, stream, arp, client, counted, lost, faults>>

\* The FIN, and the FIN again as nobody acknowledges it.
SendFin ==
  /\ pst = "open" \/ (pst = "fin" /\ Quiet /\ una = pnxt)
  /\ pst' = "fin" /\ Says({"ack", "fin"}, NumberOf(pnxt + 1), <<>>)
  /\ UNCHANGED <<lesson, crashed, stream, arp, isn, una, pnxt, prcv, got, counted, piped, lost, faults>>

\* The client takes a segment; it drops one that acknowledges too much.
ClientTakes(m, rest) ==
  IF "syn" \in m.flags
  THEN /\ IF pst = "syn" THEN pst' = "open" /\ prcv' = Plus(m.seq, 1)
                         ELSE UNCHANGED <<pst, prcv>>
       /\ net' = rest \cup {Segment("server", {"ack"}, NumberOf(1), Plus(m.seq, 1), <<>>)}
       /\ UNCHANGED <<una, got>>
  ELSE /\ net' = rest
       /\ IF Covers(m.ack) <= pnxt
          THEN /\ una' = IF Covers(m.ack) > una THEN Covers(m.ack) ELSE una
               /\ IF m.seq = prcv THEN got' = got \o m.data /\ prcv' = Plus(prcv, Len(m.data))
                                  ELSE UNCHANGED <<got, prcv>>
          ELSE UNCHANGED <<una, got, prcv>>
       /\ UNCHANGED pst

ClientReceives(m, rest) ==
  /\ m.to = "client" /\ ClientTakes(m, rest)
  /\ UNCHANGED <<lesson, crashed, stream, arp, isn, pnxt, counted, piped, lost>>

-----------------------------------------------------------------------------
(* ng_tcp_process.  Each handler is given what its allocations do.         *)

\* ng_tcp_handle_listen: only a SYN is answered.
ng_tcp_handle_listen(m, own, nomem) ==
  IF "syn" \in m.flags /\ ~nomem
  THEN /\ sndbuf' = Put(sndbuf, Fragment({"syn", "ack"}, own, Plus(m.seq, 1), <<>>))
       /\ rcv_nxt' = IF lesson = 9 THEN Plus(m.seq, 1) ELSE rcv_nxt
       /\ status' = "SYN_RCVD"
  ELSE status' = "LISTEN" /\ UNCHANGED <<sndbuf, rcv_nxt>>

(* The first segment of a connection, a SYN or not, creates its stream; a  *)
(* stream in LISTEN waits for the SYN.                                     *)
Listening(m, nomem) ==
  /\ status \in {"none", "LISTEN"}
  /\ \E own \in IF status = "none" THEN OwnIss ELSE {snd_nxt} :
       snd_nxt' = own /\ ng_tcp_handle_listen(m, own, nomem)
  /\ UNCHANGED <<rcvbuf, counted>>

\* ng_tcp_handle_syn_rcvd: any acknowledgement will do, its data is ignored.
ng_tcp_handle_syn_rcvd(m) ==
  /\ status = "SYN_RCVD"
  /\ status' = IF "ack" \in m.flags THEN "ESTABLISHED" ELSE status
  /\ UNCHANGED <<snd_nxt, rcv_nxt, sndbuf, rcvbuf, counted>>

\* Mutant: a segment of data counts one more, as a SYN does.
RcvNxtOneMore(m) == Plus(rcv_nxt, Len(m.data) + 1)
\* rcv_nxt after a segment with data, whatever its number is.
RcvNxt(m) == Plus(rcv_nxt, Len(m.data))
\* Mutant: echoes are numbered by what has been received.
SndNxtCounted(m) == Plus(snd_nxt, Len(m.data))
\* snd_nxt after it: what the client expects.
SndNxt(m) == m.ack

Counts(m) ==
  /\ taken' = taken \cup Bytes(m.data)
  /\ twice' = (twice \/ Bytes(m.data) \cap taken # {})
  /\ disorder' = (disorder \/ m.data[1] # Cardinality(taken) + 1)
Acknowledged(m) == Fragment({"ack"}, SndNxt(m), RcvNxt(m), <<>>)
Echo(m) == Fragment({"ack", "psh"}, SndNxt(m), RcvNxt(m), m.data)
FinHeard(m) == status' = IF "fin" \in m.flags THEN "CLOSE_WAIT" ELSE status

(* ng_tcp_handle_established: the data goes to rcvbuf, which nobody reads, *)
(* an acknowledgement and an echo to sndbuf; a failed allocation returns   *)
(* at once.                                                                *)
ng_tcp_handle_established(m, failed) ==
  /\ status = "ESTABLISHED" /\ lesson = 9
  /\ IF "psh" \notin m.flags
     THEN FinHeard(m) /\ UNCHANGED <<snd_nxt, rcv_nxt, sndbuf, rcvbuf, counted>>
     ELSE /\ rcvbuf' = IF failed = "recv" \/ rcvbuf = BufSize THEN rcvbuf ELSE rcvbuf + 1
          /\ IF failed \in {"recv", "ack"}
             THEN UNCHANGED <<snd_nxt, rcv_nxt, sndbuf, counted>>
             ELSE /\ rcv_nxt' = RcvNxt(m) /\ snd_nxt' = SndNxt(m) /\ Counts(m)
                  /\ LET acked == Put(sndbuf, Acknowledged(m))
                     IN  sndbuf' = IF failed = "echo" THEN acked ELSE Put(acked, Echo(m))
          /\ IF failed = "none" THEN FinHeard(m) ELSE UNCHANGED status

\* What lesson 08 does with an established stream, and both with one in CLOSE_WAIT.
Ignored == ((status = "ESTABLISHED" /\ lesson = 8) \/ status = "CLOSE_WAIT") /\ UNCHANGED <<stream, counted>>

ng_tcp_process(m, failed) ==
  \/ Listening(m, failed # "none")
  \/ failed = "none" /\ (ng_tcp_handle_syn_rcvd(m) \/ Ignored)
  \/ ng_tcp_handle_established(m, failed)

ServerReceives(m, rest) ==
  /\ m.to = "server" /\ ~crashed /\ net' = rest
  /\ ng_tcp_process(m, "none")
  /\ UNCHANGED <<lesson, crashed, arp, client, piped, lost>>

ServerOutOfMemory(m) ==
  /\ m.to = "server" /\ ~crashed /\ faults < MaxFaults /\ net' = net \ {m}
  /\ \E failed \in {"recv", "ack", "echo"} : ng_tcp_process(m, failed)
  /\ faults' = faults + 1 /\ lost' = lost \cup {"nomem"}
  /\ UNCHANGED <<lesson, crashed, arp, client, piped>>

(* A segment of a second connection: the rings of its stream have the      *)
(* names of the first one's, so that they are not created, and ng_tcp_out  *)
(* dequeues from a null ring.                                              *)
SecondStream ==
  /\ status # "none" /\ ~crashed /\ faults < MaxFaults
  /\ crashed' = TRUE /\ faults' = faults + 1
  /\ UNCHANGED <<lesson, stream, arp, net, client, counted, piped, lost>>

-----------------------------------------------------------------------------
(* ng_tcp_out                                                              *)

\* Mutant: the fragment is not put back.
PutBackNot(ring) == Tail(ring)
\* Without a MAC the fragment goes to the end of the ring.
PutBack(ring) == Append(Tail(ring), Head(ring))
TcpOutMiss ==
  /\ ~crashed /\ sndbuf # <<>> /\ arp # "known"
  /\ arp' = "asked" /\ sndbuf' = PutBack(sndbuf)
  /\ UNCHANGED <<lesson, crashed, status, snd_nxt, rcv_nxt, rcvbuf, net, client, counted, piped, lost, faults>>

\* ng_encode_tcp_apppkt and ng_tcp_pkt.
Encoded(f) == Segment("client", f.flags, f.seqnum, f.acknum, f.data)
TcpOut ==
  /\ ~crashed /\ sndbuf # <<>> /\ arp = "known"
  /\ sndbuf' = Tail(sndbuf) /\ net' = net \cup {Encoded(Head(sndbuf))}
  /\ UNCHANGED <<lesson, crashed, status, snd_nxt, rcv_nxt, rcvbuf, arp, client, counted, piped, lost, faults>>

-----------------------------------------------------------------------------
(* The network                                                             *)

ArpAnswered ==
  /\ arp = "asked" /\ ~crashed /\ arp' = "known"
  /\ UNCHANGED <<lesson, crashed, stream, net, client, counted, piped, lost, faults>>
ArpLost ==
  /\ arp = "asked" /\ ~crashed /\ arp' = "unknown"
  /\ UNCHANGED <<lesson, crashed, stream, net, client, counted, piped, lost, faults>>

Lose(m) ==
  /\ faults < MaxFaults /\ faults' = faults + 1 /\ net' = net \ {m}
  /\ lost' = IF m.to = "client" THEN lost \cup {IF "syn" \in m.flags THEN "synack" ELSE "answer"} ELSE lost
  /\ UNCHANGED <<lesson, crashed, stream, arp, client, counted, piped>>

Deliver(m) == (ClientReceives(m, net \ {m}) \/ ServerReceives(m, net \ {m})) /\ UNCHANGED faults
\* A segment arrives and a copy of it stays under way.
Repeat(m) ==
  /\ faults < MaxFaults /\ faults' = faults + 1
  /\ ClientReceives(m, net) \/ ServerReceives(m, net)

-----------------------------------------------------------------------------
Arrival == \E m \in net : Deliver(m)
Network == \E m \in net : Lose(m) \/ Repeat(m) \/ ServerOutOfMemory(m)
ClientStep == Connect \/ SendFin \/ \E n \in 1 .. Mss : SendData(n)
Next == \/ Arrival \/ Network \/ ClientStep \/ \E n \in 1 .. Mss : Resend(n)
        \/ SecondStream \/ TcpOut \/ TcpOutMiss \/ ArpAnswered \/ ArpLost
Spec == Init /\ [][Next]_vars

(* The packet thread never stops, a frame under way arrives, an ARP        *)
(* request that is repeated is answered at last, and the client repeats    *)
(* its SYN, its data and its FIN.                                          *)
Fairness ==
  /\ WF_vars(TcpOut) /\ WF_vars(TcpOutMiss) /\ WF_vars(Arrival) /\ SF_vars(ArpAnswered)
  /\ WF_vars(pst = "syn" /\ Connect) /\ WF_vars(pst = "fin" /\ SendFin)
  /\ WF_vars(\E n \in 1 .. Mss : Resend(n))
FairSpec == Spec /\ Fairness
=============================================================================
