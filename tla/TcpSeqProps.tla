----------------------------- MODULE TcpSeqProps -----------------------------
(* What the stream of lessons 08 and 09 keeps without comparing numbers.   *)
EXTENDS TcpSeq

Number == 0 .. SeqSpace - 1
Data == Seq(1 .. MaxBytes)
Flags == SUBSET {"syn", "ack", "psh", "fin"}

\* Every variable holds a value of its type; no ring is over its capacity.
TypeOK ==
  /\ lesson \in Lessons /\ crashed \in BOOLEAN
  /\ status \in {"none", "LISTEN", "SYN_RCVD", "ESTABLISHED", "CLOSE_WAIT"}
  /\ snd_nxt \in Number /\ rcv_nxt \in Number
  /\ sndbuf \in Seq([flags : Flags, seqnum : Number, acknum : Number, data : Data])
  /\ Len(sndbuf) <= BufSize /\ rcvbuf \in 0 .. BufSize
  /\ arp \in {"unknown", "asked", "known"}
  /\ \A m \in net : m \in [to : {"client", "server"}, flags : Flags, seq : Number, ack : Number, data : Data]
  /\ isn \in Number /\ pst \in {"closed", "syn", "open", "fin"}
  /\ una \in 0 .. pnxt /\ pnxt \in 0 .. MaxBytes /\ prcv \in Number /\ got \in Data
  /\ taken \subseteq 1 .. pnxt /\ twice \in BOOLEAN /\ disorder \in BOOLEAN /\ piped \in BOOLEAN
  /\ lost \subseteq {"nomem", "synack", "answer"} /\ faults \in 0 .. MaxFaults

\* The numbers the server acknowledges, queued or under way.
Acks == {sndbuf[i].acknum : i \in 1 .. Len(sndbuf)} \cup {m.ack : m \in {x \in net : x.to = "client"}}

(* As long as the segments it counted came in order, the server has every  *)
(* byte it acknowledges; and unless it counted one twice it acknowledges   *)
(* nothing the client has not sent, although rcv_nxt grows with whatever   *)
(* arrives: for any loss, reordering and wrap of the numbers.              *)
AcksHonest ==
  /\ TypeOK
  /\ \A ack \in Acks : /\ ~disorder => Covers(ack) <= Cardinality(taken)
                       /\ ~twice => Covers(ack) <= pnxt

(* A client that waits for an echo before it sends more receives its bytes *)
(* in order and once, whatever the network repeats or loses: an echo has   *)
(* the number the client expects, as snd_nxt is taken from its             *)
(* acknowledgement.                                                        *)
EchoInOrder == ~piped => \A k \in 1 .. Len(got) : got[k] = k

(* The handshake ends unless its SYN|ACK was lost, as a repeated SYN is    *)
(* not answered; a client that stays connected has all its bytes back,     *)
(* unless it did not wait for echoes, or an answer was lost or had no      *)
(* memory, or data was counted twice; a FIN after data that is             *)
(* acknowledged is heard; and sndbuf is emptied.                           *)
Progress ==
  <>[](crashed \/ /\ pst = "syn" => "synack" \in lost
                  /\ pst = "open" /\ lesson = 9 => Len(got) = pnxt \/ piped \/ twice \/ lost # {}
                  /\ pst = "fin" /\ una = pnxt /\ lesson = 9 => status = "CLOSE_WAIT"
                  /\ sndbuf = <<>>)
=============================================================================
