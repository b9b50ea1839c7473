------------------------------- MODULE Frames -------------------------------
(***************************************************************************)
(* Who owns an mbuf: the receive loops of lessons 01 to 06, 08 to 12 and    *)
(* 14 and of the DNS server (53).  Lessons 01 to 05 and 53 handle a burst   *)
(* in the loop that received it; the later ones pass it to a worker through *)
(* the in ring and send what the worker puts in the out ring.  11, 12, 14   *)
(* and 53 give what they do not handle to the kernel's network interface    *)
(* (KNI).  What the applications behind the sockets send is not here:       *)
(* UdpEcho, TcpSeq and TcpApi have it.                                      *)
(*                                                                          *)
(* Every program frees an answer right after rte_eth_tx_burst, while the    *)
(* card still has to send it, and the driver frees it again when it is      *)
(* sent.  The pool is created with cache size 0, so it is a ring: what is   *)
(* freed is taken again only after all that was free before it.             *)
(***************************************************************************)
EXTENDS Integers, Sequences, FiniteSets

CONSTANTS
  Lessons,     \* the programs of this instance
  Me, Peers,   \* addresses (one name stands for an IP and its MAC)
  Else, Zero,  \* an address of nobody here, the MAC of zeros
  NumMbufs,    \* NUM_MBUFS
  RxDescs,     \* mbufs the card holds for reception
  RingSize,    \* capacity of the in and out rings
  KniSize,     \* capacity of the KNI queue
  MaxFrames,   \* frames the network delivers, by lesson
  MaxTimers    \* times the ARP timer expires

VARIABLES
  lesson,   \* the program that runs
  mem,      \* what each mbuf holds
  pool,     \* the mempool: a queue, in which an mbuf may be twice
  posted,   \* mbufs the card may receive into
  filled,   \* received into, not polled yet
  inring, outring, \* ring->in (mbufs) and ring->out (mbufs with what was encoded)
  burst, i, \* mbufs[] of the loop that handles frames and its index
  at,       \* the main loop: "rx" or "tx"
  asks,     \* addresses the timer callback has still to ask for
  table,    \* the ARP table, newest entry first
  txq,      \* mbufs the card has to send, with what was encoded into them
  txdone,   \* sent, not yet freed by the driver
  kni, knifree, \* mbufs in the kernel's hands, mbufs it has returned
  dead,     \* rte_exit was called
  frames, timers, \* history: frames delivered, timer expiries
  got,      \* history: mbufs taken from the pool, counted to NumMbufs + 1
  heard,    \* history: frames received
  last,     \* history: the last frame sent and what it should have been
  forgot,   \* history: mbufs of frames the program has no use for, or no room
  whole     \* history: no burst of several frames held one for the KNI

card == <<posted, filled, txq, txdone>>
rings == <<inring, outring, at>>
kernel == <<kni, knifree>>
history == <<frames, timers, heard, last>>
vars == <<lesson, mem, pool, card, rings, burst, i, asks, table, kernel, dead,
          got, forgot, whole, history>>

Mbufs == 1..NumMbufs
Least(a, b) == IF a < b THEN a ELSE b
WithKni == {11, 12, 14}
Pipelined == lesson \in {6, 8, 9, 10} \union WithKni
WithTimer == lesson = 5 \/ Pipelined

\* Frames that a program tells apart.  A DNS query is an own kind of UDP
\* datagram, "icmp" an ICMP message that is no echo request (for lesson 11 and
\* later: any), "other" a frame that is not IPv4.
FrameTypes == CASE lesson \in {1, 2} -> {"udp", "icmp"}
                [] lesson = 3 -> {"udp", "arp_req", "arp_rep", "icmp"}
                [] lesson \in 4..6 -> {"udp", "arp_req", "arp_rep", "echo", "icmp"}
                [] lesson \in 8..10 -> {"udp", "tcp", "arp_req", "arp_rep", "echo", "icmp"}
                [] lesson \in WithKni -> {"udp", "tcp", "icmp", "other"}
                [] lesson = 53 -> {"dns", "udp", "icmp"}
Arp == {"arp_req", "arp_rep"}
Frame(t, p, d) == [type |-> t, smac |-> p, dmac |-> Me, sip |-> p, dip |-> d, len |-> 1]
Wire == {Frame(t, p, Me) : t \in FrameTypes, p \in Peers}
        \union {Frame(t, p, Else) : t \in FrameTypes \intersect Arp, p \in Peers}

NoFrame == [type |-> "none", smac |-> Me, dmac |-> Me, sip |-> Me, dip |-> Me, len |-> 0]

-----------------------------------------------------------------------------
PutCached(p, s) == SubSeq(s \o p, 1, Least(NumMbufs, Len(p \o s)))
\* rte_pktmbuf_free on a pool with cache size 0: the ring takes what fits.
Put(p, s) == SubSeq(p \o s, 1, Least(NumMbufs, Len(p \o s)))

\* The mbufs of s are freed into p; those the pool refuses are gone, and the
\* lost ones that nobody holds any more.
Free(p, s, lost) ==
  /\ pool' = Put(p, s)
  /\ forgot' = forgot + lost + (Len(p \o s) - Len(Put(p, s)))

\* The addresses are the asker's, exchanged.  length counts the UDP header,
\* so every echo is a header longer than what it answers.
ng_encode_udp_pkt(f) ==
  [type |-> "udp", smac |-> Me, dmac |-> f.smac, sip |-> f.dip, dip |-> f.sip, len |-> f.len + 1]

ng_encode_arp_pkt(f) ==
  [type |-> "arp_rep", smac |-> Me, dmac |-> f.smac, sip |-> f.dip, dip |-> f.sip, len |-> 1]

ng_encode_icmp_pkt(f) ==
  [type |-> "echo_rep", smac |-> Me, dmac |-> f.smac, sip |-> f.dip, dip |-> f.sip, len |-> 1]

\* From lesson 05 on: a broadcast ARP packet is sent to MAC zero.
ng_encode_arp_pkt05(op, mac, dip) ==
  [type |-> op, smac |-> Me, dmac |-> IF mac = Else THEN Zero ELSE mac, sip |-> Me, dip |-> dip, len |-> 1]

create_eth_ip_udp_pkt(f) ==
  [type |-> "udp", smac |-> Me, dmac |-> f.smac, sip |-> f.dip, dip |-> f.sip, len |-> 2]

\* What a program does with one frame: the answer it sends, whether it frees
\* the frame.
Does(answers, frees) == [out |-> answers, free |-> frees]
Nothing == Does(<<>>, FALSE)

Lesson01(f) == Does(<<>>, f.type = "udp")

Lesson02(f) == IF f.type = "udp" THEN Does(<<ng_encode_udp_pkt(f)>>, TRUE) ELSE Nothing

\* ARP of either opcode is answered.
Lesson03(f) ==
  CASE f.type \in Arp /\ f.dip = Me -> Does(<<ng_encode_arp_pkt(f)>>, TRUE)
    [] f.type \in Arp /\ f.dip # Me -> Nothing
    [] OTHER -> Lesson02(f)

Lesson04(f) ==
  IF f.type = "echo" THEN Does(<<ng_encode_icmp_pkt(f)>>, TRUE) ELSE Lesson03(f)

Lesson05Arp(f) ==
  CASE f.dip # Me -> Nothing
    [] f.dip = Me /\ f.type = "arp_req" ->
         Does(<<ng_encode_arp_pkt05("arp_rep", f.smac, f.sip)>>, FALSE)
    [] f.dip = Me /\ f.type = "arp_rep" -> Does(<<>>, TRUE)

Lesson05(f) == IF f.type \in Arp THEN Lesson05Arp(f) ELSE Lesson04(f)

Lesson06Keeps(f) == [Lesson05(f) EXCEPT !.free = FALSE]
\* The same answers, handed to the out ring.
Lesson06(f) == Lesson05(f)

\* udp_process frees its frame, ng_tcp_process does not.
Lesson08(f) == CASE f.type = "udp" -> Does(<<>>, TRUE)
                 [] f.type = "tcp" -> Nothing
                 [] OTHER -> Lesson06(f)
Lesson09(f) == Lesson08(f)
Lesson10(f) == Lesson08(f)

\* udp_process and, from lesson 12 on, ng_tcp_process free the frame.
Lesson11(f) == Does(<<>>, f.type = "udp")
Lesson12(f) == Does(<<>>, f.type \in {"udp", "tcp"})
Lesson14(f) == Lesson12(f)

\* burst_free_mbufs frees after the burst.
Lesson53(f) == Does(IF f.type = "dns" THEN <<create_eth_ip_udp_pkt(f)>> ELSE <<>>, FALSE)

Handled(f) == CASE lesson = 1 -> Lesson01(f) [] lesson = 2 -> Lesson02(f)
                [] lesson = 3 -> Lesson03(f) [] lesson = 4 -> Lesson04(f)
                [] lesson = 5 -> Lesson05(f) [] lesson = 6 -> Lesson06(f)
                [] lesson = 8 -> Lesson08(f) [] lesson = 9 -> Lesson09(f)
                [] lesson = 10 -> Lesson10(f) [] lesson = 11 -> Lesson11(f)
                [] lesson = 12 -> Lesson12(f) [] lesson = 14 -> Lesson14(f)
                [] lesson = 53 -> Lesson53(f)

\* Frames for the kernel.
ToKni(f) == \/ lesson \in WithKni /\ f.type \notin {"udp", "tcp"}
            \/ lesson = 53 /\ f.type \notin {"udp", "dns"}

\* Frames a program has no use for: it neither serves nor frees them.  Lesson
\* 05 forgets the requests it answers too, lessons 08 to 11 what TCP has handled.
Useful == CASE lesson \in {1, 2, 11} -> {"udp"}
            [] lesson = 3 -> {"udp"} \union Arp
            [] lesson = 4 -> {"udp", "echo"} \union Arp
            [] lesson \in {5, 6, 8, 9, 10} -> {"udp", "echo", "arp_rep"}
            [] lesson \in {12, 14} -> {"udp", "tcp"}
            [] lesson = 53 -> {"udp", "dns"}
Forgets(f) == f.type \notin Useful \/ (f.type \in Arp /\ f.dip # Me)

-----------------------------------------------------------------------------
\* The pool is created and the port set up: RxDescs of its mbufs are with the card.
PoolCreated ==
  /\ mem = [m \in Mbufs |-> NoFrame]
  /\ posted = [k \in 1..RxDescs |-> k]
  /\ pool = [k \in 1..(NumMbufs - RxDescs) |-> k + RxDescs]
RingsCreated == inring = <<>> /\ outring = <<>>
arp_table_instance == table = <<>>
Init ==
  /\ lesson \in Lessons
  /\ PoolCreated /\ RingsCreated /\ arp_table_instance
  /\ filled = <<>> /\ burst = <<>> /\ i = 1
  /\ at = "rx" /\ asks = <<>> /\ txq = <<>> /\ txdone = <<>>
  /\ kni = <<>> /\ knifree = <<>> /\ dead = FALSE
  /\ frames = 0 /\ timers = 0 /\ got = RxDescs /\ heard = {} /\ forgot = 0 /\ whole = TRUE
  /\ last = [sent |-> NoFrame, want |-> NoFrame, first |-> TRUE]

Taken(n) == got' = Least(got + n, NumMbufs + 1)

\* The card receives into the next descriptor; without one the frame is lost.
\* Bounds: MaxFrames, and the network is quiet once the pool has gone round.
Arrive(f) ==
  /\ ~dead /\ frames < MaxFrames[lesson] /\ got <= NumMbufs /\ posted # <<>>
  /\ mem' = [mem EXCEPT ![Head(posted)] = f]
  /\ filled' = Append(filled, Head(posted)) /\ posted' = Tail(posted)
  /\ frames' = frames + 1 /\ heard' = heard \union {f}
  /\ UNCHANGED <<lesson, pool, txq, txdone, rings, burst, i, asks, table, kernel, dead,
                 got, forgot, whole, timers, last>>

\* rte_eth_rx_burst: the driver hands a frame over once it has a fresh mbuf
\* for the descriptor.
Polled == Least(Len(filled), Len(pool))
rx_burst ==
  /\ filled' = SubSeq(filled, Polled + 1, Len(filled))
  /\ posted' = posted \o SubSeq(pool, 1, Polled)
  /\ pool' = SubSeq(pool, Polled + 1, Len(pool))
  /\ Taken(Polled)

\* A burst with a frame for the KNI and other frames beside it.
Mixed(b) == Len(b) > 1 /\ \E k \in 1..Len(b) : ToKni(mem[b[k]])

\* The loop of lessons 01 to 05 and of the DNS server.
PollAndHandle ==
  /\ ~dead /\ ~Pipelined /\ burst = <<>> /\ asks = <<>> /\ Polled > 0
  /\ rx_burst
  /\ burst' = SubSeq(filled, 1, Polled) /\ i' = 1
  /\ whole' = (whole /\ ~Mixed(burst'))
  /\ UNCHANGED <<lesson, mem, txq, txdone, rings, asks, table, kernel, dead, forgot, history>>

\* The main loop of lesson 06 and later: what the ring has no room for is lost.
PollToRing ==
  /\ ~dead /\ Pipelined /\ at = "rx" /\ asks = <<>>
  /\ rx_burst
  /\ LET room == Least(RingSize - Len(inring), Polled)
     IN /\ inring' = inring \o SubSeq(filled, 1, room)
        /\ forgot' = forgot + (Polled - room)
  /\ at' = "tx"
  /\ UNCHANGED <<lesson, mem, txq, txdone, outring, burst, i, asks, table, kernel, dead,
                 whole, history>>

\* rte_eth_tx_burst and rte_pktmbuf_free of what the worker has put in the ring;
\* the driver frees first what the card has sent.
SendFromRing ==
  /\ ~dead /\ Pipelined /\ at = "tx"
  /\ at' = "rx"
  /\ txq' = txq \o outring /\ outring' = <<>>
  /\ IF outring = <<>> THEN UNCHANGED <<pool, forgot, txdone>>
     ELSE /\ Free(pool, txdone \o [k \in 1..Len(outring) |-> outring[k].m], 0)
          /\ txdone' = <<>>
  /\ UNCHANGED <<lesson, mem, posted, filled, inring, burst, i, asks, table, kernel, dead,
                 got, whole, history>>

\* pkt_process takes a burst from the in ring.
Dequeue ==
  /\ ~dead /\ Pipelined /\ burst = <<>> /\ inring # <<>>
  /\ burst' = inring /\ i' = 1 /\ inring' = <<>>
  /\ whole' = (whole /\ ~Mixed(inring))
  /\ UNCHANGED <<lesson, mem, pool, card, outring, at, asks, table, kernel, dead,
                 got, forgot, history>>

-----------------------------------------------------------------------------
AdvanceFrees(p, s, lost) ==
  IF i < Len(burst)
  THEN /\ i' = i + 1 /\ UNCHANGED burst /\ Free(p, s, lost)
  ELSE /\ i' = 1 /\ burst' = <<>> /\ Free(p, s \o burst, lost)
\* The next frame; the DNS server frees the whole burst at its end.
Advance(p, s, lost) ==
  IF i < Len(burst)
  THEN /\ i' = i + 1 /\ UNCHANGED burst /\ Free(p, s, lost)
  ELSE /\ i' = 1 /\ burst' = <<>>
       /\ Free(p, IF lesson = 53 THEN s \o burst ELSE s, lost)

\* ng_send_udp, ng_send_arp, ng_send_icmp, do_send_udp with the transmission:
\* an mbuf is taken and encoded into; lesson 06 and later leave sending to the
\* main loop, and lose the mbuf when the out ring is full.
Send(f) ==
  LET m == Head(pool)
  IN /\ mem' = [mem EXCEPT ![m] = f]
     /\ Taken(1)
     /\ IF Pipelined
        THEN /\ outring' = IF Len(outring) < RingSize THEN Append(outring, [m |-> m, want |-> f])
                                                      ELSE outring
             /\ UNCHANGED <<txq, txdone>>
        ELSE /\ txq' = Append(txq, [m |-> m, want |-> f]) /\ txdone' = <<>>
             /\ UNCHANGED outring
\* What is freed with the transmission: what the card has sent, and the answer.
FreedBySend == IF Pipelined THEN <<>> ELSE txdone \o <<Head(pool)>>
NoRoom == IF Pipelined /\ Len(outring) >= RingSize THEN 1 ELSE 0

rte_exit == /\ dead' = TRUE
            /\ UNCHANGED <<lesson, mem, pool, card, rings, burst, i, asks, table, kernel,
                           got, forgot, whole, history>>

\* An address is learnt once: from ARP replies, in the programs with a KNI
\* from every IPv4 frame (ng_arp_entry_insert).
Teaches(f) ==
  \/ lesson \in {5, 6, 8, 9, 10} /\ f.type = "arp_rep" /\ f.dip = Me
  \/ lesson \in WithKni /\ f.type # "other"
Learn(f) ==
  IF Teaches(f) /\ \A k \in 1..Len(table) : table[k].ip # f.sip
  THEN table' = <<[ip |-> f.sip, mac |-> f.smac]>> \o table
  ELSE UNCHANGED table

\* One frame of the burst.
Handle ==
  LET m == burst[i]
      f == mem[m]
      does == Handled(f)
      freed == IF does.free THEN <<m>> ELSE <<>>
      out == Len(does.out)
      lost == IF Forgets(f) THEN 1 ELSE 0
  IN /\ ~dead /\ burst # <<>> /\ ~ToKni(f)
     /\ out = 0 \/ pool # <<>>
     /\ IF out = 1
        THEN Send(does.out[1]) /\ Advance(Tail(pool), FreedBySend \o freed, lost + NoRoom)
        ELSE Advance(pool, freed, lost) /\ UNCHANGED <<mem, got, txq, txdone, outring>>
     /\ Learn(f)
     /\ UNCHANGED <<lesson, posted, filled, inring, at, asks, kernel, dead, whole, history>>

\* An answer is due and the pool is empty.
HandleFails ==
  /\ ~dead /\ burst # <<>> /\ ~ToKni(mem[burst[i]])
  /\ Handled(mem[burst[i]]).out # <<>> /\ pool = <<>>
  /\ rte_exit

\* rte_kni_tx_burst(kni, mbufs, num_recvd): the whole burst, what fits of it;
\* then the mbufs the kernel has returned are freed.
KniTx ==
  /\ ~dead /\ burst # <<>> /\ ToKni(mem[burst[i]])
  /\ LET room == Least(KniSize - Len(kni), Len(burst))
     IN /\ kni' = kni \o SubSeq(burst, 1, room)
        /\ Advance(pool, knifree, IF lesson = 53 THEN 0 ELSE Len(burst) - room)
  /\ knifree' = <<>>
  /\ Learn(mem[burst[i]])
  /\ UNCHANGED <<lesson, mem, card, rings, asks, dead, got, whole, history>>

\* arp_request_timer_cb: every address of the net is asked for.
AllDiffer(s) == \A a, b \in DOMAIN s : a # b => s[a] # s[b]
AskedFor == CHOOSE s \in [1..Cardinality(Peers) -> Peers] : AllDiffer(s)
TimerExpires ==
  /\ ~dead /\ WithTimer /\ timers < MaxTimers /\ got <= NumMbufs
  /\ IF Pipelined THEN at = "rx" ELSE burst = <<>>
  /\ asks = <<>>
  /\ asks' = AskedFor /\ timers' = timers + 1
  /\ UNCHANGED <<lesson, mem, pool, card, rings, burst, i, table, kernel, dead, got,
                 forgot, whole, frames, heard, last>>

ng_get_dst_macaddr(ip) ==
  IF \E k \in 1..Len(table) : table[k].ip = ip
  THEN table[CHOOSE k \in 1..Len(table) : table[k].ip = ip].mac
  ELSE Else

Ask ==
  /\ ~dead /\ asks # <<>> /\ pool # <<>>
  /\ Send(ng_encode_arp_pkt05("arp_req", ng_get_dst_macaddr(Head(asks)), Head(asks)))
  /\ Free(Tail(pool), FreedBySend, NoRoom)
  /\ asks' = Tail(asks)
  /\ UNCHANGED <<lesson, posted, filled, inring, at, burst, i, table, kernel, dead, whole, history>>

AskFails == ~dead /\ asks # <<>> /\ pool = <<>> /\ rte_exit

-----------------------------------------------------------------------------
\* The card sends what the mbuf holds now; the kernel consumes a frame.
CardSends ==
  /\ ~dead /\ txq # <<>>
  /\ last' = [sent |-> mem[Head(txq).m], want |-> Head(txq).want, first |-> got <= NumMbufs]
  /\ txq' = Tail(txq) /\ txdone' = Append(txdone, Head(txq).m)
  /\ UNCHANGED <<lesson, mem, pool, posted, filled, rings, burst, i, asks, table, kernel,
                 dead, got, forgot, whole, frames, timers, heard>>

KernelTakes ==
  /\ ~dead /\ kni # <<>>
  /\ knifree' = Append(knifree, Head(kni)) /\ kni' = Tail(kni)
  /\ UNCHANGED <<lesson, mem, pool, card, rings, burst, i, asks, table, dead, got,
                 forgot, whole, history>>

Next ==
  \/ \E f \in Wire : Arrive(f)
  \/ PollAndHandle \/ PollToRing \/ SendFromRing \/ Dequeue
  \/ Handle \/ HandleFails \/ KniTx
  \/ TimerExpires \/ Ask \/ AskFails
  \/ CardSends \/ KernelTakes

Spec == Init /\ [][Next]_vars
=============================================================================
