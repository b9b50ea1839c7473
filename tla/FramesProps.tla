---------------------------- MODULE FramesProps ----------------------------
(* What the receive loops promise about the mbufs they pass around. *)
EXTENDS Frames

Holds(s, m) == Cardinality({k \in 1..Len(s) : s[k] = m})
HoldsSent(s, m) == Cardinality({k \in 1..Len(s) : s[k].m = m})

\* What the burst loop still owns: the frames it has not come to (the DNS
\* server frees the whole burst at its end).
InHand == IF lesson = 53 \/ burst = <<>> THEN burst ELSE SubSeq(burst, i, Len(burst))

\* Owners of an mbuf in use: the card's receive queue, the rings, the loop, the kernel.
Users(m) == Holds(posted, m) + Holds(filled, m) + Holds(inring, m) + HoldsSent(outring, m)
            + Holds(InHand, m) + Holds(kni, m) + Holds(knifree, m)

Lost == {m \in Mbufs : Users(m) = 0 /\ Holds(pool, m) = 0 /\ HoldsSent(txq, m) = 0
                       /\ Holds(txdone, m) = 0}

AnswerTo(f, a) ==
  /\ a.smac = Me /\ a.dmac = f.smac /\ a.dip = f.sip /\ a.sip = f.dip
  /\ a.type = CASE f.type \in {"udp", "dns"} -> "udp" [] f.type \in Arp -> "arp_rep"
                [] f.type = "echo" -> "echo_rep" [] OTHER -> "none"

\* Until the pool has been gone through once, every frame that leaves the card
\* is the one that was encoded, and it is the right answer, to the right host,
\* to a frame that was received (or a question of the ARP timer), although the
\* loops free it right after rte_eth_tx_burst: the mbuf waits behind all others.
AnswersRight ==
  last.first /\ last.sent # NoFrame =>
    /\ last.sent = last.want
    /\ \/ \E f \in heard : AnswerTo(f, last.sent)
       \/ last.sent.type = "arp_req" /\ last.sent.sip = Me /\ last.sent.dmac \in {Zero, last.sent.dip}

\* Until the pool has been gone through once, and as long as no burst of
\* several frames held one for the KNI (which is given the whole burst, mbufs[]
\* and num_recvd, at every such frame), an mbuf in use has one owner
\* and is not in the pool.
OwnedOnce ==
  got <= NumMbufs /\ whole /\ lesson # 53 =>
    \A m \in Mbufs : Users(m) + (IF Holds(pool, m) > 0 THEN 1 ELSE 0) <= 1

\* An mbuf is out of everyone's reach only because of a frame its program has
\* no use for, or that a full ring refused, the pool's own ring too (every
\* answer is freed twice, so it fills up with them): the frames a program serves
\* cost it nothing else, and no other leak empties the pool.
NothingElseLost == Cardinality(Lost) <= forgot

=============================================================================
