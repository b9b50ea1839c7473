----------------------------- MODULE VringProps -----------------------------
(***************************************************************************)
(* What the TX virtqueue keeps true, and the inductive invariant behind it *)
(* (for a first lap of the rings: MaxPkts < Size).                         *)
(***************************************************************************)
EXTENDS Vring

\* Indices, links and list hold values of their types, and the client never
\* indexes the descriptor table with VRING_IDX_NONE.
TypeOK ==
  /\ next \in [Desc -> Desc \cup {NONE}] /\ data \in [Desc -> 0 .. MaxPkts]
  /\ availRing \in [Desc -> Desc] /\ availIdx \in 0 .. IdxMod - 1
  /\ usedRing \in [Desc -> Desc] /\ usedIdx \in 0 .. IdxMod - 1
  /\ kickfd \in BOOLEAN
  /\ ppc \in {"reclaim", "take", "fill", "ring", "idx", "kick"}
  /\ head \in Desc \cup {NONE} /\ u_idx \in Desc /\ a_idx \in Desc /\ sent \in 0 .. MaxPkts
  /\ cpc \in {"idle", "test"} /\ last_avail \in 0 .. IdxMod - 1 /\ last_used \in 0 .. IdxMod - 1
  /\ got \in Seq(0 .. MaxPkts)
  /\ free \in Seq(Desc)

Free(d) == \E k \in 1 .. Len(free) : free[k] = d
\* put_vring has taken a descriptor and not yet published it
Filling == ppc \in {"fill", "ring", "idx"}

\* "return the descriptor back to the free list" (free_vring): the links that
\* start at last_avail_idx visit every free descriptor once and then end.
FreeListLinked ==
  /\ head = IF free = <<>> THEN NONE ELSE free[1]
  /\ \A k \in 1 .. Len(free) : next[free[k]] = IF k = Len(free) THEN NONE ELSE free[k + 1]
  /\ \A j, k \in 1 .. Len(free) : free[j] = free[k] => j = k

\* free_vring returns a descriptor that is out, never one that is already in
\* the free list.
NoDoubleFree == [][ FreeUsed => ~Free(usedRing[u_idx]) ]_vars

\* The server hands on exactly the packets the client sent, each once, in
\* order and complete, although descriptors are reused in any order.
InOrderOnce ==
  /\ Len(got) <= sent
  /\ \A k \in 1 .. Len(got) : got[k] = k

\* put_vring and free_vring keep table and free list intact, and the packets
\* of the client reach the server once and in order, although no write of one
\* process is protected from the other.
RingIntact == TypeOK /\ FreeListLinked /\ InOrderOnce

\* process_avail_vring reads the eventfd before it looks at the ring: a server
\* that has gone idle on a non-empty ring has another kick coming.
NoLostKick == cpc = "idle" /\ last_avail # availIdx => kickfd \/ ppc = "kick"

\* Every packet put into the ring is handed on.
EverySentArrives == \A n \in 1 .. MaxPkts : sent >= n ~> Len(got) >= n

\* The reclaiming loop of process_used_vring ends, so the client goes on sending.
ReclaimEnds == ppc = "reclaim" ~> ppc = "take"

\* The cycle of the TX ring completes: every packet put_vring publishes is
\* handed on, and the client always gets out of process_used_vring to send more.
TxCompletes == EverySentArrives /\ ReclaimEnds

-----------------------------------------------------------------------------
\* The indices of both sides follow each other in their first lap.
IndexOrder ==
  /\ 0 <= u_idx /\ u_idx <= usedIdx /\ usedIdx <= last_used
  /\ last_used = last_avail /\ last_avail <= availIdx
  /\ availIdx = sent /\ Len(got) = last_avail
  /\ (Filling => sent < MaxPkts)

\* The descriptors between u_idx and availIdx are out: each holds its packet,
\* they are all different, none is free and none is being filled.
Outstanding ==
  /\ \A k \in u_idx .. availIdx - 1 :
       /\ data[availRing[k]] = k + 1
       /\ ~Free(availRing[k])
       /\ Filling => availRing[k] # a_idx
       /\ \A j \in u_idx .. availIdx - 1 : availRing[j] = availRing[k] => j = k
  /\ \A k \in u_idx .. last_used - 1 : usedRing[k] = availRing[k]
  /\ Filling => ~Free(a_idx)
  /\ ppc \in {"ring", "idx"} => data[a_idx] = sent + 1
  /\ ppc = "idx" => availRing[availIdx] = a_idx

\* No descriptor is lost.
Conserved == Len(free) + (availIdx - u_idx) + (IF Filling THEN 1 ELSE 0) = Size

IInv == TypeOK /\ FreeListLinked /\ IndexOrder /\ Outstanding /\ Conserved /\ InOrderOnce /\ NoLostKick
=============================================================================
