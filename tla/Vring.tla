------------------------------- MODULE Vring -------------------------------
(***************************************************************************)
(* The TX virtqueue of vring_test: the client process puts packets into    *)
(* shared memory (put_vring), kicks the server and reclaims used           *)
(* descriptors (process_used_vring); the server process consumes them      *)
(* (process_avail_vring).  No lock is shared; each action is one write the *)
(* other process can see.  Packet number n is the n-th one the client      *)
(* sends; the client is stopped by SIGINT after MaxPkts of them.           *)
(***************************************************************************)
EXTENDS Integers, Sequences

CONSTANTS Size,     \* VHOST_VRING_SIZE, 32768 in the code
          IdxMod,   \* what the uint16_t indices wrap at, 65536 = 2 * VHOST_VRING_SIZE
          MaxPkts

ASSUME SizeAssumption == Size \in Nat \ {0} /\ IdxMod = 2 * Size
ASSUME PktsAssumption == MaxPkts \in Nat

Desc == 0 .. Size - 1
NONE == Size        \* VRING_IDX_NONE: no descriptor has this number
NoPkt == 0

VARIABLES
  next, data,             \* descriptor table: links, and the packet in the buffer
  availRing, availIdx,    \* struct vring_avail
  usedRing, usedIdx,      \* struct vring_used
  kickfd,                 \* the eventfd is readable
  ppc, head, u_idx, a_idx, sent,     \* client: step, last_avail_idx, last_used_idx, a_idx
  cpc, last_avail, last_used, got,   \* server: step, its two indices, packets handed on
  free                    \* the free list read off the links, head first (auxiliary)

table  == <<next, data>>
client == <<ppc, head, u_idx, a_idx, sent>>
server == <<cpc, last_avail, last_used, got>>
vars   == <<table, availRing, availIdx, usedRing, usedIdx, kickfd, client, server, free>>

(***************************************************************************)
(* new_vring, set_host_vring (base 0) and the two VringTable               *)
(* initialisations: every descriptor is linked into the free list.         *)
(***************************************************************************)
Init ==
  /\ next = [d \in Desc |-> d + 1] /\ data = [d \in Desc |-> NoPkt]
  /\ availRing = [s \in Desc |-> 0] /\ availIdx = 0
  /\ usedRing = [s \in Desc |-> 0] /\ usedIdx = 0
  /\ kickfd = FALSE
  /\ ppc = "reclaim" /\ head = 0 /\ u_idx = 0 /\ a_idx = 0 /\ sent = 0
  /\ cpc = "idle" /\ last_avail = 0 /\ last_used = 0 /\ got = <<>>
  /\ free = [k \in 1 .. Size |-> k - 1]

-----------------------------------------------------------------------------
(* Client: poll_client = process_used_vring, put_vring, kick               *)

\* Mutant: the reclaimed descriptor is not linked to the rest of the list.
FreeUnlinked ==
  LET d == usedRing[u_idx] IN
  /\ ppc = "reclaim" /\ u_idx # usedIdx
  /\ next' = [next EXCEPT ![d] = NONE] /\ head' = d
  /\ free' = <<d>> \o free
  /\ u_idx' = (u_idx + 1) % Size
  /\ UNCHANGED <<data, availRing, availIdx, usedRing, usedIdx, kickfd, ppc, a_idx, sent, server>>

\* One turn of the loop of process_used_vring, with free_vring.
FreeUsed ==
  LET d == usedRing[u_idx] IN
  /\ ppc = "reclaim" /\ u_idx # usedIdx
  /\ next' = [next EXCEPT ![d] = head] /\ head' = d
  /\ free' = <<d>> \o free
  /\ u_idx' = (u_idx + 1) % Size
  /\ UNCHANGED <<data, availRing, availIdx, usedRing, usedIdx, kickfd, ppc, a_idx, sent, server>>

\* Mutant: the loop also waits for a first used descriptor.
AllReclaimedWaits ==
  /\ ppc = "reclaim" /\ u_idx = usedIdx /\ u_idx > 0
  /\ ppc' = "take"
  /\ UNCHANGED <<table, availRing, availIdx, usedRing, usedIdx, kickfd, head, u_idx, a_idx, sent,
                 server, free>>

\* Nothing left to reclaim: process_used_vring returns.
AllReclaimed ==
  /\ ppc = "reclaim" /\ u_idx = usedIdx
  /\ ppc' = "take"
  /\ UNCHANGED <<table, availRing, availIdx, usedRing, usedIdx, kickfd, head, u_idx, a_idx, sent,
                 server, free>>

\* Mutant: the head of the free list is not moved.
PutTakeKeepsHead ==
  /\ ppc = "take" /\ sent < MaxPkts /\ head \in Desc
  /\ a_idx' = head /\ ppc' = "fill" /\ free' = Tail(free)
  /\ UNCHANGED <<head, table, availRing, availIdx, usedRing, usedIdx, kickfd, u_idx, sent, server>>

\* put_vring takes the head of the free list.  It does not test for
\* VRING_IDX_NONE: with no free descriptor it reads and writes beyond the
\* table, and nothing is promised from there on.
PutTake ==
  /\ ppc = "take" /\ sent < MaxPkts
  /\ IF head \in Desc
     THEN /\ a_idx' = head /\ head' = next[head] /\ ppc' = "fill"
          /\ free' = Tail(free)
     ELSE ppc' = "overrun" /\ UNCHANGED <<a_idx, head, free>>
  /\ UNCHANGED <<table, availRing, availIdx, usedRing, usedIdx, kickfd, u_idx, sent, server>>

PutFill ==
  /\ ppc = "fill"
  /\ data' = [data EXCEPT ![a_idx] = sent + 1]
  /\ next' = [next EXCEPT ![a_idx] = NONE]
  /\ ppc' = "ring"
  /\ UNCHANGED <<availRing, availIdx, usedRing, usedIdx, kickfd, head, u_idx, a_idx, sent, server, free>>

\* Mutant: the slot after the one that will be published.
PutRingNext ==
  /\ ppc = "ring"
  /\ availRing' = [availRing EXCEPT ![(availIdx + 1) % Size] = a_idx]
  /\ ppc' = "idx"
  /\ UNCHANGED <<table, availIdx, usedRing, usedIdx, kickfd, head, u_idx, a_idx, sent, server, free>>

PutRing ==
  /\ ppc = "ring"
  /\ availRing' = [availRing EXCEPT ![availIdx % Size] = a_idx]
  /\ ppc' = "idx"
  /\ UNCHANGED <<table, availIdx, usedRing, usedIdx, kickfd, head, u_idx, a_idx, sent, server, free>>

PutIdx ==
  /\ ppc = "idx"
  /\ availIdx' = (availIdx + 1) % IdxMod /\ sent' = sent + 1
  /\ ppc' = "kick"
  /\ UNCHANGED <<table, availRing, usedRing, usedIdx, kickfd, head, u_idx, a_idx, server, free>>

Kick ==
  /\ ppc = "kick"
  /\ kickfd' = TRUE /\ ppc' = "reclaim"
  /\ UNCHANGED <<table, availRing, availIdx, usedRing, usedIdx, head, u_idx, a_idx, sent, server, free>>

-----------------------------------------------------------------------------
(* Server: _kick_server, then process_avail_vring                          *)

ReadKick ==
  /\ cpc = "idle" /\ kickfd
  /\ kickfd' = FALSE /\ cpc' = "test"
  /\ UNCHANGED <<table, availRing, availIdx, usedRing, usedIdx, client, last_avail, last_used, got, free>>

\* process_desc: hand the packet on, put the descriptor into the used ring.
ProcessDesc ==
  LET d == availRing[last_avail % Size] IN
  /\ cpc = "test" /\ last_avail # availIdx
  /\ got' = Append(got, data[d])
  /\ usedRing' = [usedRing EXCEPT ![last_used % Size] = d]
  /\ last_avail' = (last_avail + 1) % IdxMod /\ last_used' = (last_used + 1) % IdxMod
  /\ UNCHANGED <<table, availRing, availIdx, usedIdx, kickfd, client, cpc, free>>

\* Mutant: one more descriptor is published than was used.
PublishOneMore ==
  /\ cpc = "test" /\ last_avail = availIdx
  /\ usedIdx' = last_used + 1 /\ cpc' = "idle"
  /\ UNCHANGED <<table, availRing, availIdx, usedRing, kickfd, client, last_avail, last_used, got, free>>

\* Mutant: the server stops before it has seen the end of avail.
PublishEarly ==
  /\ cpc = "test"
  /\ usedIdx' = last_used /\ cpc' = "idle"
  /\ UNCHANGED <<table, availRing, availIdx, usedRing, kickfd, client, last_avail, last_used, got, free>>

\* The end of avail is reached: publish everything used so far at once.
PublishUsed ==
  /\ cpc = "test" /\ last_avail = availIdx
  /\ usedIdx' = last_used /\ cpc' = "idle"
  /\ UNCHANGED <<table, availRing, availIdx, usedRing, kickfd, client, last_avail, last_used, got, free>>

-----------------------------------------------------------------------------
ClientStep == \/ FreeUsed \/ AllReclaimed \/ PutTake \/ PutFill \/ PutRing \/ PutIdx \/ Kick
ServerStep == ReadKick \/ ProcessDesc \/ PublishUsed

Next == ClientStep \/ ServerStep

Spec == Init /\ [][Next]_vars

\* Two processes, each in an endless loop the scheduler keeps running.
FairSpec == Spec /\ WF_vars(ClientStep) /\ WF_vars(ServerStep)
=============================================================================
