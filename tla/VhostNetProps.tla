---------------------------- MODULE VhostNetProps ----------------------------
(* What the net backend keeps and brings about.                            *)
EXTENDS VhostNet

\* Every variable holds a value of its type.
TypeOK ==
  /\ layout \in Layouts /\ shape \in Shapes
  /\ qpc \in 1 .. Len(Script) /\ step \in 0 .. 2 /\ features \in BOOLEAN
  /\ virtiodev \in {"none", "raw", "zeroed"} /\ mem \in BOOLEAN
  /\ vq \in [Queue -> [desc : BOOLEAN, avail : BOOLEAN, used : BOOLEAN, num : BOOLEAN]]
  /\ last[Tx] \in 0 .. Num - 1 /\ last[Rx] \in 0 .. MaxPub[Rx] /\ call \in {"unset", "masked", "closed", "guest"}
  /\ pc \in {"wait", "poll", "rx", "rxonly"}
  /\ avail[Rx] \in [0 .. Num - 1 -> 0 .. npub[Rx]] /\ used[Rx] \in [0 .. Num - 1 -> 0 .. npub[Rx]]
  /\ avail[Tx] \in [0 .. Num - 1 -> Id] /\ used[Tx] \in [0 .. Num - 1 -> Id]
  /\ desc \in [Id -> 0 .. npub[Tx]] /\ busy \subseteq Id
  /\ \A q \in Queue : npub[q] \in 0 .. MaxPub[q] /\ seen[q] \in Nat
  /\ uidx \in [Queue -> 0 .. IdxSpace - 1]
  /\ tap \in Seq(1 .. nframe) /\ nframe \in 0 .. MaxFrames
  /\ irq \in BOOLEAN /\ broken \in BOOLEAN
  /\ taken \in Seq(0 .. npub[Tx]) /\ stale \in BOOLEAN
  /\ filled \in Seq([buffer : 0 .. npub[Rx], frame : 0 .. MaxFrames])
  /\ told \in BOOLEAN /\ fails \in 0 .. MaxFail /\ fault \in {"none", "exit", "raw", "tx", "rx", "copy"}

(* vhost_tx uses no part of queue 1 that is not set up, although its test  *)
(* reads the pointers one by one while they are stored.  vhost_rx, which   *)
(* tests nothing, finds queue 0 set up in every round in which vhost_tx    *)
(* went first, since qemu sets up queue 0 before queue 1; only a round in  *)
(* which the tap could not be written to may be too early.  Out of reach   *)
(* is the device between malloc and memset (fault "raw").                  *)
SetupSafe == fault # "tx" /\ (fault = "rx" => pc = "rxonly")

(* The k-th frame that is delivered is in the k-th buffer the guest        *)
(* offered, none is overwritten and none in a buffer not offered; frames   *)
(* keep their order.                                                       *)
RxExact ==
  /\ TypeOK
  /\ Len(filled) <= npub[Rx] /\ Len(filled) - seen[Rx] <= Num
  /\ \A k \in 1 .. Len(filled) : filled[k].buffer = k
  /\ shape = "two" => \A j, k \in 1 .. Len(filled) : j < k => filled[j].frame < filled[k].frame

(* A frame dropped although the guest offers a buffer was dropped after    *)
(* avail->idx had gone round.                                              *)
DropsForCause ==
  Len(tap') < Len(tap) /\ filled' = filled => npub[Rx] = Len(filled) \/ npub[Rx] >= IdxSpace

(* What vhost_rx does with frames and buffers, whatever the indices do.    *)
RxRight == [][RxExact' /\ DropsForCause]_vars

(* The addresses of every region are translated to where its memory is     *)
(* mapped, but for the first one of a region that begins where an earlier  *)
(* one of the table ends.                                                  *)
Seam(i, start(_)) == \E j \in 1 .. i - 1 : start(layout[j]) + layout[j].size = start(layout[i])
Translates ==
  mem => \A i \in DOMAIN layout : \A o \in 0 .. layout[i].size - 1 :
    LET user(r) == r.user_address
        phys(r) == r.guest_address
        host    == layout[i].mmap + layout[i].off + o
    IN  /\ gva_to_hva(layout, user(layout[i]) + o) = host \/ (o = 0 /\ Seam(i, user))
        /\ gpa_to_hva(layout, phys(layout[i]) + o) = host \/ (o = 0 /\ Seam(i, phys))

(* Until vhost_tx takes an entry the guest has not put on offer, it takes  *)
(* the buffers of queue 1 in the order they were offered, each once, in    *)
(* whatever descriptors and however often those are used again; the guest  *)
(* gets back only what was taken and never finds the queue broken.  After  *)
(* that nothing holds: old buffers are sent again, and a new one may be    *)
(* handed back without having been sent.                                   *)
SentInOrder ==
  \/ stale
  \/ /\ \A k \in 1 .. Len(taken) : taken[k] = k
     /\ seen[Tx] <= Len(taken) /\ {desc[d] : d \in busy} = seen[Tx] + 1 .. npub[Tx]
     /\ ~broken

(* At the end no frame waits in the tap, which vhost_tx can keep unread,   *)
(* and a delivery that signalled the guest's eventfd is seen by it.        *)
Settles == fault = "none" => tap = <<>> /\ (told => seen[Rx] = Len(filled))

(* Both queues serve the guest.                                            *)
Served == [][SentInOrder']_vars /\ <>[]Settles
=============================================================================
