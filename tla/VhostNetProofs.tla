--------------------------- MODULE VhostNetProofs ---------------------------
(***************************************************************************)
(* Proofs about the net backend, for every memory table, every size of the  *)
(* virtqueues and of their indices, and every number of frames and buffers. *)
(***************************************************************************)
EXTENDS VhostNetProps, TLAPS

-----------------------------------------------------------------------------
(* Address translation *)

(* The first region that matches is the one before which none does. *)
LEMMA FirstIs ==
  ASSUME NEW hits \in SUBSET Nat, NEW i \in hits, i # 0, \A j \in hits : i <= j
  PROVE  First(hits) = i
<1>1. (CHOOSE k \in hits : \A j \in hits : k <= j) \in hits
      /\ \A j \in hits : (CHOOSE k \in hits : \A m \in hits : k <= m) <= j
  OBVIOUS
<1>2. First(hits) \in hits /\ \A j \in hits : First(hits) <= j
  BY <1>1 DEF First
<1>3. First(hits) \in Nat /\ i \in Nat /\ First(hits) <= i /\ i <= First(hits)
  BY <1>2
<1> QED BY <1>3

\* The regions whose comparison, inclusive of the end, accepts address a.
Accepting(K, start, size, a) == {j \in 1 .. K : a <= start[j] + size[j] /\ a >= start[j]}
\* An earlier region ends where region i starts.
Ends(start, size, i) == \E j \in 1 .. i - 1 : start[j] + size[j] = start[i]

(* Of regions that do not overlap, given by where they start and how long   *)
(* they are, the first one whose inclusive comparison accepts an address of *)
(* region i is region i, unless the address is its first and an earlier     *)
(* region of the table ends there.                                          *)
LEMMA FirstRegion ==
  ASSUME NEW K \in Nat, NEW start \in [1 .. K -> Nat], NEW size \in [1 .. K -> Nat],
         \A i, j \in 1 .. K : i # j => start[i] + size[i] <= start[j] \/ start[j] + size[j] <= start[i],
         NEW i \in 1 .. K, NEW o \in 0 .. size[i] - 1,
         ~(o = 0 /\ Ends(start, size, i))
  PROVE  First(Accepting(K, start, size, start[i] + o)) = i
<1> DEFINE hits == Accepting(K, start, size, start[i] + o)
<1>1. start[i] \in Nat /\ size[i] \in Nat /\ o \in Nat /\ o < size[i]
  OBVIOUS
<1>2. hits \in SUBSET Nat /\ i \in hits
  BY <1>1 DEF Accepting
<1>3. ASSUME NEW j \in hits, j < i PROVE FALSE
  <2>1. j \in 1 .. i - 1 /\ j \in 1 .. K /\ start[j] \in Nat /\ size[j] \in Nat
    BY <1>3 DEF Accepting
  <2>2. start[i] + o <= start[j] + size[j] /\ start[i] + o >= start[j]
    BY DEF Accepting
  <2>3. start[i] + size[i] <= start[j] \/ start[j] + size[j] <= start[i]
    BY <1>3, <2>1
  <2>4. start[j] + size[j] = start[i] /\ o = 0
    <3> DEFINE a == start[i]  b == start[j]  m == size[i]  k == size[j]
    <3>1. a \in Nat /\ b \in Nat /\ m \in Nat /\ k \in Nat /\ o \in Nat
      BY <1>1, <2>1
    <3>2. o < m /\ a + o <= b + k /\ a + o >= b /\ (a + m <= b \/ b + k <= a)
      BY <1>1, <2>2, <2>3
    <3> HIDE DEF a, b, m, k
    <3>3. b + k = a /\ o = 0
      BY <3>1, <3>2
    <3> QED BY <3>3 DEF a, b, m, k
  <2> QED BY <2>1, <2>4 DEF Ends
<1>4. \A j \in hits : i <= j
  BY <1>2, <1>3
<1> HIDE DEF hits
<1>5. First(hits) = i
  BY <1>2, <1>4, FirstIs
<1> QED BY <1>5 DEF hits

(* The fields of a region are numbers (struct vhost_user_mem_region). *)
LEMMA RegionTyped ==
  ASSUME NEW l \in Layouts
  PROVE  /\ Len(l) \in Nat /\ DOMAIN l = 1 .. Len(l)
         /\ \A j \in 1 .. Len(l) :
              /\ l[j].guest_address \in Nat /\ l[j].size \in Nat /\ l[j].user_address \in Nat
              /\ l[j].mmap \in Nat /\ l[j].off \in Nat
<1> DEFINE R == [guest_address : Nat, size : Nat, user_address : Nat, mmap : Nat, off : Nat]
<1>1. l \in Seq(R)
  BY LayoutAssumption
<1>2. Len(l) \in Nat /\ DOMAIN l = 1 .. Len(l)
  BY <1>1
<1>3. \A j \in 1 .. Len(l) : l[j] \in R
  <2> HIDE DEF R
  <2> QED BY <1>1
<1> QED BY <1>2, <1>3

(* gpa_to_hva leads from an address of the guest to where it is mapped. *)
LEMMA GuestTranslates ==
  ASSUME NEW l \in Layouts, NEW i \in DOMAIN l, NEW o \in 0 .. l[i].size - 1,
         ~(o = 0 /\ \E j \in 1 .. i - 1 : l[j].guest_address + l[j].size = l[i].guest_address)
  PROVE  gpa_to_hva(l, l[i].guest_address + o) = l[i].mmap + l[i].off + o
<1> DEFINE K == Len(l)
           start == [j \in 1 .. K |-> l[j].guest_address]
           size == [j \in 1 .. K |-> l[j].size]
           hits == Accepting(K, start, size, start[i] + o)
<1>1. K \in Nat /\ DOMAIN l = 1 .. K /\ i \in 1 .. K
  BY RegionTyped
<1>2. start \in [1 .. K -> Nat] /\ size \in [1 .. K -> Nat]
  BY RegionTyped
<1>3. \A j, k \in 1 .. K : j # k => start[j] + size[j] <= start[k] \/ start[k] + size[k] <= start[j]
  BY <1>1, DisjointAssumption
<1>4. o \in 0 .. size[i] - 1 /\ ~(o = 0 /\ Ends(start, size, i))
  <2>1. 1 .. i - 1 \subseteq 1 .. K
    BY <1>1
  <2> QED BY <1>1, <2>1 DEF Ends
<1>5. InGuest(l, l[i].guest_address + o) = hits
  BY <1>1 DEF InGuest, Accepting
<1>6. l[i].guest_address \in Nat /\ l[i].mmap \in Nat /\ l[i].off \in Nat /\ i # 0
  BY <1>1, RegionTyped
<1> HIDE DEF K, start, size
<1>7. First(hits) = i
  BY <1>1, <1>2, <1>3, <1>4, FirstRegion
<1> HIDE DEF hits
<1> QED BY <1>5, <1>6, <1>7 DEF gpa_to_hva, mmap_offset

(* gva_to_hva does the same for an address of qemu. *)
LEMMA UserTranslates ==
  ASSUME NEW l \in Layouts, NEW i \in DOMAIN l, NEW o \in 0 .. l[i].size - 1,
         ~(o = 0 /\ \E j \in 1 .. i - 1 : l[j].user_address + l[j].size = l[i].user_address)
  PROVE  gva_to_hva(l, l[i].user_address + o) = l[i].mmap + l[i].off + o
<1> DEFINE K == Len(l)
           start == [j \in 1 .. K |-> l[j].user_address]
           size == [j \in 1 .. K |-> l[j].size]
           hits == Accepting(K, start, size, start[i] + o)
<1>1. K \in Nat /\ DOMAIN l = 1 .. K /\ i \in 1 .. K
  BY RegionTyped
<1>2. start \in [1 .. K -> Nat] /\ size \in [1 .. K -> Nat]
  BY RegionTyped
<1>3. \A j, k \in 1 .. K : j # k => start[j] + size[j] <= start[k] \/ start[k] + size[k] <= start[j]
  BY <1>1, DisjointAssumption
<1>4. o \in 0 .. size[i] - 1 /\ ~(o = 0 /\ Ends(start, size, i))
  <2>1. 1 .. i - 1 \subseteq 1 .. K
    BY <1>1
  <2> QED BY <1>1, <2>1 DEF Ends
<1>5. InUser(l, l[i].user_address + o) = hits
  BY <1>1 DEF InUser, Accepting
<1>6. /\ l[i].guest_address \in Nat /\ l[i].mmap \in Nat /\ l[i].off \in Nat
      /\ l[i].user_address \in Nat /\ i # 0
  BY <1>1, RegionTyped
<1> HIDE DEF K, start, size
<1>7. First(hits) = i
  BY <1>1, <1>2, <1>3, <1>4, FirstRegion
<1> HIDE DEF hits
<1> QED BY <1>5, <1>6, <1>7 DEF gva_to_hva, mmap_offset

(* The memory table of a backend never changes after it was received. *)
LEMMA LayoutKept ==
  ASSUME [Next]_vars
  PROVE  layout' = layout /\ shape' = shape
BY DEF vars, Next, Handler, GetFeatures, Noted, SetFeatures, SetOwner, SetMemTable, SetVringNum,
     SetVringBase, SetVringAddr, SetVringCall, VnetUnchanged, Disconnect, VnetStart, VnetRaw,
     NetTxOk, NetTxFail, NetTx, NetTxCrash, NetRx, NetRxEarly, NoMbuf, NotWritable, Guest, TakeBack,
     Interrupt, OfferRx, OfferTx, Publish,
     FrameArrives

(* Both translations lead to where the memory of a region is mapped, for    *)
(* every memory table, but for the first address of a region that begins    *)
(* where an earlier one ends.                                               *)
THEOREM TranslationRight == Spec => []Translates
<1>1. Init => layout \in Layouts
  BY DEF Init
<1>2. layout \in Layouts /\ [Next]_vars => (layout \in Layouts)'
  BY LayoutKept
<1>3. layout \in Layouts => Translates
  <2> SUFFICES ASSUME layout \in Layouts, NEW i \in DOMAIN layout, NEW o \in 0 .. layout[i].size - 1
               PROVE  /\ \/ gva_to_hva(layout, layout[i].user_address + o)
                              = layout[i].mmap + layout[i].off + o
                         \/ o = 0 /\ \E j \in 1 .. i - 1 :
                              layout[j].user_address + layout[j].size = layout[i].user_address
                      /\ \/ gpa_to_hva(layout, layout[i].guest_address + o)
                              = layout[i].mmap + layout[i].off + o
                         \/ o = 0 /\ \E j \in 1 .. i - 1 :
                              layout[j].guest_address + layout[j].size = layout[i].guest_address
    BY DEF Translates, Seam
  <2> QED BY GuestTranslates, UserTranslates
<1> QED BY <1>1, <1>2, <1>3, PTL DEF Spec

-----------------------------------------------------------------------------
(* The order of the setup *)

\* What of the queues is set up, by the message qemu is at: queue 0 is complete
\* before any address of queue 1 is there, and vhost_tx waits for those.
SetupInv ==
  /\ qpc > 7 => vq[Rx].num
  /\ qpc > 9 => vq[Rx].avail /\ vq[Rx].used
  /\ qpc > 11 => vq[Tx].num
  /\ vq[Rx].avail => qpc > 9 \/ (qpc = 9 /\ step = 2)
  /\ vq[Tx].desc => qpc >= 13
  /\ filled # <<>> => vq[Rx].avail
  /\ pc = "rx" \/ stale \/ taken # <<>> => vq[Tx].desc
  /\ fault # "tx" /\ (fault = "rx" => pc = "rxonly")

\* The part of the types the setup needs.
SetupTypeOK ==
  /\ qpc \in 1 .. 16 /\ step \in 0 .. 2
  /\ vq \in [Queue -> [desc : BOOLEAN, avail : BOOLEAN, used : BOOLEAN, num : BOOLEAN]]

(* Where the messages of a virtqueue are in what qemu says. *)
LEMMA ScriptIs ==
  /\ Len(Script) = 16 /\ Script[16].request = "GET_VRING_BASE"
  /\ \A k \in 1 .. 16 :
       /\ Script[k].index = IF k \in 11 .. 14 THEN 1 ELSE 0
       /\ Script[k].request = "SET_VRING_NUM" <=> k \in {7, 11}
       /\ Script[k].request = "SET_VRING_BASE" <=> k \in {8, 12}
       /\ Script[k].request = "SET_VRING_ADDR" <=> k \in {9, 13}
BY DEF Script, PerQueue, Message, Rx, Tx

(* The same, as the handlers see it. *)
LEMMA AskedAt ==
  ASSUME SetupTypeOK, NEW r, Asks(r), r # "GET_VRING_BASE"
  PROVE  /\ qpc \in 1 .. 15 /\ Index = (IF qpc \in 11 .. 14 THEN 1 ELSE 0)
         /\ r = "SET_VRING_NUM" <=> qpc \in {7, 11}
         /\ r = "SET_VRING_BASE" <=> qpc \in {8, 12}
         /\ r = "SET_VRING_ADDR" <=> qpc \in {9, 13}
<1>1. qpc \in 1 .. 16 /\ Script[qpc].request = r
  BY DEF Asks, SetupTypeOK
<1>2. qpc # 16
  BY <1>1, ScriptIs
<1> QED BY <1>1, <1>2, ScriptIs DEF Index

(* The main thread's handlers keep the order. *)
LEMMA HandlerKeepsSetup ==
  ASSUME SetupTypeOK, SetupInv, Handler
  PROVE  SetupTypeOK' /\ SetupInv'
<1> USE DEF SetupTypeOK, SetupInv, VnetUnchanged, past, Done, Half, Queue, Rx, Tx
<1>0. UNCHANGED <<pc, taken, stale, filled, fault>>
  BY DEF Handler, GetFeatures, Noted, SetFeatures, SetOwner, SetMemTable, SetVringNum,
       SetVringBase, SetVringAddr, SetVringCall
<1>1. CASE GetFeatures
  BY <1>1, AskedAt DEF GetFeatures
<1>2. CASE Noted
  BY <1>2, AskedAt DEF Noted
<1>3. CASE SetFeatures
  BY <1>3, AskedAt DEF SetFeatures
<1>4. CASE SetOwner
  BY <1>4, AskedAt, SMTT(30) DEF SetOwner
<1>5. CASE SetMemTable
  BY <1>5, AskedAt DEF SetMemTable
<1>6. CASE SetVringNum
  <2>1. qpc \in {7, 11} /\ Index = (IF qpc = 7 THEN 0 ELSE 1)
    BY <1>6, AskedAt DEF SetVringNum
  <2>2. vq' = [vq EXCEPT ![Index] = [vq[Index] EXCEPT !.num = TRUE]] /\ qpc' = qpc + 1 /\ step' = 0
    BY <1>6 DEF SetVringNum
  <2>3. vq' \in [Queue -> [desc : BOOLEAN, avail : BOOLEAN, used : BOOLEAN, num : BOOLEAN]]
    BY <2>1, <2>2, ZenonT(60)
  <2>4. CASE qpc = 7
    <3>1. vq'[1] = vq[1] /\ vq'[0].num /\ vq'[0].avail = vq[0].avail
      BY <2>1, <2>2, <2>4
    <3> QED BY <1>0, <2>2, <2>3, <2>4, <3>1
  <2>5. CASE qpc = 11
    <3>1. vq'[0] = vq[0] /\ vq'[1].num /\ vq'[1].desc = vq[1].desc
      BY <2>1, <2>2, <2>5
    <3> QED BY <1>0, <2>2, <2>3, <2>5, <3>1
  <2> QED BY <2>1, <2>4, <2>5
<1>7. CASE SetVringBase
  BY <1>7, AskedAt DEF SetVringBase
<1>8. CASE SetVringAddr
  <2>1. qpc \in {9, 13} /\ Index = (IF qpc = 9 THEN 0 ELSE 1)
    BY <1>8, AskedAt DEF SetVringAddr
  <2>2. vq' = [vq EXCEPT ![Index] = [desc |-> TRUE, avail |-> step > 0, used |-> step > 1,
                                     num |-> vq[Index].num]]
    BY <1>8 DEF SetVringAddr
  <2>3. IF step < 2 THEN qpc' = qpc /\ step' = step + 1 ELSE qpc' = qpc + 1 /\ step' = 0
    BY <1>8 DEF SetVringAddr
  <2>4. vq' \in [Queue -> [desc : BOOLEAN, avail : BOOLEAN, used : BOOLEAN, num : BOOLEAN]]
    BY <2>1, <2>2
  <2>5. CASE qpc = 9
    <3>1. /\ vq'[1] = vq[1] /\ vq'[0].num = vq[0].num
          /\ vq'[0].avail = (step > 0) /\ vq'[0].used = (step > 1)
      BY <2>1, <2>2, <2>5
    <3>2. filled # <<>> => step = 2
      BY <2>5
    <3>3. IF step < 2 THEN qpc' = 9 /\ step' = step + 1 ELSE qpc' = 10 /\ step' = 0
      BY <2>3, <2>5
    <3>4. ~vq[1].desc /\ vq[0].num /\ ~(pc = "rx" \/ stale \/ taken # <<>>)
      BY <2>5
    <3>5. step \in 0 .. 2 /\ fault # "tx" /\ (fault = "rx" => pc = "rxonly")
      OBVIOUS
    <3> QED BY <1>0, <2>4, <3>1, <3>2, <3>3, <3>4, <3>5, SMTT(30)
  <2>6. CASE qpc = 13
    <3>1. vq'[0] = vq[0] /\ vq'[1].num = vq[1].num
      BY <2>1, <2>2, <2>6
    <3>2. vq'[1].desc
      BY <2>1, <2>2, <2>6
    <3>3. IF step < 2 THEN qpc' = 13 /\ step' = step + 1 ELSE qpc' = 14 /\ step' = 0
      BY <2>3, <2>6
    <3>4. vq[0].num /\ vq[0].avail /\ vq[0].used /\ vq[1].num
      BY <2>6
    <3>5. step \in 0 .. 2 /\ fault # "tx" /\ (fault = "rx" => pc = "rxonly")
      OBVIOUS
    <3> QED BY <1>0, <2>4, <3>1, <3>2, <3>3, <3>4, <3>5, SMTT(30)
  <2> QED BY <2>1, <2>5, <2>6
<1>9. CASE SetVringCall
  BY <1>9, AskedAt, SMTT(30) DEF SetVringCall
<1> QED BY <1>1, <1>2, <1>3, <1>4, <1>5, <1>6, <1>7, <1>8, <1>9 DEF Handler

(* The other steps do not touch the setup, and the vnet thread reads frames *)
(* too early only if it could not write.                                    *)
LEMMA OthersKeepSetup ==
  ASSUME SetupTypeOK, SetupInv, [Next]_vars, ~Handler
  PROVE  SetupTypeOK' /\ SetupInv'
<1> USE DEF SetupTypeOK, SetupInv, Queue, Rx, Tx, setup, past
<1>1. CASE UNCHANGED vars
  BY <1>1 DEF vars
<1>2. CASE Disconnect \/ VnetStart \/ VnetRaw \/ NoMbuf \/ NotWritable
  BY <1>2 DEF Disconnect, VnetStart, VnetRaw, NoMbuf, NotWritable
<1>3. CASE Guest \/ FrameArrives
  <2>1. UNCHANGED <<setup, pc, taken, stale, filled, fault>>
    BY <1>3 DEF Guest, TakeBack, Interrupt, OfferRx, OfferTx, Publish, FrameArrives
  <2> QED BY <2>1
<1>4. CASE NetTxOk \/ NetTxFail
  <2>1. vq[Tx].desc /\ UNCHANGED <<setup, filled, fault>> /\ fault = "none"
    BY <1>4 DEF NetTxOk, NetTxFail, NetTx, TxReady
  <2> QED BY <2>1
<1>5. CASE NetTxCrash
  <2>1. vq[Tx].desc /\ UNCHANGED <<setup, pc, taken, stale, filled>>
    BY <1>5 DEF NetTxCrash, TxReady
  <2>2. fault' = IF vq[Tx].num THEN "copy" ELSE "tx"
    BY <1>5 DEF NetTxCrash
  <2> QED BY <2>1, <2>2
<1>6. CASE NetRx
  <2>1. pc' = "poll" /\ UNCHANGED <<setup, taken, stale, fault>> /\ fault = "none"
    BY <1>6 DEF NetRx, Receives
  <2>2. filled' = filled \/ vq[Rx].avail
    BY <1>6 DEF NetRx, RxReady
  <2> QED BY <2>1, <2>2
<1>7. CASE NetRxEarly
  <2>1. pc \in {"rx", "rxonly"} /\ ~RxReady /\ fault' = "rx" /\ UNCHANGED <<setup, pc, past>>
    BY <1>7 DEF NetRxEarly, Receives
  <2>2. pc = "rx" => vq[Rx].avail /\ vq[Rx].used /\ vq[Rx].num
    OBVIOUS
  <2>3. pc = "rxonly"
    BY <2>1, <2>2 DEF RxReady
  <2> QED BY <2>1, <2>3
<1> QED BY <1>1, <1>2, <1>3, <1>4, <1>5, <1>6, <1>7 DEF Next

(* vhost_tx never uses queue 1 before it is set up, nor vhost_rx queue 0 in *)
(* a round in which vhost_tx went first: that queue 1 is complete tells     *)
(* that queue 0 is.                                                         *)
THEOREM QueuesSetUp == Spec => []SetupSafe
<1>1. Init => SetupTypeOK /\ SetupInv
  BY DEF Init, SetupTypeOK, SetupInv, NoQueue, Queue, Rx, Tx
<1>2. SetupTypeOK /\ SetupInv /\ [Next]_vars => SetupTypeOK' /\ SetupInv'
  BY HandlerKeepsSetup, OthersKeepSetup
<1>3. SetupTypeOK /\ SetupInv => SetupSafe
  BY DEF SetupInv, SetupSafe
<1> QED BY <1>1, <1>2, <1>3, PTL DEF Spec

-----------------------------------------------------------------------------
(* What vhost_rx does with frames and buffers *)

\* vhost_rx is at the buffer after the ones it has filled; the entries of the
\* avail ring that are not used up are the buffers offered last.
RingInv ==
  /\ last[Rx] = Len(filled) /\ Len(filled) <= npub[Rx]
  /\ seen[Rx] <= Len(filled) /\ npub[Rx] - seen[Rx] <= Num
  /\ \A k \in 1 .. npub[Rx] : k + Num > npub[Rx] => avail[Rx][(k - 1) % Num] = k
  /\ \A k \in 1 .. Len(filled) : filled[k].buffer = k

\* The frames in the tap are in order and newer than those delivered.
FrameInv ==
  /\ \A j, k \in 1 .. Len(tap) : j < k => tap[j] < tap[k]
  /\ \A j \in 1 .. Len(filled) : filled[j].frame <= nframe
  /\ shape = "two" =>
       /\ \A j, k \in 1 .. Len(filled) : j < k => filled[j].frame < filled[k].frame
       /\ \A j \in 1 .. Len(filled), k \in 1 .. Len(tap) : filled[j].frame < tap[k]

\* What is known of a delivery.
Entry == [buffer : Nat, frame : Nat]
\* The types, by the steps that change the variables.
RingTypeOK ==
  /\ last \in [Queue -> Nat] /\ last[Tx] < Num /\ uidx \in [Queue -> 0 .. IdxSpace - 1]
  /\ npub \in [Queue -> Nat] /\ seen \in [Queue -> Nat]
  /\ avail \in [Queue -> [0 .. Num - 1 -> Nat]] /\ used \in [Queue -> [0 .. Num - 1 -> Nat]]
  /\ \A q \in Queue : npub[q] <= MaxPub[q]
  /\ \A k \in 0 .. Num - 1 : /\ avail[Rx][k] <= npub[Rx] /\ used[Rx][k] <= npub[Rx]
                            /\ avail[Tx][k] < Num /\ used[Tx][k] < Num
TapTypeOK ==
  /\ tap \in Seq(Nat) /\ nframe \in Nat /\ nframe <= MaxFrames
  /\ \A k \in 1 .. Len(tap) : tap[k] # 0 /\ tap[k] <= nframe
  /\ filled \in Seq(Entry)
RestTypeOK ==
  /\ layout \in Layouts /\ shape \in Shapes
  /\ features \in BOOLEAN /\ virtiodev \in {"none", "raw", "zeroed"} /\ mem \in BOOLEAN
  /\ call \in {"unset", "masked", "closed", "guest"} /\ pc \in {"wait", "poll", "rx", "rxonly"}
  /\ irq \in BOOLEAN /\ broken \in BOOLEAN /\ told \in BOOLEAN
  /\ fails \in 0 .. MaxFail /\ fault \in {"none", "exit", "raw", "tx", "rx", "copy"}

\* The invariant of the net backend.
RxInv == RingTypeOK /\ TapTypeOK /\ RingInv /\ FrameInv
NetInv == SetupTypeOK /\ SetupInv /\ RestTypeOK /\ RxInv

(* The sizes are numbers. *)
LEMMA Sizes ==
  /\ Num \in Nat /\ Num > 0 /\ IdxSpace \in Nat /\ IdxSpace > 0
  /\ MaxFrames \in Nat /\ MaxFail \in Nat /\ MaxPub[0] \in Nat /\ MaxPub[1] \in Nat
BY SizeAssumption

(* There are two queues. *)
LEMMA Queues == 0 \in Queue /\ 1 \in Queue /\ \A q \in Queue : q = 0 \/ q = 1
BY DEF Queue

(* Two numbers less than num apart have different places in a ring. *)
LEMMA SlotsDiffer ==
  ASSUME NEW a \in Nat, NEW b \in Nat, b < a, a < b + Num
  PROVE  a % Num # b % Num
<1> USE Sizes
<1> DEFINE q == a \div Num
           r == b \div Num
<1>1. q \in Int /\ r \in Int /\ a = Num * q + (a % Num) /\ b = Num * r + (b % Num)
  OBVIOUS
<1>2. SUFFICES ASSUME a % Num = b % Num PROVE FALSE
  OBVIOUS
<1>3. a - b = Num * (q - r)
  BY <1>1, <1>2
<1> HIDE DEF q, r
<1>4. CASE q - r <= 0
  BY <1>1, <1>3, <1>4
<1>5. CASE q - r >= 1
  BY <1>1, <1>3, <1>5
<1> QED BY <1>1, <1>4, <1>5

(* A number has a place in a ring, and the index of a ring is a value of    *)
(* the index's width.                                                       *)
LEMMA PlaceInRing ==
  ASSUME NEW a \in Nat
  PROVE  /\ a % Num \in 0 .. Num - 1 /\ a % IdxSpace \in 0 .. IdxSpace - 1
         /\ a % IdxSpace <= a /\ (a < IdxSpace => a % IdxSpace = a)
BY Sizes

(* The handlers set last_used_idx only before any frame was received. *)
LEMMA HandlerKeeps ==
  ASSUME NetInv, Handler
  PROVE  RxInv' /\ RestTypeOK'
<1> USE Sizes, Queues DEF Rx, Tx
<1>1. SetupTypeOK /\ SetupInv
  BY DEF NetInv
<1>3. UNCHANGED <<layout, shape, pc, uidx, used, avail, npub, desc, busy, seen, irq, broken, tap, nframe,
                  taken, stale, filled, told, fails, fault>>
  BY DEF Handler, GetFeatures, Noted, SetFeatures, SetOwner, SetMemTable, SetVringNum,
       SetVringBase, SetVringAddr, SetVringCall, VnetUnchanged, guest, past
<1>4. last' = last \/ last' = [last EXCEPT ![1] = 0]
  <2>1. CASE SetVringBase
    <3>1. qpc \in {8, 12} /\ Index = (IF qpc = 8 THEN 0 ELSE 1)
      BY <1>1, <2>1, AskedAt DEF SetVringBase
    <3>2. last' = [last EXCEPT ![Index] = 0]
      BY <2>1 DEF SetVringBase
    <3>4. CASE qpc = 8
      <4>1. filled = <<>>
        BY <1>1, <3>4 DEF SetupInv
      <4>2. last[0] = Len(filled)
        BY DEF NetInv, RxInv, RingInv
      <4>3. last \in [Queue -> Nat]
        BY DEF NetInv, RxInv, RingTypeOK
      <4>4. last' = [last EXCEPT ![0] = 0]
        BY <3>1, <3>2, <3>4
      <4>5. [last EXCEPT ![0] = 0] = last
        BY <4>1, <4>2, <4>3
      <4> QED BY <4>4, <4>5
    <3> QED BY <3>1, <3>2, <3>4
  <2> QED BY <2>1 DEF Handler, GetFeatures, Noted, SetFeatures, SetOwner, SetMemTable, SetVringNum,
            SetVringAddr, SetVringCall
<1>5. last' \in [Queue -> Nat] /\ last'[0] = last[0] /\ last'[1] < Num
  <2>1. last \in [Queue -> Nat] /\ last[1] < Num
    BY DEF NetInv, RxInv, RingTypeOK
  <2>2. CASE last' = [last EXCEPT ![1] = 0]
    <3>1. last' \in [Queue -> Nat]
      BY <2>1, <2>2
    <3>2. last'[0] = last[0] /\ last'[1] = 0
      BY <2>1, <2>2
    <3> QED BY <3>1, <3>2
  <2> QED BY <1>4, <2>1, <2>2
<1>6. RestTypeOK'
  <2> USE DEF RestTypeOK
  <2>1. RestTypeOK
    BY DEF NetInv
  <2>2. CASE GetFeatures \/ Noted \/ SetVringNum \/ SetVringBase \/ SetVringAddr
    BY <1>3, <2>1, <2>2 DEF GetFeatures, Noted, SetVringNum, SetVringBase, SetVringAddr
  <2>3. CASE SetFeatures \/ SetOwner \/ SetMemTable
    <3>1. /\ features' \in {features, FALSE} /\ mem' \in {mem, TRUE} /\ call' = call
          /\ virtiodev' \in {virtiodev, "raw", "zeroed"}
      BY <2>3 DEF SetFeatures, SetOwner, SetMemTable
    <3>2. features \in BOOLEAN /\ mem \in BOOLEAN /\ virtiodev \in {"none", "raw", "zeroed"}
      BY <2>1
    <3>3. features' \in BOOLEAN
      BY <3>1, <3>2
    <3>4. mem' \in BOOLEAN
      BY <3>1, <3>2
    <3>5. virtiodev' \in {"none", "raw", "zeroed"} /\ call' = call
      BY <3>1, <3>2
    <3> QED BY <1>3, <2>1, <3>3, <3>4, <3>5
  <2>4. CASE SetVringCall
    BY <1>3, <2>1, <2>4 DEF SetVringCall
  <2> QED BY <2>2, <2>3, <2>4 DEF Handler
<1>7. RingTypeOK' /\ TapTypeOK'
  BY <1>3, <1>5 DEF NetInv, RxInv, RingTypeOK, TapTypeOK
<1>8. RingInv' /\ FrameInv'
  BY <1>3, <1>5 DEF NetInv, RxInv, RingInv, FrameInv
<1> QED BY <1>6, <1>7, <1>8 DEF RxInv

(* vhost_tx hands back entries of queue 1 and leaves queue 0 alone. *)
LEMMA NetTxKeeps ==
  ASSUME NetInv, NetTxOk \/ NetTxFail
  PROVE  RxInv' /\ RestTypeOK'
<1> USE Sizes, Queues DEF Rx, Tx
<1> DEFINE slot == last[1]
           d == avail[1][slot]
<1>1. PICK written \in BOOLEAN : NetTx(written) /\ (written \/ fails < MaxFail)
  BY DEF NetTxOk, NetTxFail
<1>2. RingTypeOK
  BY DEF NetInv, RxInv
<1>3. UNCHANGED <<layout, shape, features, virtiodev, mem, call, avail, npub, seen,
                  irq, broken, tap, nframe, filled, told, fault>>
  BY <1>1 DEF NetTx, setup, guest
<1>4. slot \in 0 .. Num - 1 /\ d \in Nat /\ d < Num
  <2>1. last \in [Queue -> Nat] /\ last[1] < Num
    BY <1>2 DEF RingTypeOK
  <2>2. slot \in 0 .. Num - 1
    BY <2>1
  <2>3. avail[1] \in [0 .. Num - 1 -> Nat]
    BY <1>2 DEF RingTypeOK
  <2>4. \A k \in 0 .. Num - 1 : avail[1][k] < Num
    BY <1>2 DEF RingTypeOK
  <2> QED BY <2>2, <2>3, <2>4
<1>5. /\ used' = [used EXCEPT ![1] = [used[1] EXCEPT ![slot] = d]]
      /\ last' = [last EXCEPT ![1] = (slot + 1) % Num]
      /\ uidx' = [uidx EXCEPT ![1] = (uidx[1] + 1) % IdxSpace]
  BY <1>1 DEF NetTx, TxNext, TxEntry
<1>6. (slot + 1) % Num \in 0 .. Num - 1 /\ (uidx[1] + 1) % IdxSpace \in 0 .. IdxSpace - 1
  <2>1. slot + 1 \in Nat
    BY <1>4
  <2>2. uidx \in [Queue -> 0 .. IdxSpace - 1]
    BY <1>2 DEF RingTypeOK
  <2>3. uidx[1] + 1 \in Nat
    BY <2>2
  <2> QED BY <2>1, <2>3, PlaceInRing
<1> HIDE DEF slot, d
<1>8. /\ used' \in [Queue -> [0 .. Num - 1 -> Nat]]
      /\ \A k \in 0 .. Num - 1 : used'[0][k] <= npub[0] /\ used'[1][k] < Num
  <2> DEFINE row == [used[1] EXCEPT ![slot] = d]
  <2>1. used \in [Queue -> [0 .. Num - 1 -> Nat]] /\ used[1] \in [0 .. Num - 1 -> Nat]
        /\ \A k \in 0 .. Num - 1 : used[0][k] <= npub[0] /\ used[1][k] < Num
    BY <1>2 DEF RingTypeOK
  <2>2. row \in [0 .. Num - 1 -> Nat] /\ \A k \in 0 .. Num - 1 : row[k] < Num
    BY <1>4, <2>1
  <2>3. used' = [used EXCEPT ![1] = row]
    BY <1>5
  <2> HIDE DEF row
  <2>4. used' \in [Queue -> [0 .. Num - 1 -> Nat]]
    BY <2>1, <2>2, <2>3
  <2>5. used'[0] = used[0] /\ used'[1] = row
    BY <2>1, <2>2, <2>3
  <2> QED BY <2>1, <2>2, <2>4, <2>5
<1>9. last' \in [Queue -> Nat] /\ last'[0] = last[0] /\ last'[1] < Num
  <2> DEFINE m == (slot + 1) % Num
  <2>1. last \in [Queue -> Nat]
    BY <1>2 DEF RingTypeOK
  <2>2. m \in Nat /\ m < Num /\ last' = [last EXCEPT ![1] = m]
    BY <1>5, <1>6
  <2> HIDE DEF m
  <2>3. last' \in [Queue -> Nat]
    BY <2>1, <2>2
  <2>4. last'[0] = last[0] /\ last'[1] = m
    BY <2>1, <2>2
  <2> QED BY <2>2, <2>3, <2>4
<1>10. uidx' \in [Queue -> 0 .. IdxSpace - 1]
  BY <1>2, <1>5, <1>6 DEF RingTypeOK
<1>12. RingTypeOK'
  BY <1>2, <1>3, <1>8, <1>9, <1>10 DEF RingTypeOK
<1>13. fails' \in 0 .. MaxFail /\ pc' \in {"rx", "poll"}
  BY <1>1 DEF NetTx, NetInv, RestTypeOK
<1>14. RestTypeOK'
  BY <1>3, <1>13 DEF NetInv, RestTypeOK
<1>15. TapTypeOK' /\ RingInv' /\ FrameInv'
  BY <1>3, <1>9 DEF NetInv, RxInv, RingInv, FrameInv, TapTypeOK
<1> QED BY <1>12, <1>14, <1>15 DEF RxInv

(* The frame at the head of the tap goes to the end of what was delivered. *)
LEMMA TailIs ==
  ASSUME NEW t \in Seq(Nat), t # <<>>
  PROVE  /\ Len(t) \in Nat /\ Len(t) > 0 /\ Tail(t) \in Seq(Nat) /\ Len(Tail(t)) = Len(t) - 1
         /\ \A k \in 1 .. Len(t) - 1 : Tail(t)[k] = t[k + 1] /\ k + 1 \in 1 .. Len(t)
         /\ Head(t) = t[1] /\ t[1] \in Nat
OBVIOUS

(* What the tap holds without its first frame is still in order. *)
LEMMA TailInOrder ==
  ASSUME NEW t \in Seq(Nat), t # <<>>, NEW m \in Nat,
         \A j, k \in 1 .. Len(t) : j < k => t[j] < t[k],
         \A k \in 1 .. Len(t) : t[k] # 0 /\ t[k] <= m
  PROVE  /\ \A j, k \in 1 .. Len(Tail(t)) : j < k => Tail(t)[j] < Tail(t)[k]
         /\ \A k \in 1 .. Len(Tail(t)) : Tail(t)[k] # 0 /\ Tail(t)[k] <= m /\ t[1] < Tail(t)[k]
<1> DEFINE u == Tail(t)
<1>1. /\ Len(t) \in Nat /\ Len(t) > 0 /\ Len(u) = Len(t) - 1
      /\ \A k \in 1 .. Len(u) : u[k] = t[k + 1] /\ k + 1 \in 1 .. Len(t)
  BY TailIs
<1> HIDE DEF u
<1>2. ASSUME NEW j \in 1 .. Len(u), NEW k \in 1 .. Len(u), j < k PROVE u[j] < u[k]
  <2>1. j + 1 \in 1 .. Len(t) /\ k + 1 \in 1 .. Len(t) /\ j + 1 < k + 1
    BY <1>1, <1>2
  <2> QED BY <1>1, <2>1
<1>3. ASSUME NEW k \in 1 .. Len(u) PROVE u[k] # 0 /\ u[k] <= m /\ t[1] < u[k]
  <2>1. k + 1 \in 1 .. Len(t) /\ 1 \in 1 .. Len(t) /\ 1 < k + 1
    BY <1>1
  <2> QED BY <1>1, <2>1
<1> QED BY <1>2, <1>3 DEF u

(* One more delivery keeps the numbering and the order of the others. *)
LEMMA Delivered ==
  ASSUME NEW f \in Seq(Entry), NEW e \in Entry, NEW m \in Nat,
         \A k \in 1 .. Len(f) : f[k].buffer = k /\ f[k].frame <= m,
         e.buffer = Len(f) + 1, e.frame <= m
  PROVE  /\ Append(f, e) \in Seq(Entry) /\ Len(Append(f, e)) = Len(f) + 1
         /\ Append(f, e)[Len(f) + 1] = e /\ \A k \in 1 .. Len(f) : Append(f, e)[k] = f[k]
         /\ \A k \in 1 .. Len(f) + 1 : Append(f, e)[k].buffer = k /\ Append(f, e)[k].frame <= m
         /\ (\A j, k \in 1 .. Len(f) : j < k => f[j].frame < f[k].frame)
            /\ (\A j \in 1 .. Len(f) : f[j].frame < e.frame)
            => \A j, k \in 1 .. Len(f) + 1 : j < k => Append(f, e)[j].frame < Append(f, e)[k].frame
<1> DEFINE g == Append(f, e)
           L == Len(f)
<1>1. /\ g \in Seq(Entry) /\ L \in Nat /\ Len(g) = L + 1
      /\ g[L + 1] = e /\ \A k \in 1 .. L : g[k] = f[k]
  OBVIOUS
<1>2. L \in Nat /\ \A k \in 1 .. L + 1 : k = L + 1 \/ k \in 1 .. L
  BY <1>1
<1> HIDE DEF g, L
<1>3. \A k \in 1 .. L + 1 : g[k].buffer = k /\ g[k].frame <= m
  BY <1>1, <1>2 DEF L
<1>4. ASSUME \A j, k \in 1 .. L : j < k => f[j].frame < f[k].frame,
             \A j \in 1 .. L : f[j].frame < e.frame,
             NEW j \in 1 .. L + 1, NEW k \in 1 .. L + 1, j < k
      PROVE  g[j].frame < g[k].frame
  <2>1. j \in 1 .. L
    BY <1>2, <1>4
  <2>2. CASE k = L + 1
    BY <1>1, <1>4, <2>1, <2>2
  <2>3. CASE k \in 1 .. L
    BY <1>1, <1>4, <2>1, <2>3
  <2> QED BY <1>2, <2>2, <2>3
<1> QED BY <1>1, <1>3, <1>4 DEF g, L

(* vhost_rx fills the buffer the guest offered first among those not yet    *)
(* filled, with the frame that came first.                                  *)
LEMMA NetRxKeeps ==
  ASSUME NetInv, NetRx
  PROVE  RxInv' /\ RestTypeOK'
<1> USE Sizes, Queues DEF Rx, Tx
<1> DEFINE L == Len(filled)
           slot == L % Num
           b == avail[0][slot]
           e == [buffer |-> b, frame |-> IF shape = "two" THEN Head(tap) ELSE 0]
<1>1. RingTypeOK /\ TapTypeOK /\ RingInv /\ FrameInv /\ RestTypeOK
  BY DEF NetInv, RxInv
<1>2. UNCHANGED <<layout, shape, features, virtiodev, mem, vq, call, avail, npub, seen, broken,
                  nframe, fails, fault>> /\ pc' = "poll"
  BY DEF NetRx, setup
<1>3. L \in Nat /\ last[0] = L /\ L <= npub[0] /\ npub[0] \in Nat /\ seen[0] \in Nat
  BY <1>1 DEF RingTypeOK, TapTypeOK, RingInv
<1>4. RestTypeOK'
  <2>1. irq' \in {irq, TRUE} /\ told' \in BOOLEAN
    <3>1. told \in BOOLEAN
      BY <1>1 DEF RestTypeOK
    <3> QED BY <3>1 DEF NetRx
  <2> QED BY <1>1, <1>2, <2>1 DEF RestTypeOK
<1>5. CASE UNCHANGED <<last, uidx, used, filled>> /\ (tap' = tap \/ (tap # <<>> /\ tap' = Tail(tap)))
  <2>1. RingTypeOK' /\ RingInv'
    BY <1>1, <1>2, <1>5 DEF RingTypeOK, RingInv
  <2>2. CASE tap' = tap
    BY <1>1, <1>2, <1>5, <2>1, <2>2, <1>4 DEF TapTypeOK, FrameInv, RxInv
  <2>3. CASE tap # <<>> /\ tap' = Tail(tap)
    <3>1. TapTypeOK'
      BY <1>1, <1>2, <1>5, <2>3, TailIs, TailInOrder DEF TapTypeOK, FrameInv
    <3>2. FrameInv'
      <4>1. /\ \A j, k \in 1 .. Len(tap') : j < k => tap'[j] < tap'[k]
            /\ \A k \in 1 .. Len(tap') : k + 1 \in 1 .. Len(tap) /\ tap'[k] = tap[k + 1]
        BY <1>1, <2>3, TailIs, TailInOrder DEF TapTypeOK, FrameInv
      <4> QED BY <1>1, <1>2, <1>5, <4>1 DEF FrameInv
    <3> QED BY <1>4, <2>1, <3>1, <3>2 DEF RxInv
  <2> QED BY <1>5, <2>2, <2>3
<1>6. CASE /\ tap # <<>> /\ tap' = Tail(tap) /\ L < npub[0]
           /\ used' = [used EXCEPT ![0] = [used[0] EXCEPT ![slot] = b]]
           /\ last' = [last EXCEPT ![0] = L + 1]
           /\ uidx' = [uidx EXCEPT ![0] = (uidx[0] + 1) % IdxSpace]
           /\ filled' = Append(filled, e)
  <2>1. slot \in 0 .. Num - 1 /\ b = L + 1
    <3>1. slot \in 0 .. Num - 1
      BY <1>3, PlaceInRing
    <3>2. L + 1 \in 1 .. npub[0] /\ (L + 1) + Num > npub[0] /\ (L + 1) - 1 = L
      BY <1>1, <1>3, <1>6, SMTT(30) DEF RingInv
    <3>3. avail[0][((L + 1) - 1) % Num] = L + 1
      BY <1>1, <3>2 DEF RingInv
    <3> QED BY <3>1, <3>2, <3>3
  <2>2. tap \in Seq(Nat) /\ nframe \in Nat /\ filled \in Seq(Entry)
    BY <1>1 DEF TapTypeOK
  <2>3. Len(tap) \in Nat /\ 1 \in 1 .. Len(tap) /\ Head(tap) = tap[1] /\ tap[1] \in Nat
        /\ tap[1] <= nframe
    <3>1. Len(tap) \in Nat /\ Len(tap) > 0 /\ Head(tap) = tap[1] /\ tap[1] \in Nat
      BY <1>6, <2>2, TailIs
    <3> QED BY <1>1, <3>1 DEF TapTypeOK
  <2>4. e \in Entry /\ e.buffer = L + 1 /\ e.frame <= nframe /\ (shape = "two" => e.frame = tap[1])
    BY <1>3, <2>1, <2>2, <2>3 DEF Entry
  <2> HIDE DEF e, slot, b, L
  <2>5. \A k \in 1 .. L : filled[k].buffer = k /\ filled[k].frame <= nframe
    BY <1>1 DEF RingInv, FrameInv, L
  <2>6. /\ filled' \in Seq(Entry) /\ Len(filled') = L + 1
        /\ filled'[L + 1] = e /\ \A k \in 1 .. L : filled'[k] = filled[k]
        /\ \A k \in 1 .. L + 1 : filled'[k].buffer = k /\ filled'[k].frame <= nframe
        /\ (\A j, k \in 1 .. L : j < k => filled[j].frame < filled[k].frame)
           /\ (\A j \in 1 .. L : filled[j].frame < e.frame)
           => \A j, k \in 1 .. L + 1 : j < k => filled'[j].frame < filled'[k].frame
    BY <1>6, <2>2, <2>4, <2>5, Delivered, SMTT(30) DEF L
  <2>7. /\ used' \in [Queue -> [0 .. Num - 1 -> Nat]]
        /\ \A k \in 0 .. Num - 1 : used'[0][k] <= npub[0] /\ used'[1][k] < Num
    <3> DEFINE row == [used[0] EXCEPT ![slot] = b]
    <3>1. b \in Nat /\ b <= npub[0]
      BY <1>3, <1>6, <2>1, SMTT(30)
    <3>2. used \in [Queue -> [0 .. Num - 1 -> Nat]] /\ used[0] \in [0 .. Num - 1 -> Nat]
          /\ \A k \in 0 .. Num - 1 : used[0][k] <= npub[0] /\ used[1][k] < Num
      BY <1>1 DEF RingTypeOK
    <3>3. row \in [0 .. Num - 1 -> Nat] /\ \A k \in 0 .. Num - 1 : row[k] <= npub[0]
      BY <2>1, <3>1, <3>2
    <3>4. used' = [used EXCEPT ![0] = row]
      BY <1>6
    <3> HIDE DEF row
    <3>5. used' \in [Queue -> [0 .. Num - 1 -> Nat]] /\ used'[1] = used[1] /\ used'[0] = row
      BY <3>2, <3>3, <3>4
    <3> QED BY <3>2, <3>3, <3>5
  <2>8. last' \in [Queue -> Nat] /\ last'[0] = L + 1 /\ last'[1] = last[1]
    <3>1. last \in [Queue -> Nat]
      BY <1>1 DEF RingTypeOK
    <3> QED BY <1>3, <1>6, <3>1
  <2>9. uidx' \in [Queue -> 0 .. IdxSpace - 1]
    <3>1. uidx \in [Queue -> 0 .. IdxSpace - 1]
      BY <1>1 DEF RingTypeOK
    <3>2. uidx[0] + 1 \in Nat
      BY <3>1
    <3>3. (uidx[0] + 1) % IdxSpace \in 0 .. IdxSpace - 1
      BY <3>2, PlaceInRing
    <3> QED BY <1>6, <3>1, <3>3
  <2>10. RingTypeOK'
    BY <1>1, <1>2, <2>7, <2>8, <2>9 DEF RingTypeOK
  <2>11. /\ tap' \in Seq(Nat) /\ Len(tap') = Len(tap) - 1
         /\ \A j, k \in 1 .. Len(tap') : j < k => tap'[j] < tap'[k]
         /\ \A k \in 1 .. Len(tap') : /\ tap'[k] # 0 /\ tap'[k] <= nframe /\ tap[1] < tap'[k]
                                     /\ tap'[k] = tap[k + 1] /\ k + 1 \in 1 .. Len(tap)
    <3>1. tap' = Tail(tap) /\ tap # <<>>
      BY <1>6
    <3> QED BY <1>1, <2>2, <3>1, TailIs, TailInOrder DEF TapTypeOK, FrameInv
  <2>12. TapTypeOK'
    BY <1>1, <1>2, <2>6, <2>11 DEF TapTypeOK
  <2>13. RingInv'
    <3>1. L + 1 <= npub[0] /\ seen[0] <= L + 1 /\ npub[0] - seen[0] <= Num
      BY <1>1, <1>3, <1>6 DEF RingInv, L
    <3>2. \A k \in 1 .. npub[0] : k + Num > npub[0] => avail[0][(k - 1) % Num] = k
      BY <1>1 DEF RingInv
    <3> QED BY <1>2, <2>6, <2>8, <3>1, <3>2 DEF RingInv
  <2>14. FrameInv'
    <3>1. ASSUME shape = "two"
          PROVE  /\ \A j, k \in 1 .. L : j < k => filled[j].frame < filled[k].frame
                 /\ \A j \in 1 .. L, k \in 1 .. Len(tap) : filled[j].frame < tap[k]
      BY <1>1, <3>1 DEF FrameInv, L
    <3>2. ASSUME shape = "two"
          PROVE  \A j, k \in 1 .. L + 1 : j < k => filled'[j].frame < filled'[k].frame
      <4>1. \A j \in 1 .. L : filled[j].frame < e.frame
        BY <2>3, <2>4, <3>1, <3>2
      <4> QED BY <2>6, <3>1, <3>2, <4>1
    <3>3. ASSUME shape = "two", NEW j \in 1 .. L + 1, NEW k \in 1 .. Len(tap')
          PROVE  filled'[j].frame < tap'[k]
      <4>1. CASE j = L + 1
        BY <2>4, <2>6, <2>11, <3>3, <4>1
      <4>2. CASE j \in 1 .. L
        BY <2>6, <2>11, <3>1, <3>3, <4>2
      <4> QED BY <1>3, <4>1, <4>2
    <3> QED BY <1>2, <2>6, <2>11, <3>2, <3>3 DEF FrameInv
  <2> QED BY <1>4, <2>10, <2>12, <2>13, <2>14 DEF RxInv
<1>7. \/ UNCHANGED <<last, uidx, used, filled>> /\ (tap' = tap \/ (tap # <<>> /\ tap' = Tail(tap)))
      \/ /\ tap # <<>> /\ tap' = Tail(tap) /\ L < npub[0]
         /\ used' = [used EXCEPT ![0] = [used[0] EXCEPT ![slot] = b]]
         /\ last' = [last EXCEPT ![0] = L + 1]
         /\ uidx' = [uidx EXCEPT ![0] = (uidx[0] + 1) % IdxSpace]
         /\ filled' = Append(filled, e)
  <2>1. CASE tap = <<>>
    BY <2>1 DEF NetRx, queues
  <2>2. CASE tap # <<>> /\ ~(navail > 0)
    BY <2>2 DEF NetRx, queues
  <2>3. CASE tap # <<>> /\ navail > 0
    <3>1. L < npub[0]
      <4>1. npub[0] % IdxSpace \in 0 .. IdxSpace - 1 /\ npub[0] % IdxSpace <= npub[0]
        BY <1>3, PlaceInRing
      <4>2. (npub[0] % IdxSpace) - L > 0
        BY <1>3, <2>3 DEF navail
      <4> QED BY <1>3, <4>1, <4>2
    <3>2. last[0] = L
      BY <1>3
    <3> QED BY <2>3, <3>1, <3>2 DEF NetRx
  <2> QED BY <2>1, <2>2, <2>3
<1> QED BY <1>5, <1>6, <1>7

(* A buffer the guest offers takes a place of the ring that no buffer still *)
(* to be filled has.                                                        *)
LEMMA OfferKeeps ==
  ASSUME NetInv, OfferRx \/ OfferTx
  PROVE  RxInv' /\ RestTypeOK'
<1> USE Sizes, Queues DEF Rx, Tx
<1>0. PICK q \in Queue, entry \in Nat :
        Publish(q, entry) /\ (q = 0 => entry = npub[0] + 1) /\ (q = 1 => entry < Num)
  <2>1. CASE OfferRx
    <3>1. npub[0] + 1 \in Nat
      <4>1. npub \in [Queue -> Nat]
        BY DEF NetInv, RxInv, RingTypeOK
      <4> QED BY <4>1
    <3> QED BY <2>1, <3>1 DEF OfferRx
  <2>2. CASE OfferTx
    <3>1. PICK d \in Id : Publish(1, d)
      BY <2>2 DEF OfferTx
    <3>2. d \in Nat /\ d < Num
      BY DEF Id
    <3> QED BY <3>1, <3>2
  <2> QED BY <2>1, <2>2
<1> DEFINE n == npub[q]
           slot == n % Num
<1>1. RingTypeOK /\ TapTypeOK /\ RingInv /\ FrameInv /\ RestTypeOK
  BY DEF NetInv, RxInv
<1>2. UNCHANGED <<layout, shape, features, virtiodev, mem, call, pc, last, uidx, used, seen, irq,
                  broken, tap, nframe, filled, told, fails, fault>>
  BY <1>0 DEF Publish, setup, queues, past
<1>3. /\ npub' = [npub EXCEPT ![q] = n + 1] /\ n - seen[q] < Num /\ n < MaxPub[q]
      /\ avail' = [avail EXCEPT ![q] = [avail[q] EXCEPT ![slot] = entry]]
  BY <1>0 DEF Publish, Out
<1>4. n \in Nat /\ slot \in 0 .. Num - 1 /\ npub \in [Queue -> Nat] /\ MaxPub[q] \in Nat
  <2>1. npub \in [Queue -> Nat] /\ n \in Nat
    BY <1>1 DEF RingTypeOK
  <2> QED BY <2>1, PlaceInRing
<1>5. npub' \in [Queue -> Nat] /\ npub'[q] = n + 1 /\ \A p \in Queue : p # q => npub'[p] = npub[p]
  BY <1>3, <1>4
<1>6. /\ avail' \in [Queue -> [0 .. Num - 1 -> Nat]]
      /\ \A k \in 0 .. Num - 1 : avail'[q][k] = IF k = slot THEN entry ELSE avail[q][k]
      /\ \A p \in Queue : p # q => avail'[p] = avail[p]
  <2>1. avail \in [Queue -> [0 .. Num - 1 -> Nat]] /\ avail[q] \in [0 .. Num - 1 -> Nat]
    BY <1>1 DEF RingTypeOK
  <2> DEFINE row == [avail[q] EXCEPT ![slot] = entry]
  <2> HIDE DEF n, slot
  <2>2. /\ row \in [0 .. Num - 1 -> Nat]
        /\ \A k \in 0 .. Num - 1 : row[k] = IF k = slot THEN entry ELSE avail[q][k]
    BY <1>0, <1>4, <2>1
  <2>3. avail' = [avail EXCEPT ![q] = row]
    BY <1>3
  <2> HIDE DEF row
  <2> QED BY <2>1, <2>2, <2>3
<1>7. n = npub[q]
  OBVIOUS
<1> HIDE DEF n, slot
<1>8. RingTypeOK'
  <2>1. \A p \in Queue : npub'[p] <= MaxPub[p]
    <3>1. \A p \in Queue : npub[p] <= MaxPub[p]
      BY <1>1 DEF RingTypeOK
    <3> QED BY <1>3, <1>4, <1>5, <3>1
  <2>2. \A k \in 0 .. Num - 1 : /\ avail[0][k] <= npub[0] /\ used[0][k] <= npub[0]
                               /\ avail[1][k] < Num /\ used[1][k] < Num
                               /\ avail[0][k] \in Nat /\ used[0][k] \in Nat
    BY <1>1 DEF RingTypeOK
  <2>3. CASE q = 0
    <3>1. npub'[0] = npub[0] + 1 /\ npub[0] \in Nat /\ avail'[1] = avail[1] /\ entry = npub[0] + 1
      BY <1>0, <1>4, <1>5, <1>6, <1>7, <2>3
    <3>2. ASSUME NEW k \in 0 .. Num - 1 PROVE avail'[0][k] <= npub'[0] /\ used[0][k] <= npub'[0]
      <4>1. avail'[0][k] = entry \/ avail'[0][k] = avail[0][k]
        BY <1>6, <2>3
      <4> QED BY <2>2, <3>1, <4>1
    <3> QED BY <1>1, <1>2, <1>5, <1>6, <2>1, <2>2, <3>1, <3>2 DEF RingTypeOK
  <2>4. CASE q = 1
    <3>1. npub'[0] = npub[0] /\ avail'[0] = avail[0]
      BY <1>5, <1>6, <2>4
    <3>2. \A k \in 0 .. Num - 1 : avail'[1][k] < Num
      BY <1>0, <1>6, <2>2, <2>4
    <3> QED BY <1>1, <1>2, <1>5, <1>6, <2>1, <2>2, <3>1, <3>2 DEF RingTypeOK
  <2> QED BY <2>3, <2>4, Queues
<1>9. RingInv'
  <2>1. /\ last[0] = Len(filled) /\ Len(filled) <= npub[0] /\ seen[0] <= Len(filled)
        /\ npub[0] - seen[0] <= Num /\ \A k \in 1 .. Len(filled) : filled[k].buffer = k
    BY <1>1 DEF RingInv
  <2>2. \A k \in 1 .. npub[0] : k + Num > npub[0] => avail[0][(k - 1) % Num] = k
    BY <1>1 DEF RingInv
  <2>3. Len(filled) \in Nat /\ seen[0] \in Nat
    BY <1>1 DEF TapTypeOK, RingTypeOK
  <2>4. CASE q = 1
    <3>1. npub'[0] = npub[0] /\ avail'[0] = avail[0]
      BY <1>5, <1>6, <2>4
    <3> QED BY <1>2, <2>1, <2>2, <3>1 DEF RingInv
  <2>5. CASE q = 0
    <3>1. ASSUME NEW k \in 1 .. n + 1, k + Num > n + 1
          PROVE  avail'[0][(k - 1) % Num] = k
      <4>1. k - 1 \in Nat /\ k \in Nat
        BY <1>4
      <4>2. (k - 1) % Num \in 0 .. Num - 1
        BY <4>1, PlaceInRing
      <4>3. CASE k = n + 1
        <5>1. (k - 1) % Num = slot
          BY <1>4, <4>3 DEF slot
        <5>2. entry = n + 1
          BY <1>0, <1>7, <2>5
        <5> QED BY <1>6, <2>5, <4>2, <4>3, <5>1, <5>2
      <4>4. CASE k < n + 1
        <5>1. k - 1 < n /\ n < (k - 1) + Num /\ k \in 1 .. n /\ k + Num > n
          BY <1>4, <3>1, <4>1, <4>4
        <5>2. slot # (k - 1) % Num
          BY <1>4, <4>1, <5>1, SlotsDiffer DEF slot
        <5>3. avail[0][(k - 1) % Num] = k
          BY <1>7, <2>2, <2>5, <5>1
        <5> QED BY <1>6, <2>5, <4>2, <5>2, <5>3
      <4> QED BY <1>4, <4>3, <4>4
    <3>2. npub'[0] = n + 1 /\ Len(filled) <= n + 1 /\ (n + 1) - seen[0] <= Num
      BY <1>3, <1>4, <1>5, <1>7, <2>1, <2>3, <2>5, SMTT(30)
    <3> QED BY <1>2, <2>1, <3>1, <3>2 DEF RingInv
  <2> QED BY <2>4, <2>5
<1>10. TapTypeOK' /\ FrameInv' /\ RestTypeOK'
  BY <1>1, <1>2 DEF TapTypeOK, FrameInv, RestTypeOK
<1> QED BY <1>8, <1>9, <1>10 DEF RxInv

(* The guest sees buffers handed back; no other state it has part in moves. *)
LEMMA GuestKeeps ==
  ASSUME NetInv, TakeBack \/ Interrupt
  PROVE  RxInv' /\ RestTypeOK'
<1> USE Sizes, Queues DEF Rx, Tx
<1>1. RingTypeOK /\ TapTypeOK /\ RingInv /\ FrameInv /\ RestTypeOK
  BY DEF NetInv, RxInv
<1>2. UNCHANGED <<layout, shape, features, virtiodev, mem, call, pc, last, uidx, used, avail, npub,
                  tap, nframe, taken, stale, filled, told, fails, fault>>
  BY DEF TakeBack, Interrupt, setup, queues, past
<1>3. seen \in [Queue -> Nat] /\ npub \in [Queue -> Nat] /\ Len(filled) \in Nat
  <2>1. filled \in Seq(Entry)
    BY <1>1 DEF TapTypeOK
  <2>2. seen \in [Queue -> Nat] /\ npub \in [Queue -> Nat]
    BY <1>1 DEF RingTypeOK
  <2> QED BY <2>1, <2>2
<1>4. irq' \in BOOLEAN /\ broken' \in BOOLEAN
  <2>1. irq \in BOOLEAN /\ broken \in BOOLEAN
    BY <1>1 DEF RestTypeOK
  <2>2. irq' = irq \/ irq' = FALSE
    BY DEF TakeBack, Interrupt
  <2>3. broken' = broken \/ broken' = TRUE
    BY DEF TakeBack, Interrupt
  <2> QED BY <2>1, <2>2, <2>3
<1>5. /\ seen' \in [Queue -> Nat] /\ seen'[0] >= seen[0] /\ seen'[0] <= Len(filled)
  <2>2. seen[0] <= Len(filled) /\ Len(filled) <= npub[0]
    BY <1>1 DEF RingInv
  <2>3. CASE Interrupt
    <3>1. seen' = [seen EXCEPT ![0] = Len(filled)]
      BY <2>3 DEF Interrupt
    <3>2. seen' \in [Queue -> Nat] /\ seen'[0] = Len(filled) /\ seen'[1] = seen[1]
      BY <1>3, <3>1
    <3> QED BY <1>3, <2>2, <3>2
  <2>4. CASE TakeBack
    <3>1. seen' = seen \/ seen' = [seen EXCEPT ![1] = seen[1] + 1]
      BY <2>4 DEF TakeBack
    <3>2. CASE seen' = seen
      BY <1>3, <2>2, <3>2
    <3>3. CASE seen' = [seen EXCEPT ![1] = seen[1] + 1]
      <4>1. seen' \in [Queue -> Nat] /\ seen'[0] = seen[0]
        BY <1>3, <3>3
      <4> QED BY <1>3, <2>2, <4>1
    <3> QED BY <3>1, <3>2, <3>3
  <2> QED BY <2>3, <2>4
<1>6. RingTypeOK'
  BY <1>1, <1>2, <1>5 DEF RingTypeOK
<1>7. RingInv'
  <2>1. npub[0] - seen'[0] <= Num
    <3>1. npub[0] - seen[0] <= Num
      BY <1>1 DEF RingInv
    <3> QED BY <1>3, <1>5, <3>1
  <2>2. /\ last[0] = Len(filled) /\ Len(filled) <= npub[0]
        /\ \A k \in 1 .. Len(filled) : filled[k].buffer = k
        /\ \A k \in 1 .. npub[0] : k + Num > npub[0] => avail[0][(k - 1) % Num] = k
    BY <1>1 DEF RingInv
  <2> QED BY <1>2, <1>5, <2>1, <2>2 DEF RingInv
<1>8. TapTypeOK' /\ FrameInv' /\ RestTypeOK'
  BY <1>1, <1>2, <1>4 DEF TapTypeOK, FrameInv, RestTypeOK
<1> QED BY <1>6, <1>7, <1>8 DEF RxInv

(* A frame that reaches the tap is newer than every other. *)
LEMMA FrameKeeps ==
  ASSUME NetInv, FrameArrives
  PROVE  RxInv' /\ RestTypeOK'
<1> USE Sizes, Queues DEF Rx, Tx
<1> DEFINE n == nframe + 1
           L == Len(tap)
<1>1. RingTypeOK /\ TapTypeOK /\ RingInv /\ FrameInv /\ RestTypeOK
  BY DEF NetInv, RxInv
<1>2. UNCHANGED <<layout, shape, features, virtiodev, mem, call, pc, last, uidx, used, avail, npub,
                  seen, irq, broken, taken, stale, filled, told, fails, fault>>
  BY DEF FrameArrives, setup, queues, guest, past
<1>3. tap' = Append(tap, n) /\ nframe' = n /\ nframe < MaxFrames
  BY DEF FrameArrives
<1>4. tap \in Seq(Nat) /\ nframe \in Nat /\ n \in Nat /\ L \in Nat /\ n <= MaxFrames
  BY <1>1, <1>3 DEF TapTypeOK
<1>5. tap' \in Seq(Nat) /\ Len(tap') = L + 1 /\ tap'[L + 1] = n /\ \A k \in 1 .. L : tap'[k] = tap[k]
  BY <1>3, <1>4
<1>6. \A k \in 1 .. L + 1 : k = L + 1 \/ k \in 1 .. L
  BY <1>4
<1>7. \A k \in 1 .. L : tap[k] # 0 /\ tap[k] <= nframe /\ tap[k] \in Nat
  BY <1>1, <1>4 DEF TapTypeOK
<1>8. n = nframe + 1 /\ n > nframe /\ n # 0
  BY <1>4
<1>9. \A j \in 1 .. Len(filled) : filled[j] \in Entry /\ filled[j].frame \in Nat
  <2>1. filled \in Seq(Entry)
    BY <1>1 DEF TapTypeOK
  <2>2. \A j \in 1 .. Len(filled) : filled[j] \in Entry
    BY <2>1
  <2> QED BY <2>2 DEF Entry
<1> HIDE DEF n
<1>10. TapTypeOK'
  <2>1. \A k \in 1 .. L + 1 : tap'[k] # 0 /\ tap'[k] <= n
    <3> HIDE DEF L
    <3>1. ASSUME NEW k \in 1 .. L + 1 PROVE tap'[k] # 0 /\ tap'[k] <= n
      <4>1. CASE k = L + 1
        BY <1>4, <1>5, <1>8, <4>1
      <4>2. CASE k \in 1 .. L
        <5>1. tap'[k] = tap[k] /\ tap[k] # 0 /\ tap[k] <= nframe /\ tap[k] \in Nat
          BY <1>5, <1>7, <4>2
        <5> QED BY <1>4, <1>8, <5>1
      <4> QED BY <1>6, <4>1, <4>2
    <3> QED BY <3>1
  <2>2. filled \in Seq(Entry)
    BY <1>1 DEF TapTypeOK
  <2> QED BY <1>2, <1>3, <1>4, <1>5, <2>1, <2>2 DEF TapTypeOK
<1>11. FrameInv'
  <2>1. \A j, k \in 1 .. L : j < k => tap[j] < tap[k]
    BY <1>1 DEF FrameInv
  <2>2. \A j \in 1 .. Len(filled) : filled[j].frame <= nframe
    BY <1>1 DEF FrameInv
  <2>3. shape = "two" =>
          /\ \A j, k \in 1 .. Len(filled) : j < k => filled[j].frame < filled[k].frame
          /\ \A j \in 1 .. Len(filled), k \in 1 .. L : filled[j].frame < tap[k]
    BY <1>1 DEF FrameInv
  <2> HIDE DEF L
  <2>4. ASSUME NEW j \in 1 .. L + 1, NEW k \in 1 .. L + 1, j < k
        PROVE  tap'[j] < tap'[k]
    <3>1. j \in 1 .. L
      BY <1>4, <2>4
    <3>2. CASE k = L + 1
      BY <1>4, <1>5, <1>7, <1>8, <3>1, <3>2, SMTT(30)
    <3>3. CASE k \in 1 .. L
      BY <1>5, <2>1, <2>4, <3>1, <3>3
    <3> QED BY <1>6, <3>2, <3>3
  <2>5. \A j \in 1 .. Len(filled) : filled[j].frame <= n
    BY <1>4, <1>8, <1>9, <2>2
  <2>6. ASSUME shape = "two", NEW j \in 1 .. Len(filled), NEW k \in 1 .. L + 1
        PROVE  filled[j].frame < tap'[k]
    <3>1. CASE k = L + 1
      BY <1>4, <1>5, <1>8, <1>9, <2>2, <3>1
    <3>2. CASE k \in 1 .. L
      BY <1>5, <2>3, <2>6, <3>2
    <3> QED BY <1>6, <3>1, <3>2
  <2> QED BY <1>2, <1>3, <1>5, <2>3, <2>4, <2>5, <2>6 DEF FrameInv
<1>12. RingTypeOK' /\ RingInv'
  BY <1>1, <1>2 DEF RingTypeOK, RingInv
<1>13. RestTypeOK'
  BY <1>1, <1>2 DEF RestTypeOK
<1> QED BY <1>10, <1>11, <1>12, <1>13 DEF RxInv

\* The steps that only move a program counter or end a process.
Idle == \/ Disconnect \/ VnetStart \/ VnetRaw \/ NetTxCrash \/ NetRxEarly \/ NoMbuf \/ NotWritable
        \/ UNCHANGED vars

(* They keep the invariant. *)
LEMMA IdleKeeps ==
  ASSUME NetInv, Idle
  PROVE  RxInv' /\ RestTypeOK'
<1>1. RingTypeOK /\ TapTypeOK /\ RingInv /\ FrameInv /\ RestTypeOK
  BY DEF NetInv, RxInv
<1>2. UNCHANGED <<layout, shape, features, virtiodev, mem, call, last, uidx, used, avail, npub,
                  seen, irq, broken, tap, nframe, taken, stale, filled, told>>
  BY DEF Idle, Disconnect, VnetStart, VnetRaw, NetTxCrash, NetRxEarly, NoMbuf,
       NotWritable, vars, setup, queues, guest, past
<1>3. pc' \in {pc, "poll", "rxonly"} /\ fault' \in {fault, "exit", "raw", "tx", "rx", "copy"}
  BY DEF Idle, Disconnect, VnetStart, VnetRaw, NetTxCrash, NetRxEarly, NoMbuf,
       NotWritable, vars
<1>4. fails' \in 0 .. MaxFail
  <2>1. fails \in 0 .. MaxFail
    BY <1>1 DEF RestTypeOK
  <2>2. fails' = fails \/ (fails < MaxFail /\ fails' = fails + 1)
    BY DEF Idle, Disconnect, VnetStart, VnetRaw, NetTxCrash, NetRxEarly, NoMbuf,
       NotWritable, vars
  <2> QED BY <2>1, <2>2, Sizes
<1>5. RingTypeOK' /\ RingInv'
  BY <1>1, <1>2 DEF RingTypeOK, RingInv
<1>6. TapTypeOK' /\ FrameInv'
  BY <1>1, <1>2 DEF TapTypeOK, FrameInv
<1>7. RestTypeOK'
  BY <1>1, <1>2, <1>3, <1>4 DEF RestTypeOK
<1> QED BY <1>5, <1>6, <1>7 DEF RxInv

(* The invariant holds from the start. *)
LEMMA NetInvHolds == Spec => []NetInv
<1>1. Init => NetInv
  <2> SUFFICES ASSUME Init PROVE NetInv
    OBVIOUS
  <2> USE Sizes, Queues DEF Init, Rx, Tx
  <2>1. SetupTypeOK /\ SetupInv
    BY DEF SetupTypeOK, SetupInv, NoQueue, Queue
  <2>2. RestTypeOK
    <3>1. layout \in Layouts /\ shape \in Shapes /\ fails \in 0 .. MaxFail
      OBVIOUS
    <3>2. /\ features \in BOOLEAN /\ mem \in BOOLEAN /\ irq \in BOOLEAN /\ broken \in BOOLEAN
          /\ told \in BOOLEAN
      BY Zenon
    <3> QED BY <3>1, <3>2 DEF RestTypeOK
  <2>3. RingTypeOK
    BY SMTT(30) DEF RingTypeOK
  <2>4. filled = <<>> /\ tap = <<>> /\ Len(filled) = 0 /\ Len(tap) = 0 /\ nframe = 0
    OBVIOUS
  <2>5. TapTypeOK
    BY <2>4 DEF TapTypeOK
  <2>6. RingInv
    BY <2>4 DEF RingInv
  <2>7. FrameInv
    BY <2>4 DEF FrameInv
  <2> QED BY <2>1, <2>2, <2>3, <2>5, <2>6, <2>7 DEF NetInv, RxInv
<1>2. NetInv /\ [Next]_vars => NetInv'
  <2> SUFFICES ASSUME NetInv, [Next]_vars PROVE NetInv'
    OBVIOUS
  <2>1. SetupTypeOK' /\ SetupInv'
    BY HandlerKeepsSetup, OthersKeepSetup DEF NetInv
  <2>2. RxInv' /\ RestTypeOK'
    BY HandlerKeeps, NetTxKeeps, NetRxKeeps, OfferKeeps, GuestKeeps, FrameKeeps, IdleKeeps
       DEF Next, Guest, Idle
  <2> QED BY <2>1, <2>2 DEF NetInv
<1> QED BY <1>1, <1>2, PTL DEF Spec

-----------------------------------------------------------------------------
(* What vhost_tx does with the buffers of queue 1 *)

\* The place of the k-th buffer in the rings.
Place(k) == (k - 1) % Num
\* Until an entry not on offer is taken: every buffer on offer is described by
\* the descriptor that its entry names, and what vhost_tx took stands in used.
TxInv ==
  ~stale =>
    /\ seen[Tx] <= Len(taken) /\ Len(taken) <= npub[Tx] /\ npub[Tx] - seen[Tx] <= Num
    /\ last[Tx] = Len(taken) % Num /\ uidx[Tx] = Len(taken) % IdxSpace /\ ~broken
    /\ \A k \in 1 .. Len(taken) : taken[k] = k
    /\ \A k \in seen[Tx] + 1 .. npub[Tx] :
         avail[Tx][Place(k)] \in busy /\ desc[avail[Tx][Place(k)]] = k
    /\ \A d \in busy :
         desc[d] \in seen[Tx] + 1 .. npub[Tx] /\ avail[Tx][Place(desc[d])] = d
    /\ \A k \in seen[Tx] + 1 .. Len(taken) : used[Tx][Place(k)] = avail[Tx][Place(k)]
\* The types of what only queue 1 has.
TxTypeOK ==
  /\ desc \in [Id -> Nat] /\ busy \subseteq Id /\ stale \in BOOLEAN /\ taken \in Seq(Nat)
  /\ \A d \in Id : desc[d] <= npub[Tx]
  /\ \A k \in 1 .. Len(taken) : taken[k] <= npub[Tx]
BothInv == NetInv /\ TxTypeOK /\ TxInv

(* The place after a place in a ring is that of the next number. *)
LEMMA NextPlace ==
  ASSUME NEW a \in Nat, NEW n \in Nat, n > 0
  PROVE  ((a % n) + 1) % n = (a + 1) % n
<1> DEFINE q == a \div n
           r == a % n
<1>1. q \in Int /\ r \in Int /\ a = n * q + r /\ 0 <= r /\ r < n
  OBVIOUS
<1> HIDE DEF q, r
<1>2. CASE r + 1 < n
  <2>1. (r + 1) % n = r + 1
    BY <1>1, <1>2
  <2>2. a + 1 = n * q + (r + 1)
    BY <1>1
  <2>3. (a + 1) % n = r + 1
    BY <1>1, <1>2, <2>2
  <2> QED BY <2>1, <2>3 DEF r
<1>3. CASE r + 1 = n
  <2>1. (r + 1) % n = 0
    BY <1>1, <1>3
  <2>2. a + 1 = n * (q + 1)
    BY <1>1, <1>3
  <2>3. (a + 1) % n = 0
    BY <1>1, <2>2
  <2> QED BY <2>1, <2>3 DEF r
<1> QED BY <1>1, <1>2, <1>3

(* Numbers less than num apart have different places. *)
LEMMA PlacesDiffer ==
  ASSUME NEW a \in Nat \ {0}, NEW b \in Nat \ {0}, a # b, a < b + Num, b < a + Num
  PROVE  Place(a) \in 0 .. Num - 1 /\ Place(a) # Place(b)
<1>1. a - 1 \in Nat /\ b - 1 \in Nat
  OBVIOUS
<1>2. Place(a) \in 0 .. Num - 1
  BY <1>1, PlaceInRing DEF Place
<1>3. CASE b < a
  BY <1>1, <1>3, SlotsDiffer, Sizes DEF Place
<1>4. CASE a < b
  <2>1. (b - 1) % Num # (a - 1) % Num
    BY <1>1, <1>4, SlotsDiffer, Sizes
  <2> QED BY <1>2, <2>1 DEF Place
<1> QED BY <1>2, <1>3, <1>4

(* What the step of another part leaves alone. *)
LEMMA TxAlone ==
  ASSUME BothInv, npub'[1] = npub[1], seen'[1] = seen[1], last'[1] = last[1], uidx'[1] = uidx[1],
         avail'[1] = avail[1], used'[1] = used[1],
         UNCHANGED <<desc, busy, broken, taken, stale>>
  PROVE  TxTypeOK' /\ TxInv'
BY DEF BothInv, TxTypeOK, TxInv, Tx

(* The handlers: last_used_idx of queue 1 is set before vhost_tx runs. *)
LEMMA HandlerTx ==
  ASSUME BothInv, Handler
  PROVE  TxTypeOK' /\ TxInv'
<1> USE Sizes, Queues DEF Rx, Tx
<1>1. SetupTypeOK /\ SetupInv /\ RingTypeOK /\ TxTypeOK /\ TxInv
  BY DEF BothInv, NetInv, RxInv
<1>2. UNCHANGED <<uidx, used, npub, seen, avail, desc, busy, broken, taken, stale>>
  BY DEF Handler, GetFeatures, Noted, SetFeatures, SetOwner, SetMemTable, SetVringNum,
       SetVringBase, SetVringAddr, SetVringCall, VnetUnchanged, guest, past
<1>3. last'[1] = last[1] \/ (last'[1] = 0 /\ ~vq[1].desc)
  <2>1. CASE SetVringBase
    <3>1. qpc \in {8, 12} /\ Index = (IF qpc = 8 THEN 0 ELSE 1)
      BY <1>1, <2>1, AskedAt DEF SetVringBase
    <3>2. last' = [last EXCEPT ![Index] = 0] /\ last \in [Queue -> Nat]
      BY <1>1, <2>1 DEF SetVringBase, RingTypeOK
    <3>3. CASE qpc = 8
      BY <3>1, <3>2, <3>3
    <3>4. CASE qpc = 12
      <4>1. ~vq[1].desc
        BY <1>1, <3>4 DEF SetupInv
      <4> QED BY <3>1, <3>2, <3>4, <4>1
    <3> QED BY <3>1, <3>3, <3>4
  <2> QED BY <2>1 DEF Handler, GetFeatures, Noted, SetFeatures, SetOwner, SetMemTable, SetVringNum,
            SetVringAddr, SetVringCall
<1>4. CASE last'[1] = last[1]
  BY <1>2, <1>4, TxAlone
<1>5. CASE last'[1] = 0 /\ ~vq[1].desc
  <2>1. ~stale /\ taken = <<>>
    BY <1>1, <1>5 DEF SetupInv
  <2>2. last[1] = 0
    BY <1>1, <2>1 DEF TxInv
  <2> QED BY <1>2, <1>5, <2>2, TxAlone
<1> QED BY <1>3, <1>4, <1>5

(* vhost_tx takes the buffer offered first among those not yet taken, or an *)
(* entry that is not on offer.                                              *)
LEMMA NetTxTx ==
  ASSUME BothInv, NetTxOk \/ NetTxFail
  PROVE  TxTypeOK' /\ TxInv'
<1> USE Sizes, Queues DEF Rx, Tx
<1> DEFINE L == Len(taken)
           S == seen[1]
           N == npub[1]
           e == avail[1][last[1]]
<1>1. RingTypeOK /\ TxTypeOK /\ TxInv
  BY DEF BothInv, NetInv, RxInv
<1>2. UNCHANGED <<avail, npub, desc, busy, seen, broken>>
  BY DEF NetTxOk, NetTxFail, NetTx, guest
<1>3. /\ used' = [used EXCEPT ![1] = [used[1] EXCEPT ![last[1]] = e]]
      /\ last' = [last EXCEPT ![1] = (last[1] + 1) % Num]
      /\ uidx' = [uidx EXCEPT ![1] = (uidx[1] + 1) % IdxSpace]
      /\ stale' = (stale \/ L = N)
      /\ taken' = IF stale' THEN <<>> ELSE Append(taken, desc[e])
  BY DEF NetTxOk, NetTxFail, NetTx, TxNext, TxEntry
<1>4. /\ L \in Nat /\ S \in Nat /\ N \in Nat /\ taken \in Seq(Nat) /\ last \in [Queue -> Nat]
      /\ used \in [Queue -> [0 .. Num - 1 -> Nat]] /\ used[1] \in [0 .. Num - 1 -> Nat]
      /\ uidx \in [Queue -> 0 .. IdxSpace - 1] /\ last[1] \in 0 .. Num - 1 /\ e \in Id
  <2>1. L \in Nat /\ taken \in Seq(Nat)
    BY <1>1 DEF TxTypeOK
  <2>2. /\ S \in Nat /\ N \in Nat /\ last \in [Queue -> Nat] /\ last[1] < Num
        /\ used \in [Queue -> [0 .. Num - 1 -> Nat]] /\ used[1] \in [0 .. Num - 1 -> Nat]
        /\ uidx \in [Queue -> 0 .. IdxSpace - 1] /\ avail[1] \in [0 .. Num - 1 -> Nat]
        /\ \A k \in 0 .. Num - 1 : avail[1][k] < Num
    BY <1>1 DEF RingTypeOK
  <2>3. last[1] \in 0 .. Num - 1
    BY <2>2
  <2>4. e \in Id
    <3>1. e \in Nat /\ e < Num
      BY <2>2, <2>3
    <3> HIDE DEF e
    <3> QED BY <3>1 DEF Id
  <2> QED BY <2>1, <2>2, <2>3, <2>4
<1>5. CASE stale'
  <2>1. taken' = <<>> /\ stale' \in BOOLEAN
    BY <1>3, <1>5
  <2>2. Len(taken') = 0 /\ taken' \in Seq(Nat)
    BY <2>1
  <2> QED BY <1>1, <1>2, <1>5, <2>1, <2>2 DEF TxTypeOK, TxInv
<1>6. CASE ~stale'
  <2>0. ~stale /\ L # N
    BY <1>3, <1>6, Zenon
  <2>1. ~stale /\ L < N /\ taken' = Append(taken, desc[e]) /\ S <= L /\ N - S <= Num
    <3>1. taken' = Append(taken, desc[e])
      BY <1>3, <1>6, Zenon
    <3>2. S <= L /\ L <= N /\ N - S <= Num
      BY <1>1, <2>0 DEF TxInv
    <3> HIDE DEF L, S, N, e
    <3> QED BY <1>4, <2>0, <3>1, <3>2
  <2>2. last[1] = L % Num /\ uidx[1] = L % IdxSpace /\ ~broken
    BY <1>1, <2>0 DEF TxInv
  <2>3. Place(L + 1) = last[1] /\ L + 1 \in S + 1 .. N
    <3> HIDE DEF L, S, N, e
    <3>1. (L + 1) - 1 = L
      BY <1>4
    <3>2. L + 1 \in S + 1 .. N
      BY <1>4, <2>1
    <3>3. last[1] = L % Num
      BY <2>2 DEF L
    <3> QED BY <3>1, <3>2, <3>3 DEF Place
  <2>4. e \in busy /\ desc[e] = L + 1
    BY <1>1, <2>1, <2>3 DEF TxInv
  <2> HIDE DEF L, S, N, e
  <2>5. /\ taken' \in Seq(Nat) /\ Len(taken') = L + 1 /\ taken'[L + 1] = L + 1
        /\ \A k \in 1 .. L : taken'[k] = taken[k]
    <3>1. taken \in Seq(Nat) /\ L + 1 \in Nat /\ taken' = Append(taken, L + 1) /\ L = Len(taken)
      BY <1>4, <2>1, <2>4 DEF L
    <3> QED BY <3>1
  <2>6. \A k \in 1 .. L + 1 : taken'[k] = k
    <3>1. \A k \in 1 .. L : taken[k] = k
      BY <1>1, <2>1 DEF TxInv, L
    <3>2. \A k \in 1 .. L + 1 : k = L + 1 \/ k \in 1 .. L
      BY <1>4
    <3> QED BY <2>5, <3>1, <3>2
  <2>7. last'[1] = (L + 1) % Num /\ uidx'[1] = (L + 1) % IdxSpace
    <3>1. last'[1] = ((L % Num) + 1) % Num
      BY <1>3, <1>4, <2>2
    <3>2. uidx'[1] = ((L % IdxSpace) + 1) % IdxSpace
      BY <1>3, <1>4, <2>2
    <3> QED BY <1>4, <3>1, <3>2, NextPlace
  <2>8. ASSUME NEW k \in S + 1 .. L + 1 PROVE used'[1][Place(k)] = avail[1][Place(k)]
    <3>1. used'[1] = [used[1] EXCEPT ![last[1]] = e]
      BY <1>3, <1>4
    <3>2. CASE k = L + 1
      BY <1>4, <2>3, <3>1, <3>2 DEF e
    <3>3. CASE k # L + 1
      <4>1. k \in Nat \ {0} /\ L + 1 \in Nat \ {0} /\ k < (L + 1) + Num /\ L + 1 < k + Num /\ k \in S + 1 .. L
        <5>1. L \in Nat /\ S \in Nat /\ N \in Nat /\ L < N /\ N - S <= Num
          BY <1>4, <2>1
        <5>2. k \in Int /\ S + 1 <= k /\ k <= L + 1
          BY <5>1
        <5> QED BY <3>3, <5>1, <5>2
      <4>2. Place(k) \in 0 .. Num - 1 /\ Place(k) # last[1]
        BY <2>3, <3>3, <4>1, PlacesDiffer
      <4>3. used[1][Place(k)] = avail[1][Place(k)]
        BY <1>1, <2>1, <4>1 DEF TxInv, S, L
      <4> QED BY <1>4, <3>1, <4>2, <4>3
    <3> QED BY <3>2, <3>3
  <2>9. TxTypeOK'
    <3>1. \A k \in 1 .. L + 1 : taken'[k] <= N
      <4>1. L \in Nat /\ N \in Nat /\ L < N
        BY <1>4, <2>1
      <4> QED BY <2>6, <4>1
    <3>2. stale' \in BOOLEAN
      BY <1>3, Zenon
    <3> QED BY <1>1, <1>2, <2>5, <3>1, <3>2 DEF TxTypeOK, N
  <2>10. S <= L + 1 /\ L + 1 <= N
    BY <1>4, <2>1
  <2>11. /\ \A k \in S + 1 .. N : avail[1][Place(k)] \in busy /\ desc[avail[1][Place(k)]] = k
         /\ \A d \in busy : desc[d] \in S + 1 .. N /\ avail[1][Place(desc[d])] = d
    BY <1>1, <2>1 DEF TxInv, S, N
  <2>12. TxInv'
    BY <1>2, <2>1, <2>2, <2>5, <2>6, <2>7, <2>8, <2>10, <2>11 DEF TxInv, S, N
  <2> QED BY <2>9, <2>12
<1> QED BY <1>5, <1>6

(* A buffer offered on queue 1 takes a free descriptor, and a place that    *)
(* none on offer has.                                                       *)
LEMMA OfferTxTx ==
  ASSUME BothInv, OfferTx
  PROVE  TxTypeOK' /\ TxInv'
<1> USE Sizes, Queues DEF Rx, Tx
<1> DEFINE L == Len(taken)
           S == seen[1]
           N == npub[1]
<1>1. RingTypeOK /\ TxTypeOK /\ TxInv
  BY DEF BothInv, NetInv, RxInv
<1>2. PICK d \in Id \ busy :
        /\ Publish(1, d) /\ desc' = [desc EXCEPT ![d] = N + 1] /\ busy' = busy \cup {d}
  BY DEF OfferTx
<1>3. /\ UNCHANGED <<last, uidx, used, seen, broken, taken, stale>> /\ N - S < Num
      /\ npub' = [npub EXCEPT ![1] = N + 1]
      /\ avail' = [avail EXCEPT ![1] = [avail[1] EXCEPT ![N % Num] = d]]
  BY <1>2 DEF Publish, Out, queues, past
<1>4. /\ L \in Nat /\ S \in Nat /\ N \in Nat /\ npub \in [Queue -> Nat]
      /\ avail \in [Queue -> [0 .. Num - 1 -> Nat]] /\ avail[1] \in [0 .. Num - 1 -> Nat]
      /\ desc \in [Id -> Nat] /\ \A c \in Id : desc[c] <= N
  <2>1. L \in Nat /\ desc \in [Id -> Nat] /\ \A c \in Id : desc[c] <= N
    BY <1>1 DEF TxTypeOK
  <2>2. /\ S \in Nat /\ N \in Nat /\ npub \in [Queue -> Nat]
        /\ avail \in [Queue -> [0 .. Num - 1 -> Nat]] /\ avail[1] \in [0 .. Num - 1 -> Nat]
    BY <1>1 DEF RingTypeOK
  <2> QED BY <2>1, <2>2
<1>5. npub'[1] = N + 1 /\ avail'[1] = [avail[1] EXCEPT ![N % Num] = d]
  BY <1>3, <1>4
<1>6. /\ desc' \in [Id -> Nat] /\ desc'[d] = N + 1 /\ \A c \in Id : c # d => desc'[c] = desc[c]
  BY <1>2, <1>4
<1>7. TxTypeOK'
  <2>1. \A c \in Id : desc'[c] <= N + 1
    <3> HIDE DEF N
    <3>1. ASSUME NEW c \in Id PROVE desc'[c] <= N + 1
      <4>1. N \in Nat /\ desc[c] \in Nat /\ desc[c] <= N
        BY <1>4
      <4>2. desc'[c] = N + 1 \/ desc'[c] = desc[c]
        BY <1>6
      <4> QED BY <4>1, <4>2
    <3> QED BY <3>1
  <2>2. \A k \in 1 .. L : taken[k] <= N /\ taken[k] \in Nat
    BY <1>1 DEF TxTypeOK
  <2>3. \A k \in 1 .. L : taken[k] <= N + 1
    BY <1>4, <2>2
  <2> QED BY <1>1, <1>2, <1>3, <1>5, <1>6, <2>1, <2>3 DEF TxTypeOK
<1>8. ASSUME ~stale PROVE TxInv'
  <2>1. /\ S <= L /\ L <= N /\ N - S <= Num
        /\ last[1] = L % Num /\ uidx[1] = L % IdxSpace /\ ~broken
        /\ \A k \in 1 .. L : taken[k] = k
        /\ \A k \in S + 1 .. N : avail[1][Place(k)] \in busy /\ desc[avail[1][Place(k)]] = k
        /\ \A c \in busy : desc[c] \in S + 1 .. N /\ avail[1][Place(desc[c])] = c
        /\ \A k \in S + 1 .. L : used[1][Place(k)] = avail[1][Place(k)]
    BY <1>1, <1>8 DEF TxInv
  <2> HIDE DEF L, S, N
  <2>2. Place(N + 1) = N % Num /\ N % Num \in 0 .. Num - 1
    BY <1>4, PlaceInRing DEF Place
  <2>3. avail'[1][N % Num] = d
    BY <1>4, <1>5, <2>2
  <2>4. ASSUME NEW k \in S + 1 .. N
        PROVE  avail'[1][Place(k)] = avail[1][Place(k)]
    <3>1. k \in Nat \ {0} /\ N + 1 \in Nat \ {0} /\ k # N + 1 /\ k < (N + 1) + Num /\ N + 1 < k + Num
      <4>1. S \in Nat /\ N \in Nat /\ N - S < Num
        BY <1>3, <1>4 DEF N, S
      <4>2. k \in Int /\ S + 1 <= k /\ k <= N
        BY <4>1
      <4> QED BY <4>1, <4>2
    <3>2. Place(k) \in 0 .. Num - 1 /\ Place(k) # N % Num
      BY <2>2, <3>1, PlacesDiffer
    <3> QED BY <1>4, <1>5, <3>2
  <2>5. ASSUME NEW k \in S + 1 .. N + 1
        PROVE  avail'[1][Place(k)] \in busy' /\ desc'[avail'[1][Place(k)]] = k
    <3>1. CASE k = N + 1
      BY <1>2, <1>6, <2>2, <2>3, <3>1
    <3>2. CASE k # N + 1
      <4>1. k \in S + 1 .. N
        BY <1>4, <3>2
      <4>2. avail[1][Place(k)] \in busy /\ desc[avail[1][Place(k)]] = k
        BY <2>1, <4>1
      <4>3. avail[1][Place(k)] # d /\ avail[1][Place(k)] \in Id
        BY <1>1, <1>2, <4>2 DEF TxTypeOK
      <4> QED BY <1>2, <1>6, <2>4, <4>1, <4>2, <4>3
    <3> QED BY <3>1, <3>2
  <2>6. ASSUME NEW c \in busy'
        PROVE  desc'[c] \in S + 1 .. N + 1 /\ avail'[1][Place(desc'[c])] = c
    <3>1. CASE c = d
      <4>1. N + 1 \in S + 1 .. N + 1
        BY <1>4, <2>1
      <4> QED BY <1>6, <2>2, <2>3, <3>1, <4>1
    <3>2. CASE c # d
      <4>1. c \in busy /\ c \in Id
        BY <1>1, <1>2, <3>2 DEF TxTypeOK
      <4>2. desc'[c] = desc[c] /\ desc[c] \in S + 1 .. N /\ avail[1][Place(desc[c])] = c
        BY <1>6, <2>1, <3>2, <4>1
      <4>3. avail'[1][Place(desc[c])] = c
        BY <2>4, <4>2
      <4> QED BY <1>4, <4>2, <4>3
    <3> QED BY <3>1, <3>2
  <2>7. ASSUME NEW k \in S + 1 .. L PROVE used[1][Place(k)] = avail'[1][Place(k)]
    <3>1. k \in S + 1 .. N
      BY <1>4, <2>1
    <3> QED BY <2>1, <2>4, <3>1
  <2>8. S <= L /\ L <= N + 1 /\ (N + 1) - S <= Num
    <3>1. L \in Nat /\ S \in Nat /\ N \in Nat /\ N - S < Num /\ S <= L /\ L <= N
      BY <1>3, <1>4, <2>1 DEF N, S, L
    <3> QED BY <3>1
  <2> QED BY <1>3, <1>5, <2>1, <2>5, <2>6, <2>7, <2>8 DEF TxInv, L, S
<1>9. CASE stale
  <2>1. stale' = stale
    BY <1>3
  <2>2. stale'
    BY <1>9, <2>1, Zenon
  <2> HIDE DEF L, S, N
  <2> QED BY <1>7, <2>2, Zenon DEF TxInv
<1> QED BY <1>7, <1>8, <1>9

(* The guest gets back the descriptor of the buffer taken first.            *)
LEMMA TakeBackTx ==
  ASSUME BothInv, TakeBack
  PROVE  TxTypeOK' /\ TxInv'
<1> USE Sizes, Queues DEF Rx, Tx
<1> DEFINE L == Len(taken)
           S == seen[1]
           N == npub[1]
           d == used[1][S % Num]
<1>1. RingTypeOK /\ TxTypeOK /\ TxInv
  BY DEF BothInv, NetInv, RxInv
<1>2. UNCHANGED <<last, uidx, used, avail, npub, desc, taken, stale>>
  BY DEF TakeBack, queues, past
<1>3. /\ uidx[1] # S % IdxSpace
      /\ IF d \in busy THEN seen' = [seen EXCEPT ![1] = S + 1] /\ busy' = busy \ {d} /\ broken' = broken
         ELSE broken' = TRUE /\ seen' = seen /\ busy' = busy
  BY DEF TakeBack
<1>4. L \in Nat /\ S \in Nat /\ N \in Nat /\ seen \in [Queue -> Nat]
  <2>1. L \in Nat
    BY <1>1 DEF TxTypeOK
  <2>2. S \in Nat /\ N \in Nat /\ seen \in [Queue -> Nat]
    BY <1>1 DEF RingTypeOK
  <2> QED BY <2>1, <2>2
<1> HIDE DEF d
<1>5. TxTypeOK'
  <2>1. busy' \subseteq busy
    BY <1>3
  <2> QED BY <1>1, <1>2, <2>1 DEF TxTypeOK
<1>6. ASSUME ~stale PROVE TxInv'
  <2>1. /\ S <= L /\ L <= N /\ N - S <= Num
        /\ last[1] = L % Num /\ uidx[1] = L % IdxSpace /\ ~broken
        /\ \A k \in 1 .. L : taken[k] = k
        /\ \A k \in S + 1 .. N : avail[1][Place(k)] \in busy /\ desc[avail[1][Place(k)]] = k
        /\ \A c \in busy : desc[c] \in S + 1 .. N /\ avail[1][Place(desc[c])] = c
        /\ \A k \in S + 1 .. L : used[1][Place(k)] = avail[1][Place(k)]
    BY <1>1, <1>6 DEF TxInv
  <2>2. S < L
    BY <1>3, <1>4, <2>1
  <2>3. Place(S + 1) = S % Num /\ S + 1 \in S + 1 .. L /\ S + 1 \in S + 1 .. N
    BY <1>4, <2>1, <2>2 DEF Place
  <2>4. d \in busy /\ desc[d] = S + 1
    <3>1. d = avail[1][Place(S + 1)]
      BY <2>1, <2>3 DEF d
    <3> QED BY <2>1, <2>3, <3>1
  <2>5. seen'[1] = S + 1 /\ busy' = busy \ {d} /\ ~broken'
    BY <1>3, <1>4, <2>1, <2>4
  <2> HIDE DEF L, S, N
  <2>6. ASSUME NEW k \in (S + 1) + 1 .. N
        PROVE  avail[1][Place(k)] \in busy' /\ desc[avail[1][Place(k)]] = k
    <3>1. k \in S + 1 .. N /\ k # S + 1
      BY <1>4
    <3>2. avail[1][Place(k)] \in busy /\ desc[avail[1][Place(k)]] = k
      BY <2>1, <3>1
    <3> QED BY <2>4, <2>5, <3>1, <3>2
  <2>7. ASSUME NEW c \in busy'
        PROVE  desc[c] \in (S + 1) + 1 .. N /\ avail[1][Place(desc[c])] = c
    <3>1. c \in busy /\ c # d
      BY <2>5
    <3>2. desc[c] \in S + 1 .. N /\ avail[1][Place(desc[c])] = c
      BY <2>1, <3>1
    <3>3. avail[1][Place(desc[d])] = d
      BY <2>1, <2>4
    <3>4. desc[c] # S + 1
      BY <2>4, <3>1, <3>2, <3>3
    <3> QED BY <1>4, <3>2, <3>4
  <2>8. \A k \in (S + 1) + 1 .. L : used[1][Place(k)] = avail[1][Place(k)]
    <3>1. \A k \in (S + 1) + 1 .. L : k \in S + 1 .. L
      BY <1>4
    <3> QED BY <2>1, <3>1
  <2>9. S + 1 <= L /\ L <= N /\ N - (S + 1) <= Num
    BY <1>4, <2>1, <2>2
  <2> QED BY <1>2, <2>1, <2>5, <2>6, <2>7, <2>8, <2>9 DEF TxInv, L, N
<1>7. CASE stale
  <2>1. stale' = stale
    BY <1>2
  <2>2. stale'
    BY <1>7, <2>1, Zenon
  <2> HIDE DEF L, S, N
  <2> QED BY <1>5, <2>2, Zenon DEF TxInv
<1> QED BY <1>5, <1>6, <1>7

(* Every other step leaves queue 1 alone. *)
LEMMA OthersTx ==
  ASSUME BothInv, OfferRx \/ Interrupt \/ NetRx \/ FrameArrives \/ Idle
  PROVE  TxTypeOK' /\ TxInv'
<1> USE Sizes, Queues DEF Rx, Tx
<1>1. RingTypeOK
  BY DEF BothInv, NetInv, RxInv
<1>2. UNCHANGED <<desc, busy, broken, taken, stale>>
  BY DEF OfferRx, Publish, Interrupt, NetRx, FrameArrives, Idle, Disconnect, VnetStart, VnetRaw,
       NetTxCrash, NetRxEarly, NoMbuf, NotWritable, vars, guest, past
<1>3. CASE OfferRx
  <2>1. /\ npub' = [npub EXCEPT ![0] = npub[0] + 1]
        /\ avail' = [avail EXCEPT ![0] = [avail[0] EXCEPT ![npub[0] % Num] = npub[0] + 1]]
        /\ UNCHANGED <<last, uidx, used, seen>>
    BY <1>3 DEF OfferRx, Publish, queues
  <2>2. npub'[1] = npub[1] /\ avail'[1] = avail[1]
    BY <1>1, <2>1 DEF RingTypeOK
  <2> QED BY <1>2, <2>1, <2>2, TxAlone
<1>4. CASE Interrupt
  <2>1. seen' = [seen EXCEPT ![0] = Len(filled)] /\ UNCHANGED <<last, uidx, used, npub, avail>>
    BY <1>4 DEF Interrupt, queues
  <2>2. seen'[1] = seen[1]
    BY <1>1, <2>1 DEF RingTypeOK
  <2> QED BY <1>2, <2>1, <2>2, TxAlone
<1>5. CASE NetRx
  <2>1. UNCHANGED <<avail, npub, seen>>
    BY <1>5 DEF NetRx
  <2>2. last'[1] = last[1] /\ uidx'[1] = uidx[1] /\ used'[1] = used[1]
    <3>1. \/ UNCHANGED queues
          \/ \E row, m, n :
               /\ used' = [used EXCEPT ![0] = row]
               /\ last' = [last EXCEPT ![0] = m] /\ uidx' = [uidx EXCEPT ![0] = n]
      <4>1. CASE tap = <<>> \/ ~(navail > 0)
        BY <1>5, <4>1 DEF NetRx, queues
      <4>2. CASE tap # <<>> /\ navail > 0
        <5>1. /\ used' = [used EXCEPT ![0] = [used[0] EXCEPT ![last[0] % Num] = avail[0][last[0] % Num]]]
              /\ last' = [last EXCEPT ![0] = last[0] + 1]
              /\ uidx' = [uidx EXCEPT ![0] = (uidx[0] + 1) % IdxSpace]
          BY <1>5, <4>2 DEF NetRx
        <5> QED BY <5>1
      <4> QED BY <4>1, <4>2
    <3>2. DOMAIN used = Queue /\ DOMAIN last = Queue /\ DOMAIN uidx = Queue
      BY <1>1 DEF RingTypeOK
    <3>3. CASE UNCHANGED queues
      BY <3>3 DEF queues
    <3>4. ASSUME NEW row, NEW m, NEW n,
                 used' = [used EXCEPT ![0] = row], last' = [last EXCEPT ![0] = m],
                 uidx' = [uidx EXCEPT ![0] = n]
          PROVE  last'[1] = last[1] /\ uidx'[1] = uidx[1] /\ used'[1] = used[1]
      BY <3>2, <3>4
    <3> QED BY <3>1, <3>3, <3>4
  <2> QED BY <1>2, <2>1, <2>2, TxAlone
<1>6. CASE FrameArrives \/ Idle
  <2>1. UNCHANGED <<last, uidx, used, npub, seen, avail>>
    BY <1>6 DEF FrameArrives, Idle, Disconnect, VnetStart, VnetRaw, NetTxCrash, NetRxEarly, NoMbuf,
         NotWritable, vars, queues, guest
  <2> QED BY <1>2, <2>1, TxAlone
<1> QED BY <1>3, <1>4, <1>5, <1>6

(* The invariant of both queues. *)
LEMMA BothInvHolds == Spec => []BothInv
<1>1. Init => TxTypeOK /\ TxInv
  <2> SUFFICES ASSUME Init PROVE TxTypeOK /\ TxInv
    OBVIOUS
  <2> USE Sizes, Queues DEF Init, Rx, Tx
  <2>1. taken = <<>> /\ Len(taken) = 0 /\ taken \in Seq(Nat)
    OBVIOUS
  <2>2. 0 % Num = 0 /\ 0 % IdxSpace = 0
    BY PlaceInRing
  <2>3. TxTypeOK
    <3>1. desc = [d \in Id |-> 0] /\ busy = {} /\ stale = FALSE /\ npub[1] = 0
      OBVIOUS
    <3>2. desc \in [Id -> Nat] /\ \A d \in Id : desc[d] <= npub[1]
      BY <3>1
    <3>3. stale \in BOOLEAN /\ busy \subseteq Id
      BY Zenon
    <3>4. \A k \in 1 .. Len(taken) : taken[k] <= npub[1]
      BY <2>1
    <3> HIDE DEF Init
    <3> QED BY <2>1, <3>2, <3>3, <3>4 DEF TxTypeOK
  <2> QED BY <2>1, <2>2, <2>3 DEF TxInv
<1>2. NetInv /\ NetInv' /\ TxTypeOK /\ TxInv /\ [Next]_vars => TxTypeOK' /\ TxInv'
  BY HandlerTx, NetTxTx, OfferTxTx, TakeBackTx, OthersTx DEF BothInv, Next, Guest, Idle
<1>3. BothInv <=> NetInv /\ TxTypeOK /\ TxInv
  BY DEF BothInv
<1> QED BY <1>1, <1>2, <1>3, NetInvHolds, PTL DEF Spec

(* vhost_tx takes the buffers of queue 1 in order, each once, and the guest *)
(* gets back what was taken, until it takes an entry that is not on offer.  *)
THEOREM TakenInOrder == Spec => []SentInOrder
<1>1. BothInv => SentInOrder
  <2> SUFFICES ASSUME BothInv, ~stale PROVE SentInOrder
    BY DEF SentInOrder
  <2> USE DEF Tx
  <2>1. /\ seen[1] <= Len(taken) /\ ~broken
        /\ \A k \in 1 .. Len(taken) : taken[k] = k
        /\ \A k \in seen[1] + 1 .. npub[1] :
             avail[1][Place(k)] \in busy /\ desc[avail[1][Place(k)]] = k
        /\ \A d \in busy : desc[d] \in seen[1] + 1 .. npub[1]
    BY DEF BothInv, TxInv
  <2>2. {desc[d] : d \in busy} = seen[1] + 1 .. npub[1]
    BY <2>1
  <2> QED BY <2>1, <2>2 DEF SentInOrder
<1> QED BY <1>1, BothInvHolds, PTL

LEMMA InvIsExact == ASSUME BothInv PROVE RxExact
<1> USE Sizes, Queues DEF Rx, Tx
<1>1. RingTypeOK /\ TapTypeOK /\ RingInv /\ FrameInv /\ RestTypeOK /\ SetupTypeOK /\ TxTypeOK
  BY DEF BothInv, NetInv, RxInv
<1>2. /\ Len(filled) \in Nat /\ Len(filled) <= npub[0] /\ last[0] = Len(filled)
      /\ seen[0] <= Len(filled) /\ npub[0] - seen[0] <= Num
  <2>1. filled \in Seq(Entry)
    BY <1>1 DEF TapTypeOK
  <2> QED BY <1>1, <2>1 DEF RingInv
<1>3. /\ \A q \in Queue : npub[q] \in 0 .. MaxPub[q] /\ seen[q] \in Nat
      /\ avail[0] \in [0 .. Num - 1 -> 0 .. npub[0]] /\ used[0] \in [0 .. Num - 1 -> 0 .. npub[0]]
      /\ avail[1] \in [0 .. Num - 1 -> Id] /\ used[1] \in [0 .. Num - 1 -> Id]
  <2>1. ASSUME NEW q \in Queue PROVE npub[q] \in 0 .. MaxPub[q] /\ seen[q] \in Nat
    <3>1. npub[q] \in Nat /\ seen[q] \in Nat /\ npub[q] <= MaxPub[q] /\ MaxPub[q] \in Nat
      BY <1>1 DEF RingTypeOK
    <3> QED BY <3>1
  <2>2. npub[0] \in Nat
    BY <1>1 DEF RingTypeOK
  <2>3. /\ avail[0] \in [0 .. Num - 1 -> Nat] /\ used[0] \in [0 .. Num - 1 -> Nat]
        /\ avail[1] \in [0 .. Num - 1 -> Nat] /\ used[1] \in [0 .. Num - 1 -> Nat]
    BY <1>1 DEF RingTypeOK
  <2>4. \A k \in 0 .. Num - 1 : /\ avail[0][k] <= npub[0] /\ used[0][k] <= npub[0]
                               /\ avail[1][k] < Num /\ used[1][k] < Num
    BY <1>1 DEF RingTypeOK
  <2>5. \A k \in 0 .. Num - 1 : /\ avail[0][k] \in 0 .. npub[0] /\ used[0][k] \in 0 .. npub[0]
                               /\ avail[1][k] \in Id /\ used[1][k] \in Id
    <3>1. ASSUME NEW k \in 0 .. Num - 1
          PROVE  /\ avail[0][k] \in 0 .. npub[0] /\ used[0][k] \in 0 .. npub[0]
                 /\ avail[1][k] \in 0 .. Num - 1 /\ used[1][k] \in 0 .. Num - 1
      <4>1. /\ avail[0][k] \in Nat /\ used[0][k] \in Nat /\ avail[1][k] \in Nat /\ used[1][k] \in Nat
        BY <2>3
      <4> QED BY <2>2, <2>4, <4>1
    <3> QED BY <3>1 DEF Id
  <2> QED BY <2>1, <2>3, <2>5
<1>4. last[1] \in 0 .. Num - 1 /\ last[0] \in 0 .. MaxPub[0] /\ uidx \in [Queue -> 0 .. IdxSpace - 1]
  <2>1. last[1] \in Nat /\ last[1] < Num /\ uidx \in [Queue -> 0 .. IdxSpace - 1]
    BY <1>1 DEF RingTypeOK
  <2>2. npub[0] \in 0 .. MaxPub[0]
    BY <1>3
  <2> QED BY <1>2, <2>1, <2>2
<1>5. tap \in Seq(1 .. nframe) /\ nframe \in 0 .. MaxFrames
  <2>1. tap \in Seq(Nat) /\ nframe \in Nat /\ nframe <= MaxFrames
    BY <1>1 DEF TapTypeOK
  <2>2. \A k \in 1 .. Len(tap) : tap[k] # 0 /\ tap[k] <= nframe /\ tap[k] \in Nat
    BY <1>1, <2>1 DEF TapTypeOK
  <2>3. \A k \in 1 .. Len(tap) : tap[k] \in 1 .. nframe
    BY <2>1, <2>2
  <2> QED BY <2>1, <2>3
<1>6. desc \in [Id -> 0 .. npub[1]] /\ taken \in Seq(0 .. npub[1])
  <2>1. /\ desc \in [Id -> Nat] /\ taken \in Seq(Nat) /\ \A d \in Id : desc[d] <= npub[1]
        /\ \A k \in 1 .. Len(taken) : taken[k] <= npub[1]
    BY <1>1 DEF TxTypeOK
  <2>2. npub[1] \in Nat
    BY <1>1 DEF RingTypeOK
  <2>3. \A k \in 1 .. Len(taken) : taken[k] \in 0 .. npub[1]
    <3>1. \A k \in 1 .. Len(taken) : taken[k] \in Nat
      BY <2>1
    <3> QED BY <2>1, <2>2, <3>1
  <2>4. taken \in Seq(0 .. npub[1])
    <3> DEFINE R == 0 .. npub[1]
    <3>1. \A k \in 1 .. Len(taken) : taken[k] \in R
      BY <2>3
    <3> HIDE DEF R
    <3>2. taken \in Seq(R)
      BY <2>1, <3>1
    <3> QED BY <3>2 DEF R
  <2>5. desc \in [Id -> 0 .. npub[1]]
    BY <2>1, <2>2
  <2> QED BY <2>4, <2>5
<1>7. filled \in Seq([buffer : 0 .. npub[0], frame : 0 .. MaxFrames])
  <2> DEFINE E == [buffer : 0 .. npub[0], frame : 0 .. MaxFrames]
  <2>1. filled \in Seq(Entry)
    BY <1>1 DEF TapTypeOK
  <2>2. ASSUME NEW k \in 1 .. Len(filled) PROVE filled[k] \in E
    <3>1. filled[k] \in Entry /\ filled[k].buffer = k /\ filled[k].frame <= nframe
      BY <1>1, <2>1 DEF RingInv, FrameInv
    <3>2. k \in 0 .. npub[0]
      <4>1. npub[0] \in Nat
        BY <1>1 DEF RingTypeOK
      <4> QED BY <1>2, <4>1
    <3>3. filled[k].frame \in 0 .. MaxFrames
      <4>1. filled[k].frame \in Nat
        BY <3>1 DEF Entry
      <4> QED BY <1>5, <3>1, <4>1
    <3> QED BY <3>1, <3>2, <3>3 DEF Entry
  <2> HIDE DEF E
  <2>3. filled \in Seq(E)
    BY <2>1, <2>2
  <2> QED BY <2>3 DEF E
<1>8. TypeOK
  <2>1. qpc \in 1 .. Len(Script) /\ step \in 0 .. 2
        /\ vq \in [Queue -> [desc : BOOLEAN, avail : BOOLEAN, used : BOOLEAN, num : BOOLEAN]]
    BY <1>1, ScriptIs DEF SetupTypeOK
  <2>2. RestTypeOK
    BY <1>1
  <2>3. busy \subseteq Id /\ stale \in BOOLEAN
    BY <1>1 DEF TxTypeOK
  <2> QED BY <1>3, <1>4, <1>5, <1>6, <1>7, <2>1, <2>2, <2>3 DEF TypeOK, RestTypeOK
<1>9. Len(filled) - seen[0] <= Num
  <2>1. npub[0] \in Nat /\ seen[0] \in Nat
    BY <1>1 DEF RingTypeOK
  <2> QED BY <1>2, <2>1
<1> QED BY <1>1, <1>2, <1>8, <1>9 DEF RxExact, RingInv, FrameInv

(* A frame is dropped only when every buffer offered is filled, or after    *)
(* avail->idx has gone round.                                               *)
LEMMA DropHasCause == ASSUME NetInv, Next PROVE DropsForCause
<1> USE Sizes, Queues DEF Rx, Tx
<1>1. SUFFICES ASSUME Len(tap') < Len(tap), filled' = filled, npub[0] < IdxSpace
               PROVE  npub[0] = Len(filled)
  <2>1. npub[0] \in Nat
    BY DEF NetInv, RxInv, RingTypeOK
  <2> QED BY <1>1, <2>1 DEF DropsForCause
<1>2. tap \in Seq(Nat) /\ nframe \in Nat /\ filled \in Seq(Entry) /\ npub[0] \in Nat
  BY DEF NetInv, RxInv, TapTypeOK, RingTypeOK
<1>3. Len(tap) \in Nat /\ Len(filled) \in Nat
  BY <1>2
<1>4. NetRx
  <2>1. tap' # tap
    BY <1>1, <1>3
  <2>2. ~FrameArrives
    BY <1>1, <1>2 DEF FrameArrives
  <2> QED BY <2>1, <2>2 DEF Next, Handler, GetFeatures, Noted, SetFeatures, SetOwner, SetMemTable,
            SetVringNum, SetVringBase, SetVringAddr, SetVringCall, VnetUnchanged, Disconnect,
            VnetStart, VnetRaw, NetTxOk, NetTxFail, NetTx, NetTxCrash, NetRxEarly, NoMbuf, NotWritable, Guest, TakeBack,
            Interrupt, OfferRx, OfferTx, Publish
<1>5. ~(navail > 0)
  <2> SUFFICES ASSUME navail > 0 PROVE FALSE
    OBVIOUS
  <2>1. CASE tap = <<>>
    BY <1>1, <1>3, <1>4, <2>1 DEF NetRx
  <2>2. CASE tap # <<>>
    <3>1. PICK e : filled' = Append(filled, e)
      BY <1>4, <2>2 DEF NetRx
    <3>2. Len(filled') = Len(filled) + 1
      BY <1>2, <3>1
    <3> QED BY <1>1, <1>3, <3>2
  <2> QED BY <2>1, <2>2
<1>6. last[0] = Len(filled) /\ Len(filled) <= npub[0]
  BY DEF NetInv, RxInv, RingInv
<1>7. npub[0] % IdxSpace = npub[0]
  <2>1. npub[0] \in Nat /\ npub[0] < IdxSpace
    BY <1>1, <1>2
  <2> QED BY <2>1, PlaceInRing
<1>8. ~(npub[0] - Len(filled) > 0)
  BY <1>5, <1>6, <1>7 DEF navail
<1> QED BY <1>2, <1>3, <1>6, <1>8

(* Whatever the indices do, the k-th frame delivered is in the k-th buffer  *)
(* the guest offered, none is overwritten, frames keep their order, and a   *)
(* frame is dropped for one of two causes: vhost_rx, for every ring size.   *)
THEOREM FramesDelivered == Spec => RxRight
<1>1. BothInv /\ BothInv' /\ [Next]_vars => [RxExact' /\ DropsForCause]_vars
  <2>1. BothInv' => RxExact'
    <3>1. BothInv => RxExact
      BY InvIsExact
    <3> QED BY <3>1, PTL
  <2>2. BothInv => NetInv
    BY DEF BothInv
  <2> QED BY <2>1, <2>2, DropHasCause
<1> QED BY <1>1, BothInvHolds, PTL DEF Spec, RxRight
=============================================================================
