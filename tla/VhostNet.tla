------------------------------ MODULE VhostNet ------------------------------
(***************************************************************************)
(* The vhost-user net backend.  The main thread handles the messages of    *)
(* qemu one by one; vhost_user_vnet_start moves frames between a tap and   *)
(* the two virtqueues of the guest: queue 1 carries what the guest sends   *)
(* (vhost_tx), queue 0 what it receives (vhost_rx).                        *)
(*                                                                         *)
(* A buffer is a number in the order the guest offers them, a frame of the *)
(* tap likewise.  The rings of queue 1 hold the ids of descriptors, which  *)
(* the guest describes anew when it offers a buffer in one that is free;   *)
(* vhost_rx takes only entries offered, so those of queue 0 hold the       *)
(* buffer's number.  last_used_idx of queue 1 is used only modulo num and  *)
(* is kept so; the guest's indices wrap at IdxSpace (2^16).  qemu and the  *)
(* guest follow the order of the vhost-user protocol; the guest takes back *)
(* used buffers of queue 1 when it likes, and those of queue 0 when its    *)
(* eventfd is signalled.  Left out: the kick eventfds, which are kept and  *)
(* never read, and the mbufs of vhost_tx, never freed.                     *)
(***************************************************************************)
EXTENDS Integers, Sequences, FiniteSets

CONSTANTS Num,         \* entries of a virtqueue, a power of two
          IdxSpace,    \* values of avail->idx and used->idx, 2^16
          Layouts,     \* memory tables: sequences of regions
          Shapes,      \* how the guest chains descriptors on queue 0: one or two
          MaxPub,      \* buffers the guest offers on each queue (a bound of the model)
          MaxFrames,   \* frames that reach the tap (a bound of the model)
          MaxFail      \* writes that fail, memory that is refused, qemu lost (a bound of the model)

ASSUME SizeAssumption ==
  /\ Num \in Nat \ {0} /\ IdxSpace \in Nat \ {0} /\ IdxSpace % Num = 0
  /\ MaxPub \in [{0, 1} -> Nat] /\ MaxFrames \in Nat /\ MaxFail \in Nat
ASSUME ShapeAssumption == Shapes \subseteq {"one", "two"}
ASSUME LayoutAssumption ==
  Layouts \subseteq Seq([guest_address : Nat, size : Nat, user_address : Nat, mmap : Nat, off : Nat])
\* The regions of a memory table do not overlap, neither in the memory of the
\* guest nor in qemu's, where each is a mapping of its own.
ASSUME DisjointAssumption ==
  \A l \in Layouts : \A i, j \in DOMAIN l : i # j =>
    /\ \/ l[i].guest_address + l[i].size <= l[j].guest_address
       \/ l[j].guest_address + l[j].size <= l[i].guest_address
    /\ \/ l[i].user_address + l[i].size <= l[j].user_address
       \/ l[j].user_address + l[j].size <= l[i].user_address

VARIABLES
  layout, shape,        \* the guest's memory; how it chains descriptors on queue 0
  qpc, step,            \* qemu: next message; main thread: part of a handler that is done
  features,             \* vhost_supported_featrues is still the backend's own
  virtiodev, mem,       \* the device: none, raw (malloc), zeroed; its memory table
  vq, last,             \* fields of the virtqueues that are set; last_used_idx
  call,                 \* what callfd of queue 0 is
  pc,                   \* vnet thread: step; "rxonly" is "rx" without vhost_tx before it
  avail, npub, uidx, used, \* shared memory: avail->ring, buffers offered, used->idx, used->ring
  desc, busy,           \* queue 1: the buffer each descriptor describes; descriptors on offer
  tap, nframe,          \* frames waiting in the tap, frames so far
  seen, irq, broken,    \* guest: last used->idx seen, its eventfd, queue 1 given up
  taken, stale,         \* history: buffers vhost_tx took until it took an entry not on offer
  filled,               \* history: frames put into buffers of queue 0
  told, fails, fault    \* history: the last delivery was signalled; failures; a crash

setup == <<qpc, step, features, virtiodev, mem, vq, call>>
guest == <<avail, npub, desc, busy, seen, irq, broken>>
queues == <<last, uidx, used>>
past == <<taken, stale, filled, told>>
vars == <<layout, shape, setup, pc, queues, guest, tap, nframe, past, fails, fault>>

Queue == {0, 1}
Rx == 0
Tx == 1
\* Descriptors of queue 1, a chain by its first.
Id == 0 .. Num - 1

-----------------------------------------------------------------------------
(* Address translation                                                     *)

\* mmap_offset as vhost_user_set_mem_table leaves it.
mmap_offset(r) == r.mmap + r.off - r.guest_address
\* The first region that holds an address; the comparison includes its end.
First(hits) == IF hits = {} THEN 0 ELSE CHOOSE i \in hits : \A j \in hits : i <= j
InGuest(l, a) == {i \in DOMAIN l : a <= l[i].guest_address + l[i].size /\ a >= l[i].guest_address}
InUser(l, a) == {i \in DOMAIN l : a <= l[i].user_address + l[i].size /\ a >= l[i].user_address}
gpa_to_hva(l, a) ==
  LET i == First(InGuest(l, a))
  IN  IF i = 0 THEN 0 ELSE a + mmap_offset(l[i])
\* Mutant: the address is not made relative to its region.
gva_to_hvaAbsolute(l, a) ==
  LET i == First(InUser(l, a))
  IN  IF i = 0 THEN 0 ELSE a + mmap_offset(l[i])
gva_to_hva(l, a) ==
  LET i == First(InUser(l, a))
  IN  IF i = 0 THEN 0 ELSE a + mmap_offset(l[i]) + l[i].guest_address - l[i].user_address

-----------------------------------------------------------------------------
(* struct virtqueue is zeroed with the device.                             *)
NoQueue == [desc |-> FALSE, avail |-> FALSE, used |-> FALSE, num |-> FALSE]

Init ==
  /\ layout \in Layouts /\ shape \in Shapes
  /\ qpc = 1 /\ step = 0 /\ features = TRUE
  /\ virtiodev = "none" /\ mem = FALSE /\ vq = [q \in Queue |-> NoQueue] /\ last = [q \in Queue |-> 0]
  /\ call = "unset" /\ pc = "wait"
  /\ avail = [q \in Queue |-> [s \in 0 .. Num - 1 |-> 0]] /\ npub = [q \in Queue |-> 0]
  /\ uidx = [q \in Queue |-> 0] /\ used = [q \in Queue |-> [s \in 0 .. Num - 1 |-> 0]]
  /\ desc = [d \in Id |-> 0] /\ busy = {}
  /\ tap = <<>> /\ nframe = 0 /\ seen = [q \in Queue |-> 0] /\ irq = FALSE /\ broken = FALSE
  /\ taken = <<>> /\ stale = FALSE /\ filled = <<>> /\ told = FALSE
  /\ fails = 0 /\ fault = "none"

-----------------------------------------------------------------------------
(* The main thread: vhost_user_msg_handler on the messages of qemu         *)

Message(r, q) == [request |-> r, index |-> q]
PerQueue(q) == <<Message("SET_VRING_NUM", q), Message("SET_VRING_BASE", q),
                 Message("SET_VRING_ADDR", q), Message("SET_VRING_KICK", q)>>
\* What qemu says, with a masked eventfd first; GET_VRING_BASE stops the device.
Script ==
  <<Message("GET_FEATURES", 0), Message("SET_OWNER", 0), Message("SET_VRING_CALL", 0),
    Message("SET_VRING_ENABLE", 0), Message("SET_FEATURES", 0), Message("SET_MEM_TABLE", 0)>>
  \o PerQueue(Rx) \o PerQueue(Tx)
  \o <<Message("SET_VRING_CALL", 0), Message("GET_VRING_BASE", 0)>>
Asks(r) == qpc <= Len(Script) /\ Script[qpc].request = r /\ fault = "none"
Index == Script[qpc].index
Done == qpc' = qpc + 1 /\ step' = 0
Half == step' = step + 1 /\ UNCHANGED qpc
VnetUnchanged == UNCHANGED <<layout, shape, pc, uidx, used, guest, tap, nframe, past, fails, fault>>

\* Answered.  GET_VRING_BASE, which qemu waits for as well, is not: it says no more.
GetFeatures ==
  /\ Asks("GET_FEATURES")
  /\ Done /\ VnetUnchanged /\ UNCHANGED <<features, virtiodev, mem, vq, last, call>>

\* Stored and never used, or only printed.
Noted ==
  /\ Asks("SET_VRING_KICK") \/ Asks("SET_VRING_ENABLE")
  /\ Done /\ VnetUnchanged /\ UNCHANGED <<features, virtiodev, mem, vq, last, call>>

\* SET_FEATURES overwrites what GET_FEATURES offers the next time.
SetFeatures ==
  /\ Asks("SET_FEATURES") /\ features' = FALSE
  /\ Done /\ VnetUnchanged /\ UNCHANGED <<virtiodev, mem, vq, last, call>>

\* SET_OWNER: malloc, then memset, then the signal.
SetOwner ==
  /\ Asks("SET_OWNER") /\ virtiodev' = IF step = 0 THEN "raw" ELSE "zeroed"
  /\ IF step = 0 THEN Half ELSE Done
  /\ VnetUnchanged /\ UNCHANGED <<features, mem, vq, last, call>>

SetMemTable ==
  /\ Asks("SET_MEM_TABLE") /\ mem' = TRUE
  /\ Done /\ VnetUnchanged /\ UNCHANGED <<features, virtiodev, vq, last, call>>

SetVringNum ==
  /\ Asks("SET_VRING_NUM") /\ vq' = [vq EXCEPT ![Index].num = TRUE]
  /\ Done /\ VnetUnchanged /\ UNCHANGED <<features, virtiodev, mem, last, call>>

SetVringBase ==
  /\ Asks("SET_VRING_BASE") /\ last' = [last EXCEPT ![Index] = 0]
  /\ Done /\ VnetUnchanged /\ UNCHANGED <<features, virtiodev, mem, vq, call>>

\* desc, avail and used, while the other thread looks at them.
SetVringAddr ==
  /\ Asks("SET_VRING_ADDR")
  /\ vq' = [vq EXCEPT ![Index] = [desc |-> TRUE, avail |-> step > 0, used |-> step > 1, num |-> @.num]]
  /\ IF step < 2 THEN Half ELSE Done
  /\ VnetUnchanged /\ UNCHANGED <<features, virtiodev, mem, last, call>>

\* The old descriptor is closed, then the new one stored.
SetVringCall ==
  /\ Asks("SET_VRING_CALL")
  /\ IF step = 0 /\ call # "unset"
     THEN call' = "closed" /\ Half
     ELSE call' = (IF call = "unset" THEN "masked" ELSE "guest") /\ Done
  /\ VnetUnchanged /\ UNCHANGED <<features, virtiodev, mem, vq, last>>

\* qemu is gone: recvmsg fails and main returns.
Disconnect ==
  /\ fault = "none" /\ qpc > 1 /\ fails < MaxFail /\ fault' = "exit" /\ fails' = fails + 1
  /\ UNCHANGED <<layout, shape, setup, pc, queues, guest, tap, nframe, past>>

-----------------------------------------------------------------------------
(* vhost_user_vnet_start                                                   *)

\* The device is there, zeroed or not yet; then tun_alloc.
VnetStart ==
  /\ pc = "wait" /\ virtiodev # "none" /\ fault = "none" /\ pc' = "poll"
  /\ UNCHANGED <<layout, shape, setup, queues, guest, tap, nframe, past, fails, fault>>

\* dev->mem of a device that is not zeroed yet.
VnetRaw ==
  /\ pc \in {"poll", "rxonly"} /\ virtiodev = "raw" /\ fault = "none" /\ fault' = "raw"
  /\ UNCHANGED <<layout, shape, setup, pc, queues, guest, tap, nframe, past, fails>>

\* Mutant: a device with a memory table is taken for ready.
TxReadyEarly == mem
\* vhost_tx goes on; it returns 0 otherwise, and the loop begins again.
TxReady == mem /\ vq[Tx].desc /\ vq[Tx].avail /\ vq[Tx].used

\* Mutant: the position in the ring is not advanced.
TxNextSame(n) == n
TxNext(n) == (n + 1) % Num

\* The entry vhost_tx looks at, whether the guest has put one there or not.
TxEntry == avail[Tx][last[Tx]]
\* A descriptor never described is zero: its length less that of the header
\* wraps, and the copy leaves the process.
Copies == vq[Tx].num /\ desc[TxEntry] # 0

(* vhost_tx takes the next entry of the ring, copies what its descriptor   *)
(* describes now, and hands it back as used; then write.  Of a chain of    *)
(* two, the mbuf is sent as it happens to be.  vhost_tx never signals      *)
(* callfd.                                                                 *)
NetTx(written) ==
  /\ pc = "poll" /\ TxReady /\ Copies /\ fault = "none"
  /\ used' = [used EXCEPT ![Tx][last[Tx]] = TxEntry]
  /\ last' = [last EXCEPT ![Tx] = TxNext(@)]
  /\ uidx' = [uidx EXCEPT ![Tx] = (@ + 1) % IdxSpace]
  /\ stale' = (stale \/ Len(taken) = npub[Tx])
  /\ taken' = IF stale' THEN <<>> ELSE Append(taken, desc[TxEntry])
  /\ fails' = IF written THEN fails ELSE fails + 1
  /\ pc' = IF written THEN "rx" ELSE "poll"
  /\ UNCHANGED <<layout, shape, setup, guest, tap, nframe, filled, told, fault>>

\* By zero, the number of entries not told yet, or over the end of the mbuf.
NetTxCrash ==
  /\ pc = "poll" /\ TxReady /\ ~Copies /\ fault = "none"
  /\ fault' = IF vq[Tx].num THEN "copy" ELSE "tx"
  /\ UNCHANGED <<layout, shape, setup, pc, queues, guest, tap, nframe, past, fails>>

NetTxOk   == NetTx(TRUE)
NetTxFail == fails < MaxFail /\ NetTx(FALSE)

\* Mutant: avail->idx is not looked at, as in vhost_tx.
navailEver == 1
(* navail: a 16-bit index minus a 32-bit count, as an int, so that it is   *)
(* negative for ever once avail->idx has gone round.                       *)
navail == (npub[Rx] % IdxSpace) - last[Rx]

Receives == pc \in {"rx", "rxonly"} /\ fault = "none"
\* What vhost_rx goes through on the way to a buffer.
RxReady == vq[Rx].avail /\ (navail > 0 => vq[Rx].used /\ vq[Rx].num)

\* recvfrom_peer, vhost_rx: one frame into one buffer, or dropped.
NetRx ==
  /\ Receives /\ (tap # <<>> => RxReady) /\ pc' = "poll"
  /\ IF tap = <<>> THEN UNCHANGED <<queues, irq, tap, filled, told>>
     ELSE /\ tap' = Tail(tap)
          /\ IF navail > 0
             THEN LET slot == last[Rx] % Num
                      b    == avail[Rx][slot]
                  IN  /\ used' = [used EXCEPT ![Rx][slot] = b]
                      /\ last' = [last EXCEPT ![Rx] = @ + 1]
                      /\ uidx' = [uidx EXCEPT ![Rx] = (@ + 1) % IdxSpace]
                      /\ filled' = Append(filled, [buffer |-> b, frame |-> IF shape = "two" THEN Head(tap) ELSE 0])
                      /\ told' = (call = "guest")
             ELSE UNCHANGED <<queues, filled, told>>
          /\ irq' = IF navail # 0 /\ call = "guest" THEN TRUE ELSE irq
  /\ UNCHANGED <<layout, shape, setup, avail, npub, desc, busy, seen, broken, nframe, taken, stale, fails, fault>>

\* vhost_rx goes through a pointer that is not set yet.
NetRxEarly ==
  /\ Receives /\ tap # <<>> /\ ~RxReady /\ fault' = "rx"
  /\ UNCHANGED <<layout, shape, setup, pc, queues, guest, tap, nframe, past, fails>>

\* recvfrom_peer has no memory.
NoMbuf ==
  /\ Receives /\ tap # <<>> /\ fails < MaxFail
  /\ fault' = "exit" /\ fails' = fails + 1
  /\ UNCHANGED <<layout, shape, setup, pc, queues, guest, tap, nframe, past>>

\* The tap can be read and not written: its interface is down, or it is full of
\* frames of ours.
NotWritable ==
  /\ pc = "poll" /\ tap # <<>> /\ fault = "none" /\ pc' = "rxonly"
  /\ UNCHANGED <<layout, shape, setup, queues, guest, tap, nframe, past, fails, fault>>

-----------------------------------------------------------------------------
(* The guest and the network behind the tap                                *)

\* Buffers the guest has offered and not got back.
Out(q) == npub[q] - seen[q]
Publish(q, entry) ==
  /\ fault = "none" /\ Out(q) < Num /\ npub[q] < MaxPub[q]
  /\ npub' = [npub EXCEPT ![q] = @ + 1]
  /\ avail' = [avail EXCEPT ![q][npub[q] % Num] = entry]
  /\ UNCHANGED <<layout, shape, setup, pc, queues, seen, irq, broken, tap, nframe, past, fails, fault>>

OfferRx == Publish(Rx, npub[Rx] + 1) /\ UNCHANGED <<desc, busy>>

\* In any descriptor that is free.
OfferTx == ~broken /\ \E d \in Id \ busy :
  /\ Publish(Tx, d)
  /\ desc' = [desc EXCEPT ![d] = npub[Tx] + 1] /\ busy' = busy \cup {d}

\* A used entry of queue 1: what its descriptor describes now is done.  One that
\* names no descriptor on offer breaks the queue.
TakeBack ==
  /\ fault = "none" /\ ~broken /\ uidx[Tx] # seen[Tx] % IdxSpace
  /\ LET d == used[Tx][seen[Tx] % Num]
     IN  IF d \in busy
         THEN seen' = [seen EXCEPT ![Tx] = @ + 1] /\ busy' = busy \ {d} /\ UNCHANGED broken
         ELSE broken' = TRUE /\ UNCHANGED <<seen, busy>>
  /\ UNCHANGED <<layout, shape, setup, pc, queues, avail, npub, desc, irq, tap, nframe, past, fails, fault>>

Interrupt ==
  /\ fault = "none" /\ irq /\ irq' = FALSE
  /\ seen' = [seen EXCEPT ![Rx] = Len(filled)]
  /\ UNCHANGED <<layout, shape, setup, pc, queues, avail, npub, desc, busy, broken, tap, nframe, past, fails, fault>>

FrameArrives ==
  /\ pc # "wait" /\ fault = "none" /\ nframe < MaxFrames
  /\ nframe' = nframe + 1 /\ tap' = Append(tap, nframe + 1)
  /\ UNCHANGED <<layout, shape, setup, pc, queues, guest, past, fails, fault>>

-----------------------------------------------------------------------------
Handler == GetFeatures \/ Noted \/ SetFeatures \/ SetOwner \/ SetMemTable \/ SetVringNum \/ SetVringBase
           \/ SetVringAddr \/ SetVringCall
Guest == OfferRx \/ OfferTx \/ TakeBack \/ Interrupt
Next == \/ Handler \/ Disconnect \/ VnetStart \/ VnetRaw \/ NetTxOk \/ NetTxFail \/ NetTxCrash \/ NetRx \/ NetRxEarly
        \/ NoMbuf \/ NotWritable \/ Guest \/ FrameArrives
Spec == Init /\ [][Next]_vars

(* qemu sends its messages, the thread never stops, a tap with nothing to  *)
(* read can be written to, and the guest serves its interrupt.             *)
Fairness == WF_vars(Handler) /\ WF_vars(VnetStart) /\ WF_vars(NetTxOk \/ NetTxCrash) /\ WF_vars(NetRx) /\ WF_vars(Interrupt)
FairSpec == Spec /\ Fairness
=============================================================================
