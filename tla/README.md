# Verification of dpdk-learning

TLA+ models of the programs in this repository, the TLC runs that check them on
small instances, and TLAPS proofs of the results that matter most for instances
of any size. Paths below are relative to the repository's root.

Run a model with `tlc -config MCVring.cfg MCVring`, check a proof module with
`tlapm VringProofs.tla`. `PROJECT.json` lists the runs, what each one is expected
to show, which source lines every definition stands for, and the hazards the
properties are aimed at.

## 1. The system

The repository is a course: a user-space network stack over DPDK that grows
lesson by lesson (`dpdk-code/01_recv` ... `14_tcp_concurrency`; each lesson is a
copy of the one before plus one idea), a vhost-user client and server
(`vring_test`), a second vhost-user backend (`virtio-vhost`), VPP plugins, a DNS
server and small SPDK programs. There are no tests; the expectations the models
are held to come from comments, messages and the purpose of each call.

### Components

| Component | State it keeps | Operations | Talks to | Hard part | What makes it correct |
|---|---|---|---|---|---|
| Receive loops (01-06, 08-12, 14, DNS server) | mbufs in the pool, the card's queues, two rings, the KNI | one burst at a time: receive, answer, free; ARP timer | card, kernel | answers freed while the card still has them, bursts given to the KNI as a whole, frames never freed | one owner per mbuf, the right answer to the right host |
| Packet pipeline (06, 07, main loops of all later lessons) | rings `in`, `out` | main loop: receive burst, transmit burst, timer; `pkt_process`: one burst | port, sockets | two lcores, bounded rings, ignored enqueue results | no frame lost silently except at a full ring |
| ARP table and timer (05, 07, 11, 12) | linked list of IP/MAC | lookup, insert on reply, periodic scan | pipeline, UDP/TCP output | searched without the lock insertions take | a search misses only what is being inserted, an address has one entry |
| UDP sockets (07) | `localhost` list; `rcvbuf`, `sndbuf`, mutex, condition | `nsocket`, `nbind`, `nrecvfrom`, `nsendto`, `nclose`; `udp_process`, `udp_out` | pipeline, server thread | enqueue outside the mutex, signal inside; split datagrams | no lost wake-up, every byte once, to its sender |
| TCP stream (08, 09) | status, sequence numbers, two rings | one handler per state, `ng_tcp_out` | network | loss, repetition, reordering, numbers that are not compared | acknowledges what it has, echoes once in order |
| TCP socket API (10, 14) | descriptor bitmap, listener, streams | `nsocket`, `nbind`, `nlisten`, `naccept`, `nrecv`, `nsend`, `nclose` | streams, epoll | no lock on bitmap and stream table, descriptor reuse, removal while another thread walks | a descriptor names one open stream, nobody sleeps on what it waits for |
| User-space epoll (14) | red-black tree, ready list, counter, three locks | `nepoll_create`, `nepoll_ctl`, `nepoll_wait`, `epoll_event_callback` | TCP streams, server thread | flag tested without the lock, wait and signal under different locks | edge-triggered: each event handed out once, no lost wake-up |
| KNI control (11, 12, DNS server) | port, MTU, link state | `kni_change_mtu`, `kni_config_network_if`, link monitor | kernel, card | the port the requests depend on is the one they stop, the kernel waits three seconds only | the port follows the kernel until it has given up a request, requests are looked at |
| DDoS detection (12) | window of counters | one call per frame | main loop | window index | a verdict is about the last window |
| RCU demonstration (`rcu.c`) | pointer to a pair | updater, reader | liburcu | freeing under readers | a reader sees one pair |
| TX virtqueue (`vring_test/vring.c`) | descriptor table, avail and used ring in shared memory | `put_vring`, `process_used_vring`, `process_avail_vring`, `kick` | two processes | no lock, indices that wrap differently | packets once and in order, free list intact |
| RX echo (`vring_test`) | one packet buffer, RX ring | `avail_handler_server`, `poll_server`, `_kick_client` | two processes | one buffer for a burst, descriptors never taken back | in order, at most once, the last one comes back |
| vhost-user control (`vring_test`) | descriptor list, memory table, rings | setup messages, select loop, kick | client process, shared memory | kicks between setup messages, successive clients, a list of ten | a client is served from its own memory |
| vhost-user net backend (`virtio-vhost/vhost.c`) | memory regions, two queues | message handler, `vhost_tx`, `vhost_rx` | qemu, tap device | address translation at region ends, 16-bit differences, a thread that runs during setup | frames go to the buffers the guest offered |
| DNS server | one `Message` for all queries | decode, resolve, encode | port | what the last query left behind | a reply is about its own query |
| SPDK NVMe program | controllers, namespaces, one completion flag | probe, reset, write, read | NVMe device | one flag for successive commands | a queue pair outlives its commands |
| SPDK echo server | socket group, counters | two pollers | clients | failures inside the accept loop, resets, writes taken in part | catches up with its clients, loses bytes only where it must |
| VPP plugins, VCL and posix programs, `hash.c`, `uio_driver.c`, `spdk_vmd.c` | little or none | library calls in sequence | libraries | - | - |

`PROJECT.json` lists every one of them with its files; what is not modelled is
marked there with the reason.

### How the parts interact

In the final lesson three lcores run for ever. The main loop moves frames between
the port and the rings `in` and `out`. `pkt_process` takes bursts from `in`,
hands each frame to `udp_process` or `ng_tcp_process`, which fill a socket's
`rcvbuf` and wake its reader, and then drains every socket's `sndbuf` into `out`.
The server thread makes socket calls; in lesson 14 it learns from the epoll which
socket to serve, and `ng_tcp_process` posts to the epoll.

Lessons 11 and 12 give frames that are neither UDP nor TCP to the kernel and answer its
requests from the same loop. In `vring_test` the client and the server are two processes that share the
memory of the rings, a Unix socket for the setup messages, and eventfds.

## 2. Modules

| Module | Models | Composes |
|---|---|---|
| `EventSet` | what the epoll promises: an edge-triggered set of ready items | |
| `EventPoll` (+`Props`; proofs in `TcpServerProofs`) | the epoll of lesson 14, one action per step between two points at which the other thread can see or disturb it | implements `EventSet` |
| `Epoll` | `EventPoll` under names of its own, with the assumptions on its constants, beside which another module can be extended | `EventPollProps` |
| `TcpServer` (+`Props`, `Proofs`) | stream table, state handlers, socket calls and server loop of lesson 14 | uses the epoll through `EventSet`, which `EventPoll` is proved to implement |
| `TcpApi` (+`Props`, `Proofs`) | lesson 10: three lcores, the bitmap and the stream table without locks, blocking calls | |
| `TcpSeq` (+`Props`, `Proofs`) | lessons 08 and 09: one stream with its numbers on a faulty network | |
| `UdpEcho` (+`Props`, `Proofs`) | lesson 07 as a whole: main loop, packet thread, server, port, clients | |
| `Vring` (+`Props`, `Proofs`) | the TX virtqueue, one action per write the other process can see | |
| `VhostUser` (+`Props`, `Proofs`) | the control side of `vring_test` over successive clients | uses the ring as counters; `Vring` has its detail |
| `VhostNet` (+`Props`, `Proofs`) | `virtio-vhost/vhost.c`: both threads, qemu and the guest | |
| `Frames` (+`Props`) | who owns an mbuf in lessons 01-06, 08-12, 14 and in the DNS server | |
| `Dns`, `ArpTable`, `Ddos`, `Rcu`, `Kni`, `Nvme`, `SpdkServer`, `VringEcho` | one small program or part each | |
| `Programs` (+`Proofs`) | the programs of the last two rows side by side: a behaviour runs one of them | `Frames` ... `VringEcho` |
| `MC...` | instances for TLC | |

Variables and actions carry the names of the fields and functions they stand
for; a variable called auxiliary or history in its declaration stands for no
field; where a guard reads one it is to bound the run.

**EventPoll.** `cbpc` is the place of the packet thread in `epoll_event_callback`,
`spc` that of the server in `nepoll_ctl` or `nepoll_wait`. An `epitem` comes from
`rte_malloc` and is given to the `free()` of libc, which is undefined: at every removal the
process may end there (`aborted`) or go on without the memory, so that an `Item` is an address
handed out at most once. Safety is stated for both outcomes, liveness up to the end of the
process (`Running`). The test of `rdy` before the spin lock, the counting under the spin lock
and the signal under `cdmtx` are separate actions, and so are the steps of the
pop loop. `RB_FIND` without `mtx` may miss a registered item while `nepoll_ctl`
is inside an insertion or removal. `EPOLL_CTL_MOD` and masks are left out.

**TcpServer.** `tcb_set` is the list of streams, newest first; `tpc`/`spc` are the
places of the packet and the server thread. A walk of the list that a removal
overtakes may end early (`torn`). From the moment a call gets the wrong stream,
finds its walk cut, exhausts the descriptors, or reads a fragment longer than its
buffer, nothing is promised: `strayed` records the first of these, the properties
are stated up to it.
Assumed: peers send any segment in any order, but no empty data segment; a wait
on the condition in `naccept` does not return without a signal; allocations
succeed. Pure ACKs are not queued in the model. An `Item` is, as in `EventPoll`, an address handed
out once, and the process may end at the `free()` of any removal (`aborted`); `Add` stops when no
item is left (a bound of the model).

**UdpEcho.** Every ring is bounded and the result of an enqueue is ignored, as in
the code; `lost` collects what is given up there. A datagram is a number and its
bytes are positions, so that splitting in `nrecvfrom` (`RecvCopy`, which uses
`ol->length`, a length that counts the UDP header), putting back in `nrecvfrom`
and `udp_out`, and dropping can be followed byte by byte. The three parts of the
main loop may run in any order (more interleavings than the code has), a round of
the ARP timer is one step, payloads contain no NUL. `MaxFrames` and `MaxTicks` bound the frames
of both kinds and the rounds of the timer.

**Vring.** Ring size and the modulus of the 16-bit indices are separate constants
(`IdxMod = 2 * Size`, as 65536 = 2 * 32768). `free` is the free list read off the
links, kept beside them so that the links can be compared with it. The server
runs in kick mode: the client always passes an eventfd.

**VhostUser.** `slots` is `fd_list`, `fdset` what `select` returned, `pos` where
`process_fd_set` is: a handler may change the list while it is traversed. A
client ends by SIGINT or is killed at any step; the next one starts when the
server has nothing readable left. `obj` says which shared memory object a session
uses: the name is fixed, so it is a new one only after an unlink that hits that
name (`DefaultPath`). Reuse of descriptor numbers is not modelled. `strayed` marks
a walk of a ring with a memory table it does not belong to, and the end of the
server by SIGPIPE: the GET_FEATURES reply is sent without `MSG_NOSIGNAL`, so a
client killed before it is answered takes the server with it.

**TcpApi.** The three lcores start at once: the table and the bitmap byte may be
written by two of them, and `fault = "sharedfd"` records two sockets with one
descriptor, `"nullring"` the crash of a second stream whose rings cannot be
created. The properties are stated up to these. A removal that cuts the walk of `naccept`
makes it return -1; the server then serves a stream through the descriptor -1, and when that
stream is closed `naccept` may accept it once more (`retaken`). The server sleeps in `nrecv` on it
when it is freed, and no connection after it is served: three peers are enough for this.

**TcpSeq.** `net` is a set of segments that may be lost, repeated and delivered in
any order. The client is a real TCP; the server compares no number. `lost`,
`twice` and `piped` record which of the network's and the client's doings cost the
guarantees; the numbers start just below the wrap.

**VhostNet.** Every message of the setup, in the order of the protocol, against a
vnet thread that already polls. `avail->idx` wraps at `IdxSpace`, `last_used_idx`
does not, as in the code. The rings of queue 1 hold descriptor ids, as in memory; `desc` is the buffer
a descriptor describes now and `busy` the descriptors on offer, so that an old entry of `avail` may
name a descriptor that the guest has offered again. `vhost_tx` never looks at `avail->idx`: the first
entry it takes that is not on offer sets `stale`, and from then on a buffer may be sent twice and another
be handed back unsent. `fault` is where the thread ends: `"tx"` and `"rx"`, a queue used before it is set up;
`"raw"`, the device polled between `malloc` and `memset`; `"copy"`, a descriptor of length 0, whose
length less that of the header wraps; `"exit"`, qemu is gone. The tap can be read and not written to at any
moment (its interface is down or its queue full): `vhost_rx` then runs without `vhost_tx` before it (`"rxonly"`).

**Frames.** An mbuf is a number, the pool a queue (it is created with cache size 0)
in which an mbuf may be twice. Right answers and single owners are promised until the
pool has been gone through once (`got`): after that mbufs freed twice come up while the
card still has them. A burst with several frames of which one is for the KNI clears
`whole`: from then on mbufs have two owners. Lessons 08 to 11 never free a TCP frame
(`Forgets`), and the pool's own ring, which has room for every mbuf once, refuses what
the second frees of others have filled it for; `forgot` counts both, and what rings and
the KNI refuse. Nothing else is ever lost. The mbufs of `udp_out` and `ng_tcp_out` are
not counted here.

**Dns.** Names are byte sequences: `decode_domain_name` turns every byte up to 63
into a dot, digits and hyphens included, and `encode_domain_name` is its inverse
only without them. Names are as they are on the wire, without the root's, whose only byte
the code steps over before it looks for a zero; a name without an end stops the
decoding. **ArpTable**: insertion in three steps under the lock against a
search without it. **Ddos**: the entropy of a frame is one of three values, among
them NaN. **Rcu**: grace periods are an external with liburcu's guarantee.
**Kni**: `eager` are lessons 11 and 12, which look for requests in every turn; the
DNS server looks only after a frame for the kernel, so never once its port is
stopped and the burst in hand is through (`Deaf`). The kernel's side is an external with what the
code relies on: one request at a time, in an area shared with the program; queues of pointers
to it in both directions; the lock under which the state of the link is written; and three
seconds of patience (`GivesUp`). A request that was given up stays in its queue (`late`), and answers are from
then on those of earlier requests. Lessons 11 and 12 register no `change_mtu`: the library then leaves the
result at 0, and the kernel takes over an MTU the port does not have.
**Nvme** and **SpdkServer**: library calls complete, fail or
end the program wherever the code looks at their result. Of a socket that was reset `SpdkServer` assumes
that `recv` tells of it at most once and then returns 0, that what had come in before may be lost,
and that nothing can be written; `gone` counts the bytes lost before they were read, there and where a
socket that the group cannot take is closed (`turnedaway`), and `short` the writes that were not taken whole. **VringEcho**: two
loops, each traversal and each packet a step.

## 3. Runs

| Run | Instance | Shows |
|---|---|---|
| `epoll` | 2 items, 2 sockets, 2 events per wait; any removal may end the process | flag, list and counter agree whenever the spin lock is free; no lost wake-up; refinement of `EventSet`; a queued item is handed out unless the process has ended |
| `vring_first_lap` | a ring of 7, 6 packets | types, free list, delivery once and in order; no lost kick, no double free; all sent arrives, reclaiming ends |
| `vring_second_lap` (violation) | a ring of 4, 5 packets | `used->idx` passes the ring size and descriptors are freed twice |
| `tcp_server` | 2 peers, 2 descriptors, up to 5 segments each | the only server thread never waits inside a call; descriptors owned once; echo in order; closed after the last fragment and with no ready item unregistered |
| `tcp_server_liveness` | 2 peers, 3 segments, fragments longer than the buffer possible | every posted event is served, unless a removal ends the process first |
| `tcp_api` | 3 peers of 1 byte and 1 datagram, of these four any three; 4 descriptors | nobody sleeps on what it waits for; the FIN follows the echo; every datagram is served, and every connection until a closed stream is accepted again, so far as no fault intervenes |
| `tcp_seq` | numbers modulo 16 that wrap, 2 bytes, 2 faults, both lessons | acknowledges only what it has while data comes in order; echo in order to a client that waits; handshake, echo and FIN complete unless an answer was lost |
| `udp_echo` | 2 clients, 2 frames in all (datagrams of 0 or 2 bytes, other traffic), 1 round of the timer, a buffer of 2, socket rings of 2, other rings of 1, failing allocations, refusing port | no lost wake-up, every byte in exactly one place, replies go to their sender, are not more than the lengths allow and keep their order without a miss |
| `udp_echo_liveness` | 1 client, 2 datagrams of 3 bytes, 2 rounds of the timer, two offloads in a ring | datagrams settle, misses are resolved; replies keep their order without a miss |
| `vhost_sessions` | 3 clients, list of 3, 2 packets | no packet of a session skipped or taken twice; the first client is safe whatever the timing of its kicks; setup completes, closed sockets leave the list, kicks are read |
| `vhost_net` | queues of 2, indices modulo 4, a memory of three regions, 3 frames, 4 buffers on queue 0 and 3 on queue 1, 1 failure | `vhost_tx` uses queue 1 only when it is set up, `vhost_rx` queue 0 in a round after `vhost_tx`; addresses translated but at a seam; frames in the buffers offered, in order, dropped only for cause; what the guest sends taken in order up to the first stale entry; the tap is emptied and interrupts are seen |
| `programs` | 4 mbufs, 3 frames (2 in lessons that repeat a loop), 1 timer; 2 queries of 2 questions; 3 addresses; a window of 3 and 7 frames; 3 cells; 3 requests and 2 MTUs; 2 controllers of up to 2 namespaces; clients of 3 bytes and of 1, a buffer of 2; 4 packets against 3 RX descriptors | one property per program (two for the receive loops), see `Programs` |

Each property of a passing run is shown to depend on the code: a mutated form of
one definition, kept beside the original, breaks it.

Some behaviours that the code allows are in the models without being promised
away: a descriptor that is free while its closed stream keeps it, an established
stream nobody accepts, a second vhost-user client served from the first one's
ring, a full list of descriptors. The properties say until when they hold
(`strayed`, `fault`, `stale`, `retaken`, `whole`, `got`, `late`, `Deaf`), and the hazards in `PROJECT.json`
name the lines.

**Why the bounds are enough.** Two items let one be queued by the callback while the
other is handed out or removed (safety is proved for any number); two peers are what aliasing, merging and a cut walk
need, and a third is the one that is never served after them; rings of one or two entries make every ring
full and empty, and two offloads in a socket ring can change places; lengths 0
and 2 with a buffer of 2 and a header of 1 cover a datagram that is empty and one that just fills
the buffer and is answered a second time with nothing, length 3 (in the liveness run) one
that is split; three clients against a list of
three make the list full with the eventfds of the first two. Sequence numbers start three below
the wrap, so that SYN, data and FIN lie on both sides of it; two faults are a lost and a
repeated segment. Indices modulo 4 on queues of 2 wrap within three frames, and a third
buffer on queue 1 lies in a descriptor used before. Three requests are one that is given up, its late answer
and one more. Four mbufs of which
the card holds two run out with three frames. More echoes than RX descriptors reach
the end of that ring. Where a result does not depend on the bound it is proved for
all sizes (section 4).

**Runs without a deadlock check.** All but the `udp_echo` runs: the peers, clients,
frames and requests are bounded (`MaxSegs`, `MaxClients`, `MaxPkts`, `MaxBytes`, `MaxCalls`,
`MaxFrames`, ...), and the programs end by `rte_exit`, `exit`, `abort` (`epoll` and the `tcp_server`
runs) or a crash where the code does.

**Fairness.** Weak fairness on each thread's or process's own steps: every lcore
runs an endless loop pinned to its core, and processes and pthreads are scheduled by
the kernel. Nothing is assumed about peers, except that a host asked for its MAC again
and again answers once (strong fairness, `udp_echo_liveness` and `tcp_seq`), that a TCP client repeats
what is not acknowledged (`tcp_seq`), that segments under way arrive or are lost, that a
guest serves its interrupts and a tap with nothing to read can be written to (`vhost_net`), that the KNI
kernel module takes an answer or stops waiting, and that an NVMe device completes or fails what it
is given. The KNI loop is fair only while its port brings frames. `vhost_sessions` does
not make a client end.

## 4. Proofs

`TcpServerProofs` has the proofs of lesson 14. Its first part is about `TcpServer`, for any finite
number of peers, any descriptors and segments and any sizes of segment and buffer:
`ServerNeverWaits` (`NeverWaits`), `FdsOwned` (`OwnDescriptors`), `EchoInOrder` (`EchoesInOrder`) and
`ClosesCleanly` (`Closes`). `IInv` has types and `Places` always and `Core` until a call strays:
- `Lists`, `Owners`, `Items`: a stream is in the list once, an open connection has a
  descriptor of its own, and every registered item is of one open connection that has no other;
- `Serving`: what the place of each thread says of the stream and the item it is at. That
  `nclose` gets the stream it is called for follows from it;
- `Readings`: an empty fragment ends the receive ring, and is there exactly when the peer's FIN was
  taken and not yet read;
- `Events`: a stream has a fragment for each of its events that is ready, taken out, being served or
  still to be posted. They are counted because events merge: fragments may outnumber them, never
  the other way round, so `nrecv` finds one;
- `Accepts`: the same for the listener. Its events and the half-open streams that `naccept` took early
  are together at most the established streams still to be accepted (`Cardinality`, as any stream
  may be the one that is taken);
- `Lives`: the bytes of a stream, in order, are with the peer again, in the send ring, in the
  server's buffer and in the receive ring (`Chain`).

No part is inductive alone, and a step that leaves every call right follows one that left it right
(`StaysStraight`), so each part is proved under `Core` before the step. `Events` gives
`ClosesCleanly`: when the empty fragment has been read none is left, hence no event either
(`NothingPending`).

Its last part is about `EventPoll`, which `Epoll` takes as the instance `Poll`, for any sets of items
and sockets and any `maxevents`: types (`PollTyped`),
`RdyIsInList`, `RdnumIsLength`, `MergedIsPending` and their conjunction `Structure`
(`StructureSafe`), `NoLostWakeup`, and `EpollRefines` (`EpollSpec => ImplementsEventSet`). None of the four invariants is
inductive: they speak of moments when the spin lock is free. `IInv` adds who owns
each lock, that every flag that disagrees with the list belongs to the one item
being moved, that the counter is behind the list by just that item, and that a
server about to sleep still holds `cdmtx`. The refinement follows step by step
from `IInv`: writing `rdy` is the abstract post and take, the other steps stutter.

`VringProofs`, for rings of any size under `MaxPkts < Size`: types,
`InOrderOnce`, `FreeListLinked` and their conjunction `RingIntact` (`RingSafe`),
`NoLostKick`, `NoDoubleFree`. `IInv` adds the
order of the indices of both sides, what lies between them (each outstanding
descriptor holds its packet, is not free and is not being filled), and that no
descriptor is lost. The hypothesis says "first lap": `vring_second_lap` shows the
theorem is false without it.

`UdpEchoProofs`, for any finite set of clients, all payload lengths and all ring, burst and
buffer sizes: `NoLostWakeup` (`UdpNoLostWakeup`), inductive as it stands, because only
`udp_process` adds to an empty ring while the server sleeps, and it signals next;
`EveryByteOnce` (`UdpEveryByteOnce`) and `RepliesRight` (`UdpRepliesRight`). `EchoInv`
says of each offload where it comes from (`PlacesOK`: what arrived ends at
`n + H` of a datagram that was sent and names its sender; what goes back is what `B` bytes
from its offset hold of it; `caddr` is the sender of the offload being copied) and
counts, for each datagram and position, who has that byte (`Once`): an offload on its
way in has all bytes behind its offset, one on its way out has `B` of them, and no byte is had twice.
The count goes past the payload on purpose: the offload that splits off only because
`ol->length` counts the UDP header would otherwise escape it, and with it the bound on the
number of replies, which follows because the replies of a datagram have room for different bytes among
`n + H + B - 1`. Each step moves bytes from one place to another or to `lost` (`Moved`), one
lemma per action.

`UdpRepliesInOrder` is about `OrderedUnlessMissed`, a conjunct of `RepliesRight`: a client none
of whose replies met an unknown MAC has the pieces of each datagram in order, and those that start
alike in the order of their datagrams. The invariant, `OrderInv`, follows a piece around:
- `PortOrder`: what is on its way in is whole datagrams, in the order they were sent;
- `ServerOrder`: the offload being copied and those in `rcvbuf` are in turns (`Turn`). `nrecvfrom`
  puts the rest of an offload behind all others, so the ring holds one round of pieces that
  start alike and then, in the same order, the next. Offsets are multiples of `B`, which keeps
  the rounds apart;
- `PassOrder`: of two pieces, one read and one not, the read one starts earlier or
  belongs to an earlier datagram (`Passed`). With `Turn` this places the piece just read behind
  all that went before it;
- `BackOrder`: from the client's socket back to `sndbuf` pieces are in that order (`Ahead`). A miss
  puts a reply behind the others, and in the same step takes its client out of `Ahead`.

`TcpSeqProofs`, for any number space, segment and ring size and any number of faults:
`AcksHonest` (`AcknowledgesHonestly`) and `EchoInOrder` (`EchoesInOrder`). `AckInv` counts:
`rcv_nxt` is as far from the client's first number as bytes were taken, modulo
`SeqSpace`, unless one was counted twice; as long as nothing came out of order the
bytes taken are the first ones; and no acknowledgement in the send ring or on the network
covers more than was taken. `EchoInv` adds, while the client waits for its echoes, that each
echo and each segment under way carries the number at which the client expects its bytes.
Numbers repeat once the client has sent `SeqSpace` bytes, so
`EchoesInOrder` has the hypothesis `MaxBytes < SeqSpace` (2^32 bytes in the code).

`TcpApiProofs`, for any number of clients, bytes and datagrams and any bitmap with room for
the descriptors 0 to 3: `WakeupsKept` (`SignalsKept`) and `FinAfterEcho` (`FinsFollowEchoes`), both from
`Core`:
- `Descriptors`: beside the two sockets and the connection being served the bitmap marks at most one
  descriptor (the one the UDP server may have marked again after `nclose` cleared it), so no
  search of the bitmap fails and none finds what a stream still has;
- `Threads`: what the place of each lcore says of the stream it is at;
- `Readings`: an empty fragment ends a receive ring, and is there exactly when the peer's FIN was taken
  and not yet read;
- `Wakes`: a thread that sleeps has nothing to take unless its signal is the next step of
  the packet thread. With `Readings` this is why `nrecv` returns 0 only at the end;
- `Lives`: the bytes of a client are, in order, those it has back, those in the send ring, those in
  the server's buffer and those in the receive ring (`Chain`); the FIN of `nclose` is the last
  of its send ring or has gone out with everything before it (`FinQueued`, `FinGone`).

`VhostUserProofs`, for a list of descriptors of any length and any number of clients and
packets: `SessionsSafe` (`SessionsStaySafe`), types included. None of its parts is inductive. `Core` says
how far the server is in the setup of the running client (`Reading`: some `n` such that the
socket holds the setup messages from the n-th on, in their order, and `RESET_OWNER` behind them if the
client has ended) and what its state is then worth (`Effects`): after `SET_MEM_TABLE` the table is
this client's, after `SET_VRING_BASE` the index is the number of its packets taken, before
`SET_VRING_KICK` none was taken and its eventfd is not in the list. A kick can be read only
when the eventfd is in the list, hence with the right table and index. `Sessions`
says what former clients leave behind: no connection, only eventfds that are not readable. So a pass
of the loop (`Pass`) meets descriptors of the running client alone. `First` is about the first client, whose object
no other shares. The bound of `ListenedUnlessFull` is an injection: of a full list without the
client's eventfd every place but that of the listening socket and of the connection has an eventfd
of another client (`FullList`).

`VhostNetProofs`, for rings of any size and indices of any width divisible by it:
`Translates` (`TranslationRight`, for all memory tables of disjoint regions), `SetupSafe`
(`QueuesSetUp`), `RxRight` (`FramesDelivered`) and `SentInOrder` (`TakenInOrder`). `NetInv` adds to the types
which fields of the two virtqueues are set at each message of qemu (queue 0 is complete before
an address of queue 1 is there, and `vhost_tx` waits for those), that `vhost_rx` is at the
buffer after the ones it has filled, that the last `Num` avail entries of queue 0 are the buffers offered
last, and that the frames in the tap are newer than those delivered. That a dropped frame had
a cause is the action part (`DropHasCause`). `SetupSafe` says that only a round that begins
without `vhost_tx`, the tap not being writable, may be too early; it does not say that there is none. For
`SentInOrder` the invariant follows queue 1 until the first stale entry: `avail` holds, from the
position of `vhost_tx` on, the descriptors of the buffers not taken, `used` those taken and
not handed back, and the two have no descriptor in common.

`ProgramsProofs`, one invariant per program, all of them under the same `Next`:
- `VerdictOnLast` (`WindowJudged`): the slot `d` places before the one written
  next holds the frame that came `d` frames before the last, in the first window and later;
- `SearchRight` (`UnlockedSearch`): the list a search started with is the tail of the
  list now, and what its bound leaves out was linked since or not yet counted;
- `ReadsWholePoints`, `PortFollowsKernel`, `NamespacesInOrder`, `ServerKeepsBytes`,
  `EchoedOnce`: the safety parts of the temporal properties `PointsWhole`,
  `RequestsServed`, and those of the NVMe program, the SPDK server and `VringEcho`. For
  `rcu.c` the reader holds the point `gp` shows, or the one before it while the updater has
  not yet looked for readers or waits for this one. For a KNI program the request the kernel waits for
  is in one place (`Waits`, `Worked`, `Done`) until it is given up, and an answer tells what was done
  to the port; in lessons 11 and 12 this covers the port's state and not its MTU. `ServerKeepsBytes`
  is inductive with the types: a write of `k` of `m` bytes adds `k` to what a client has back, and
  one buffer to the bound if `k < m`.

`ProgramsProofs` also states, for every program with a receive loop, any pool, number of descriptors and
ring size and any finite set of hosts: `AnswersRight` (`EveryAnswerRight`) and
`MbufsAccounted` (`MbufsStayAccounted`). Three invariants beside the types, one lemma per
action for each:
- `AnswerFacts`: while `got <= NumMbufs`, the pool begins with the mbufs never used, in
  order (`FreshFrom`), what the loop holds are used ones, and every mbuf in the out ring or
  with the card still holds what was encoded into it, an answer to something received
  (`OnItsWay`). An answer is in a fresh mbuf, so no frame and no later answer is written over
  it although it has been freed;
- `OwnerFacts`, while also `whole` and not in the DNS server: every used mbuf has at most one owner; one that is in the pool or to be sent
  has none; behind the fresh mbufs the pool has used ones only; and no burst of several frames
  has one for the KNI (`HandsUnmixed`, what `whole` and a step together preserve);
- `LostBound`: at most `forgot` mbufs are in no queue (`Reached`). This one needs no
  "until". In its first form the invariant counted no mbuf that the pool refuses, and held
  on small pools only: in a pool of nine with one descriptor the second frees fill the ring.

and, for any names that are well formed on the wire and any number of questions,
`QueryAnswered` (`ReplyMatches`). Its invariant only says that a reply is what
`decode_msg`, `resolve_query` and `encode_msg` make of the query and an empty message; the lemmas
say what that is. `NameKept`: decoding and encoding give a name back if every byte
up to 63 in it is a length. The lengths lead from each to the next until the zero
(`LengthsFollow`), and each label is found where it was written (`LabelFound`).
`RecordsPlaced`: `resolve_query` has one record for each question it knows, and its place is the
number of known questions from that one on. The specification puts it that way, so that no
induction is needed.

Assumptions of the proofs are the `ASSUME`s of the modules: sizes are positive
naturals, null values are no members of the sets, the clients of lesson 07 and the peers of lesson 14
are finitely many (their addresses have 32 bits), `IdxMod = 2 * Size`, an index space is a
multiple of its ring, the hosts of the receive loops are finitely many and their card gets
no more mbufs than the pool has, a name on the wire is 2 to 256 bytes of which the last alone
is zero, `malloc` has some memory to hand out, and the regions of a memory
table overlap neither in the guest nor in qemu, where each is a mapping of its own.

**Only model-checked.** The liveness properties: fairness and `ENABLED` are out of the prover's
reach. Every invariant that a run checks is stated by a theorem. Of the temporal properties
with a safety part (`PointsWhole`, `RequestsServed`, `BlocksReadBack`, `ServerKeepsUp`, `EchoesLast`, `Served`,
`UdpProgress`) that part is proved.

## 5. Not modelled

Each part with the reason:

- VPP plugins: the flow table node sends every packet to `ip4-lookup` (the choice of the
  load balancer is commented out), so the node that keeps state is never reached; the rest
  parses commands into library vectors. The `pktdump` node prints.
- `13_hash`, `uio_driver.c`, `spdk_vmd.c`, `vifreq.c`, the VCL and posix programs and
  `unix_udp.c`: library calls in sequence, no state of their own.
- `dns.c` beside `dns/dns.c`: an earlier form of the same code.
- Lessons 11, 12 and 14 repeat the sockets of lesson 10 and the UDP server of lesson 07;
  they are modelled once, from the lesson that introduces them.
- `EPOLL_CTL_MOD` and event masks; the frames a DNS server passes from the kernel to the
  card; the request to change a MAC; statistics; command lines.
- Packet encodings and checksums where no property is about them, the entropy of lesson 12
  as a number (floating point), library code (DPDK, VPP, SPDK, liburcu, the vendored
  red-black tree), printing and shell scripts.
