------------------------------ MODULE Programs ------------------------------
(***************************************************************************)
(* The smaller programs of the repository side by side: a behaviour runs     *)
(* one of them, chosen at its start; the state of the others does not change.*)
(***************************************************************************)
EXTENDS Integers, Sequences, FiniteSets

CONSTANTS
  Lessons, Me, Peers, Else, Zero, NumMbufs, RxDescs, RingSize, KniSize, MaxFrames, MaxTimers,
  Names, Zone, Types, MaxQuestions, MaxQueries,
  Ips, None,
  Window, Tresh, MaxPackets,
  Cells, MaxUpdates,
  Mtus, DefaultMtu, MaxRequests,
  Ctrlrs, MaxNs,
  Clients, BufferSize, MaxSend,
  RxSize, MaxSent

\* CAPTURE_WINDOWS and BUFFER_SIZE are positive numbers of the code; a
\* controller has some number of active namespaces.
ASSUME WindowAssumption == Window \in Nat \ {0}
ASSUME BufferAssumption == BufferSize \in Nat \ {0}
ASSUME NsAssumption == MaxNs \in Nat
\* malloc of rcu.c hands out some memory; no address stands for "no address".
ASSUME CellsAssumption == Cells # {}
\* A name the DNS server reads: bytes, at least one label, at most 256 bytes
\* with the zero byte at its end.
ASSUME NamesAssumption ==
  /\ MaxQuestions \in Nat
  /\ \A w \in Names : /\ w \in Seq(0..255) /\ Len(w) \in 2..256 /\ w[Len(w)] = 0
                      /\ \A k \in 1..Len(w) - 1 : w[k] # 0
ASSUME NoneAssumption == None \notin Ips
\* The programs with receive loops; an arp_table has no address of nobody, and the
\* net a finite number of hosts. The card's descriptors are filled from the pool.
ASSUME FramesAssumption ==
  /\ Lessons \subseteq {1, 2, 3, 4, 5, 6, 8, 9, 10, 11, 12, 14, 53}
  /\ IsFiniteSet(Peers) /\ Else \notin Peers
  /\ NumMbufs \in Nat /\ RxDescs \in 0..NumMbufs
  /\ RingSize \in Nat /\ KniSize \in Nat

VARIABLES
  prog,
  lesson, mem, pool, posted, filled, inring, outring, burst, i, at, asks, table, txq, txdone,
  kni, knifree, dead, frames, timers, got, heard, last, forgot, whole,
  msg, query, reply, queries,
  entries, count, adding, linked, pc, want, bound, found, started, raced,
  p_entropy, pkt_idx, exited, seen,
  gp, heap, live, upc, n, p, old, waiting, rpc, rp, x, y, inside, done,
  eager, port, len, more, up, mtu, carrier, req, result, req_q, resp_q, asking, handling, refused,
  late, halted, requests,
  npc, g_controllers, g_namespaces, cur, qpairs, is_completed, inflight, buf, served, nomem, status,
  sock, accepting, backlog, group, owned, turnedaway, cst, err, unread, sends, gone, back, short,
  bytes_in, bytes_out, crashed, g_running,
  clientAt, serverAt, sent, taken, txkick, rxkick, buffer, echoed, received, strayed

Loops == INSTANCE FramesProps
Server == INSTANCE Dns
Arps == INSTANCE ArpTable
Detector == INSTANCE Ddos
Points == INSTANCE Rcu WITH mem <- heap
Port == INSTANCE Kni
Disks == INSTANCE Nvme
Reactor == INSTANCE SpdkServer
Echo == INSTANCE VringEcho

framesVars == <<lesson, mem, pool, posted, filled, inring, outring, burst, i, at, asks, table,
                txq, txdone, kni, knifree, dead, frames, timers, got, heard, last, forgot, whole>>
dnsVars == <<msg, query, reply, queries>>
arpVars == <<entries, count, adding, linked, pc, want, bound, found, started, raced>>
ddosVars == <<p_entropy, pkt_idx, exited, seen>>
rcuVars == <<gp, heap, live, upc, n, p, old, waiting, rpc, rp, x, y, inside, done>>
kniVars == <<eager, port, len, more, up, mtu, carrier, req, result, req_q, resp_q, asking, handling,
             refused, late, halted, requests>>
nvmeVars == <<npc, g_controllers, g_namespaces, cur, qpairs, is_completed, inflight, buf, served,
              nomem, status>>
spdkVars == <<sock, accepting, backlog, group, owned, turnedaway, cst, err, unread, sends, gone,
              back, short, bytes_in, bytes_out, crashed, g_running>>
echoVars == <<clientAt, serverAt, sent, taken, txkick, rxkick, buffer, echoed, received, strayed>>
newer == <<kniVars, nvmeVars, spdkVars, echoVars>>
older == <<framesVars, dnsVars, arpVars, ddosVars, rcuVars>>
vars == <<prog, older, newer>>

Init ==
  /\ prog \in {"frames", "dns", "arp", "ddos", "rcu", "kni", "nvme", "spdk", "echo"}
  /\ Loops!Init /\ Server!Init /\ Arps!Init /\ Detector!Init /\ Points!Init
  /\ Port!Init /\ Disks!Init /\ Reactor!Init /\ Echo!Init
  /\ prog # "frames" => lesson = 12
  /\ prog # "kni" => eager

FramesStep == /\ prog = "frames" /\ Loops!Next
              /\ UNCHANGED <<prog, dnsVars, arpVars, ddosVars, rcuVars, newer>>
DnsStep == /\ prog = "dns" /\ Server!Next
           /\ UNCHANGED <<prog, framesVars, arpVars, ddosVars, rcuVars, newer>>
ArpStep == /\ prog = "arp" /\ Arps!Next
           /\ UNCHANGED <<prog, framesVars, dnsVars, ddosVars, rcuVars, newer>>
DdosStep == /\ prog = "ddos" /\ Detector!Next
            /\ UNCHANGED <<prog, framesVars, dnsVars, arpVars, rcuVars, newer>>
RcuUpdate == /\ prog = "rcu" /\ Points!Update
             /\ UNCHANGED <<prog, framesVars, dnsVars, arpVars, ddosVars, newer>>
RcuRead == /\ prog = "rcu" /\ Points!Read
           /\ UNCHANGED <<prog, framesVars, dnsVars, arpVars, ddosVars, newer>>

KniAsk == /\ prog = "kni" /\ Port!Ifconfig
          /\ UNCHANGED <<prog, older, nvmeVars, spdkVars, echoVars>>
KniKernel == /\ prog = "kni" /\ Port!Kernel
             /\ UNCHANGED <<prog, older, nvmeVars, spdkVars, echoVars>>
KniHandle == /\ prog = "kni" /\ Port!Handler
             /\ UNCHANGED <<prog, older, nvmeVars, spdkVars, echoVars>>
KniMonitor == /\ prog = "kni" /\ Port!Monitor
              /\ UNCHANGED <<prog, older, nvmeVars, spdkVars, echoVars>>
NvmeAttach == /\ prog = "nvme" /\ \E c \in Ctrlrs : Disks!Attach(c)
              /\ UNCHANGED <<prog, older, kniVars, spdkVars, echoVars>>
NvmeRun == /\ prog = "nvme" /\ Disks!Program
           /\ UNCHANGED <<prog, older, kniVars, spdkVars, echoVars>>
SpdkClient == /\ prog = "spdk" /\ Reactor!Client
              /\ UNCHANGED <<prog, older, kniVars, nvmeVars, echoVars>>
SpdkPoll == /\ prog = "spdk" /\ Reactor!Poller
            /\ UNCHANGED <<prog, older, kniVars, nvmeVars, echoVars>>
EchoClient == prog = "echo" /\ Echo!ClientStep /\ UNCHANGED <<prog, older, kniVars, nvmeVars, spdkVars>>
EchoServer == prog = "echo" /\ Echo!ServerStep /\ UNCHANGED <<prog, older, kniVars, nvmeVars, spdkVars>>

Next == \/ FramesStep \/ DnsStep \/ ArpStep \/ DdosStep \/ RcuUpdate \/ RcuRead
        \/ KniAsk \/ KniKernel \/ KniHandle \/ KniMonitor \/ NvmeAttach \/ NvmeRun \/ SpdkClient \/ SpdkPoll
        \/ EchoClient \/ EchoServer

\* Both threads of rcu.c run: they are pthreads that never block one another.
\* So do the kernel, which gives a request up in the end, the loop of a KNI program,
\* given the frames it waits for, and its monitor thread; the NVMe program, whose device completes what it is given;
\* the pollers of the SPDK reactor; and the loops of the
\* two processes of vring_test.
Spec == /\ Init /\ [][Next]_vars
        /\ WF_vars(RcuUpdate) /\ WF_vars(RcuRead)
        /\ WF_vars(KniKernel) /\ WF_vars(KniHandle) /\ WF_vars(KniMonitor) /\ WF_vars(NvmeRun) /\ WF_vars(SpdkPoll)
        /\ WF_vars(EchoClient) /\ WF_vars(EchoServer)
-----------------------------------------------------------------------------
\* Until the pool has been gone through once, what leaves the card is the
\* right answer, as encoded, to a frame received (the loops free an answer
\* right after rte_eth_tx_burst).
AnswersRight == Loops!AnswersRight
\* Until then, and while no burst mixes KNI frames with others, an mbuf in use
\* has one owner and is not in the pool; and at any time only frames a program
\* has no use for, or that a full ring refuses, cost it an mbuf.
MbufsAccounted == Loops!OwnedOnce /\ Loops!NothingElseLost
\* A DNS response tells of its own query, whatever the message held before.
ReplyMatches == Server!ReplyMatches
\* A search of the ARP table without its lock misses at most the oldest entries,
\* as many as insertions overlap it, and an address has one entry.
SearchRight == Arps!SearchRight
\* ddos_detect judges exactly the last window of frames.
VerdictOnLast == Detector!VerdictOnLast
\* The reader of rcu.c never touches a freed point nor sees half of an update,
\* and every point that was replaced is freed in the end.
PointsWhole == []Points!ReadsWhole /\ (upc = "sync" ~> upc = "alloc")
\* The port of a KNI program follows the kernel's requests until one has waited
\* too long (the MTU only where the program has an operation for it).  Every
\* request is looked at in the end, unless the DNS server has stopped the port
\* that its requests depend on; and the kernel ends up with the true state of the
\* link of an interface that is up.
RequestsServed ==
  /\ []Port!PortFollows
  /\ (req_q > 0) ~> (req_q = 0 \/ halted \/ Port!Deaf)
  /\ <>[](prog = "kni" => eager \/ halted \/ ~up \/ carrier = (port = "started"))
\* spdk_nvme.c leaves a namespace, and frees its queue pair, only after its
\* block was written and read back, and it ends.
BlocksReadBack == []Disks!InOrder /\ <>(prog = "nvme" => npc \in Disks!Ended)
\* spdk_server.c writes back what it has read but for short writes, loses bytes
\* unread only to resets and where it closes a socket it could not add, and in the
\* end has served every client that is connected and closed the socket of every
\* other, unless it has closed its own listening socket.
ServerKeepsUp == []Reactor!BytesKept /\ <>[](prog = "spdk" => crashed \/ Reactor!CaughtUp)
\* The server of vring_test sends a packet back at most once and in order, and
\* the kick that announces it is never lost; it may skip packets, but not the
\* last one, until the RX ring has no descriptor left.
EchoesLast == []Echo!EchoOnce /\ <>[](prog = "echo" => strayed \/ Echo!LastIsBack)
=============================================================================
