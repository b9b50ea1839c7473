-------------------------- MODULE TcpServerProofs --------------------------
(***************************************************************************)
(* Proofs about the TCP server of lesson 14, for any number of peers,      *)
(* descriptors and segments and any sizes of segment and buffer.           *)
(***************************************************************************)
EXTENDS TcpServerProps, Epoll, FunctionTheorems, SequenceTheorems, FiniteSetTheorems, TLAPS

-----------------------------------------------------------------------------
(* Runs of bytes *)

\* The bytes after the a-th up to the b-th.
Run(a, b) == [k \in 1..b - a |-> a + k]
\* The fragments of q hold the bytes after the a-th up to the b-th, in order.
Cuts(q, a, b, at) ==
  /\ at \in [1..Len(q) + 1 -> Nat] /\ at[1] = a /\ at[Len(q) + 1] = b
  /\ \A j \in 1..Len(q) : at[j] <= at[j + 1] /\ q[j] = Run(at[j], at[j + 1])
Runs(q, a, b) == \E at : Cuts(q, a, b, at)

(* No fragments hold no bytes. *)
LEMMA RunsEmpty ==
  ASSUME NEW a \in Nat, NEW b
  PROVE  /\ Runs(<<>>, a, a) /\ (Runs(<<>>, a, b) => a = b)
         /\ \A c \in Nat : a <= c /\ Run(a, c) = <<>> => a = c
<1>1. Cuts(<<>>, a, a, [j \in 1..1 |-> a])
  BY DEF Cuts
<1>2. ASSUME NEW at, Cuts(<<>>, a, b, at) PROVE a = b
  BY <1>2 DEF Cuts
<1>3. ASSUME NEW c \in Nat, a <= c, Run(a, c) = <<>> PROVE a = c
  <2>1. CASE c - a = 0
    BY <2>1
  <2>2. CASE c - a # 0
    <3>1. 1 \in 1..c - a
      BY <1>3, <2>2
    <3>2. 1 \in DOMAIN Run(a, c)
      BY <3>1 DEF Run
    <3> QED BY <1>3, <3>2
  <2> QED BY <2>1, <2>2
<1> QED BY <1>1, <1>2, <1>3 DEF Runs

(* A fragment with the next bytes is put behind the others.                 *)
LEMMA RunsAppend ==
  ASSUME NEW S, NEW q \in Seq(S), NEW a \in Nat, NEW b \in Nat, NEW c \in Nat, b <= c,
         Runs(q, a, b), NEW z \in S, z = Run(b, c)
  PROVE  Runs(Append(q, z), a, c)
<1>1. PICK at : Cuts(q, a, b, at)
  BY DEF Runs
<1> DEFINE n == Len(q)
           t == Append(q, z)
           at2 == [j \in 1..n + 2 |-> IF j = n + 2 THEN c ELSE at[j]]
<1>2. n \in Nat /\ Len(t) = n + 1 /\ t[n + 1] = z /\ \A j \in 1..n : t[j] = q[j]
  BY AppendProperties, LenProperties
<1>3. /\ at \in [1..n + 1 -> Nat] /\ at[1] = a /\ at[n + 1] = b
      /\ \A j \in 1..n : at[j] <= at[j + 1] /\ q[j] = Run(at[j], at[j + 1])
  BY <1>1 DEF Cuts
<1> HIDE DEF n, t
<1>4. at2 \in [1..n + 2 -> Nat] /\ at2[1] = a /\ at2[n + 2] = c
  BY <1>2, <1>3
<1>5. ASSUME NEW j \in 1..n + 1 PROVE at2[j] <= at2[j + 1] /\ t[j] = Run(at2[j], at2[j + 1])
  <2>1. CASE j = n + 1
    <3>1. at2[j] = b /\ at2[j + 1] = c
      BY <1>2, <1>3, <2>1
    <3> QED BY <1>2, <2>1, <3>1
  <2>2. CASE j # n + 1
    <3>1. j \in 1..n /\ at2[j] = at[j] /\ at2[j + 1] = at[j + 1]
      BY <1>2, <2>2
    <3> QED BY <1>2, <1>3, <3>1
  <2> QED BY <2>1, <2>2
<1> HIDE DEF at2
<1>6. Len(t) + 1 = n + 2
  BY <1>2
<1>7. Cuts(t, a, c, at2)
  BY <1>2, <1>4, <1>5, <1>6 DEF Cuts
<1> QED BY <1>7 DEF Runs, t

(* The first fragment is taken. *)
LEMMA RunsTail ==
  ASSUME NEW S, NEW q \in Seq(S), q # <<>>, NEW a \in Nat, NEW b \in Nat, Runs(q, a, b)
  PROVE  \E c \in Nat : a <= c /\ Head(q) = Run(a, c) /\ Runs(Tail(q), c, b)
<1>1. PICK at : Cuts(q, a, b, at)
  BY DEF Runs
<1> DEFINE n == Len(q)
           t == Tail(q)
           at2 == [j \in 1..n |-> at[j + 1]]
<1>2. n \in Nat /\ n > 0 /\ Head(q) = q[1] /\ Len(t) = n - 1 /\ \A j \in 1..n - 1 : t[j] = q[j + 1]
  BY HeadTailProperties, LenProperties, EmptySeq
<1>3. /\ at \in [1..n + 1 -> Nat] /\ at[1] = a /\ at[n + 1] = b
      /\ \A j \in 1..n : at[j] <= at[j + 1] /\ q[j] = Run(at[j], at[j + 1])
  BY <1>1 DEF Cuts
<1> HIDE DEF n, t
<1>4. at[2] \in Nat /\ a <= at[2] /\ Head(q) = Run(a, at[2])
  <2>1. 1 \in 1..n /\ 1 + 1 = 2 /\ 2 \in 1..n + 1
    BY <1>2
  <2> QED BY <1>2, <1>3, <2>1
<1>5. at2 \in [1..n -> Nat] /\ at2[1] = at[2] /\ at2[n] = b
  BY <1>2, <1>3
<1>6. ASSUME NEW j \in 1..n - 1 PROVE at2[j] <= at2[j + 1] /\ t[j] = Run(at2[j], at2[j + 1])
  <2>1. j + 1 \in 1..n /\ at2[j] = at[j + 1] /\ at2[j + 1] = at[(j + 1) + 1]
    BY <1>2
  <2> QED BY <1>2, <1>3, <2>1
<1> HIDE DEF at2
<1>7. Len(t) + 1 = n
  BY <1>2
<1>8. Cuts(t, at[2], b, at2)
  BY <1>2, <1>5, <1>6, <1>7 DEF Cuts
<1> QED BY <1>4, <1>8 DEF Runs, t

\* What the fragments of a send ring hold.
Datas(q) == [k \in 1..Len(q) |-> q[k].data]
Fragments == [flags : {"psh", "fin"}, data : Seq(Nat)]

(* ... when one is queued and when one is taken.                            *)
LEMMA DatasAre ==
  ASSUME NEW q \in Seq(Fragments)
  PROVE  /\ Datas(q) \in Seq(Seq(Nat)) /\ Len(Datas(q)) = Len(q)
         /\ \A z \in Fragments : Datas(Append(q, z)) = Append(Datas(q), z.data)
         /\ q # <<>> => /\ Datas(q) # <<>> /\ Head(Datas(q)) = Head(q).data
                        /\ Datas(Tail(q)) = Tail(Datas(q))
<1> DEFINE n == Len(q)
           d == Datas(q)
<1>1. n \in Nat /\ \A k \in 1..n : q[k] \in Fragments
  BY LenProperties, ElementOfSeq
<1>2. \A k \in 1..n : q[k].data \in Seq(Nat)
  BY <1>1 DEF Fragments
<1>3. d \in Seq(Seq(Nat)) /\ Len(d) = n /\ \A k \in 1..n : d[k] = q[k].data
  <2>1. d = [k \in 1..n |-> q[k].data]
    BY DEF Datas
  <2> QED BY <1>1, <1>2, <2>1
<1> HIDE DEF n, d
<1>4. ASSUME NEW z \in Fragments PROVE Datas(Append(q, z)) = Append(d, z.data)
  <2>1. /\ Len(Append(q, z)) = n + 1 /\ Append(q, z)[n + 1] = z
        /\ \A k \in 1..n : Append(q, z)[k] = q[k]
    BY AppendProperties DEF n
  <2>2. Datas(Append(q, z)) = [k \in 1..n + 1 |-> Append(q, z)[k].data]
    BY <2>1 DEF Datas
  <2>3. z.data \in Seq(Nat)
    BY DEF Fragments
  <2>4. /\ Append(d, z.data) \in Seq(Seq(Nat)) /\ Len(Append(d, z.data)) = n + 1
        /\ Append(d, z.data)[n + 1] = z.data
        /\ \A k \in 1..n : Append(d, z.data)[k] = d[k]
    BY <1>3, <2>3, AppendProperties
  <2>5. \A k \in 1..n + 1 : Append(q, z)[k].data = Append(d, z.data)[k]
    BY <1>1, <1>3, <2>1, <2>4
  <2>6. Append(d, z.data) = [k \in 1..n + 1 |-> Append(d, z.data)[k]]
    BY <2>4
  <2> QED BY <2>2, <2>5, <2>6
<1>5. ASSUME q # <<>>
      PROVE  d # <<>> /\ Head(d) = Head(q).data /\ Datas(Tail(q)) = Tail(d)
  <2>1. n > 0 /\ Head(q) = q[1] /\ Len(Tail(q)) = n - 1 /\ \A k \in 1..n - 1 : Tail(q)[k] = q[k + 1]
    BY <1>1, <1>5, HeadTailProperties, EmptySeq DEF n
  <2>2. d # <<>>
    BY <1>3, <2>1, EmptySeq
  <2>3. /\ Head(d) = d[1] /\ Tail(d) \in Seq(Seq(Nat)) /\ Len(Tail(d)) = n - 1
        /\ \A k \in 1..n - 1 : Tail(d)[k] = d[k + 1]
    BY <1>3, <2>2, HeadTailProperties
  <2>4. Head(d) = Head(q).data
    BY <1>1, <1>3, <2>1, <2>3
  <2>5. Datas(Tail(q)) = [k \in 1..n - 1 |-> Tail(q)[k].data]
    BY <2>1 DEF Datas
  <2>6. \A k \in 1..n - 1 : Tail(q)[k].data = Tail(d)[k]
    <3>1. ASSUME NEW k \in 1..n - 1 PROVE Tail(q)[k].data = Tail(d)[k]
      <4>1. k + 1 \in 1..n
        BY <1>1
      <4> QED BY <1>3, <2>1, <2>3, <4>1
    <3> QED BY <3>1
  <2>7. Tail(d) = [k \in 1..n - 1 |-> Tail(d)[k]]
    <3>1. PICK t \in Seq(Seq(Nat)) : t = Tail(d)
      BY <2>3
    <3>2. Len(t) = n - 1
      BY <2>3, <3>1
    <3>3. t = [k \in 1..Len(t) |-> t[k]]
      BY LenProperties
    <3> QED BY <3>1, <3>2, <3>3
  <2> QED BY <2>2, <2>4, <2>5, <2>6, <2>7
<1> QED BY <1>3, <1>4, <1>5 DEF n, d

-----------------------------------------------------------------------------
(* The invariant *)

\* Of what the threads are at, whatever has gone wrong.
Places ==
  /\ spc \in {"assign", "dequeue", "lastack"} => cur \in Peer
  /\ tpc \in {"data", "datafin", "fin", "finpost"} => tstream \in Peer

\* The list of streams: those that have a status, each of them once.
Lists ==
  /\ \A j, k \in 1..Len(tcb_set) : tcb_set[j] = tcb_set[k] => j = k
  /\ \A p \in Peer : Listed(p) <=> status[p] # "none"

\* A connection is accepted before it is closed, and not accepted when it is gone.
Owners ==
  /\ \A p, q \in Peer : Open(p) /\ Open(q) /\ fd[p] = fd[q] => p = q
  /\ fd_table = {fd[p] : p \in {q \in Peer : Open(q)}}
  /\ \A p \in Peer : /\ status[p] = "none" => fd[p] = Unused
                     /\ status[p] = "LAST_ACK" => fd[p] # Unused
                     /\ fd[p] # listenfd

\* Items taken out of the ready list and not yet served.
Queue == IF spc = "wait" THEN handed ELSE todo
\* Every registered item is one of an open connection, which has no other.
Items ==
  /\ ListenItem \in registered /\ itemfd[ListenItem] = listenfd /\ conn[ListenItem] = NoPeer
  /\ \A i \in registered \ {ListenItem} : conn[i] \in Peer /\ Open(conn[i]) /\ itemfd[i] = fd[conn[i]]
  /\ \A i, j \in registered : itemfd[i] = itemfd[j] => i = j
  /\ registered \subseteq known /\ ready \subseteq registered /\ Queue \subseteq registered
  /\ spc = "wait" => todo = {}

Accepting == spc \in {"listener", "apt", "acceptwait", "assign"}
Receiving == spc \in {"recv", "dequeue"}
Ending == spc \in {"del", "close", "lastack", "aborted"}
\* What the server thread is at.
Serving ==
  /\ Receiving \/ spc \in {"send", "del"} => ev \in registered \ {ListenItem}
  /\ spc \in {"close", "lastack", "aborted"} =>
       /\ ev # ListenItem /\ conn[ev] \in Peer /\ Open(conn[ev]) /\ itemfd[ev] = fd[conn[ev]]
       /\ \A i \in registered : conn[i] # conn[ev]
  /\ Ending => status[conn[ev]] = "CLOSE_WAIT"
  /\ spc \in {"dequeue", "send", "lastack"} => cur = conn[ev]
  /\ spc = "assign" => status[cur] # "none" /\ fd[cur] = Unused
  /\ spc = "add" => cur \in Peer /\ Open(cur)
  /\ tpc \in {"datafin", "fin"} => status[tstream] = "ESTABLISHED"

\* The end of the stream is one empty fragment, behind the others.
AtEnd(p) == Ending /\ conn[ev] = p
Reading(p) ==
  /\ status[p] \in {"none", "SYN_RCVD", "LAST_ACK"} => rcvbuf[p] = <<>>
  /\ status[p] = "ESTABLISHED" => \A k \in 1..Len(rcvbuf[p]) : rcvbuf[p][k] # <<>>
  /\ status[p] = "CLOSE_WAIT" =>
       IF AtEnd(p) THEN rcvbuf[p] = <<>>
       ELSE /\ rcvbuf[p] # <<>>
            /\ \A k \in 1..Len(rcvbuf[p]) : rcvbuf[p][k] = <<>> <=> k = Len(rcvbuf[p])
Readings == \A p \in Peer : Reading(p)

Count(b) == IF b THEN 1 ELSE 0
\* The events of a stream that are ready, taken, being served, and still to be
\* posted: for each there is a fragment to read.
Ready(p) == \E i \in ready : conn[i] = p
Queued(p) == \E i \in Queue : conn[i] = p
Served(p) == Receiving /\ conn[ev] = p
Posting(p) == tpc \in {"data", "datafin", "finpost"} /\ tstream = p
Event(p) == Count(Ready(p)) + Count(Queued(p)) + Count(Served(p)) + Count(Posting(p)) <= Len(rcvbuf[p])
Events == \A p \in Peer : Event(p)

\* ... and for each event of the listener, and each half-open stream that was
\* accepted, there is an established stream to accept.
Waiting == {p \in Peer : status[p] \in {"ESTABLISHED", "CLOSE_WAIT"} /\ fd[p] = Unused}
Early == {p \in Peer : status[p] = "SYN_RCVD" /\ fd[p] # Unused}
Accept == Count(ListenItem \in ready) + Count(ListenItem \in Queue) + Count(Accepting) + Count(tpc = "listener")
            + Cardinality(Early) <= Cardinality(Waiting)
Accepts == Accept /\ spc # "acceptwait"

\* What the peer has sent is, in order, with the peer again, in the send ring,
\* in the server's buffer and in the receive ring.
InHand(p) == spc = "send" /\ cur = p
Chain(p) ==
  \E a, b \in Nat :
    /\ Runs(Datas(sndbuf[p]), Len(wire[p]), a) /\ Runs(rcvbuf[p], b, rcvd[p])
    /\ a <= b /\ (InHand(p) => buff = Run(a, b)) /\ (~InHand(p) => a = b)
Life(p) ==
  /\ \A k \in 1..Len(wire[p]) : wire[p][k] = k
  /\ status[p] # "none" => Chain(p)
Lives == \A p \in Peer : Life(p)

\* What holds until a socket call goes wrong.
Core == Lists /\ Owners /\ Items /\ Serving /\ Readings /\ Events /\ Accepts /\ Lives
IInv == TypeOK /\ Places /\ (Straight => Core)

(* Among numbers from 1 there is a least one.                               *)
LEMMA LeastOne ==
  ASSUME NEW N \in Nat, NEW S \in SUBSET (1..N), S # {}
  PROVE  \E i \in S : \A j \in S : i <= j
<1> DEFINE Below(i) == {j \in S : j < i}
           T == {Below(i) : i \in S}
<1>1. IsFiniteSet(1..N)
  BY FS_Interval
<1>2. T \subseteq FiniteSubsetsOf(1..N) /\ T # {}
  <2>1. \A i \in S : Below(i) \subseteq 1..N /\ IsFiniteSet(Below(i))
    BY <1>1, FS_Subset
  <2> QED BY <2>1 DEF FiniteSubsetsOf
<1>3. PICK U \in T : \A V \in T : ~(<<V, U>> \in StrictSubsetOrdering(1..N))
  BY <1>2, FS_StrictSubsetOrderingWellFounded, WFMin
<1>4. PICK i \in S : U = Below(i)
  BY <1>3
<1>5. ASSUME NEW j \in S, ~(i <= j) PROVE FALSE
  <2>1. i \in Int /\ j \in Int /\ \A k \in S : k \in Int
    OBVIOUS
  <2>2. Below(j) \subseteq Below(i) /\ j \in Below(i)
    <3>1. j < i
      BY <1>5, <2>1
    <3>2. \A k \in S : k \in Int /\ (k < j => k < i)
      BY <2>1, <3>1
    <3> QED BY <3>1, <3>2
  <2>3. j \notin Below(j)
    BY <2>1
  <2>4. Below(j) \in T /\ Below(j) \in SUBSET (1..N) /\ Below(i) \in SUBSET (1..N) /\ Below(j) # Below(i)
    BY <2>2, <2>3
  <2> QED BY <1>3, <1>4, <2>2, <2>4 DEF StrictSubsetOrdering
<1> QED BY <1>5

-----------------------------------------------------------------------------
(* The operators of the model *)

LEMMA Smalls ==
  /\ Cardinality(Peer) \in Nat /\ NoPeer \notin Peer /\ MaxFd \in Nat /\ MaxSegs \in Nat
  /\ BufferSize \in Nat /\ BufferSize > 0 /\ MSS \in Nat
  /\ 0 \in Item /\ Item \subseteq Int /\ \A i \in Item : i >= 0
<1>1. Cardinality(Peer) \in Nat
  BY PeerAssumption, FS_CardinalityType
<1>2. PICK n \in Nat : n = Cardinality(Peer)
  BY <1>1
<1>3. MaxSegs * n \in Nat
  BY SizeAssumption, <1>2
<1>4. PICK m \in Nat : m = MaxSegs * Cardinality(Peer)
  BY <1>2, <1>3
<1>5. Item = 0..m
  BY <1>4 DEF Item
<1> QED BY <1>1, <1>5, PeerAssumption, SizeAssumption

(* A walk of the list finds one of those it looks for, if it meets any.     *)
LEMMA FirstFinds ==
  ASSUME tcb_set \in Seq(Peer), NEW S \in SUBSET Peer
  PROVE  /\ First(S) \in S \cup {NoPeer}
         /\ First(S) # NoPeer => Listed(First(S))
         /\ \A p \in S : Listed(p) => First(S) \in S
<1> DEFINE n == Len(tcb_set)
           K == {k \in 1..n : tcb_set[k] \in S}
<1>1. n \in Nat /\ \A k \in 1..n : tcb_set[k] \in Peer
  BY LenProperties, ElementOfSeq
<1>2. CASE K = {}
  <2>1. ~\E k \in 1..Len(tcb_set) : tcb_set[k] \in S
    BY <1>2
  <2> QED BY <2>1 DEF First, Listed
<1>3. CASE K # {}
  <2>1. K \in SUBSET (1..n)
    OBVIOUS
  <2> HIDE DEF K
  <2>2. PICK i \in K : \A j \in K : i <= j
    BY <1>1, <1>3, <2>1, LeastOne
  <2>3. i \in 1..n /\ tcb_set[i] \in S /\ \A j \in 1..i - 1 : tcb_set[j] \notin S
    BY <1>1, <2>1, <2>2 DEF K
  <2> DEFINE c == CHOOSE k \in 1..Len(tcb_set) : tcb_set[k] \in S /\ \A j \in 1..k - 1 : tcb_set[j] \notin S
  <2>4. c \in 1..n /\ tcb_set[c] \in S
    BY <2>3
  <2>5. First(S) = tcb_set[c]
    BY <2>3 DEF First
  <2> HIDE DEF c, n
  <2>6. Listed(tcb_set[c])
    BY <2>4 DEF Listed, n
  <2> QED BY <2>4, <2>5, <2>6
<1> QED BY <1>2, <1>3

(* get_fd_frombitmap returns a descriptor that was not in use, or none.     *)
LEMMA FreshFd ==
  /\ get_fd_frombitmap \in {Unused} \cup 1..MaxFd
  /\ get_fd_frombitmap # Unused => get_fd_frombitmap \in (1..MaxFd) \ fd_table
<1> DEFINE U == (1..MaxFd) \ fd_table
<1>1. CASE U = {}
  BY <1>1 DEF get_fd_frombitmap
<1>2. CASE U # {}
  <2>1. U \in SUBSET (1..MaxFd)
    OBVIOUS
  <2>2. get_fd_frombitmap = CHOOSE f \in U : \A g \in U : f <= g
    BY <1>2 DEF get_fd_frombitmap
  <2> HIDE DEF U
  <2>3. \E f \in U : \A g \in U : f <= g
    BY <1>2, <2>1, Smalls, LeastOne
  <2>4. get_fd_frombitmap \in U
    BY <2>2, <2>3
  <2> QED BY <2>4 DEF U
<1> QED BY <1>1, <1>2

(* LL_REMOVE takes one stream out of the list, all others stay in order.    *)
LEMMA Removed ==
  ASSUME tcb_set \in Seq(Peer), NEW p \in Peer, Listed(p)
  PROVE  /\ LL_REMOVE(p) \in Seq(Peer)
         /\ \E k \in 1..Len(tcb_set) :
              /\ tcb_set[k] = p /\ Len(LL_REMOVE(p)) = Len(tcb_set) - 1
              /\ \A j \in 1..Len(tcb_set) - 1 : LL_REMOVE(p)[j] = tcb_set[IF j < k THEN j ELSE j + 1]
<1> DEFINE c == CHOOSE k \in 1..Len(tcb_set) : tcb_set[k] = p
<1>1. PICK n \in Nat : n = Len(tcb_set)
  BY LenProperties
<1>2. PICK k \in 1..n : k = c /\ tcb_set[k] = p
  BY <1>1 DEF Listed
<1>3. LL_REMOVE(p) = SubSeq(tcb_set, 1, k - 1) \o SubSeq(tcb_set, k + 1, n)
  BY <1>1, <1>2 DEF LL_REMOVE
<1> HIDE DEF c
<1>4. PICK a \in Seq(Peer) : /\ a = SubSeq(tcb_set, 1, k - 1) /\ Len(a) = k - 1
                             /\ \A j \in 1..k - 1 : a[j] = tcb_set[j]
  <2>1. SubSeq(tcb_set, 1, k - 1) \in Seq(Peer)
    BY <1>1, <1>2, SubSeqProperties
  <2>2. Len(SubSeq(tcb_set, 1, k - 1)) = k - 1
    BY <1>1, <1>2, SubSeqProperties
  <2>3. \A j \in 1..k - 1 : SubSeq(tcb_set, 1, k - 1)[j] = tcb_set[j]
    BY <1>1, <1>2, SubSeqProperties
  <2> QED BY <2>1, <2>2, <2>3
<1>5. PICK b \in Seq(Peer) : /\ b = SubSeq(tcb_set, k + 1, n) /\ Len(b) = n - k
                             /\ \A j \in 1..n - k : b[j] = tcb_set[k + j]
  <2>1. SubSeq(tcb_set, k + 1, n) \in Seq(Peer)
    BY <1>1, <1>2, SubSeqProperties
  <2>2. Len(SubSeq(tcb_set, k + 1, n)) = n - k
    BY <1>1, <1>2, SubSeqProperties
  <2>3. \A j \in 1..n - k : SubSeq(tcb_set, k + 1, n)[j] = tcb_set[k + j]
    BY <1>1, <1>2, SubSeqProperties
  <2> QED BY <2>1, <2>2, <2>3
<1>6. PICK r \in Seq(Peer) : /\ r = a \o b /\ Len(r) = Len(a) + Len(b)
                             /\ \A i \in 1..Len(a) + Len(b) : r[i] = IF i <= Len(a) THEN a[i] ELSE b[i - Len(a)]
  <2>1. a \o b \in Seq(Peer)
    BY ConcatProperties
  <2>2. Len(a \o b) = Len(a) + Len(b)
    BY ConcatProperties
  <2>3. \A i \in 1..Len(a) + Len(b) : (a \o b)[i] = IF i <= Len(a) THEN a[i] ELSE b[i - Len(a)]
    BY ConcatProperties
  <2> QED BY <2>1, <2>2, <2>3
<1>9. Len(a) + Len(b) = n - 1
  <2>1. Len(a) = k - 1 /\ Len(b) = n - k
    BY <1>4, <1>5
  <2>2. k \in Int /\ n \in Int
    BY <1>2
  <2> QED BY <2>1, <2>2
<1>7. ASSUME NEW j \in 1..n - 1 PROVE r[j] = tcb_set[IF j < k THEN j ELSE j + 1]
  <2>2. r[j] = IF j <= k - 1 THEN a[j] ELSE b[j - (k - 1)]
    BY <1>4, <1>6, <1>9
  <2>3. CASE j < k
    BY <1>1, <1>2, <1>4, <2>2, <2>3
  <2>4. CASE ~(j < k)
    <3>1. PICK i \in 1..n - k : i = j - (k - 1)
      BY <1>1, <1>2, <2>4
    <3>2. ~(j <= k - 1) /\ k + i = j + 1
      BY <1>1, <1>2, <2>4, <3>1
    <3> QED BY <1>5, <2>2, <2>4, <3>1, <3>2
  <2> QED BY <2>3, <2>4
<1>8. Len(r) = n - 1
  BY <1>6, <1>9
<1>10. LL_REMOVE(p) = r
  BY <1>1, <1>3, <1>4, <1>5, <1>6
<1> QED BY <1>1, <1>2, <1>7, <1>8, <1>10

-----------------------------------------------------------------------------
(* Types *)

\* The types, in groups.
TyList ==
  /\ tcb_set \in Seq(Peer)
  /\ status \in [Peer -> {"none", "SYN_RCVD", "ESTABLISHED", "CLOSE_WAIT", "LAST_ACK"}]
  /\ segs \in [Peer -> 0 .. MaxSegs] /\ rcvd \in [Peer -> Nat] /\ wire \in [Peer -> Seq(Nat)]
TyFds ==
  /\ fd \in [Peer -> -1 .. MaxFd] /\ fd_table \subseteq 1 .. MaxFd
  /\ itemfd \in [Item -> -1 .. MaxFd]
TyRings ==
  /\ rcvbuf \in [Peer -> Seq(Seq(Nat))] /\ sndbuf \in [Peer -> Seq(Fragments)] /\ buff \in Seq(Nat)
TyEpoll ==
  /\ registered \subseteq Item /\ known \subseteq Item /\ ready \subseteq Item /\ handed \subseteq Item
  /\ todo \subseteq Item /\ ev \in Item /\ conn \in [Item -> Peer \cup {NoPeer}]
TySteps ==
  /\ tpc \in {"idle", "listener", "data", "datafin", "fin", "finpost"} /\ tstream \in Peer \cup {NoPeer}
  /\ spc \in Step /\ cur \in Peer \cup {NoPeer} /\ torn \in BOOLEAN
  /\ strayed \in {"no", "alias", "torn", "exhausted", "oversize"}
LEMMA TypeGroups == TypeOK <=> TyList /\ TyFds /\ TyRings /\ TyEpoll /\ TySteps
  BY Zenon DEF TypeOK, TyList, TyFds, TyRings, TyEpoll, TySteps, Fragments

LEMMA ListTyped ==
  ASSUME TyList, TyRings, Places, [Next]_vars
  PROVE  TyList'
<1> USE DEF streams, epoll, packet, srv, history
<1>1. CASE UNCHANGED vars
  BY <1>1 DEF TyList, vars
<1>2. ASSUME NEW p \in Peer, PacketArrives(p) \/ TcpOut(p) PROVE TyList'
  <2>0. ASSUME Arrives(p) PROVE segs' \in [Peer -> 0..MaxSegs]
    BY <2>0, Smalls DEF Arrives, TyList
  <2>1. CASE TcpSyn(p)
    <3>1. tcb_set' \in Seq(Peer)
      <4>1. <<p>> \in Seq(Peer)
        OBVIOUS
      <4> QED BY <2>1, <4>1, ConcatProperties DEF TcpSyn, TyList
    <3>2. rcvd' \in [Peer -> Nat] /\ wire' \in [Peer -> Seq(Nat)]
      BY <2>1 DEF TcpSyn, TyList
    <3> QED BY <2>0, <2>1, <3>1, <3>2 DEF TcpSyn, TyList
  <2>2. CASE TcpEstablish(p)
    BY <2>0, <2>2 DEF TcpEstablish, TyList
  <2>3. CASE TcpFin(p)
    BY <2>0, <2>3 DEF TcpFin, CloseWait, TyList
  <2>4. CASE TcpLastAck(p)
    <3>1. tcb_set' \in Seq(Peer)
      BY <2>4, Removed DEF TcpLastAck, TyList
    <3> QED BY <2>0, <2>4, <3>1 DEF TcpLastAck, TyList
  <2>5. ASSUME NEW n \in 1..MSS, NEW fin \in BOOLEAN, TcpData(p, n, fin) PROVE TyList'
    <3>1. n \in Nat
      BY Smalls
    <3> QED BY <2>0, <2>5, <3>1 DEF TcpData, TyList
  <2>6. CASE TcpOut(p)
    <3>3. sndbuf[p] \in Seq(Fragments) /\ sndbuf[p] # <<>>
      BY <2>6 DEF TcpOut, TyRings
    <3>4. Head(sndbuf[p]) \in Fragments
      BY <3>3, HeadTailProperties
    <3>1. Head(sndbuf[p]).data \in Seq(Nat)
      BY <3>4 DEF Fragments
    <3>2. wire[p] \o Head(sndbuf[p]).data \in Seq(Nat)
      BY <3>1, ConcatProperties DEF TyList
    <3> QED BY <2>6, <3>2 DEF TcpOut, TyList
  <2> QED BY <1>2, <2>1, <2>2, <2>3, <2>4, <2>5, <2>6 DEF PacketArrives
<1>3. CASE TcpPostListener \/ TcpPostData \/ TcpDataFin \/ TcpPostFin
  BY <1>3 DEF TcpPostListener, TcpPostData, TcpDataFin, TcpPostFin, CloseWait, Places, TyList
<1>4. CASE ServerStep
  <2>1. CASE CloseStatus
    BY <2>1 DEF CloseStatus, Places, TyList
  <2>2. CASE ~CloseStatus
    <3>1. UNCHANGED <<tcb_set, status, history>>
      BY <1>4, <2>2 DEF ServerStep, WaitTake, Serve, WaitReturn, WaitAgain, AcceptFindListener, AcceptFindStream, AcceptAssign,
         Add, RecvFind, RecvDequeue, Send, Del, CloseFind
    <3> QED BY <3>1 DEF TyList
  <2> QED BY <2>1, <2>2
<1> QED BY <1>1, <1>2, <1>3, <1>4 DEF Next, PacketStep

LEMMA FdsTyped ==
  ASSUME TyFds, TyEpoll, TySteps, Places, [Next]_vars
  PROVE  TyFds'
<1> USE DEF streams, epoll, packet, srv, history
<1>0. Unused \in -1..MaxFd /\ listenfd \in -1..MaxFd /\ 1..MaxFd \subseteq -1..MaxFd
  BY Smalls DEF Unused, listenfd
<1>1. CASE UNCHANGED vars
  BY <1>1 DEF TyFds, vars
<1>2. ASSUME NEW p \in Peer, PacketArrives(p) \/ TcpOut(p) PROVE TyFds'
  BY <1>0, <1>2 DEF PacketArrives, TcpSyn, TcpEstablish, TcpFin, CloseWait, TcpLastAck, TcpData, TcpOut, TyFds
<1>3. CASE TcpPostListener \/ TcpPostData \/ TcpDataFin \/ TcpPostFin
  BY <1>3 DEF TcpPostListener, TcpPostData, TcpDataFin, TcpPostFin, CloseWait, Callback, TyFds
<1>4. CASE ServerStep
  <2>1. CASE AcceptAssign
    BY <1>0, <2>1, FreshFd DEF AcceptAssign, Places, TyFds
  <2>2. CASE Add
    <3>1. (IF cur = NoPeer THEN Unused ELSE fd[cur]) \in -1..MaxFd
      BY <1>0 DEF TyFds, TySteps
    <3> QED BY <1>0, <2>2, <3>1 DEF Add, TyFds
  <2>3. CASE ~AcceptAssign /\ ~Add
    <3>1. UNCHANGED <<fd, itemfd>> /\ fd_table' \subseteq fd_table
      BY <1>4, <2>3 DEF ServerStep, WaitTake, Serve, WaitReturn, WaitAgain, AcceptFindListener, AcceptFindStream,
         RecvFind, RecvDequeue, Send, Del, CloseFind, CloseStatus
    <3> QED BY <3>1 DEF TyFds
  <2> QED BY <2>1, <2>2, <2>3
<1> QED BY <1>1, <1>2, <1>3, <1>4 DEF Next, PacketStep

LEMMA RingsTyped ==
  ASSUME TyRings, TyList, Places, [Next]_vars
  PROVE  TyRings'
<1> USE DEF streams, epoll, packet, srv, history
<1>0. <<>> \in Seq(Nat) /\ <<>> \in Seq(Seq(Nat)) /\ <<>> \in Seq(Fragments)
  OBVIOUS
<1>1. CASE UNCHANGED vars
  BY <1>1 DEF TyRings, vars
<1>2. ASSUME NEW p \in Peer, PacketArrives(p) \/ TcpOut(p) PROVE TyRings'
  <2>1. ASSUME NEW n \in 1..MSS, NEW fin \in BOOLEAN, TcpData(p, n, fin) PROVE TyRings'
    <3>1. PICK x : x = [k \in 1..n |-> rcvd[p] + k]
      OBVIOUS
    <3>2. x \in Seq(Nat)
      <4>1. n \in Nat /\ rcvd[p] \in Nat
        BY Smalls DEF TyList
      <4> QED BY <3>1, <4>1
    <3>3. Append(rcvbuf[p], x) \in Seq(Seq(Nat))
      BY <3>2, AppendProperties DEF TyRings
    <3> QED BY <2>1, <3>1, <3>3 DEF TcpData, Enqueue, TyRings
  <2>2. CASE TcpFin(p)
    <3>1. Append(rcvbuf[p], <<>>) \in Seq(Seq(Nat))
      BY <1>0, AppendProperties DEF TyRings
    <3> QED BY <2>2, <3>1 DEF TcpFin, CloseWait, Enqueue, TyRings
  <2>3. CASE TcpOut(p)
    <3>1. Tail(sndbuf[p]) \in Seq(Fragments)
      BY <2>3, HeadTailProperties DEF TcpOut, TyRings
    <3> QED BY <2>3, <3>1 DEF TcpOut, TyRings
  <2>4. CASE TcpSyn(p) \/ TcpEstablish(p) \/ TcpLastAck(p)
    BY <1>0, <2>4 DEF TcpSyn, TcpEstablish, TcpLastAck, TyRings
  <2> QED BY <1>2, <2>1, <2>2, <2>3, <2>4 DEF PacketArrives
<1>3. CASE TcpPostListener \/ TcpPostData \/ TcpPostFin
  BY <1>3 DEF TcpPostListener, TcpPostData, TcpPostFin, TyRings
<1>4. CASE TcpDataFin
  <2>1. tstream \in Peer
    BY <1>4 DEF TcpDataFin, Places
  <2>2. Append(rcvbuf[tstream], <<>>) \in Seq(Seq(Nat))
    BY <1>0, <2>1, AppendProperties DEF TyRings
  <2> QED BY <1>4, <2>2 DEF TcpDataFin, CloseWait, Enqueue, TyRings
<1>5. CASE ServerStep
  <2>1. CASE RecvDequeue
    <3>1. PICK q \in Seq(Seq(Nat)) : q = rcvbuf[cur] /\ q # <<>>
      BY <2>1 DEF RecvDequeue, Places, TyRings
    <3>2. PICK f \in Seq(Nat) : f = Head(q)
      BY <3>1, HeadTailProperties
    <3>3. Tail(q) \in Seq(Seq(Nat))
      BY <3>1, HeadTailProperties
    <3>4. CASE Len(f) > BufferSize
      <4>1. PICK n \in Nat : n = Len(f)
        BY LenProperties
      <4>2. SubSeq(f, BufferSize + 1, n) \in Seq(Nat) /\ Len(SubSeq(f, BufferSize + 1, n)) = n - BufferSize
        BY <3>4, <4>1, Smalls, SubSeqProperties
      <4>3. PICK x \in Seq(Nat) : x = SubSeq(f, BufferSize + 1, n) /\ Len(x) = n - BufferSize
        BY <4>2
      <4>4. SubSeq(f, 1, n - BufferSize) \in Seq(Nat)
        <5>1. PICK m \in Nat : m = n - BufferSize /\ m \in 1..n
          <6>1. BufferSize \in Nat /\ BufferSize > 0 /\ n > BufferSize
            BY <3>4, <4>1, Smalls
          <6>2. n - BufferSize \in Nat /\ n - BufferSize \in 1..n
            BY <6>1
          <6> QED BY <6>2
        <5>3. \A i \in 1..m : f[i] \in Nat
          BY <4>1, <5>1, ElementOfSeq
        <5>2. SubSeq(f, 1, m) \in Seq(Nat)
          BY <5>1, <5>3, SubSeqProperties
        <5> QED BY <5>1, <5>2
      <4>5. Append(Tail(q), x) \in Seq(Seq(Nat))
        BY <3>3, AppendProperties
      <4>6. rcvbuf' = [rcvbuf EXCEPT ![cur] = Append(Tail(q), x)] /\ buff' = SubSeq(f, 1, n - BufferSize)
        BY <2>1, <3>1, <3>2, <3>4, <4>1, <4>3 DEF RecvDequeue
      <4> QED BY <2>1, <4>4, <4>5, <4>6 DEF RecvDequeue, TyRings
    <3>5. CASE ~(Len(f) > BufferSize)
      <4>1. rcvbuf' = [rcvbuf EXCEPT ![cur] = Tail(q)] /\ buff' = f
        BY <2>1, <3>1, <3>2, <3>5 DEF RecvDequeue
      <4> QED BY <2>1, <3>3, <4>1 DEF RecvDequeue, TyRings
    <3> QED BY <3>4, <3>5
  <2>2. CASE Send
    <3>1. PICK p : /\ sndbuf' = IF p = NoPeer THEN sndbuf ELSE Enqueue(sndbuf, p, Fragment("psh", buff))
                   /\ buff' = <<>> /\ UNCHANGED rcvbuf
      BY <2>2 DEF Send, Done
    <3>2. Fragment("psh", buff) \in Fragments
      BY DEF Fragment, Fragments, TyRings
    <3>3. p \in Peer => Append(sndbuf[p], Fragment("psh", buff)) \in Seq(Fragments)
      BY <3>2, AppendProperties DEF TyRings
    <3> QED BY <1>0, <3>1, <3>3 DEF Enqueue, TyRings
  <2>3. CASE CloseFind
    <3>1. PICK p : /\ \/ sndbuf' = sndbuf
                      \/ sndbuf' = Enqueue(sndbuf, p, Fragment("fin", <<>>))
                   /\ buff' = <<>> \/ buff' = buff
                   /\ UNCHANGED rcvbuf
      BY <2>3 DEF CloseFind, Done
    <3>2. Fragment("fin", <<>>) \in Fragments
      BY <1>0 DEF Fragment, Fragments, TyRings
    <3>3. p \in Peer => Append(sndbuf[p], Fragment("fin", <<>>)) \in Seq(Fragments)
      BY <3>2, AppendProperties DEF TyRings
    <3> QED BY <1>0, <3>1, <3>3 DEF Enqueue, TyRings
  <2>4. CASE ~RecvDequeue /\ ~Send /\ ~CloseFind
    <3>1. UNCHANGED <<rcvbuf, sndbuf>> /\ (buff' = <<>> \/ buff' = buff)
      BY <1>5, <2>4 DEF ServerStep, WaitTake, Serve, WaitReturn, WaitAgain, AcceptFindListener, AcceptFindStream, AcceptAssign,
         Add, RecvFind, Del, CloseStatus, Done
    <3> QED BY <1>0, <3>1 DEF TyRings
  <2> QED BY <2>1, <2>2, <2>3, <2>4
<1> QED BY <1>1, <1>2, <1>3, <1>4, <1>5 DEF Next, PacketStep

LEMMA EpollTyped ==
  ASSUME TyEpoll, TySteps, [Next]_vars
  PROVE  TyEpoll'
<1> USE DEF streams, epoll, packet, srv, history
<1>1. CASE UNCHANGED vars
  BY <1>1 DEF TyEpoll, vars
<1>2. ASSUME NEW p \in Peer, PacketArrives(p) \/ TcpOut(p) PROVE TyEpoll'
  BY <1>2 DEF PacketArrives, TcpSyn, TcpEstablish, TcpFin, CloseWait, TcpLastAck, TcpData, TcpOut, TyEpoll
<1>3. CASE TcpPostListener \/ TcpPostData \/ TcpDataFin \/ TcpPostFin
  BY <1>3 DEF TcpPostListener, TcpPostData, TcpDataFin, TcpPostFin, CloseWait, Callback, TyEpoll
<1>4. CASE ServerStep
  <2>0. ListenItem \in Item
    BY Smalls DEF ListenItem
  <2>1. ASSUME NEW i \in Item, WaitTake(i) \/ Serve(i) PROVE TyEpoll'
    BY <2>1 DEF WaitTake, Serve, ES!Take, TyEpoll
  <2>2. CASE Add
    <3>1. PICK i \in Item : i = Cardinality(known) \/ UNCHANGED epoll
      BY <2>0, <2>2 DEF Add
    <3> QED BY <2>0, <2>2, <3>1 DEF Add, ES!Register, Done, TyEpoll, TySteps
  <2>3. CASE Del
    BY <2>3 DEF Del, ES!Unregister, TyEpoll
  <2>4. CASE WaitReturn \/ WaitAgain \/ AcceptFindListener \/ AcceptFindStream \/ AcceptAssign
    BY <2>4 DEF WaitReturn, WaitAgain, ES!Begin, AcceptFindListener, AcceptFindStream, AcceptAssign, TyEpoll
  <2>5. CASE RecvFind \/ RecvDequeue \/ Send \/ CloseFind \/ CloseStatus
    <3>1. UNCHANGED <<epoll, todo>> /\ (ev' = ev \/ ev' = ListenItem)
      BY <2>5 DEF RecvFind, RecvDequeue, Send, CloseFind, CloseStatus, Done
    <3> QED BY <2>0, <3>1 DEF TyEpoll
  <2> QED BY <1>4, <2>1, <2>2, <2>3, <2>4, <2>5 DEF ServerStep
<1> QED BY <1>1, <1>2, <1>3, <1>4 DEF Next, PacketStep

(* A walk returns a stream or none. *)
LEMMA WalksIn ==
  ASSUME TyList
  PROVE  /\ Walk(get_accept_tcb) \subseteq Peer \cup {NoPeer}
         /\ \A f : Walk(get_hostinfo_fromfd(f)) \subseteq Peer \cup {NoPeer}
<1>1. \A S \in SUBSET Peer : First(S) \in Peer \cup {NoPeer}
  BY FirstFinds DEF TyList
<1>2. \A f : {p \in Peer : fd[p] = f} \in SUBSET Peer
  OBVIOUS
<1> QED BY <1>1, <1>2 DEF Walk, get_accept_tcb, get_hostinfo_fromfd

LEMMA StepsTyped ==
  ASSUME TySteps, TyList, Places, [Next]_vars
  PROVE  TySteps' /\ Places'
<1> USE DEF streams, epoll, packet, srv, history
<1>1. CASE UNCHANGED vars
  BY <1>1 DEF TySteps, Places, vars
<1>2. ASSUME NEW p \in Peer, PacketArrives(p) \/ TcpOut(p) PROVE TySteps' /\ Places'
  <2>1. CASE TcpSyn(p) \/ TcpOut(p)
    BY <2>1 DEF TcpSyn, TcpOut, TySteps, Places
  <2>2. CASE TcpEstablish(p)
    BY <2>2 DEF TcpEstablish, Arrives, TySteps, Places, Step
  <2>3. CASE TcpFin(p) \/ \E n, fin : TcpData(p, n, fin)
    BY <2>3 DEF TcpFin, CloseWait, TcpData, TySteps, Places
  <2>4. CASE TcpLastAck(p)
    <3>1. torn' \in BOOLEAN
      BY <2>4 DEF TcpLastAck, TySteps
    <3> QED BY <2>4, <3>1 DEF TcpLastAck, TySteps, Places
  <2> QED BY <1>2, <2>1, <2>2, <2>3, <2>4 DEF PacketArrives
<1>3. CASE TcpPostListener \/ TcpPostData \/ TcpDataFin \/ TcpPostFin
  BY <1>3 DEF TcpPostListener, TcpPostData, TcpDataFin, TcpPostFin, CloseWait, TySteps, Places
<1>4. CASE ServerStep
  <2>1. ASSUME NEW i \in Item, WaitTake(i) \/ Serve(i) PROVE TySteps' /\ Places'
    BY <2>1 DEF WaitTake, Serve, Goto, TySteps, Places, Step
  <2>2. CASE WaitReturn \/ WaitAgain \/ AcceptFindListener \/ AcceptAssign \/ Add
    BY <2>2 DEF WaitReturn, WaitAgain, AcceptFindListener, AcceptAssign, Add, Done, Goto, Stray, TySteps, Places, Step
  <2>3. CASE AcceptFindStream
    BY <2>3, WalksIn DEF AcceptFindStream, Goto, Stray, TySteps, Places, Step
  <2>4. CASE RecvFind
    BY <2>4, WalksIn DEF RecvFind, Goto, Judge, Stray, TySteps, Places, Step
  <2>5. CASE RecvDequeue
    BY <2>5 DEF RecvDequeue, Goto, Stray, TySteps, Places, Step
  <2>6. CASE Send
    BY <2>6 DEF Send, Done, Goto, Judge, Stray, TySteps, Places, Step
  <2>7. CASE CloseFind
    BY <2>7, WalksIn DEF CloseFind, Done, Goto, Judge, Stray, TySteps, Places, Step
  <2>8. CASE Del \/ CloseStatus
    BY <2>8 DEF Del, CloseStatus, Done, Goto, TySteps, Places, Step
  <2> QED BY <1>4, <2>1, <2>2, <2>3, <2>4, <2>5, <2>6, <2>7, <2>8 DEF ServerStep
<1> QED BY <1>1, <1>2, <1>3, <1>4 DEF Next, PacketStep

LEMMA Typed ==
  ASSUME TypeOK, Places, [Next]_vars
  PROVE  TypeOK' /\ Places'
<1>1. TyList /\ TyFds /\ TyRings /\ TyEpoll /\ TySteps
  BY TypeGroups
<1>2. TyList' /\ TyFds' /\ TyRings' /\ TyEpoll' /\ TySteps' /\ Places'
  BY <1>1, ListTyped, FdsTyped, RingsTyped, EpollTyped, StepsTyped
<1>3. (TyList /\ TyFds /\ TyRings /\ TyEpoll /\ TySteps)' => TypeOK'
  BY TypeGroups, PTL
<1> QED BY <1>2, <1>3

-----------------------------------------------------------------------------
(* What a step did that went right *)

LEMMA StaysStraight ==
  ASSUME [Next]_vars, Straight'
  PROVE  Straight
<1> USE DEF streams, epoll, packet, srv, history, Straight
<1>1. CASE UNCHANGED vars
  BY <1>1 DEF vars
<1>2. ASSUME NEW p \in Peer, PacketArrives(p) \/ TcpOut(p) PROVE Straight
  BY <1>2 DEF PacketArrives, TcpSyn, TcpEstablish, TcpFin, CloseWait, TcpLastAck, TcpData, TcpOut
<1>3. CASE TcpPostListener \/ TcpPostData \/ TcpDataFin \/ TcpPostFin
  BY <1>3 DEF TcpPostListener, TcpPostData, TcpDataFin, TcpPostFin, CloseWait
<1>4. CASE ServerStep
  BY <1>4 DEF ServerStep, WaitTake, Serve, WaitReturn, WaitAgain, AcceptFindListener, AcceptFindStream, AcceptAssign,
     Add, RecvFind, RecvDequeue, Send, Del, CloseFind, CloseStatus, Judge, Stray
<1> QED BY <1>1, <1>2, <1>3, <1>4 DEF Next, PacketStep

(* The calls that can go wrong, when they do not: every lookup finds the    *)
(* stream that was accepted.                                                *)
LEMMA StraightCalls ==
  ASSUME TypeOK, Straight, Items, Serving, Straight'
  PROVE  /\ AcceptFindListener => spc' = "apt"
         /\ AcceptFindStream => /\ cur' = get_accept_tcb
                                /\ spc' = (IF cur' = NoPeer THEN "acceptwait" ELSE "assign")
         /\ AcceptAssign => \E f \in (1..MaxFd) \ fd_table : fd' = [fd EXCEPT ![cur] = f] /\ fd_table' = fd_table \cup {f}
         /\ RecvFind => cur' = conn[ev] /\ spc' = "dequeue"
         /\ RecvDequeue => /\ rcvbuf' = [rcvbuf EXCEPT ![cur] = Tail(@)] /\ buff' = Head(rcvbuf[cur])
                           /\ spc' = (IF buff' = <<>> THEN "del" ELSE "send")
         /\ Send => sndbuf' = Enqueue(sndbuf, conn[ev], Fragment("psh", buff))
         /\ CloseFind => /\ spc' = "lastack" /\ cur' = conn[ev] /\ ev' = ev
                         /\ sndbuf' = Enqueue(sndbuf, conn[ev], Fragment("fin", <<>>))
<1> USE DEF Straight, Stray, Goto
<1>0. NoPeer \notin Peer
  BY Smalls
<1>1. AcceptFindListener => spc' = "apt"
  BY DEF AcceptFindListener
<1>2. AcceptFindStream => cur' = get_accept_tcb /\ spc' = (IF cur' = NoPeer THEN "acceptwait" ELSE "assign")
  BY DEF AcceptFindStream
<1>3. ASSUME AcceptAssign
      PROVE  \E f \in (1..MaxFd) \ fd_table : fd' = [fd EXCEPT ![cur] = f] /\ fd_table' = fd_table \cup {f}
  <2>1. get_fd_frombitmap # Unused
    BY <1>3 DEF AcceptAssign
  <2>2. PICK f \in (1..MaxFd) \ fd_table : f = get_fd_frombitmap
    BY <2>1, FreshFd
  <2>3. fd' = [fd EXCEPT ![cur] = f] /\ fd_table' = fd_table \cup {f}
    BY <1>3, <2>1, <2>2 DEF AcceptAssign
  <2> QED BY <2>3
<1>4. spc \in {"recv", "send", "close"} => conn[ev] \in Peer
  BY DEF Serving, Items, Receiving
<1>5. RecvFind => cur' = conn[ev] /\ spc' = "dequeue"
  BY <1>0, <1>4 DEF RecvFind, Judge
<1>6. RecvDequeue => /\ rcvbuf' = [rcvbuf EXCEPT ![cur] = Tail(@)] /\ buff' = Head(rcvbuf[cur])
                     /\ spc' = (IF buff' = <<>> THEN "del" ELSE "send")
  BY DEF RecvDequeue
<1>7. Send => sndbuf' = Enqueue(sndbuf, conn[ev], Fragment("psh", buff))
  BY <1>0, <1>4 DEF Send, Judge
<1>8. CloseFind => /\ spc' = "lastack" /\ cur' = conn[ev] /\ ev' = ev
                   /\ sndbuf' = Enqueue(sndbuf, conn[ev], Fragment("fin", <<>>))
  BY <1>0, <1>4 DEF CloseFind, Judge
<1> QED BY <1>1, <1>2, <1>3, <1>5, <1>6, <1>7, <1>8

-----------------------------------------------------------------------------
(* Streams and descriptors *)

(* One stream enters the list. *)
LEMMA Entered ==
  ASSUME tcb_set \in Seq(Peer), NEW p \in Peer, tcb_set' = <<p>> \o tcb_set
  PROVE  /\ \A q \in Peer : Listed(q)' <=> Listed(q) \/ q = p
         /\ ~Listed(p) /\ (\A j, k \in 1..Len(tcb_set) : tcb_set[j] = tcb_set[k] => j = k)
              => (\A j, k \in 1..Len(tcb_set) : tcb_set[j] = tcb_set[k] => j = k)'
<1>1. PICK n \in Nat : n = Len(tcb_set)
  BY LenProperties
<1>2. PICK r : r = <<p>> \o tcb_set
  OBVIOUS
<1>3. Len(r) = n + 1 /\ r[1] = p /\ \A j \in 2..n + 1 : r[j] = tcb_set[j - 1]
  <2>1. <<p>> \in Seq(Peer) /\ Len(<<p>>) = 1 /\ <<p>>[1] = p
    OBVIOUS
  <2>2. /\ Len(r) = Len(<<p>>) + Len(tcb_set)
        /\ \A i \in 1..Len(<<p>>) + Len(tcb_set) : r[i] = IF i <= Len(<<p>>) THEN <<p>>[i] ELSE tcb_set[i - Len(<<p>>)]
    BY <1>2, <2>1, ConcatProperties
  <2>3. Len(r) = 1 + n /\ \A i \in 1..1 + n : r[i] = IF i <= 1 THEN <<p>>[i] ELSE tcb_set[i - 1]
    BY <1>1, <2>1, <2>2
  <2>4. 1 \in 1..1 + n /\ 1 + n = n + 1 /\ \A j \in 2..n + 1 : j \in 1..1 + n /\ ~(j <= 1)
    OBVIOUS
  <2> QED BY <2>1, <2>3, <2>4
<1>4. tcb_set' = r
  BY <1>2
<1>5. ASSUME NEW q \in Peer PROVE Listed(q)' <=> Listed(q) \/ q = p
  <2>1. Listed(q)' <=> \E k \in 1..n + 1 : r[k] = q
    BY <1>3, <1>4 DEF Listed
  <2>2. ASSUME NEW k \in 1..n + 1, r[k] = q PROVE Listed(q) \/ q = p
    <3>1. k = 1 \/ (k \in 2..n + 1 /\ k - 1 \in 1..n)
      OBVIOUS
    <3> QED BY <1>1, <1>3, <2>2, <3>1 DEF Listed
  <2>3. ASSUME NEW k \in 1..n, tcb_set[k] = q PROVE \E j \in 1..n + 1 : r[j] = q
    <3>1. k + 1 \in 2..n + 1 /\ (k + 1) - 1 = k /\ k + 1 \in 1..n + 1
      OBVIOUS
    <3> QED BY <1>3, <2>3, <3>1
  <2>4. q = p => \E j \in 1..n + 1 : r[j] = q
    BY <1>3
  <2> QED BY <1>1, <2>1, <2>2, <2>3, <2>4 DEF Listed
<1>6. ASSUME ~Listed(p), \A j, k \in 1..n : tcb_set[j] = tcb_set[k] => j = k,
             NEW j \in 1..n + 1, NEW k \in 1..n + 1, r[j] = r[k]
      PROVE  j = k
  <2>1. \A i \in 1..n + 1 : i = 1 \/ (i \in 2..n + 1 /\ i - 1 \in 1..n)
    OBVIOUS
  <2>2. \A i \in 2..n + 1 : i - 1 \in 1..n /\ r[i] = tcb_set[i - 1] /\ r[i] # p
    <3>1. \A i \in 2..n + 1 : i - 1 \in 1..n
      OBVIOUS
    <3> QED BY <1>1, <1>3, <1>6, <3>1 DEF Listed
  <2>3. j = 1 <=> k = 1
    BY <1>3, <1>6, <2>1, <2>2
  <2>4. CASE j # 1
    <3>1. j \in 2..n + 1 /\ k \in 2..n + 1
      BY <2>1, <2>3, <2>4
    <3>2. j - 1 \in 1..n /\ k - 1 \in 1..n /\ tcb_set[j - 1] = tcb_set[k - 1]
      BY <1>6, <2>2, <3>1
    <3>3. j - 1 = k - 1
      BY <1>6, <3>2
    <3> QED BY <3>3
  <2> QED BY <2>3, <2>4
<1> QED BY <1>1, <1>3, <1>4, <1>5, <1>6

(* One stream leaves it. *)
LEMMA Left ==
  ASSUME tcb_set \in Seq(Peer), NEW p \in Peer, Listed(p), tcb_set' = LL_REMOVE(p),
         \A j, k \in 1..Len(tcb_set) : tcb_set[j] = tcb_set[k] => j = k
  PROVE  /\ \A q \in Peer : Listed(q)' <=> Listed(q) /\ q # p
         /\ (\A j, k \in 1..Len(tcb_set) : tcb_set[j] = tcb_set[k] => j = k)'
<1>1. PICK n \in Nat : n = Len(tcb_set)
  BY LenProperties
<1>0. PICK r : r = LL_REMOVE(p)
  OBVIOUS
<1>2. PICK k \in 1..n : /\ tcb_set[k] = p /\ Len(r) = n - 1
                        /\ \A j \in 1..n - 1 : r[j] = tcb_set[IF j < k THEN j ELSE j + 1]
  BY <1>0, <1>1, Removed
<1>3. tcb_set' = r
  BY <1>0
<1> DEFINE at(j) == IF j < k THEN j ELSE j + 1
<1>4. \A i, j \in 1..n - 1 : at(j) \in 1..n /\ at(j) # k /\ (at(i) = at(j) => i = j)
  OBVIOUS
<1>5. \A j \in 1..n - 1 : r[j] = tcb_set[at(j)]
  BY <1>2
<1>6. ASSUME NEW j \in 1..n, j # k PROVE \E i \in 1..n - 1 : at(i) = j
  <2>1. CASE j < k
    <3>1. j \in 1..n - 1
      BY <2>1
    <3>2. at(j) = j
      BY <2>1
    <3> QED BY <3>1, <3>2
  <2>2. CASE ~(j < k)
    <3>1. j \in Int /\ k \in Int /\ n \in Int /\ k < j
      BY <1>6, <2>2
    <3>2. PICK i \in 1..n - 1 : i = j - 1
      BY <3>1
    <3>3. ~(i < k) /\ i + 1 = j
      BY <3>1, <3>2
    <3>4. at(i) = j
      BY <3>3
    <3> QED BY <3>2, <3>4
  <2> QED BY <2>1, <2>2
<1> HIDE DEF at
<1>7. ASSUME NEW q \in Peer PROVE Listed(q)' <=> Listed(q) /\ q # p
  <2>1. Listed(q)' <=> \E j \in 1..n - 1 : r[j] = q
    BY <1>2, <1>3 DEF Listed
  <2>2. \A j \in 1..n : tcb_set[j] = p => j = k
    BY <1>1, <1>2
  <2>3. ASSUME NEW j \in 1..n - 1, r[j] = q PROVE Listed(q) /\ q # p
    BY <1>1, <1>4, <1>5, <2>2, <2>3 DEF Listed
  <2>4. ASSUME NEW j \in 1..n, tcb_set[j] = q, q # p PROVE \E i \in 1..n - 1 : r[i] = q
    <3>1. PICK i \in 1..n - 1 : at(i) = j
      BY <1>2, <1>6, <2>4
    <3> QED BY <1>5, <2>4, <3>1
  <2> QED BY <1>1, <2>1, <2>3, <2>4 DEF Listed
<1>8. ASSUME NEW i \in 1..n - 1, NEW j \in 1..n - 1, r[i] = r[j] PROVE i = j
  BY <1>1, <1>4, <1>5, <1>8
<1> QED BY <1>2, <1>3, <1>7, <1>8

LEMMA ListsKept ==
  ASSUME TypeOK, Places, Core, Straight, Straight', [Next]_vars
  PROVE  Lists'
<1> USE DEF streams, epoll, packet, srv, history
<1>0. TyList /\ Lists /\ Serving /\ (Ending => ev \in Item /\ conn[ev] \in Peer)
  BY TypeGroups DEF Core, Serving, Items, TyEpoll, Ending, Receiving
<1> DEFINE Once == \A j, k \in 1..Len(tcb_set) : tcb_set[j] = tcb_set[k] => j = k
<1>a. Once /\ \A p \in Peer : Listed(p) <=> status[p] # "none"
  BY <1>0 DEF Lists
<1>b. ASSUME tcb_set' = tcb_set PROVE Once' /\ \A p \in Peer : Listed(p)' <=> Listed(p)
  BY <1>a, <1>b DEF Listed
<1>c. ASSUME NEW p \in Peer, NEW s \in {"SYN_RCVD", "ESTABLISHED", "CLOSE_WAIT", "LAST_ACK"}, status[p] # "none",
             tcb_set' = tcb_set, status' = [status EXCEPT ![p] = s]
      PROVE  Lists'
  <2>1. \A q \in Peer : status'[q] # "none" <=> status[q] # "none"
    BY <1>0, <1>c DEF TyList
  <2> QED BY <1>a, <1>b, <1>c, <2>1 DEF Lists
<1>d. ASSUME UNCHANGED <<tcb_set, status>> PROVE Lists'
  BY <1>a, <1>b, <1>d DEF Lists
<1>1. CASE UNCHANGED vars
  BY <1>1, <1>d DEF vars
<1>2. ASSUME NEW p \in Peer, PacketArrives(p) \/ TcpOut(p) PROVE Lists'
  <2>1. CASE TcpSyn(p)
    <3>1. tcb_set' = <<p>> \o tcb_set /\ ~Listed(p)
      BY <2>1 DEF TcpSyn
    <3>2. Once' /\ \A q \in Peer : Listed(q)' <=> Listed(q) \/ q = p
      BY <1>0, <1>a, <3>1, Entered DEF TyList
    <3>3. \A q \in Peer : status'[q] # "none" <=> status[q] # "none" \/ q = p
      BY <1>0, <2>1 DEF TcpSyn, TyList
    <3> QED BY <1>a, <3>2, <3>3 DEF Lists
  <2>2. CASE TcpLastAck(p)
    <3>1. tcb_set' = LL_REMOVE(p) /\ Listed(p)
      BY <2>2 DEF TcpLastAck
    <3>2. Once' /\ \A q \in Peer : Listed(q)' <=> Listed(q) /\ q # p
      BY <1>0, <1>a, <3>1, Left DEF TyList
    <3>3. \A q \in Peer : status'[q] # "none" <=> status[q] # "none" /\ q # p
      BY <1>0, <2>2 DEF TcpLastAck, TyList
    <3> QED BY <1>a, <3>2, <3>3 DEF Lists
  <2>3. CASE TcpEstablish(p) \/ TcpFin(p)
    BY <1>c, <2>3 DEF TcpEstablish, TcpFin, CloseWait
  <2>4. CASE TcpOut(p) \/ \E n, fin : TcpData(p, n, fin)
    BY <1>d, <2>4 DEF TcpOut, TcpData
  <2> QED BY <1>2, <2>1, <2>2, <2>3, <2>4 DEF PacketArrives
<1>3. CASE TcpPostListener \/ TcpPostData \/ TcpPostFin
  BY <1>3, <1>d DEF TcpPostListener, TcpPostData, TcpPostFin
<1>4. CASE TcpDataFin
  BY <1>0, <1>4, <1>c DEF TcpDataFin, CloseWait, Places, Serving
<1>5. CASE ServerStep
  <2>1. CASE CloseStatus
    <3>1. cur \in Peer /\ status[cur] = "CLOSE_WAIT"
      BY <1>0, <2>1 DEF CloseStatus, Serving, Ending
    <3> QED BY <1>c, <2>1, <3>1 DEF CloseStatus
  <2>2. CASE ~CloseStatus
    <3>1. UNCHANGED <<tcb_set, status>>
      BY <1>5, <2>2 DEF ServerStep, WaitTake, Serve, WaitReturn, WaitAgain, AcceptFindListener, AcceptFindStream, AcceptAssign,
         Add, RecvFind, RecvDequeue, Send, Del, CloseFind
    <3> QED BY <1>d, <3>1
  <2> QED BY <2>1, <2>2
<1> QED BY <1>1, <1>2, <1>3, <1>4, <1>5 DEF Next, PacketStep

LEMMA OwnersKept ==
  ASSUME TypeOK, Places, Core, Straight, Straight', [Next]_vars
  PROVE  Owners'
<1> USE DEF streams, epoll, packet, srv, history
<1>0. TyList /\ TyFds /\ Owners /\ Serving /\ Items /\ (Ending => ev \in Item /\ conn[ev] \in Peer)
  BY TypeGroups DEF Core, Serving, Items, TyEpoll, Ending, Receiving
<1> DEFINE S == {"none", "SYN_RCVD", "ESTABLISHED", "CLOSE_WAIT", "LAST_ACK"}
           Openers == {q \in Peer : Open(q)}
           Kept(p) == /\ status[p] = "none" => fd[p] = Unused
                      /\ status[p] = "LAST_ACK" => fd[p] # Unused
                      /\ fd[p] # listenfd
<1>a. /\ \A p, q \in Peer : Open(p) /\ Open(q) /\ fd[p] = fd[q] => p = q
      /\ fd_table = {fd[p] : p \in Openers}
      /\ \A p \in Peer : Kept(p)
  BY <1>0 DEF Owners
<1>u. Unused # listenfd
  BY DEF Unused, listenfd
<1>b. ASSUME \A q \in Peer : Open(q)' <=> Open(q), \A q \in Peer : Open(q) => fd'[q] = fd[q], fd_table' = fd_table,
             \A q \in Peer : Kept(q)'
      PROVE  Owners'
  <2>1. Openers' = Openers
    BY <1>b
  <2>2. {fd'[p] : p \in Openers'} = {fd[p] : p \in Openers}
    BY <1>b, <2>1
  <2> QED BY <1>a, <1>b, <2>2 DEF Owners
<1>c. ASSUME NEW p \in Peer, NEW s \in {"ESTABLISHED", "CLOSE_WAIT"}, status[p] \in {"SYN_RCVD", "ESTABLISHED"},
             UNCHANGED <<fd, fd_table>>, status' = [status EXCEPT ![p] = s]
      PROVE  Owners'
  <2>1. \A q \in Peer : Open(q)' <=> Open(q)
    BY <1>0, <1>c DEF Open, TyList
  <2>2. \A q \in Peer : Kept(q)'
    BY <1>0, <1>a, <1>c DEF TyList
  <2> QED BY <1>b, <1>c, <2>1, <2>2
<1>d. ASSUME UNCHANGED <<fd, fd_table, status>> PROVE Owners'
  BY <1>a, <1>b, <1>d DEF Open
<1>1. CASE UNCHANGED vars
  BY <1>1, <1>d DEF vars
<1>2. ASSUME NEW p \in Peer, PacketArrives(p) \/ TcpOut(p) PROVE Owners'
  <2>1. CASE TcpSyn(p)
    <3>1. status[p] = "none"
      BY <2>1 DEF TcpSyn, Core, Lists
    <3>2. \A q \in Peer : Open(q)' <=> Open(q)
      BY <1>0, <2>1, <3>1 DEF TcpSyn, Open, TyList, TyFds
    <3>3. \A q \in Peer : Open(q) => fd'[q] = fd[q]
      BY <1>0, <2>1, <3>1 DEF TcpSyn, Open, TyFds
    <3>4. \A q \in Peer : Kept(q)'
      BY <1>0, <1>a, <1>u, <2>1 DEF TcpSyn, TyList, TyFds
    <3> QED BY <1>b, <2>1, <3>2, <3>3, <3>4 DEF TcpSyn
  <2>2. CASE TcpLastAck(p)
    <3>2. \A q \in Peer : Open(q)' <=> Open(q)
      BY <1>0, <2>2 DEF TcpLastAck, Open, TyList, TyFds
    <3>3. \A q \in Peer : Open(q) => fd'[q] = fd[q]
      BY <1>0, <2>2 DEF TcpLastAck, Open, TyFds
    <3>4. \A q \in Peer : Kept(q)'
      BY <1>0, <1>a, <1>u, <2>2 DEF TcpLastAck, TyList, TyFds
    <3> QED BY <1>b, <2>2, <3>2, <3>3, <3>4 DEF TcpLastAck
  <2>3. CASE TcpEstablish(p) \/ TcpFin(p)
    BY <1>c, <2>3 DEF TcpEstablish, TcpFin, CloseWait
  <2>4. CASE TcpOut(p) \/ \E n, fin : TcpData(p, n, fin)
    BY <1>d, <2>4 DEF TcpOut, TcpData
  <2> QED BY <1>2, <2>1, <2>2, <2>3, <2>4 DEF PacketArrives
<1>3. CASE TcpPostListener \/ TcpPostData \/ TcpPostFin
  BY <1>3, <1>d DEF TcpPostListener, TcpPostData, TcpPostFin
<1>4. CASE TcpDataFin
  BY <1>0, <1>4, <1>c DEF TcpDataFin, CloseWait, Places, Serving
<1>5. CASE ServerStep
  <2>1. CASE CloseStatus
    <3>1. cur \in Peer /\ Open(cur) /\ itemfd[ev] = fd[cur]
      BY <1>0, <2>1 DEF CloseStatus, Serving, Ending, Places
    <3>2. \A q \in Peer : Open(q)' <=> Open(q) /\ q # cur
      BY <1>0, <2>1 DEF CloseStatus, Open, TyList
    <3>3. UNCHANGED fd /\ fd_table' = fd_table \ {fd[cur]}
      BY <2>1, <3>1 DEF CloseStatus
    <3>4. \A q \in Peer : Kept(q)'
      BY <1>0, <1>a, <2>1, <3>1, <3>3 DEF CloseStatus, Open, TyList
    <3>5. fd_table' = {fd[p] : p \in Openers'}
      BY <1>a, <3>1, <3>2, <3>3
    <3> QED BY <1>a, <3>2, <3>3, <3>4, <3>5 DEF Owners
  <2>2. CASE AcceptAssign
    <3>1. PICK f \in (1..MaxFd) \ fd_table : fd' = [fd EXCEPT ![cur] = f] /\ fd_table' = fd_table \cup {f}
      BY <1>0, <2>2, StraightCalls
    <3>2. cur \in Peer /\ status[cur] # "none" /\ fd[cur] = Unused /\ UNCHANGED status /\ status[cur] # "LAST_ACK"
      BY <1>0, <1>a, <2>2 DEF AcceptAssign, Places, Serving
    <3>3. f # Unused /\ f # listenfd
      BY <3>1, Smalls DEF Unused, listenfd
    <3>4. \A q \in Peer : Open(q)' <=> Open(q) \/ q = cur
      BY <1>0, <3>1, <3>2, <3>3 DEF Open, TyList, TyFds
    <3>5. \A q \in Peer : fd'[q] = IF q = cur THEN f ELSE fd[q]
      BY <1>0, <3>1 DEF TyFds
    <3>6. ~Open(cur)
      BY <3>2 DEF Open
    <3>7. \A q \in Peer : Kept(q)'
      BY <1>a, <3>2, <3>3, <3>5
    <3>8. fd_table' = {fd'[p] : p \in Openers'}
      <4>1. Openers' = Openers \cup {cur}
        BY <3>2, <3>4
      <4> QED BY <1>a, <3>1, <3>2, <3>5, <3>6, <4>1
    <3>9. \A p, q \in Peer : Open(p)' /\ Open(q)' /\ fd'[p] = fd'[q] => p = q
      BY <1>a, <3>1, <3>4, <3>5
    <3> QED BY <3>7, <3>8, <3>9 DEF Owners
  <2>3. CASE ~CloseStatus /\ ~AcceptAssign
    <3>1. UNCHANGED <<fd, fd_table, status>>
      BY <1>5, <2>3 DEF ServerStep, WaitTake, Serve, WaitReturn, WaitAgain, AcceptFindListener, AcceptFindStream,
         Add, RecvFind, RecvDequeue, Send, Del, CloseFind
    <3> QED BY <1>d, <3>1
  <2> QED BY <2>1, <2>2, <2>3
<1> QED BY <1>1, <1>2, <1>3, <1>4, <1>5 DEF Next, PacketStep

(* When nepoll_ctl(DEL) is called no event of the connection is left.       *)
LEMMA NothingPending ==
  ASSUME TypeOK, Core, spc = "del"
  PROVE  {i \in registered : itemfd[i] = itemfd[ev]} = {ev} /\ ev \notin ready /\ ev \notin Queue
<1>1. ev \in registered \ {ListenItem} /\ conn[ev] \in Peer /\ status[conn[ev]] = "CLOSE_WAIT" /\ AtEnd(conn[ev])
  BY DEF Core, Serving, Items, Ending, AtEnd
<1>2. {i \in registered : itemfd[i] = itemfd[ev]} = {ev}
  BY <1>1 DEF Core, Items
<1>3. PICK p \in Peer : p = conn[ev]
  BY <1>1
<1>4. rcvbuf[p] = <<>>
  BY <1>1, <1>3 DEF Core, Readings, Reading
<1>5. Len(rcvbuf[p]) = 0
  BY <1>4
<1>6. Count(Ready(p)) + Count(Queued(p)) + Count(Served(p)) + Count(Posting(p)) <= 0
  BY <1>5 DEF Core, Events, Event
<1>7. /\ Count(Ready(p)) \in {0, 1} /\ Count(Queued(p)) \in {0, 1}
      /\ Count(Served(p)) \in {0, 1} /\ Count(Posting(p)) \in {0, 1}
  BY DEF Count
<1>8. Count(Ready(p)) = 0 /\ Count(Queued(p)) = 0
  BY <1>6, <1>7
<1>9. ~Ready(p) /\ ~Queued(p)
  BY <1>8 DEF Count
<1> QED BY <1>2, <1>3, <1>9 DEF Ready, Queued

-----------------------------------------------------------------------------
(* Items *)

LEMMA ItemsKept ==
  ASSUME TypeOK, Places, Core, Straight, Straight', [Next]_vars
  PROVE  Items'
<1> USE DEF streams, epoll, packet, srv, history
<1>0. TyList /\ TyFds /\ TyEpoll /\ Lists /\ Owners /\ Serving /\ Items /\ (Ending => ev \in Item /\ conn[ev] \in Peer)
  BY TypeGroups DEF Core, Serving, Items, TyEpoll, Ending, Receiving
<1>n. NoPeer \notin Peer
  BY Smalls
<1> DEFINE Regs == /\ ListenItem \in registered /\ itemfd[ListenItem] = listenfd /\ conn[ListenItem] = NoPeer
                   /\ \A i \in registered \ {ListenItem} : conn[i] \in Peer /\ Open(conn[i]) /\ itemfd[i] = fd[conn[i]]
                   /\ \A i, j \in registered : itemfd[i] = itemfd[j] => i = j
                   /\ registered \subseteq known
           Taken == ready \subseteq registered /\ Queue \subseteq registered /\ (spc = "wait" => todo = {})
<1>a. Regs /\ Taken
  BY <1>0 DEF Items
<1>b. Regs' /\ Taken' => Items'
  BY DEF Items
<1>c. ASSUME UNCHANGED <<registered, known, itemfd, conn>>,
             \A i \in registered \ {ListenItem} : Open(conn[i])' /\ fd'[conn[i]] = fd[conn[i]]
      PROVE  Regs'
  BY <1>a, <1>c
<1>d. ASSUME UNCHANGED <<registered, ready, handed, todo>>, spc' = "wait" <=> spc = "wait"
      PROVE  Taken'
  BY <1>a, <1>d DEF Queue
<1>e. ASSUME UNCHANGED <<registered, known, itemfd, conn, status, fd>> PROVE Regs'
  BY <1>a, <1>c, <1>e DEF Open
<1>f. ASSUME NEW p \in Peer, NEW s \in {"ESTABLISHED", "CLOSE_WAIT"}, status[p] \in {"SYN_RCVD", "ESTABLISHED"},
             UNCHANGED <<registered, known, itemfd, conn, fd>>, status' = [status EXCEPT ![p] = s]
      PROVE  Regs'
  <2>1. \A q \in Peer : Open(q)' <=> Open(q)
    BY <1>0, <1>f DEF Open, TyList
  <2> QED BY <1>a, <1>c, <1>f, <2>1
<1>1. CASE UNCHANGED vars
  BY <1>1, <1>b, <1>d, <1>e DEF vars
<1>2. ASSUME NEW p \in Peer, PacketArrives(p) \/ TcpOut(p) PROVE Items'
  <2>0. UNCHANGED <<registered, known, itemfd, conn, ready, handed, todo>> /\ (spc' = "wait" <=> spc = "wait")
    BY <1>2 DEF PacketArrives, TcpSyn, TcpEstablish, TcpFin, CloseWait, TcpLastAck, TcpData, TcpOut
  <2>1. CASE TcpSyn(p)
    <3>1. status[p] = "none"
      BY <1>0, <2>1 DEF TcpSyn, Lists
    <3>2. \A q \in Peer : Open(q) => Open(q)' /\ fd'[q] = fd[q]
      BY <1>0, <2>1, <3>1 DEF TcpSyn, Open, TyList, TyFds
    <3> QED BY <1>a, <1>b, <1>c, <1>d, <2>0, <3>2
  <2>2. CASE TcpLastAck(p)
    <3>2. \A q \in Peer : Open(q) => Open(q)' /\ fd'[q] = fd[q]
      BY <1>0, <2>2 DEF TcpLastAck, Open, TyList, TyFds
    <3> QED BY <1>a, <1>b, <1>c, <1>d, <2>0, <3>2
  <2>3. CASE TcpEstablish(p) \/ TcpFin(p)
    <3>1. Regs'
      BY <1>f, <2>0, <2>3 DEF TcpEstablish, TcpFin, CloseWait
    <3> QED BY <1>b, <1>d, <2>0, <3>1
  <2>4. CASE TcpOut(p) \/ \E n, fin : TcpData(p, n, fin)
    <3>1. Regs'
      BY <1>e, <2>0, <2>4 DEF TcpOut, TcpData
    <3> QED BY <1>b, <1>d, <2>0, <3>1
  <2> QED BY <1>2, <2>1, <2>2, <2>3, <2>4 DEF PacketArrives
<1>3. CASE TcpPostListener \/ TcpPostData \/ TcpPostFin
  <2>1. Regs'
    BY <1>3, <1>e DEF TcpPostListener, TcpPostData, TcpPostFin, Callback
  <2>2. UNCHANGED <<registered, handed, todo, spc>> /\ ready' \subseteq ready \cup registered
    BY <1>3 DEF TcpPostListener, TcpPostData, TcpPostFin, Callback
  <2>3. Taken'
    BY <1>a, <2>2 DEF Queue
  <2> QED BY <1>b, <2>1, <2>3
<1>4. CASE TcpDataFin
  <2>1. Regs'
    BY <1>0, <1>4, <1>f DEF TcpDataFin, CloseWait, Places, Serving
  <2>2. Taken'
    BY <1>4, <1>d DEF TcpDataFin, CloseWait
  <2> QED BY <1>b, <2>1, <2>2
<1>5. CASE ServerStep
  <2>1. CASE CloseStatus
    <3>1. cur = conn[ev] /\ cur \in Peer /\ \A i \in registered : conn[i] # cur
      BY <1>0, <2>1 DEF CloseStatus, Serving, Places
    <3>2. \A q \in Peer : q # cur => (Open(q)' <=> Open(q)) /\ fd'[q] = fd[q]
      BY <1>0, <2>1 DEF CloseStatus, Open, TyList
    <3>3. Regs'
      BY <1>a, <1>c, <2>1, <3>1, <3>2 DEF CloseStatus
    <3>4. Taken'
      BY <1>d, <2>1 DEF CloseStatus, Done, Goto
    <3> QED BY <1>b, <3>3, <3>4
  <2>2. CASE AcceptAssign
    <3>1. PICK f \in (1..MaxFd) \ fd_table : fd' = [fd EXCEPT ![cur] = f]
      BY <1>0, <2>2, StraightCalls
    <3>2. f # Unused
      BY <3>1, Smalls DEF Unused
    <3>3. fd[cur] = Unused /\ cur \in Peer /\ UNCHANGED status
      BY <1>0, <2>2 DEF AcceptAssign, Serving, Places
    <3>4. \A q \in Peer : Open(q) => Open(q)' /\ fd'[q] = fd[q]
      BY <1>0, <3>1, <3>2, <3>3 DEF Open, TyFds
    <3>5. Regs'
      BY <1>a, <1>c, <2>2, <3>4 DEF AcceptAssign
    <3>6. Taken'
      BY <1>d, <2>2 DEF AcceptAssign, Goto
    <3> QED BY <1>b, <3>5, <3>6
  <2>3. CASE Add
    <3>0. UNCHANGED <<ready, handed, todo, status, fd>> /\ spc = "add" /\ spc' = "serve"
      BY <2>3 DEF Add, Done, Goto, ES!Register
    <3>1. CASE UNCHANGED epoll
      BY <1>b, <1>d, <1>e, <3>0, <3>1
    <3>2. CASE ~UNCHANGED epoll
      <4>1. cur \in Peer /\ Open(cur)
        BY <1>0, <2>3 DEF Add, Serving
      <4>2. PICK i \in Item : /\ i \notin known /\ registered' = registered \cup {i} /\ known' = known \cup {i}
                              /\ itemfd' = [itemfd EXCEPT ![i] = fd[cur]] /\ conn' = [conn EXCEPT ![i] = cur]
                              /\ \A j \in registered : itemfd[j] # fd[cur]
        BY <1>n, <2>3, <3>2, <4>1 DEF Add, ES!Register
      <4>3. i \notin registered /\ i # ListenItem
        BY <1>a, <4>2
      <4>4. \A j \in registered : j # i /\ itemfd'[j] = itemfd[j] /\ conn'[j] = conn[j]
        BY <1>0, <4>2, <4>3 DEF TyFds, TyEpoll
      <4>5. itemfd'[i] = fd[cur] /\ conn'[i] = cur
        BY <1>0, <4>2 DEF TyFds, TyEpoll
      <4>6. \A q \in Peer : Open(q)' <=> Open(q)
        BY <3>0 DEF Open
      <4>7. \A j \in registered' \ {ListenItem} : (conn[j] \in Peer /\ Open(conn[j]) /\ itemfd[j] = fd[conn[j]])'
        <5>1. ASSUME NEW j \in registered \ {ListenItem}
              PROVE  (conn[j] \in Peer /\ Open(conn[j]) /\ itemfd[j] = fd[conn[j]])'
          <6>1. PICK q \in Peer : q = conn[j] /\ Open(q) /\ itemfd[j] = fd[q] /\ q = conn'[j]
            BY <1>a, <4>4
          <6>2. Open(q)'
            BY <4>6, <6>1
          <6> QED BY <3>0, <4>4, <6>1, <6>2
        <5>2. (conn[i] \in Peer /\ Open(conn[i]) /\ itemfd[i] = fd[conn[i]])'
          <6>1. PICK q \in Peer : q = cur /\ q = conn'[i]
            BY <4>1, <4>5
          <6>2. Open(q)'
            BY <4>1, <4>6, <6>1
          <6> QED BY <3>0, <4>5, <6>1, <6>2
        <5> QED BY <4>2, <5>1, <5>2
      <4>8. \A j, k \in registered' : itemfd'[j] = itemfd'[k] => j = k
        BY <1>a, <4>2, <4>4, <4>5
      <4>9. Regs'
        BY <1>a, <4>2, <4>3, <4>4, <4>7, <4>8
      <4>10. Taken'
        BY <1>a, <3>0, <4>2 DEF Queue
      <4> QED BY <1>b, <4>9, <4>10
    <3> QED BY <3>1, <3>2
  <2>4. CASE Del
    <3>1. {i \in registered : itemfd[i] = itemfd[ev]} = {ev} /\ ev \notin ready /\ ev \notin Queue
      BY <2>4, NothingPending DEF Del
    <3>2. registered' = registered \ {ev} /\ UNCHANGED <<known, ready, handed, itemfd, conn, status, fd, todo>>
      BY <2>4, <3>1 DEF Del, ES!Unregister
    <3>3. ev # ListenItem /\ spc = "del" /\ spc' \in {"close", "aborted"}
      BY <1>0, <2>4 DEF Del, Serving, Goto
    <3>4. Regs'
      <4>1. \A i \in registered \ {ListenItem} : Open(conn[i])'
        BY <1>a, <3>2 DEF Open
      <4> QED BY <1>a, <3>2, <3>3, <4>1
    <3>5. Taken'
      BY <1>a, <3>1, <3>2, <3>3 DEF Queue
    <3> QED BY <1>b, <3>4, <3>5
  <2>5. ASSUME NEW i \in Item, WaitTake(i) \/ Serve(i) PROVE Items'
    <3>1. Regs'
      BY <1>e, <2>5 DEF WaitTake, Serve, ES!Take
    <3>2. Taken'
      BY <1>a, <2>5 DEF WaitTake, Serve, ES!Take, Goto, Queue
    <3> QED BY <1>b, <3>1, <3>2
  <2>6. CASE WaitReturn \/ WaitAgain
    <3>1. Regs'
      BY <1>e, <2>6 DEF WaitReturn, WaitAgain, ES!Begin
    <3>2. Taken'
      BY <1>a, <2>6 DEF WaitReturn, WaitAgain, ES!Begin, Goto, Queue
    <3> QED BY <1>b, <3>1, <3>2
  <2>7. CASE AcceptFindListener \/ AcceptFindStream \/ RecvFind \/ RecvDequeue \/ Send \/ CloseFind
    <3>1. Regs'
      BY <1>e, <2>7 DEF AcceptFindListener, AcceptFindStream, RecvFind, RecvDequeue, Send, CloseFind
    <3>2. Taken'
      BY <1>d, <2>7 DEF AcceptFindListener, AcceptFindStream, RecvFind, RecvDequeue, Send, CloseFind, Goto, Done
    <3> QED BY <1>b, <3>1, <3>2
  <2> QED BY <1>5, <2>1, <2>2, <2>3, <2>4, <2>5, <2>6, <2>7 DEF ServerStep
<1> QED BY <1>1, <1>2, <1>3, <1>4, <1>5 DEF Next, PacketStep

-----------------------------------------------------------------------------
(* What the threads are at *)

(* Packets do not disturb what the server thread is at.                     *)
LEMMA ServingUndisturbed ==
  ASSUME TypeOK, Places, Core, NEW p \in Peer, PacketArrives(p) \/ TcpOut(p)
  PROVE  Serving'
<1> USE DEF streams, epoll, packet, srv, history
<1>0. /\ TyList /\ TyFds /\ TyEpoll /\ Lists /\ Owners /\ Serving /\ Items /\ ev \in Item
      /\ spc \in {"assign", "dequeue", "lastack"} => cur \in Peer
      /\ tpc \in {"data", "datafin", "fin", "finpost"} => tstream \in Peer
  BY TypeGroups DEF Core, TyEpoll, Places
<1>k. Receiving \/ spc = "send" \/ Ending => conn[ev] \in Peer
  BY <1>0 DEF Serving, Items, Ending, Receiving
<1>s. UNCHANGED <<registered, itemfd, conn, ev, cur>> /\ (spc' = spc \/ (spc = "acceptwait" /\ spc' = "apt"))
  BY DEF PacketArrives, TcpSyn, TcpEstablish, TcpFin, CloseWait, TcpLastAck, TcpData, TcpOut
<1> DEFINE Stable(q) == (Open(q) => Open(q)' /\ fd'[q] = fd[q]) /\ (status[q] = "CLOSE_WAIT" => status'[q] = "CLOSE_WAIT")
           Half(q) == status[q] # "none" /\ fd[q] = Unused => status'[q] # "none" /\ fd'[q] = Unused
           Ends == tpc \in {"datafin", "fin"} => status[tstream] = "ESTABLISHED"
<1>a. ASSUME \A q \in Peer : Stable(q), \A q \in Peer : Half(q), Ends' PROVE Serving'
  <2>1. (Receiving \/ spc \in {"send", "del"})' => (ev \in registered \ {ListenItem})'
    BY <1>0, <1>s DEF Serving, Receiving
  <2>2. (spc \in {"close", "lastack", "aborted"})' => 
           (/\ ev # ListenItem /\ conn[ev] \in Peer /\ Open(conn[ev]) /\ itemfd[ev] = fd[conn[ev]]
            /\ \A i \in registered : conn[i] # conn[ev])'
    <3>2. ASSUME (spc \in {"close", "lastack", "aborted"})'
          PROVE  (/\ ev # ListenItem /\ conn[ev] \in Peer /\ Open(conn[ev]) /\ itemfd[ev] = fd[conn[ev]]
                  /\ \A i \in registered : conn[i] # conn[ev])'
      <4>1. spc \in {"close", "lastack", "aborted"}
        BY <1>s, <3>2
      <4>2. PICK q \in Peer : q = conn[ev] /\ Open(q) /\ itemfd[ev] = fd[q]
        BY <1>0, <4>1 DEF Serving
      <4>3. Open(q)' /\ fd'[q] = fd[q]
        BY <1>a, <4>2
      <4>4. Open(conn[ev])'
        BY <1>s, <4>2, <4>3
      <4> QED BY <1>0, <1>s, <4>1, <4>2, <4>3, <4>4 DEF Serving
    <3> QED BY <3>2
  <2>3. Ending' => (status[conn[ev]] = "CLOSE_WAIT")'
    BY <1>0, <1>a, <1>k, <1>s DEF Serving, Ending
  <2>4. (spc \in {"dequeue", "send", "lastack"})' => (cur = conn[ev])'
    BY <1>0, <1>s DEF Serving
  <2>5. (spc = "assign")' => (status[cur] # "none" /\ fd[cur] = Unused)'
    BY <1>0, <1>a, <1>s DEF Serving
  <2>6. (spc = "add")' => (cur \in Peer /\ Open(cur))'
    <3>1. ASSUME (spc = "add")' PROVE cur' \in Peer /\ Open(cur)'
      <4>1. PICK q \in Peer : q = cur /\ Open(q)
        BY <1>0, <1>s, <3>1 DEF Serving
      <4>2. Open(q)'
        BY <1>a, <4>1
      <4> QED BY <1>s, <4>1, <4>2
    <3> QED BY <3>1
  <2> QED BY <1>a, <2>1, <2>2, <2>3, <2>4, <2>5, <2>6 DEF Serving
<1>1. CASE TcpSyn(p)
  <2>1. status[p] = "none" /\ tpc = "idle" /\ UNCHANGED tpc
    BY <1>0, <1>1 DEF TcpSyn, Arrives, Lists
  <2>2. \A q \in Peer : Stable(q) /\ Half(q)
    BY <1>0, <1>1, <2>1 DEF TcpSyn, Open, TyList, TyFds
  <2> QED BY <1>a, <2>1, <2>2
<1>2. CASE TcpLastAck(p)
  <2>1. status[p] = "LAST_ACK" /\ fd[p] # Unused /\ tpc = "idle" /\ UNCHANGED tpc
    BY <1>0, <1>2 DEF TcpLastAck, Arrives, Owners
  <2>2. \A q \in Peer : Stable(q) /\ Half(q)
    BY <1>0, <1>2, <2>1 DEF TcpLastAck, Open, TyList, TyFds
  <2> QED BY <1>a, <2>1, <2>2
<1>3. CASE TcpEstablish(p)
  <2>2. \A q \in Peer : Stable(q) /\ Half(q)
    BY <1>0, <1>3 DEF TcpEstablish, Open, TyList, TyFds
  <2> QED BY <1>3, <1>a, <2>2 DEF TcpEstablish
<1>4. CASE TcpFin(p)
  <2>2. \A q \in Peer : Stable(q) /\ Half(q)
    BY <1>0, <1>4 DEF TcpFin, CloseWait, Open, TyList, TyFds
  <2> QED BY <1>4, <1>a, <2>2 DEF TcpFin, CloseWait
<1>5. CASE TcpOut(p) \/ \E n, fin : TcpData(p, n, fin)
  <2>1. UNCHANGED <<status, fd>>
    BY <1>5 DEF TcpOut, TcpData
  <2>2. \A q \in Peer : Stable(q) /\ Half(q)
    BY <2>1 DEF Open
  <2>3. Ends'
    BY <1>0, <1>5 DEF TcpOut, TcpData, Serving
  <2> QED BY <1>a, <2>2, <2>3
<1> QED BY <1>1, <1>2, <1>3, <1>4, <1>5 DEF PacketArrives

LEMMA ServingKept ==
  ASSUME TypeOK, Places, Core, Straight, Straight', [Next]_vars
  PROVE  Serving'
<1> USE DEF streams, epoll, packet, srv, history
<1>0. /\ TyList /\ TyFds /\ TyEpoll /\ Lists /\ Owners /\ Serving /\ Items /\ ev \in Item
      /\ spc \in {"assign", "dequeue", "lastack"} => cur \in Peer
      /\ tpc \in {"data", "datafin", "fin", "finpost"} => tstream \in Peer
  BY TypeGroups DEF Core, TyEpoll, Places
<1>k. Receiving \/ spc = "send" \/ Ending => conn[ev] \in Peer
  BY <1>0 DEF Serving, Items, Ending, Receiving
<1> DEFINE Ends == tpc \in {"datafin", "fin"} => status[tstream] = "ESTABLISHED"
<1>e. Ends
  BY <1>0 DEF Serving
<1>1. CASE UNCHANGED vars
  BY <1>0, <1>1 DEF vars, Serving, Receiving, Ending, Open
<1>2. ASSUME NEW p \in Peer, PacketArrives(p) \/ TcpOut(p) PROVE Serving'
  BY <1>2, ServingUndisturbed
<1>3. CASE TcpPostListener \/ TcpPostData \/ TcpPostFin
  <2>1. UNCHANGED <<status, fd, spc, ev, cur, registered, itemfd, conn>>
    BY <1>3 DEF TcpPostListener, TcpPostData, TcpPostFin, Callback
  <2>2. Ends'
    BY <1>3, <1>e, <2>1 DEF TcpPostListener, TcpPostData, TcpPostFin
  <2> QED BY <1>0, <2>1, <2>2 DEF Serving, Receiving, Ending, Open
<1>4. CASE TcpDataFin
  <2>1. UNCHANGED <<fd, spc, ev, cur, registered, itemfd, conn>> /\ tpc' = "finpost"
    BY <1>4 DEF TcpDataFin, CloseWait
  <2>2. \A q \in Peer : /\ Open(q) => Open(q)'
                        /\ status[q] = "CLOSE_WAIT" => status'[q] = "CLOSE_WAIT"
                        /\ status[q] # "none" => status'[q] # "none"
    BY <1>0, <1>4, <1>e DEF TcpDataFin, CloseWait, Open, TyList
  <2>3. spc \in {"close", "lastack", "aborted"} => Open(conn[ev])'
    <3>1. ASSUME spc \in {"close", "lastack", "aborted"} PROVE Open(conn[ev])'
      <4>1. PICK q \in Peer : q = conn[ev] /\ Open(q)
        BY <1>0, <3>1 DEF Serving
      <4>2. Open(q)'
        BY <2>2, <4>1
      <4> QED BY <2>1, <4>1, <4>2
    <3> QED BY <3>1
  <2>4. spc = "add" => cur \in Peer /\ Open(cur)'
    <3>1. ASSUME spc = "add" PROVE cur \in Peer /\ Open(cur)'
      <4>1. PICK q \in Peer : q = cur /\ Open(q)
        BY <1>0, <3>1 DEF Serving
      <4>2. Open(q)'
        BY <2>2, <4>1
      <4> QED BY <2>1, <4>1, <4>2
    <3> QED BY <3>1
  <2> QED BY <1>0, <1>k, <2>1, <2>2, <2>3, <2>4 DEF Serving, Receiving, Ending
<1>5. CASE ServerStep
  <2>0. UNCHANGED <<tpc, tstream>> /\ (~CloseStatus => UNCHANGED status)
    BY <1>5 DEF ServerStep, WaitTake, Serve, WaitReturn, WaitAgain, AcceptFindListener, AcceptFindStream,
       AcceptAssign, Add, RecvFind, RecvDequeue, Send, Del, CloseFind, CloseStatus
  <2>1. CASE CloseStatus
    <3>1. cur \in Peer /\ status[cur] = "CLOSE_WAIT" /\ spc' = "serve"
      BY <1>0, <2>1 DEF CloseStatus, Serving, Ending, Done, Goto
    <3>2. Ends'
      BY <1>0, <1>e, <2>0, <2>1, <3>1 DEF CloseStatus, TyList
    <3> QED BY <3>1, <3>2 DEF Serving, Receiving, Ending
  <2>e. CASE ~CloseStatus
    <3>0. Ends' /\ UNCHANGED status
      BY <1>e, <2>0, <2>e
    <3>1. ASSUME NEW i \in Item, WaitTake(i) PROVE Serving'
      <4>1. spc' = "wait"
        BY <3>1 DEF WaitTake
      <4> QED BY <3>0, <4>1 DEF Serving, Receiving, Ending
    <3>2. CASE WaitReturn \/ WaitAgain \/ AcceptFindListener \/ Add \/ Send
      <4>1. spc' \in {"wait", "serve", "apt"}
        BY <1>0, <3>2, StraightCalls DEF WaitReturn, WaitAgain, Add, Send, Goto, Done
      <4> QED BY <3>0, <4>1 DEF Serving, Receiving, Ending
    <3>3. ASSUME NEW i \in Item, Serve(i) PROVE Serving'
      <4>1. i \in registered
        BY <1>0, <3>3 DEF Serve, Items, Queue
      <4>2. spc' = "listener" \/ (spc' = "recv" /\ i # ListenItem)
        BY <1>0, <3>3 DEF Serve, Goto, Items
      <4>3. ev' = i /\ UNCHANGED registered
        BY <3>3 DEF Serve
      <4> QED BY <3>0, <4>1, <4>2, <4>3 DEF Serving, Receiving, Ending
    <3>4. CASE AcceptFindStream
      <4>1. cur' = get_accept_tcb /\ spc' = (IF cur' = NoPeer THEN "acceptwait" ELSE "assign")
        BY <1>0, <3>4, StraightCalls
      <4>2. {p \in Peer : fd[p] = Unused} \in SUBSET Peer
        OBVIOUS
      <4>3. cur' # NoPeer => cur' \in Peer /\ fd[cur'] = Unused /\ status[cur'] # "none"
        BY <1>0, <4>1, <4>2, FirstFinds DEF get_accept_tcb, TyList, Lists
      <4>4. UNCHANGED fd
        BY <3>4 DEF AcceptFindStream
      <4> QED BY <3>0, <4>1, <4>3, <4>4 DEF Serving, Receiving, Ending
    <3>5. CASE AcceptAssign
      <4>1. PICK f \in (1..MaxFd) \ fd_table : fd' = [fd EXCEPT ![cur] = f]
        BY <1>0, <3>5, StraightCalls
      <4>2. f # Unused /\ spc' = "add" /\ UNCHANGED cur
        BY <3>5, <4>1, Smalls DEF AcceptAssign, Goto, Unused
      <4>3. cur \in Peer /\ status[cur] \in {"SYN_RCVD", "ESTABLISHED", "CLOSE_WAIT"}
        BY <1>0, <3>5 DEF AcceptAssign, Serving, Owners, TyList
      <4>4. Open(cur)'
        BY <1>0, <3>0, <4>1, <4>2, <4>3 DEF Open, TyFds
      <4> QED BY <3>0, <4>2, <4>3, <4>4 DEF Serving, Receiving, Ending
    <3>6. CASE RecvFind
      <4>1. cur' = conn[ev] /\ spc' = "dequeue" /\ spc = "recv" /\ UNCHANGED <<registered, conn, ev>>
        BY <1>0, <3>6, StraightCalls DEF RecvFind
      <4> QED BY <1>0, <3>0, <4>1 DEF Serving, Receiving, Ending
    <3>7. CASE RecvDequeue
      <4>1. /\ buff' = Head(rcvbuf[cur]) /\ spc' = (IF buff' = <<>> THEN "del" ELSE "send") /\ rcvbuf[cur] # <<>>
            /\ spc = "dequeue" /\ UNCHANGED <<registered, conn, ev, cur>>
        BY <1>0, <3>7, StraightCalls DEF RecvDequeue
      <4>2. cur \in Peer /\ cur = conn[ev] /\ ev \in registered \ {ListenItem}
        BY <1>0, <4>1 DEF Serving, Receiving
      <4>3. buff' = <<>> => status[cur] = "CLOSE_WAIT"
        <5>1. PICK q \in Seq(Seq(Nat)) : q = rcvbuf[cur] /\ q # <<>>
          BY <4>1, <4>2, TypeGroups DEF TyRings
        <5>2. Head(q) = q[1] /\ 1 \in 1..Len(q)
          BY <5>1, HeadTailProperties, EmptySeq, LenProperties
        <5>3. Reading(cur)
          BY <4>2 DEF Core, Readings
        <5> QED BY <1>0, <4>1, <4>2, <5>1, <5>2, <5>3 DEF Reading, TyList
      <4> QED BY <3>0, <4>1, <4>2, <4>3 DEF Serving, Receiving, Ending
    <3>8. CASE Del
      <4>1. {i \in registered : itemfd[i] = itemfd[ev]} = {ev}
        BY <3>8, NothingPending DEF Del
      <4>2. /\ registered' = registered \ {ev} /\ UNCHANGED <<itemfd, conn, fd, ev>>
            /\ spc = "del" /\ spc' \in {"close", "aborted"}
        BY <3>8, <4>1 DEF Del, ES!Unregister, Goto
      <4>3. ev \in registered \ {ListenItem}
        BY <1>0, <4>2 DEF Serving
      <4>4. PICK q \in Peer : q = conn[ev] /\ Open(q) /\ itemfd[ev] = fd[q]
        BY <1>0, <4>3 DEF Items
      <4>5. \A i \in registered' : conn[i] # conn[ev]
        <5>1. \A i \in registered : conn[i] = conn[ev] => i # ListenItem /\ itemfd[i] = itemfd[ev]
          BY <1>0, <4>4, Smalls DEF Items
        <5> QED BY <1>0, <4>2, <4>3, <5>1 DEF Items
      <4>6. status[conn[ev]] = "CLOSE_WAIT"
        BY <1>0, <4>2 DEF Serving, Ending
      <4>7. Open(conn[ev])'
        BY <3>0, <4>2, <4>4 DEF Open
      <4> QED BY <3>0, <4>2, <4>3, <4>4, <4>5, <4>6, <4>7 DEF Serving, Receiving, Ending
    <3>9. CASE CloseFind
      <4>1. /\ spc' = "lastack" /\ cur' = conn[ev] /\ ev' = ev /\ spc = "close"
            /\ UNCHANGED <<registered, itemfd, conn, fd>>
        BY <1>0, <3>9, StraightCalls DEF CloseFind
      <4>2. PICK q \in Peer : q = conn[ev] /\ Open(q) /\ itemfd[ev] = fd[q]
        BY <1>0, <4>1 DEF Serving
      <4>3. Open(conn[ev])'
        BY <3>0, <4>1, <4>2 DEF Open
      <4> QED BY <1>0, <3>0, <4>1, <4>2, <4>3 DEF Serving, Receiving, Ending
    <3> QED BY <1>5, <2>e, <3>1, <3>2, <3>3, <3>4, <3>5, <3>6, <3>7, <3>8, <3>9 DEF ServerStep
  <2> QED BY <2>1, <2>e
<1> QED BY <1>1, <1>2, <1>3, <1>4, <1>5 DEF Next, PacketStep

-----------------------------------------------------------------------------
(* Receive rings *)

LEMMA ReadingsKept ==
  ASSUME TypeOK, Places, Core, Straight, Straight', [Next]_vars
  PROVE  Readings'
<1> USE DEF streams, epoll, packet, srv, history
<1>1. TyList /\ TyRings
  BY TypeGroups
<1>0. Lists /\ Serving /\ Items /\ Readings /\ (spc \in {"dequeue", "lastack"} => cur \in Peer)
  BY DEF Core, Places
<1>2. ASSUME NEW p \in Peer, status'[p] = status[p], rcvbuf'[p] = rcvbuf[p], AtEnd(p)' <=> AtEnd(p) PROVE Reading(p)'
  BY <1>0, <1>2, Zenon DEF Readings, Reading
<1>3. ASSUME UNCHANGED <<status, rcvbuf>>, \A p \in Peer : AtEnd(p)' <=> AtEnd(p) PROVE Readings'
  BY <1>2, <1>3 DEF Readings
<1>4. CASE UNCHANGED vars
  BY <1>3, <1>4 DEF vars, AtEnd, Ending
<1>5. ASSUME NEW p \in Peer, TcpOut(p) PROVE Readings'
  BY <1>3, <1>5 DEF TcpOut, AtEnd, Ending
<1>6. CASE TcpPostListener \/ TcpPostData \/ TcpPostFin
  BY <1>3, <1>6 DEF TcpPostListener, TcpPostData, TcpPostFin, Callback, AtEnd, Ending
<1>7. ASSUME NEW i \in Item, WaitTake(i) \/ Serve(i) PROVE Readings'
  <2>1. UNCHANGED <<status, rcvbuf>> /\ ~Ending /\ ~Ending'
    BY <1>7 DEF WaitTake, Serve, Goto, Ending
  <2> QED BY <1>3, <2>1 DEF AtEnd
<1>8. CASE WaitReturn \/ WaitAgain \/ AcceptFindListener \/ AcceptFindStream \/ AcceptAssign \/ Add \/ RecvFind \/ Send
  <2>1. UNCHANGED <<status, rcvbuf>> /\ ~Ending
    BY <1>8 DEF WaitReturn, WaitAgain, AcceptFindListener, AcceptFindStream, AcceptAssign, Add, RecvFind, Send, Ending
  <2>2. ~Ending'
    BY <1>0, <1>8, StraightCalls DEF WaitReturn, WaitAgain, AcceptFindListener, AcceptAssign, Add, Send,
       Goto, Done, Ending
  <2> QED BY <1>3, <2>1, <2>2 DEF AtEnd
<1>9. CASE Del \/ CloseFind
  <2>1. UNCHANGED <<status, rcvbuf, ev, conn>> /\ Ending /\ Ending'
    BY <1>0, <1>9, StraightCalls DEF Del, CloseFind, Goto, Ending
  <2> QED BY <1>3, <2>1 DEF AtEnd
<1>11. CASE CloseStatus
  <2>1. /\ status' = [status EXCEPT ![cur] = "LAST_ACK"] /\ status[cur] = "CLOSE_WAIT" /\ cur \in Peer
        /\ AtEnd(cur) /\ ~Ending' /\ rcvbuf' = rcvbuf /\ conn[ev] = cur
    BY <1>0, <1>11 DEF CloseStatus, Serving, AtEnd, Ending, Done, Goto
  <2>2. Reading(cur)
    BY <1>0, <2>1 DEF Readings
  <2>3. rcvbuf[cur] = <<>>
    BY <2>1, <2>2 DEF Reading
  <2>4. ASSUME NEW p \in Peer PROVE Reading(p)'
    <3>1. CASE p = cur
      <4>1. status'[p] = "LAST_ACK"
        BY <1>1, <2>1, <3>1 DEF TyList
      <4> QED BY <2>1, <2>3, <3>1, <4>1 DEF Reading
    <3>2. CASE p # cur
      <4>1. status'[p] = status[p] /\ ~AtEnd(p) /\ ~AtEnd(p)'
        BY <1>1, <2>1, <3>2 DEF TyList, AtEnd
      <4> QED BY <1>2, <2>1, <4>1
    <3> QED BY <3>1, <3>2
  <2> QED BY <2>4 DEF Readings
<1>12. ASSUME NEW p \in Peer, TcpSyn(p) \/ TcpEstablish(p) PROVE Readings'
  <2>1. /\ status[p] \in {"none", "SYN_RCVD"} /\ status'[p] \in {"SYN_RCVD", "ESTABLISHED"}
        /\ \A q \in Peer \ {p} : status'[q] = status[q]
        /\ UNCHANGED <<ev, conn>> /\ (Ending' <=> Ending)
    BY <1>0, <1>1, <1>12 DEF TcpSyn, TcpEstablish, TyList, Lists, Ending
  <2>2. rcvbuf[p] = <<>>
    BY <1>0, <2>1 DEF Readings, Reading
  <2>6. rcvbuf'[p] = <<>> /\ \A q \in Peer \ {p} : rcvbuf'[q] = rcvbuf[q]
    BY <1>1, <1>12, <2>2 DEF TcpSyn, TcpEstablish, TyRings
  <2>3. rcvbuf'[p] = <<>> /\ \A k \in 1..Len(rcvbuf'[p]) : rcvbuf'[p][k] # <<>>
    BY <2>6
  <2>4. Reading(p)'
    BY <2>1, <2>3 DEF Reading
  <2>5. ASSUME NEW q \in Peer \ {p} PROVE Reading(q)'
    BY <1>2, <2>1, <2>6 DEF AtEnd
  <2> QED BY <2>4, <2>5 DEF Readings
<1>13. ASSUME NEW p \in Peer, NEW n \in 1..MSS, NEW fin \in BOOLEAN, TcpData(p, n, fin) PROVE Readings'
  <2> DEFINE z == [k \in 1..n |-> rcvd[p] + k]
  <2>1. /\ status[p] = "ESTABLISHED" /\ rcvbuf' = [rcvbuf EXCEPT ![p] = Append(@, z)] /\ UNCHANGED <<status, spc, ev, conn>>
    BY <1>13 DEF TcpData, Enqueue, epoll, srv
  <2>2. z \in Seq(Nat) /\ z # <<>>
    <3>1. rcvd[p] \in Nat /\ n \in Nat /\ 1 \in 1..n
      BY <1>1, Smalls DEF TyList
    <3> QED BY <3>1
  <2>3. rcvbuf[p] \in Seq(Seq(Nat)) /\ \A k \in 1..Len(rcvbuf[p]) : rcvbuf[p][k] # <<>>
    BY <1>0, <1>1, <2>1 DEF TyRings, Readings, Reading
  <2> HIDE DEF z
  <2>4. \A k \in 1..Len(Append(rcvbuf[p], z)) : Append(rcvbuf[p], z)[k] # <<>>
    <3>1. PICK l \in Nat : l = Len(rcvbuf[p])
      BY <2>3, LenProperties
    <3>2. /\ Len(Append(rcvbuf[p], z)) = l + 1 /\ Append(rcvbuf[p], z)[l + 1] = z
          /\ \A k \in 1..l : Append(rcvbuf[p], z)[k] = rcvbuf[p][k]
      BY <2>2, <2>3, <3>1, AppendProperties
    <3> QED BY <2>2, <2>3, <3>1, <3>2
  <2>5. rcvbuf'[p] = Append(rcvbuf[p], z) /\ \A q \in Peer \ {p} : rcvbuf'[q] = rcvbuf[q]
    BY <1>1, <2>1 DEF TyRings
  <2>6. Reading(p)'
    BY <2>1, <2>4, <2>5 DEF Reading
  <2>7. ASSUME NEW q \in Peer \ {p} PROVE Reading(q)'
    BY <1>2, <2>1, <2>5 DEF AtEnd, Ending
  <2> QED BY <2>6, <2>7 DEF Readings
<1>14. ASSUME NEW p \in Peer, status[p] = "ESTABLISHED", CloseWait(p), UNCHANGED <<spc, ev, conn>> PROVE Readings'
  <2>1. rcvbuf' = [rcvbuf EXCEPT ![p] = Append(@, <<>>)] /\ status' = [status EXCEPT ![p] = "CLOSE_WAIT"]
    BY <1>14 DEF CloseWait, Enqueue
  <2>2. rcvbuf[p] \in Seq(Seq(Nat)) /\ \A k \in 1..Len(rcvbuf[p]) : rcvbuf[p][k] # <<>>
    BY <1>0, <1>1, <1>14 DEF TyRings, Readings, Reading
  <2>3. PICK l \in Nat : l = Len(rcvbuf[p])
    BY <2>2, LenProperties
  <2>4. PICK q : q = Append(rcvbuf[p], <<>>)
    OBVIOUS
  <2>5. /\ Len(q) = l + 1 /\ q[l + 1] = <<>> /\ q # <<>>
        /\ \A k \in 1..l : q[k] = rcvbuf[p][k]
    <3>1. <<>> \in Seq(Nat) /\ Len(rcvbuf[p]) \in Nat
      BY <2>2, EmptySeq, LenProperties
    <3>2. /\ q \in Seq(Seq(Nat)) /\ Len(q) = l + 1 /\ q[l + 1] = <<>>
          /\ \A k \in 1..l : q[k] = rcvbuf[p][k]
      BY <2>2, <2>3, <2>4, <3>1, AppendProperties
    <3>3. q # <<>>
      BY <2>3, <3>2, EmptySeq
    <3> QED BY <3>2, <3>3
  <2>6. \A k \in 1..l + 1 : q[k] = <<>> <=> k = l + 1
    BY <2>2, <2>3, <2>5
  <2>7. /\ rcvbuf'[p] = q /\ status'[p] = "CLOSE_WAIT"
        /\ \A r \in Peer \ {p} : rcvbuf'[r] = rcvbuf[r] /\ status'[r] = status[r]
    BY <1>1, <2>1, <2>4 DEF TyRings, TyList
  <2>8. ~AtEnd(p)'
    BY <1>0, <1>14 DEF Serving, AtEnd, Ending
  <2>9. Reading(p)'
    BY <2>5, <2>6, <2>7, <2>8 DEF Reading
  <2>10. ASSUME NEW r \in Peer \ {p} PROVE Reading(r)'
    BY <1>2, <1>14, <2>7 DEF AtEnd, Ending
  <2> QED BY <2>9, <2>10 DEF Readings
<1>15. CASE TcpDataFin
  BY <1>0, <1>14, <1>15 DEF TcpDataFin, CloseWait, Serving, Places
<1>16. ASSUME NEW p \in Peer, TcpFin(p) PROVE Readings'
  BY <1>14, <1>16 DEF TcpFin, CloseWait
<1>17. ASSUME NEW p \in Peer, TcpLastAck(p) PROVE Readings'
  <2>1. UNCHANGED <<spc, ev, conn>> /\ \A q \in Peer \ {p} : status'[q] = status[q] /\ rcvbuf'[q] = rcvbuf[q]
    BY <1>1, <1>17 DEF TcpLastAck, TyList, TyRings
  <2>2. status'[p] = "none" /\ rcvbuf'[p] = <<>>
    BY <1>1, <1>17 DEF TcpLastAck, TyList, TyRings
  <2>3. Reading(p)'
    BY <2>2 DEF Reading
  <2>4. \A q \in Peer \ {p} : Reading(q)'
    BY <1>2, <2>1 DEF AtEnd, Ending
  <2> QED BY <2>3, <2>4 DEF Readings
<1>18. CASE RecvDequeue
  <2>0. PICK p \in Peer : p = cur /\ p = conn[ev]
    BY <1>0, <1>18 DEF RecvDequeue, Serving
  <2>1. /\ rcvbuf' = [rcvbuf EXCEPT ![p] = Tail(@)] /\ rcvbuf[p] # <<>>
        /\ spc' = IF Head(rcvbuf[p]) = <<>> THEN "del" ELSE "send"
    BY <1>0, <1>18, <2>0, StraightCalls DEF RecvDequeue
  <2>2. spc = "dequeue" /\ UNCHANGED <<status, ev, conn>> /\ p = conn[ev]
    BY <1>18, <2>0 DEF RecvDequeue
  <2>4. CASE rcvbuf[p] # <<>>
    <3>1. PICK q \in Seq(Seq(Nat)) : q = rcvbuf[p]
      BY <1>1 DEF TyRings
    <3>2. PICK l \in Nat : l = Len(q) /\ l > 0
      BY <2>4, <3>1, LenProperties, EmptySeq
    <3>3. PICK t : t = Tail(q)
      OBVIOUS
    <3>4. Head(q) = q[1] /\ t \in Seq(Seq(Nat)) /\ Len(t) = l - 1 /\ \A k \in 1..l - 1 : t[k] = q[k + 1]
      BY <2>4, <3>1, <3>2, <3>3, HeadTailProperties
    <3>5. /\ rcvbuf'[p] = t /\ \A r \in Peer \ {p} : rcvbuf'[r] = rcvbuf[r]
          /\ spc' = IF q[1] = <<>> THEN "del" ELSE "send"
      BY <1>1, <2>1, <2>4, <3>1, <3>3, <3>4 DEF TyRings
    <3>6. Reading(p) /\ ~AtEnd(p)
      BY <1>0, <2>2 DEF Readings, AtEnd, Ending
    <3>7. status[p] \in {"ESTABLISHED", "CLOSE_WAIT"}
      BY <1>1, <2>4, <3>6 DEF Reading, TyList
    <3>8. CASE status[p] = "ESTABLISHED"
      <4>1. \A k \in 1..l : q[k] # <<>>
        BY <3>1, <3>2, <3>6, <3>8 DEF Reading
      <4>2. \A k \in 1..l - 1 : t[k] # <<>>
        <5>1. ASSUME NEW k \in 1..l - 1 PROVE t[k] # <<>>
          <6>1. k + 1 \in 1..l
            BY <3>2
          <6> QED BY <3>4, <4>1, <6>1
        <5> QED BY <5>1
      <4>3. Reading(p)'
        BY <2>2, <3>4, <3>5, <3>8, <4>2 DEF Reading
      <4>4. spc' = "send"
        BY <3>2, <3>5, <4>1
      <4>5. \A r \in Peer \ {p} : Reading(r)'
        BY <1>2, <2>2, <3>5, <4>4 DEF AtEnd, Ending
      <4> QED BY <4>3, <4>5 DEF Readings
    <3>9. CASE status[p] = "CLOSE_WAIT"
      <4>1. \A k \in 1..l : q[k] = <<>> <=> k = l
        BY <3>1, <3>2, <3>6, <3>9 DEF Reading
      <4>2. q[1] = <<>> <=> l = 1
        <5>1. 1 \in 1..l
          BY <3>2
        <5>2. q[1] = <<>> <=> 1 = l
          BY <4>1, <5>1
        <5> QED BY <5>2
      <4>3. \A k \in 1..l - 1 : t[k] = <<>> <=> k = l - 1
        <5>1. ASSUME NEW k \in 1..l - 1 PROVE t[k] = <<>> <=> k = l - 1
          <6>1. k + 1 \in 1..l /\ (k + 1 = l <=> k = l - 1)
            BY <3>2
          <6>2. t[k] = q[k + 1] /\ (q[k + 1] = <<>> <=> k + 1 = l)
            BY <3>4, <4>1, <6>1
          <6> QED BY <6>1, <6>2
        <5> QED BY <5>1
      <4>4. l = 1 => t = <<>>
        BY <3>4, EmptySeq
      <4>5. l # 1 => t # <<>>
        BY <3>2, <3>4, EmptySeq
      <4>6. AtEnd(p)' <=> l = 1
        BY <2>1, <2>2, <3>5, <4>2 DEF AtEnd, Ending
      <4>7. Reading(p)'
        BY <2>2, <3>4, <3>5, <3>9, <4>3, <4>4, <4>5, <4>6 DEF Reading
      <4>8. \A r \in Peer \ {p} : Reading(r)'
        BY <1>2, <2>1, <2>2, <3>5 DEF AtEnd, Ending
      <4> QED BY <4>7, <4>8 DEF Readings
    <3> QED BY <3>7, <3>8, <3>9
  <2> QED BY <2>1, <2>4
<1> QED BY <1>4, <1>5, <1>6, <1>7, <1>8, <1>9, <1>11, <1>12, <1>13, <1>15, <1>16, <1>17, <1>18
        DEF Next, PacketArrives, PacketStep, ServerStep

-----------------------------------------------------------------------------
(* Events and fragments *)

(* No two items are of one connection. *)
LEMMA OneItem ==
  ASSUME TypeOK, Items
  PROVE  /\ \A i, j \in registered, p \in Peer : conn[i] = p /\ conn[j] = p => i = j
         /\ ready \subseteq registered /\ Queue \subseteq registered
<1>1. \A i \in registered, p \in Peer : conn[i] = p => i # ListenItem /\ itemfd[i] = fd[p]
  BY Smalls DEF Items
<1> QED BY <1>1 DEF Items

(* A fragment less, or more, and what may become of the events.             *)
LEMMA EventCount ==
  ASSUME TypeOK, TypeOK', NEW p \in Peer, Event(p)
  PROVE  /\ (Len(rcvbuf'[p]) >= Len(rcvbuf[p]) /\ (Ready(p)' => Ready(p)) /\ (Queued(p)' => Queued(p))
             /\ (Served(p)' => Served(p)) /\ (Posting(p)' => Posting(p))) => Event(p)'
         /\ (Len(rcvbuf'[p]) = Len(rcvbuf[p]) + 1 /\ (Ready(p)' => Ready(p)) /\ (Queued(p)' => Queued(p))
             /\ (Served(p)' => Served(p)) /\ ~Posting(p)) => Event(p)'
         /\ (rcvbuf'[p] = rcvbuf[p] /\ (Queued(p)' => Queued(p)) /\ (Served(p)' => Served(p))
             /\ Posting(p) /\ ~Posting(p)') => Event(p)'
         /\ (rcvbuf'[p] = rcvbuf[p] /\ (Served(p)' => Served(p)) /\ (Posting(p)' => Posting(p))
             /\ Ready(p) /\ ~Ready(p)' /\ ~Queued(p)) => Event(p)'
         /\ (rcvbuf'[p] = rcvbuf[p] /\ (Ready(p)' => Ready(p)) /\ (Posting(p)' => Posting(p))
             /\ Queued(p) /\ ~Queued(p)' /\ ~Served(p)) => Event(p)'
         /\ (Len(rcvbuf'[p]) = Len(rcvbuf[p]) - 1 /\ (Ready(p)' => Ready(p)) /\ (Queued(p)' => Queued(p))
             /\ Served(p) /\ ~Served(p)' /\ (Posting(p)' => Posting(p))) => Event(p)'
<1>1. rcvbuf[p] \in Seq(Seq(Nat)) /\ rcvbuf'[p] \in Seq(Seq(Nat))
  BY TypeGroups DEF TypeOK
<1>2. PICK n \in Nat, m \in Nat : n = Len(rcvbuf[p]) /\ m = Len(rcvbuf'[p])
  BY <1>1, LenProperties
<1>3. /\ Event(p) <=> Count(Ready(p)) + Count(Queued(p)) + Count(Served(p)) + Count(Posting(p)) <= n
      /\ Event(p)' <=> Count(Ready(p)') + Count(Queued(p)') + Count(Served(p)') + Count(Posting(p)') <= m
  BY <1>2 DEF Event, Count
<1>4. rcvbuf'[p] = rcvbuf[p] => m = n
  BY <1>2
<1>5. PICK a \in Nat, b \in Nat, c \in Nat, d \in Nat :
        /\ a = Count(Ready(p)) /\ b = Count(Queued(p)) /\ c = Count(Served(p)) /\ d = Count(Posting(p))
  BY DEF Count
<1>6. PICK e \in Nat, f \in Nat, g \in Nat, h \in Nat :
        /\ e = Count(Ready(p)') /\ f = Count(Queued(p)') /\ g = Count(Served(p)') /\ h = Count(Posting(p)')
  BY DEF Count
<1>7. a + b + c + d <= n /\ (Event(p)' <=> e + f + g + h <= m)
  BY <1>3, <1>5, <1>6
<1>8. /\ (Ready(p)' => Ready(p)) => e <= a
      /\ (Queued(p)' => Queued(p)) => f <= b
      /\ (Served(p)' => Served(p)) => g <= c
      /\ (Posting(p)' => Posting(p)) => h <= d
  BY <1>5, <1>6 DEF Count
<1>9. /\ (Ready(p) => a = 1) /\ (~Ready(p)' => e = 0) /\ e <= 1
      /\ (Queued(p) => b = 1) /\ (~Queued(p) => b = 0) /\ (~Queued(p)' => f = 0) /\ f <= 1
      /\ (Served(p) => c = 1) /\ (~Served(p) => c = 0) /\ (~Served(p)' => g = 0) /\ g <= 1
      /\ (Posting(p) => d = 1) /\ (~Posting(p) => d = 0) /\ (~Posting(p)' => h = 0) /\ h <= 1
  BY <1>5, <1>6 DEF Count
<1>10. m >= n /\ (Ready(p)' => Ready(p)) /\ (Queued(p)' => Queued(p)) /\ (Served(p)' => Served(p))
         /\ (Posting(p)' => Posting(p)) => Event(p)'
  BY <1>7, <1>8
<1>11. m = n + 1 /\ (Ready(p)' => Ready(p)) /\ (Queued(p)' => Queued(p)) /\ (Served(p)' => Served(p))
         /\ ~Posting(p) => Event(p)'
  BY <1>7, <1>8, <1>9
<1>12. m = n /\ (Queued(p)' => Queued(p)) /\ (Served(p)' => Served(p)) /\ Posting(p) /\ ~Posting(p)' => Event(p)'
  BY <1>7, <1>8, <1>9
<1>13. m = n /\ (Served(p)' => Served(p)) /\ (Posting(p)' => Posting(p)) /\ Ready(p) /\ ~Ready(p)' /\ ~Queued(p)
         => Event(p)'
  BY <1>7, <1>8, <1>9
<1>14. m = n /\ (Ready(p)' => Ready(p)) /\ (Posting(p)' => Posting(p)) /\ Queued(p) /\ ~Queued(p)' /\ ~Served(p)
         => Event(p)'
  BY <1>7, <1>8, <1>9
<1>15. m = n - 1 /\ (Ready(p)' => Ready(p)) /\ (Queued(p)' => Queued(p)) /\ Served(p) /\ ~Served(p)'
         /\ (Posting(p)' => Posting(p)) => Event(p)'
  BY <1>7, <1>8, <1>9
<1>20. ASSUME /\ Len(rcvbuf'[p]) >= Len(rcvbuf[p]) /\ (Ready(p)' => Ready(p)) /\ (Queued(p)' => Queued(p))
              /\ (Served(p)' => Served(p)) /\ (Posting(p)' => Posting(p))
       PROVE  Event(p)'
  BY <1>20, <1>2, <1>10
<1>21. ASSUME /\ Len(rcvbuf'[p]) = Len(rcvbuf[p]) + 1 /\ (Ready(p)' => Ready(p)) /\ (Queued(p)' => Queued(p))
              /\ (Served(p)' => Served(p)) /\ ~Posting(p)
       PROVE  Event(p)'
  BY <1>21, <1>2, <1>11
<1>22. ASSUME /\ rcvbuf'[p] = rcvbuf[p] /\ (Queued(p)' => Queued(p)) /\ (Served(p)' => Served(p))
              /\ Posting(p) /\ ~Posting(p)'
       PROVE  Event(p)'
  BY <1>22, <1>4, <1>12
<1>23. ASSUME /\ rcvbuf'[p] = rcvbuf[p] /\ (Served(p)' => Served(p)) /\ (Posting(p)' => Posting(p))
              /\ Ready(p) /\ ~Ready(p)' /\ ~Queued(p)
       PROVE  Event(p)'
  BY <1>23, <1>4, <1>13
<1>24. ASSUME /\ rcvbuf'[p] = rcvbuf[p] /\ (Ready(p)' => Ready(p)) /\ (Posting(p)' => Posting(p))
              /\ Queued(p) /\ ~Queued(p)' /\ ~Served(p)
       PROVE  Event(p)'
  BY <1>24, <1>4, <1>14
<1>25. ASSUME /\ Len(rcvbuf'[p]) = Len(rcvbuf[p]) - 1 /\ (Ready(p)' => Ready(p)) /\ (Queued(p)' => Queued(p))
              /\ Served(p) /\ ~Served(p)' /\ (Posting(p)' => Posting(p))
       PROVE  Event(p)'
  BY <1>25, <1>2, <1>15
<1> QED BY <1>20, <1>21, <1>22, <1>23, <1>24, <1>25

LEMMA EventsKept ==
  ASSUME TypeOK, TypeOK', Places, Core, Straight, Straight', [Next]_vars
  PROVE  Events'
<1> USE DEF streams, epoll, packet, srv, history
<1>0. /\ TyList /\ TyRings /\ TyEpoll /\ Lists /\ Owners /\ Serving /\ Items /\ Readings /\ Events
      /\ spc \in {"dequeue", "lastack"} => cur \in Peer
      /\ tpc \in {"data", "datafin", "fin", "finpost"} => tstream \in Peer
  BY TypeGroups DEF Core, Places
<1>n. NoPeer \notin Peer
  BY Smalls
<1>i. /\ \A i, j \in registered, p \in Peer : conn[i] = p /\ conn[j] = p => i = j
      /\ ready \subseteq registered /\ Queue \subseteq registered
  BY <1>0, OneItem
<1>e. \A p \in Peer : Event(p)
  BY <1>0 DEF Events
<1>l. \A p \in Peer : rcvbuf'[p] = rcvbuf[p] => Len(rcvbuf'[p]) >= Len(rcvbuf[p])
  <2>1. \A p \in Peer : Len(rcvbuf[p]) \in Nat
    BY <1>0, LenProperties DEF TyRings
  <2> QED BY <2>1
<1> DEFINE Same(p) == /\ (Ready(p)' => Ready(p)) /\ (Queued(p)' => Queued(p))
                      /\ (Served(p)' => Served(p)) /\ (Posting(p)' => Posting(p))
<1>f. ASSUME NEW p \in Peer, rcvbuf'[p] = rcvbuf[p], Same(p) PROVE Event(p)'
  BY <1>e, <1>f, <1>l, EventCount
<1>1. CASE UNCHANGED vars
  <2>1. rcvbuf' = rcvbuf /\ \A p \in Peer : Same(p)
    BY <1>1 DEF vars, Ready, Queued, Queue, Served, Receiving, Posting
  <2> QED BY <1>f, <2>1 DEF Events
<1>w. ASSUME NEW p \in Peer, tpc \in {"idle", "fin"}, Len(rcvbuf'[p]) = Len(rcvbuf[p]) + 1,
             \A q \in Peer \ {p} : rcvbuf'[q] = rcvbuf[q], UNCHANGED <<epoll, srv>>, tstream' = p
      PROVE  Events'
  <2>1. \A q \in Peer : /\ (Ready(q)' => Ready(q)) /\ (Queued(q)' => Queued(q)) /\ (Served(q)' => Served(q)) /\ ~Posting(q)
    BY <1>w DEF Ready, Queued, Queue, Served, Receiving, Posting
  <2>2. Event(p)'
    BY <1>e, <1>w, <2>1, EventCount
  <2>3. ASSUME NEW q \in Peer \ {p} PROVE Event(q)'
    <3>1. ~Posting(q)'
      BY <1>w DEF Posting
    <3> QED BY <1>f, <1>w, <2>1, <3>1
  <2> QED BY <2>2, <2>3 DEF Events
<1>c. ASSUME NEW p \in Peer, tpc \in {"idle", "fin"}, CloseWait(p) PROVE Events'
  <2>1. \A q \in Peer \ {p} : rcvbuf'[q] = rcvbuf[q]
    BY <1>0, <1>c DEF CloseWait, Enqueue, TyRings
  <2>2. rcvbuf'[p] = Append(rcvbuf[p], <<>>)
    BY <1>0, <1>c DEF CloseWait, Enqueue, TyRings
  <2>3. <<>> \in Seq(Nat) /\ rcvbuf[p] \in Seq(Seq(Nat))
    BY <1>0 DEF TyRings
  <2>4. Len(rcvbuf'[p]) = Len(rcvbuf[p]) + 1
    BY <2>2, <2>3, AppendProperties
  <2> QED BY <1>c, <1>w, <2>1, <2>4 DEF CloseWait
<1>2. ASSUME NEW p \in Peer, PacketArrives(p) \/ TcpOut(p) PROVE Events'
  <2>1. CASE TcpSyn(p) \/ TcpLastAck(p)
    <3>1. status[p] \in {"none", "LAST_ACK"} /\ UNCHANGED <<epoll, srv, packet>>
      BY <1>0, <2>1 DEF TcpSyn, TcpLastAck, Lists
    <3>2. rcvbuf[p] = <<>>
      BY <1>0, <3>1 DEF Readings, Reading
    <3>3. \A q \in Peer : rcvbuf'[q] = rcvbuf[q]
      BY <1>0, <2>1, <3>2 DEF TcpSyn, TcpLastAck, TyRings
    <3>4. \A q \in Peer : Same(q)
      BY <3>1 DEF Ready, Queued, Queue, Served, Receiving, Posting
    <3> QED BY <1>f, <3>3, <3>4 DEF Events
  <2>2. CASE TcpEstablish(p) \/ TcpOut(p)
    <3>1. /\ UNCHANGED <<epoll, ev, todo, rcvbuf>> /\ tpc = "idle" /\ tpc' \in {"idle", "listener"}
          /\ spc' = spc \/ (spc = "acceptwait" /\ spc' = "apt")
      BY <2>2 DEF TcpEstablish, TcpOut, Arrives
    <3>2. \A q \in Peer : Same(q)
      BY <3>1 DEF Ready, Queued, Queue, Served, Receiving, Posting
    <3> QED BY <1>f, <3>1, <3>2 DEF Events
  <2>3. CASE TcpFin(p)
    BY <1>c, <2>3 DEF TcpFin, Arrives
  <2>4. ASSUME NEW n \in 1..MSS, NEW fin \in BOOLEAN, TcpData(p, n, fin) PROVE Events'
    <3>1. PICK x : x = [k \in 1..n |-> rcvd[p] + k]
      OBVIOUS
    <3>2. x \in Seq(Nat)
      <4>1. n \in Nat /\ rcvd[p] \in Nat
        BY <1>0, Smalls DEF TyList
      <4> QED BY <3>1, <4>1
    <3>3. \A q \in Peer \ {p} : rcvbuf'[q] = rcvbuf[q]
      BY <1>0, <2>4 DEF TcpData, Enqueue, TyRings
    <3>4. rcvbuf'[p] = Append(rcvbuf[p], x)
      BY <1>0, <2>4, <3>1 DEF TcpData, Enqueue, TyRings
    <3>5. rcvbuf[p] \in Seq(Seq(Nat))
      BY <1>0 DEF TyRings
    <3>6. Len(rcvbuf'[p]) = Len(rcvbuf[p]) + 1
      BY <3>2, <3>4, <3>5, AppendProperties
    <3> QED BY <1>w, <2>4, <3>3, <3>6 DEF TcpData, Arrives
  <2> QED BY <1>2, <2>1, <2>2, <2>3, <2>4 DEF PacketArrives
<1>3. CASE TcpDataFin
  BY <1>0, <1>3, <1>c DEF TcpDataFin
<1>4. CASE TcpPostListener
  <2>1. {i \in registered : itemfd[i] = listenfd} = {ListenItem}
    BY <1>0 DEF Items
  <2>2. /\ ready' = ready \cup {ListenItem} /\ UNCHANGED <<rcvbuf, conn, spc, ev, handed, todo, tstream>>
        /\ tpc = "listener" /\ tpc' = "idle"
    BY <1>4, <2>1 DEF TcpPostListener, Callback
  <2>3. \A q \in Peer : conn[ListenItem] # q
    BY <1>0, <1>n DEF Items
  <2>4. \A q \in Peer : Same(q)
    BY <2>2, <2>3 DEF Ready, Queued, Queue, Served, Receiving, Posting
  <2> QED BY <1>f, <2>2, <2>4 DEF Events
<1>5. CASE TcpPostData \/ TcpPostFin
  <2>1. PICK p \in Peer : p = tstream
    BY <1>0, <1>5 DEF TcpPostData, TcpPostFin
  <2>2. /\ ready' = ready \cup {i \in registered : itemfd[i] = fd[p]} /\ UNCHANGED <<rcvbuf, conn, spc, ev, handed, todo>>
        /\ tpc \in {"data", "datafin", "finpost"} /\ tpc' \in {"idle", "fin"}
    BY <1>5, <2>1 DEF TcpPostData, TcpPostFin, Callback
  <2>3. Posting(p) /\ \A q \in Peer : ~Posting(q)'
    BY <2>1, <2>2 DEF Posting
  <2>4. \A q \in Peer : (Queued(q)' => Queued(q)) /\ (Served(q)' => Served(q))
    BY <2>2 DEF Queued, Queue, Served, Receiving
  <2>5. Event(p)'
    BY <1>e, <2>2, <2>3, <2>4, EventCount
  <2>6. status[p] \in {"ESTABLISHED", "CLOSE_WAIT"}
    <3>1. rcvbuf[p] # <<>>
      <4>1. PICK n \in Nat : n = Len(rcvbuf[p])
        BY <1>0, LenProperties DEF TyRings
      <4>2. Count(Ready(p)) + Count(Queued(p)) + Count(Served(p)) + Count(Posting(p)) <= n
        BY <1>e, <4>1 DEF Event
      <4>3. n # 0
        BY <2>3, <4>2 DEF Count
      <4> QED BY <4>1, <4>3
    <3> QED BY <1>0, <3>1 DEF Readings, Reading, TyList
  <2>7. ASSUME NEW q \in Peer \ {p} PROVE Event(q)'
    <3>1. ASSUME NEW i \in registered, conn[i] = q, itemfd[i] = fd[p] PROVE FALSE
      <4>1. i # ListenItem /\ Open(q) /\ fd[q] = fd[p]
        BY <1>0, <1>n, <3>1 DEF Items
      <4>2. Open(p)
        BY <2>6, <4>1 DEF Open
      <4> QED BY <1>0, <4>1, <4>2 DEF Owners
    <3>2. Ready(q)' => Ready(q)
      BY <2>2, <3>1 DEF Ready
    <3> QED BY <1>f, <2>2, <2>3, <2>4, <3>2
  <2> QED BY <2>5, <2>7 DEF Events
<1>6. ASSUME NEW i \in Item, WaitTake(i) PROVE Events'
  <2>1. /\ i \in ready /\ i \notin handed /\ ready' = ready \ {i} /\ handed' = handed \cup {i}
        /\ spc = "wait" /\ spc' = "wait" /\ UNCHANGED <<rcvbuf, conn, packet, ev>>
    BY <1>6 DEF WaitTake, ES!Take
  <2>2. \A q \in Peer : ~Served(q)' /\ (Posting(q)' => Posting(q)) /\ (Ready(q)' => Ready(q))
    BY <2>1 DEF Served, Receiving, Posting, Ready
  <2>3. ASSUME NEW q \in Peer, conn[i] # q PROVE Event(q)'
    <3>1. Queued(q)' => Queued(q)
      BY <2>1, <2>3 DEF Queued, Queue
    <3> QED BY <1>f, <2>1, <2>2, <3>1
  <2>4. ASSUME NEW q \in Peer, conn[i] = q PROVE Event(q)'
    <3>1. \A j \in registered : conn[j] = q => j = i
      BY <1>i, <2>1, <2>4
    <3>2. Ready(q) /\ ~Ready(q)' /\ ~Queued(q)
      BY <1>i, <2>1, <2>4, <3>1 DEF Ready, Queued, Queue
    <3> QED BY <1>e, <2>1, <2>2, <3>2, EventCount
  <2> QED BY <2>3, <2>4 DEF Events
<1>7. ASSUME NEW i \in Item, Serve(i) PROVE Events'
  <2>1. /\ i \in todo /\ todo' = todo \ {i} /\ ev' = i /\ spc = "serve" /\ spc' \in {"listener", "recv"}
        /\ UNCHANGED <<rcvbuf, conn, packet, ready>>
    BY <1>7 DEF Serve, Goto
  <2>2. \A q \in Peer : ~Served(q) /\ (Posting(q)' => Posting(q)) /\ (Ready(q)' => Ready(q)) /\ (Queued(q)' => Queued(q))
    BY <2>1 DEF Served, Receiving, Posting, Ready, Queued, Queue
  <2>3. ASSUME NEW q \in Peer, conn[i] # q PROVE Event(q)'
    <3>1. ~Served(q)'
      BY <2>1, <2>3 DEF Served
    <3> QED BY <1>f, <2>1, <2>2, <3>1
  <2>4. ASSUME NEW q \in Peer, conn[i] = q PROVE Event(q)'
    <3>1. i \in Queue /\ Queue = todo /\ Queue' = todo'
      BY <2>1 DEF Queue
    <3>2. \A j \in registered : conn[j] = q => j = i
      BY <1>i, <2>4, <3>1
    <3>3. Queued(q) /\ ~Queued(q)'
      BY <1>i, <2>1, <2>4, <3>1, <3>2 DEF Queued
    <3> QED BY <1>e, <2>1, <2>2, <3>3, EventCount
  <2> QED BY <2>3, <2>4 DEF Events
<1>8. CASE RecvDequeue
  <2>1. PICK p \in Peer : p = cur /\ p = conn[ev]
    BY <1>0, <1>8 DEF RecvDequeue, Serving
  <2>2. /\ rcvbuf' = [rcvbuf EXCEPT ![p] = Tail(@)] /\ rcvbuf[p] # <<>>
        /\ UNCHANGED <<ev, conn, packet, ready, handed, todo>> /\ spc = "dequeue" /\ spc' \in {"del", "send"}
    BY <1>0, <1>8, <2>1, StraightCalls DEF RecvDequeue
  <2>3. \A q \in Peer : ~Served(q)' /\ (Posting(q)' => Posting(q)) /\ (Ready(q)' => Ready(q)) /\ (Queued(q)' => Queued(q))
    BY <2>2 DEF Served, Receiving, Posting, Ready, Queued, Queue
  <2>4. Served(p)
    BY <2>1, <2>2 DEF Served, Receiving
  <2>5. Len(rcvbuf'[p]) = Len(rcvbuf[p]) - 1 /\ \A q \in Peer \ {p} : rcvbuf'[q] = rcvbuf[q]
    <3>1. rcvbuf[p] \in Seq(Seq(Nat)) /\ rcvbuf'[p] = Tail(rcvbuf[p])
      BY <1>0, <2>2 DEF TyRings
    <3>2. Len(Tail(rcvbuf[p])) = Len(rcvbuf[p]) - 1
      BY <2>2, <3>1, HeadTailProperties
    <3> QED BY <1>0, <2>2, <3>1, <3>2 DEF TyRings
  <2>6. Event(p)'
    BY <1>e, <2>3, <2>4, <2>5, EventCount
  <2>7. \A q \in Peer \ {p} : Event(q)'
    BY <1>f, <2>3, <2>5
  <2> QED BY <2>6, <2>7 DEF Events
<1>9. CASE Add
  <2>1. /\ UNCHANGED <<rcvbuf, ready, handed, todo, packet>> /\ spc = "add" /\ spc' = "serve"
    BY <1>9 DEF Add, Done, Goto, ES!Register
  <2>2. \A j \in registered : conn'[j] = conn[j]
    BY <1>0, <1>9 DEF Add, ES!Register, Items, TyEpoll
  <2>3. \A q \in Peer : Same(q)
    <3>1. Queue' = Queue
      BY <2>1 DEF Queue
    <3> QED BY <1>i, <2>1, <2>2, <3>1 DEF Ready, Queued, Served, Receiving, Posting
  <2> QED BY <1>f, <2>1, <2>3 DEF Events
<1>10. CASE RecvFind
  <2>1. UNCHANGED <<rcvbuf, ready, handed, todo, packet, conn, ev>> /\ spc = "recv" /\ spc' = "dequeue"
    BY <1>0, <1>10, StraightCalls DEF RecvFind
  <2>2. \A q \in Peer : Same(q)
    BY <2>1 DEF Ready, Queued, Queue, Served, Receiving, Posting
  <2> QED BY <1>f, <2>1, <2>2 DEF Events
<1>11. CASE WaitReturn \/ WaitAgain
  <2>1. UNCHANGED <<rcvbuf, ready, packet, conn>> /\ spc' \in {"serve", "wait"} /\ (Queue' = Queue \/ Queue' = {})
    BY <1>11 DEF WaitReturn, WaitAgain, ES!Begin, Goto, Queue
  <2>2. \A q \in Peer : Same(q)
    BY <2>1 DEF Ready, Queued, Served, Receiving, Posting
  <2> QED BY <1>f, <2>1, <2>2 DEF Events
<1>12. CASE AcceptFindListener \/ AcceptFindStream \/ AcceptAssign \/ Send \/ Del \/ CloseFind \/ CloseStatus
  <2>1. UNCHANGED <<rcvbuf, handed, todo, ready, packet, conn>> /\ spc # "wait"
    BY <1>12 DEF AcceptFindListener, AcceptFindStream, AcceptAssign, Send, Del, CloseFind, CloseStatus, ES!Unregister
  <2>2. spc' \in {"apt", "acceptwait", "assign", "add", "serve", "close", "lastack", "aborted"}
    BY <1>0, <1>12, StraightCalls DEF AcceptAssign, Send, Del, CloseStatus, Done, Goto
  <2>3. \A q \in Peer : Same(q)
    BY <2>1, <2>2 DEF Ready, Queued, Queue, Served, Receiving, Posting
  <2> QED BY <1>f, <2>1, <2>3 DEF Events
<1> QED BY <1>1, <1>2, <1>3, <1>4, <1>5, <1>6, <1>7, <1>8, <1>9, <1>10, <1>11, <1>12 DEF Next, PacketStep, ServerStep

-----------------------------------------------------------------------------
(* Events of the listener and streams to accept *)

LEMMA Streamsets ==
  /\ IsFiniteSet(Early) /\ IsFiniteSet(Waiting) /\ Cardinality(Early) \in Nat /\ Cardinality(Waiting) \in Nat
  /\ \A p \in Peer : /\ p \notin Early => Cardinality(Early \cup {p}) = Cardinality(Early) + 1
                     /\ p \in Early => Cardinality(Early \ {p}) = Cardinality(Early) - 1
                     /\ p \notin Waiting => Cardinality(Waiting \cup {p}) = Cardinality(Waiting) + 1
                     /\ p \in Waiting => Cardinality(Waiting \ {p}) = Cardinality(Waiting) - 1
<1>1. Early \subseteq Peer /\ Waiting \subseteq Peer
  BY DEF Early, Waiting
<1>2. IsFiniteSet(Early) /\ IsFiniteSet(Waiting)
  BY <1>1, PeerAssumption, FS_Subset
<1>3. Cardinality(Early) \in Nat /\ Cardinality(Waiting) \in Nat
  BY <1>2, FS_CardinalityType
<1>4. ASSUME NEW p \in Peer
      PROVE  /\ p \notin Early => Cardinality(Early \cup {p}) = Cardinality(Early) + 1
             /\ p \in Early => Cardinality(Early \ {p}) = Cardinality(Early) - 1
             /\ p \notin Waiting => Cardinality(Waiting \cup {p}) = Cardinality(Waiting) + 1
             /\ p \in Waiting => Cardinality(Waiting \ {p}) = Cardinality(Waiting) - 1
  BY <1>2, FS_AddElement, FS_RemoveElement
<1> QED BY <1>2, <1>3, <1>4

(* What may become of the events when streams come to wait, or are accepted.*)
LEMMA AcceptCount ==
  ASSUME Accept, NEW e \in Int, NEW w \in Int,
         Cardinality(Early)' = Cardinality(Early) + e, Cardinality(Waiting)' = Cardinality(Waiting) + w
  PROVE  /\ (e <= w /\ ((ListenItem \in ready)' => ListenItem \in ready) /\ ((ListenItem \in Queue)' => ListenItem \in Queue)
             /\ (Accepting' => Accepting) /\ ((tpc = "listener")' => tpc = "listener")) => Accept'
         /\ (e + 1 <= w /\ ((ListenItem \in ready)' => ListenItem \in ready) /\ ((ListenItem \in Queue)' => ListenItem \in Queue)
             /\ (Accepting' => Accepting) /\ tpc # "listener") => Accept'
         /\ (e <= w /\ ((ListenItem \in Queue)' => ListenItem \in Queue) /\ (Accepting' => Accepting)
             /\ tpc = "listener" /\ tpc' # "listener") => Accept'
         /\ (e <= w /\ (Accepting' => Accepting) /\ ((tpc = "listener")' => tpc = "listener")
             /\ ListenItem \in ready /\ ListenItem \notin ready' /\ ListenItem \notin Queue) => Accept'
         /\ (e <= w /\ ((ListenItem \in ready)' => ListenItem \in ready) /\ ((tpc = "listener")' => tpc = "listener")
             /\ ListenItem \in Queue /\ ListenItem \notin Queue' /\ ~Accepting) => Accept'
         /\ (e <= w + 1 /\ ((ListenItem \in ready)' => ListenItem \in ready) /\ ((ListenItem \in Queue)' => ListenItem \in Queue)
             /\ Accepting /\ ~Accepting' /\ ((tpc = "listener")' => tpc = "listener")) => Accept'
<1>1. PICK n \in Nat, m \in Nat : n = Cardinality(Early) /\ m = Cardinality(Waiting)
  BY Streamsets
<1>2. Cardinality(Early)' = n + e /\ Cardinality(Waiting)' = m + w
  BY <1>1
<1>3. PICK a \in Nat, b \in Nat, c \in Nat, d \in Nat :
        /\ a = Count(ListenItem \in ready) /\ b = Count(ListenItem \in Queue) /\ c = Count(Accepting)
        /\ d = Count(tpc = "listener")
  BY DEF Count
<1>4. PICK f \in Nat, g \in Nat, h \in Nat, i \in Nat :
        /\ f = Count((ListenItem \in ready)') /\ g = Count((ListenItem \in Queue)') /\ h = Count(Accepting')
        /\ i = Count((tpc = "listener")')
  BY DEF Count
<1>5. a + b + c + d + n <= m
  BY <1>1, <1>3 DEF Accept
<1>6. Accept' <=> f + g + h + i + (n + e) <= m + w
  BY <1>2, <1>4 DEF Accept, Count
<1>7. /\ ((ListenItem \in ready)' => ListenItem \in ready) => f <= a
      /\ ((ListenItem \in Queue)' => ListenItem \in Queue) => g <= b
      /\ (Accepting' => Accepting) => h <= c
      /\ ((tpc = "listener")' => tpc = "listener") => i <= d
  BY <1>3, <1>4 DEF Count
<1>8. /\ (ListenItem \in ready => a = 1) /\ (ListenItem \notin ready' => f = 0) /\ f <= 1
      /\ (ListenItem \in Queue => b = 1) /\ (ListenItem \notin Queue => b = 0) /\ (ListenItem \notin Queue' => g = 0) /\ g <= 1
      /\ (Accepting => c = 1) /\ (~Accepting => c = 0) /\ (~Accepting' => h = 0) /\ h <= 1
      /\ (tpc = "listener" => d = 1) /\ (tpc # "listener" => d = 0) /\ (tpc' # "listener" => i = 0) /\ i <= 1
  BY <1>3, <1>4 DEF Count
<1>20. ASSUME e <= w /\ ((ListenItem \in ready)' => ListenItem \in ready) /\ ((ListenItem \in Queue)' => ListenItem \in Queue)
              /\ (Accepting' => Accepting) /\ ((tpc = "listener")' => tpc = "listener")
       PROVE  Accept'
  BY <1>20, <1>5, <1>6, <1>7
<1>21. ASSUME e + 1 <= w /\ ((ListenItem \in ready)' => ListenItem \in ready) /\ ((ListenItem \in Queue)' => ListenItem \in Queue)
              /\ (Accepting' => Accepting) /\ tpc # "listener"
       PROVE  Accept'
  BY <1>21, <1>5, <1>6, <1>7, <1>8
<1>22. ASSUME e <= w /\ ((ListenItem \in Queue)' => ListenItem \in Queue) /\ (Accepting' => Accepting)
              /\ tpc = "listener" /\ tpc' # "listener"
       PROVE  Accept'
  BY <1>22, <1>5, <1>6, <1>7, <1>8
<1>23. ASSUME e <= w /\ (Accepting' => Accepting) /\ ((tpc = "listener")' => tpc = "listener")
              /\ ListenItem \in ready /\ ListenItem \notin ready' /\ ListenItem \notin Queue
       PROVE  Accept'
  BY <1>23, <1>5, <1>6, <1>7, <1>8
<1>24. ASSUME e <= w /\ ((ListenItem \in ready)' => ListenItem \in ready) /\ ((tpc = "listener")' => tpc = "listener")
              /\ ListenItem \in Queue /\ ListenItem \notin Queue' /\ ~Accepting
       PROVE  Accept'
  BY <1>24, <1>5, <1>6, <1>7, <1>8
<1>25. ASSUME e <= w + 1 /\ ((ListenItem \in ready)' => ListenItem \in ready) /\ ((ListenItem \in Queue)' => ListenItem \in Queue)
              /\ Accepting /\ ~Accepting' /\ ((tpc = "listener")' => tpc = "listener")
       PROVE  Accept'
  BY <1>25, <1>5, <1>6, <1>7, <1>8
<1> QED BY <1>20, <1>21, <1>22, <1>23, <1>24, <1>25

LEMMA AcceptsKept ==
  ASSUME TypeOK, TypeOK', Places, Core, Straight, Straight', [Next]_vars
  PROVE  Accepts'
<1> USE DEF streams, epoll, packet, srv, history
<1>0. /\ TyList /\ TyFds /\ TyEpoll /\ Lists /\ Owners /\ Serving /\ Items /\ Accept /\ spc # "acceptwait"
      /\ spc \in {"assign", "dequeue", "lastack"} => cur \in Peer
      /\ tpc \in {"data", "datafin", "fin", "finpost"} => tstream \in Peer
  BY TypeGroups DEF Core, Places, Accepts
<1>o. PICK o \in Int, one \in Int : o = 0 /\ one = 1
  OBVIOUS
<1>i. ready \subseteq registered /\ Queue \subseteq registered
  BY <1>0, OneItem
<1>c. Cardinality(Early) \in Nat /\ Cardinality(Waiting) \in Nat
  BY Streamsets
\* A stream is waiting, or was accepted early, by its own status and descriptor.
<1> DEFINE Stays(p) == (p \in Early' <=> p \in Early) /\ (p \in Waiting' <=> p \in Waiting)
           Steady == \A p \in Peer : Stays(p)
           Calm == /\ ((ListenItem \in ready)' => ListenItem \in ready) /\ ((ListenItem \in Queue)' => ListenItem \in Queue)
                   /\ (Accepting' => Accepting)
<1>s. ASSUME Steady
      PROVE  Cardinality(Early)' = Cardinality(Early) + o /\ Cardinality(Waiting)' = Cardinality(Waiting) + o
  <2>1. Early' = Early /\ Waiting' = Waiting
    BY <1>s DEF Early, Waiting
  <2> QED BY <1>c, <1>o, <2>1
<1>f. ASSUME Steady, Calm, (tpc = "listener")' => tpc = "listener" PROVE Accept'
  BY <1>0, <1>f, <1>o, <1>s, AcceptCount
<1>g. ASSUME NEW p \in Peer, status'[p] = status[p], fd'[p] = fd[p] PROVE Stays(p)
  BY <1>g DEF Early, Waiting
<1>u. ASSUME UNCHANGED <<status, fd>> PROVE Steady
  BY <1>g, <1>u
<1>1. CASE UNCHANGED vars
  <2>1. Calm
    BY <1>1 DEF vars, Queue, Accepting
  <2> QED BY <1>0, <1>1, <1>f, <1>u, <2>1 DEF vars, Accepts
<1>2. ASSUME NEW p \in Peer, PacketArrives(p) \/ TcpOut(p) PROVE Accepts'
  <2>0. UNCHANGED <<epoll, ev, todo, spc>> /\ tpc = "idle" /\ Calm /\ spc' # "acceptwait"
    BY <1>0, <1>2 DEF PacketArrives, TcpSyn, TcpEstablish, TcpFin, CloseWait, TcpLastAck, TcpData, TcpOut, Arrives,
       Queue, Accepting
  <2>1. CASE TcpSyn(p) \/ TcpLastAck(p)
    <3>1. /\ status[p] \in {"none", "LAST_ACK"} /\ fd'[p] = Unused /\ status'[p] \in {"none", "SYN_RCVD"} /\ UNCHANGED tpc
          /\ \A q \in Peer \ {p} : status'[q] = status[q] /\ fd'[q] = fd[q]
      BY <1>0, <2>1 DEF TcpSyn, TcpLastAck, Lists, TyList, TyFds
    <3>2. Steady
      BY <3>1, <1>g DEF Early, Waiting
    <3> QED BY <1>f, <2>0, <3>1, <3>2 DEF Accepts
  <2>2. CASE TcpEstablish(p)
    <3>1. /\ status[p] = "SYN_RCVD" /\ status'[p] = "ESTABLISHED" /\ tpc' = "listener" /\ fd' = fd
          /\ \A q \in Peer \ {p} : status'[q] = status[q] /\ fd'[q] = fd[q]
      BY <1>0, <2>2 DEF TcpEstablish, TyList
    <3>2. \A q \in Peer \ {p} : Stays(q)
      BY <3>1, <1>g
    <3>3. CASE fd[p] = Unused
      <4>1. p \notin Early /\ p \notin Early' /\ p \notin Waiting /\ p \in Waiting'
        BY <3>1, <3>3 DEF Early, Waiting
      <4>2. Early' = Early /\ Waiting' = Waiting \cup {p}
        BY <3>2, <4>1 DEF Early, Waiting
      <4>3. Cardinality(Early)' = Cardinality(Early) + o /\ Cardinality(Waiting)' = Cardinality(Waiting) + one
        <5>1. Cardinality(Early)' = Cardinality(Early)
          BY <4>2
        <5>2. Cardinality(Waiting)' = Cardinality(Waiting) + 1
          BY <4>1, <4>2, Streamsets
        <5> QED BY <1>c, <1>o, <5>1, <5>2
      <4>4. o + 1 <= one /\ tpc # "listener"
        BY <1>o, <2>0
      <4>5. Accept'
        BY <1>0, <1>o, <2>0, <4>3, <4>4, AcceptCount
      <4> QED BY <2>0, <4>5 DEF Accepts
    <3>4. CASE fd[p] # Unused
      <4>1. p \in Early /\ p \notin Early' /\ p \notin Waiting /\ p \notin Waiting'
        BY <3>1, <3>4 DEF Early, Waiting
      <4>2. Early' = Early \ {p} /\ Waiting' = Waiting
        BY <3>2, <4>1 DEF Early, Waiting
      <4>6. PICK k \in Int : k = -1
        OBVIOUS
      <4>3. Cardinality(Early)' = Cardinality(Early) + k /\ Cardinality(Waiting)' = Cardinality(Waiting) + o
        <5>1. Cardinality(Early)' = Cardinality(Early) - 1
          BY <4>1, <4>2, Streamsets
        <5>2. Cardinality(Waiting)' = Cardinality(Waiting)
          BY <4>2
        <5> QED BY <1>c, <1>o, <4>6, <5>1, <5>2
      <4>4. k + 1 <= o /\ tpc # "listener"
        BY <1>o, <2>0, <4>6
      <4>5. Accept'
        BY <1>0, <1>o, <2>0, <4>3, <4>4, AcceptCount
      <4> QED BY <2>0, <4>5 DEF Accepts
    <3> QED BY <3>3, <3>4
  <2>3. CASE TcpFin(p)
    <3>1. Steady
      BY <1>0, <2>3 DEF TcpFin, CloseWait, TyList, Early, Waiting
    <3>2. tpc' = "finpost"
      BY <2>3 DEF TcpFin, CloseWait
    <3> QED BY <1>f, <2>0, <3>1, <3>2 DEF Accepts
  <2>4. CASE TcpOut(p) \/ \E n, fin : TcpData(p, n, fin)
    <3>1. UNCHANGED <<status, fd>> /\ tpc' \in {"idle", "data", "datafin"}
      BY <2>0, <2>4 DEF TcpOut, TcpData
    <3> QED BY <1>f, <1>u, <2>0, <3>1 DEF Accepts
  <2>5. TcpSyn(p) \/ TcpLastAck(p) \/ TcpEstablish(p) \/ TcpFin(p) \/ TcpOut(p) \/ \E n, fin : TcpData(p, n, fin)
    BY <1>2 DEF PacketArrives
  <2> QED BY <2>1, <2>2, <2>3, <2>4, <2>5
<1>3. CASE TcpDataFin
  <2>1. Steady
    BY <1>0, <1>3 DEF TcpDataFin, CloseWait, TyList, Serving, Early, Waiting
  <2>2. tpc' = "finpost" /\ Calm /\ spc' = spc
    BY <1>3 DEF TcpDataFin, CloseWait, Queue, Accepting
  <2> QED BY <1>0, <1>f, <2>1, <2>2 DEF Accepts
<1>4. CASE TcpPostListener
  <2>1. /\ UNCHANGED <<status, fd, spc>> /\ tpc = "listener" /\ tpc' # "listener"
        /\ ((ListenItem \in Queue)' => ListenItem \in Queue) /\ (Accepting' => Accepting)
    BY <1>4 DEF TcpPostListener, Callback, Queue, Accepting
  <2>2. Cardinality(Early)' = Cardinality(Early) + o /\ Cardinality(Waiting)' = Cardinality(Waiting) + o /\ o <= o
    BY <1>s, <1>u, <2>1, <1>o
  <2>3. Accept'
    BY <1>0, <2>1, <2>2, AcceptCount
  <2> QED BY <1>0, <2>1, <2>3 DEF Accepts
<1>5. CASE TcpPostData \/ TcpPostFin
  <2>1. PICK p \in Peer : p = tstream
    BY <1>0, <1>5 DEF TcpPostData, TcpPostFin
  <2>2. /\ ready' = ready \cup {i \in registered : itemfd[i] = fd[p]} /\ UNCHANGED <<status, fd, spc, handed, todo>>
        /\ tpc' \in {"idle", "fin"}
    BY <1>5, <2>1 DEF TcpPostData, TcpPostFin, Callback
  <2>3. itemfd[ListenItem] # fd[p]
    BY <1>0 DEF Items, Owners
  <2>4. Calm
    BY <2>2, <2>3 DEF Queue, Accepting
  <2> QED BY <1>0, <1>f, <1>u, <2>2, <2>4 DEF Accepts
<1>6. ASSUME NEW i \in Item, WaitTake(i) PROVE Accepts'
  <2>1. /\ i \in ready /\ i \notin handed /\ ready' = ready \ {i} /\ handed' = handed \cup {i}
        /\ spc = "wait" /\ spc' = "wait" /\ UNCHANGED <<status, fd, packet>>
    BY <1>6 DEF WaitTake, ES!Take
  <2>2. CASE i # ListenItem
    <3>1. Calm
      BY <2>1, <2>2 DEF Queue, Accepting
    <3> QED BY <1>f, <1>u, <2>1, <3>1 DEF Accepts
  <2>3. CASE i = ListenItem
    <3>1. ListenItem \in ready /\ ListenItem \notin ready' /\ ListenItem \notin Queue /\ (Accepting' => Accepting)
      BY <2>1, <2>3 DEF Queue, Accepting
    <3>2. Cardinality(Early)' = Cardinality(Early) + o /\ Cardinality(Waiting)' = Cardinality(Waiting) + o /\ o <= o
      BY <1>s, <1>u, <2>1, <1>o
    <3>3. (tpc = "listener")' => tpc = "listener"
      BY <2>1
    <3>4. Accept'
      BY <1>0, <3>1, <3>2, <3>3, AcceptCount
    <3> QED BY <2>1, <3>4 DEF Accepts
  <2> QED BY <2>2, <2>3
<1>7. ASSUME NEW i \in Item, Serve(i) PROVE Accepts'
  <2>1. /\ i \in todo /\ todo' = todo \ {i} /\ spc = "serve" /\ spc' = (IF itemfd[i] = listenfd THEN "listener" ELSE "recv")
        /\ UNCHANGED <<status, fd, packet, ready, handed>>
    BY <1>7 DEF Serve, Goto
  <2>2. i \in registered /\ Queue = todo /\ Queue' = todo'
    BY <1>i, <2>1 DEF Queue
  <2>3. CASE i # ListenItem
    <3>1. spc' = "recv"
      BY <1>0, <2>1, <2>2, <2>3 DEF Items
    <3>2. Calm
      BY <2>1, <2>2, <3>1 DEF Accepting
    <3> QED BY <1>f, <1>u, <2>1, <3>1, <3>2 DEF Accepts
  <2>4. CASE i = ListenItem
    <3>1. ListenItem \in Queue /\ ListenItem \notin Queue' /\ ~Accepting /\ spc' # "acceptwait"
      BY <2>1, <2>2, <2>4 DEF Accepting
    <3>2. Cardinality(Early)' = Cardinality(Early) + o /\ Cardinality(Waiting)' = Cardinality(Waiting) + o /\ o <= o
      BY <1>s, <1>u, <2>1, <1>o
    <3>3. ((tpc = "listener")' => tpc = "listener") /\ ((ListenItem \in ready)' => ListenItem \in ready)
      BY <2>1
    <3>4. Accept'
      BY <1>0, <3>1, <3>2, <3>3, AcceptCount
    <3> QED BY <3>1, <3>4 DEF Accepts
  <2> QED BY <2>3, <2>4
<1>8. CASE AcceptAssign
  <2>1. PICK f \in (1..MaxFd) \ fd_table : fd' = [fd EXCEPT ![cur] = f]
    BY <1>0, <1>8, StraightCalls
  <2>2. /\ cur \in Peer /\ status[cur] \in {"SYN_RCVD", "ESTABLISHED", "CLOSE_WAIT"} /\ fd[cur] = Unused
        /\ UNCHANGED <<status, ready, handed, todo, tpc>> /\ spc = "assign" /\ spc' = "add"
    BY <1>0, <1>8 DEF AcceptAssign, Serving, Owners, TyList, Goto
  <2>3. fd'[cur] # Unused /\ \A q \in Peer \ {cur} : status'[q] = status[q] /\ fd'[q] = fd[q]
    <3>1. f # Unused
      BY <2>1, Smalls DEF Unused
    <3> QED BY <1>0, <2>1, <2>2, <3>1 DEF TyFds
  <2>4. \A q \in Peer \ {cur} : Stays(q)
    BY <1>g, <2>3
  <2>5. /\ ((ListenItem \in ready)' => ListenItem \in ready) /\ ((ListenItem \in Queue)' => ListenItem \in Queue)
        /\ Accepting /\ ~Accepting' /\ ((tpc = "listener")' => tpc = "listener")
    BY <2>2 DEF Queue, Accepting
  <2>6. CASE status[cur] = "SYN_RCVD"
    <3>1. cur \notin Early /\ cur \in Early' /\ cur \notin Waiting /\ cur \notin Waiting'
      BY <2>2, <2>3, <2>6 DEF Early, Waiting
    <3>2. Early' = Early \cup {cur} /\ Waiting' = Waiting
      BY <2>4, <3>1 DEF Early, Waiting
    <3>3. Cardinality(Early)' = Cardinality(Early) + one /\ Cardinality(Waiting)' = Cardinality(Waiting) + o
      <4>1. Cardinality(Early)' = Cardinality(Early) + 1
        BY <2>2, <3>1, <3>2, Streamsets
      <4>2. Cardinality(Waiting)' = Cardinality(Waiting)
        BY <3>2
      <4> QED BY <1>c, <1>o, <4>1, <4>2
    <3>4. one <= o + 1
      BY <1>o
    <3>5. Accept'
      BY <1>0, <1>o, <2>5, <3>3, <3>4, AcceptCount
    <3> QED BY <2>2, <3>5 DEF Accepts
  <2>7. CASE status[cur] # "SYN_RCVD"
    <3>1. cur \notin Early /\ cur \notin Early' /\ cur \in Waiting /\ cur \notin Waiting'
      BY <2>2, <2>3, <2>7 DEF Early, Waiting
    <3>2. Early' = Early /\ Waiting' = Waiting \ {cur}
      BY <2>4, <3>1 DEF Early, Waiting
    <3>6. PICK k \in Int : k = -1
      OBVIOUS
    <3>3. Cardinality(Early)' = Cardinality(Early) + o /\ Cardinality(Waiting)' = Cardinality(Waiting) + k
      <4>1. Cardinality(Early)' = Cardinality(Early)
        BY <3>2
      <4>2. Cardinality(Waiting)' = Cardinality(Waiting) - 1
        BY <2>2, <3>1, <3>2, Streamsets
      <4> QED BY <1>c, <1>o, <3>6, <4>1, <4>2
    <3>4. o <= k + 1
      BY <1>o, <3>6
    <3>5. Accept'
      BY <1>0, <1>o, <2>5, <3>3, <3>4, AcceptCount
    <3> QED BY <2>2, <3>5 DEF Accepts
  <2> QED BY <2>6, <2>7
<1>9. CASE AcceptFindStream
  <2>1. /\ cur' = get_accept_tcb /\ spc' = (IF cur' = NoPeer THEN "acceptwait" ELSE "assign") /\ spc = "apt"
        /\ UNCHANGED <<status, fd, ready, handed, todo, tpc>>
    BY <1>0, <1>9, StraightCalls DEF AcceptFindStream
  <2>2. Waiting # {}
    <3>1. Count(Accepting) = 1
      BY <2>1 DEF Accepting, Count
    <3>2. PICK a \in Nat, b \in Nat, d \in Nat :
            a = Count(ListenItem \in ready) /\ b = Count(ListenItem \in Queue) /\ d = Count(tpc = "listener")
      BY DEF Count
    <3>3. PICK e \in Nat, w \in Nat : e = Cardinality(Early) /\ w = Cardinality(Waiting)
      BY <1>c
    <3>4. a + b + 1 + d + e <= w
      BY <1>0, <3>1, <3>2, <3>3 DEF Accept
    <3>5. Cardinality(Waiting) # 0
      BY <3>3, <3>4
    <3> QED BY <3>5, FS_EmptySet
  <2>3. PICK p \in Peer : status[p] # "none" /\ fd[p] = Unused
    BY <2>2 DEF Waiting
  <2>4. {q \in Peer : fd[q] = Unused} \in SUBSET Peer /\ p \in {q \in Peer : fd[q] = Unused} /\ Listed(p)
    BY <1>0, <2>3 DEF Lists
  <2>5. get_accept_tcb \in Peer
    BY <1>0, <2>4, FirstFinds DEF get_accept_tcb, TyList
  <2>6. spc' = "assign"
    BY <2>1, <2>5, Smalls
  <2>7. Calm
    BY <2>1, <2>6 DEF Queue, Accepting
  <2> QED BY <1>f, <1>u, <2>1, <2>6, <2>7 DEF Accepts
<1>10. CASE CloseStatus
  <2>1. /\ cur \in Peer /\ status[cur] = "CLOSE_WAIT" /\ fd[cur] # Unused /\ spc = "lastack" /\ spc' = "serve"
        /\ UNCHANGED <<fd, ready, handed, todo, tpc>>
    BY <1>0, <1>10 DEF CloseStatus, Serving, Ending, Open, Done, Goto
  <2>2. Steady
    BY <1>0, <1>10, <2>1 DEF CloseStatus, TyList, Early, Waiting
  <2>3. Calm
    BY <2>1 DEF Queue, Accepting
  <2> QED BY <1>f, <2>1, <2>2, <2>3 DEF Accepts
<1>11. CASE WaitReturn \/ WaitAgain
  <2>1. UNCHANGED <<status, fd, ready, packet>> /\ spc' \in {"serve", "wait"} /\ (Queue' = Queue \/ Queue' = {})
    BY <1>11 DEF WaitReturn, WaitAgain, ES!Begin, Goto, Queue
  <2>2. Calm
    BY <2>1 DEF Accepting
  <2> QED BY <1>f, <1>u, <2>1, <2>2 DEF Accepts
<1>12. CASE AcceptFindListener \/ Add \/ RecvFind \/ RecvDequeue \/ Send \/ Del \/ CloseFind
  <2>1. UNCHANGED <<status, fd, handed, todo, ready, packet>> /\ spc # "wait"
    BY <1>12 DEF AcceptFindListener, Add, RecvFind, RecvDequeue, Send, Del, CloseFind, ES!Register, ES!Unregister
  <2>2. spc' \in {"dequeue", "del", "send", "serve", "close", "lastack", "aborted"} \/ (spc' = "apt" /\ spc = "listener")
    BY <1>0, <1>12, StraightCalls DEF AcceptFindListener, Add, Send, Del, Done, Goto
  <2>3. Calm
    BY <2>1, <2>2 DEF Queue, Accepting
  <2> QED BY <1>f, <1>u, <2>1, <2>2, <2>3 DEF Accepts
<1> QED BY <1>1, <1>2, <1>3, <1>4, <1>5, <1>6, <1>7, <1>8, <1>9, <1>10, <1>11, <1>12 DEF Next, PacketStep, ServerStep

-----------------------------------------------------------------------------
(* The bytes *)

\* What a step must leave alone of a stream for its life to go on.
Apart(p) ==
  /\ sndbuf'[p] = sndbuf[p] /\ rcvbuf'[p] = rcvbuf[p] /\ wire'[p] = wire[p] /\ rcvd'[p] = rcvd[p]
  /\ status'[p] = "none" <=> status[p] = "none"
  /\ InHand(p)' <=> InHand(p)
  /\ InHand(p) => buff' = buff

(* What a step does to one stream leaves the lives of the others alone.     *)
LEMMA OthersLive ==
  ASSUME Lives, NEW p, \A q \in Peer \ {p} : Apart(q), p \in Peer => Life(p)'
  PROVE  Lives'
<1>1. ASSUME NEW q \in Peer, Apart(q), Life(q) PROVE Life(q)'
  <2>1. Chain(q) => Chain(q)'
    BY <1>1 DEF Apart, Chain
  <2>2. wire'[q] = wire[q] /\ (status'[q] = "none" <=> status[q] = "none")
    BY <1>1 DEF Apart
  <2> QED BY <1>1, <2>1, <2>2 DEF Life
<1> QED BY <1>1 DEF Lives

LEMMA AllApart ==
  ASSUME Lives, \A q \in Peer : Apart(q)
  PROVE  Lives'
<1>1. NoPeer \notin Peer
  BY Smalls
<1> QED BY <1>1, OthersLive

(* A connection begins with no byte received and none sent, and no call of  *)
(* the server is under way on it; one that ends leaves what was sent.       *)
LEMMA EndsLive ==
  ASSUME TypeOK, Core, NEW p \in Peer, TcpSyn(p) \/ TcpLastAck(p)
  PROVE  Lives'
<1> USE DEF streams, epoll, packet, srv, history
<1>1. TyList /\ TyRings /\ Lives /\ Lists /\ Serving /\ Items
  BY TypeGroups DEF Core
<1>2. UNCHANGED <<spc, cur, buff>>
  BY DEF TcpSyn, TcpLastAck
<1>3. \A q \in Peer \ {p} : /\ status'[q] = status[q] /\ rcvbuf'[q] = rcvbuf[q] /\ sndbuf'[q] = sndbuf[q]
                            /\ rcvd'[q] = rcvd[q] /\ wire'[q] = wire[q]
  <2>1. \A q \in Peer \ {p} : status'[q] = status[q] /\ rcvd'[q] = rcvd[q] /\ wire'[q] = wire[q]
    BY <1>1 DEF TcpSyn, TcpLastAck, TyList
  <2>2. \A q \in Peer \ {p} : rcvbuf'[q] = rcvbuf[q] /\ sndbuf'[q] = sndbuf[q]
    BY <1>1 DEF TcpSyn, TcpLastAck, TyRings
  <2> QED BY <2>1, <2>2
<1>4. \A q \in Peer \ {p} : Apart(q)
  BY <1>2, <1>3 DEF Apart, InHand
<1>5. CASE TcpLastAck(p)
  <2>1. status'[p] = "none" /\ wire' = wire
    BY <1>1, <1>5 DEF TcpLastAck, TyList
  <2>2. Life(p)'
    BY <1>1, <2>1 DEF Lives, Life
  <2> QED BY <1>1, <1>4, <2>2, OthersLive
<1>6. CASE TcpSyn(p)
  <2>1. rcvd'[p] = 0 /\ wire'[p] = <<>> /\ rcvbuf'[p] = <<>> /\ sndbuf'[p] = <<>> /\ status[p] = "none"
    BY <1>1, <1>6 DEF TcpSyn, TyList, TyRings, Lists
  <2>2. ~InHand(p)
    BY <1>1, <2>1 DEF InHand, Serving, Items, Open
  <2>3. ~InHand(p)'
    BY <1>2, <2>2 DEF InHand
  <2>4. Datas(<<>>) = <<>>
    <3>1. PICK e \in Seq(Fragments) : e = <<>>
      BY EmptySeq
    <3>2. Datas(e) \in Seq(Seq(Nat)) /\ Len(Datas(e)) = 0
      BY <3>1, DatasAre, EmptySeq
    <3> QED BY <3>1, <3>2, EmptySeq
  <2>5. Runs(Datas(sndbuf'[p]), Len(wire'[p]), 0) /\ Runs(rcvbuf'[p], 0, rcvd'[p])
    BY <2>1, <2>4, RunsEmpty, EmptySeq
  <2>6. Chain(p)'
    BY <2>3, <2>5 DEF Chain
  <2>7. \A k \in 1..Len(wire'[p]) : wire'[p][k] = k
    BY <2>1, EmptySeq
  <2>8. Life(p)'
    BY <2>6, <2>7 DEF Life
  <2> QED BY <1>1, <1>4, <2>8, OthersLive
<1> QED BY <1>5, <1>6

(* Bytes, or the end of the stream, arrive: nothing else of it changes.     *)
LEMMA ArrivalLives ==
  ASSUME TypeOK, Core, NEW p \in Peer, NEW n \in Nat, status[p] = "ESTABLISHED",
         status'[p] \in {"ESTABLISHED", "CLOSE_WAIT"},
         rcvbuf' = Enqueue(rcvbuf, p, Run(rcvd[p], rcvd[p] + n)), rcvd'[p] = rcvd[p] + n,
         \A q \in Peer \ {p} : status'[q] = status[q] /\ rcvd'[q] = rcvd[q],
         UNCHANGED <<sndbuf, wire, spc, cur, buff>>
  PROVE  Lives'
<1>1. Lives /\ TyList /\ TyRings
  BY TypeGroups DEF Core
<1> DEFINE z == Run(rcvd[p], rcvd[p] + n)
<1>2. /\ rcvbuf'[p] = Append(rcvbuf[p], z) /\ \A q \in Peer \ {p} : rcvbuf'[q] = rcvbuf[q]
  BY <1>1 DEF TyRings, Enqueue
<1>3. \A q \in Peer \ {p} : Apart(q)
  BY <1>2 DEF Apart, InHand
<1>4. InHand(p)' <=> InHand(p)
  BY DEF InHand
<1>5. ASSUME Life(p) PROVE Life(p)'
  <2>1. Chain(p)
    BY <1>5 DEF Life
  <2>2. PICK a \in Nat, b \in Nat :
          /\ Runs(Datas(sndbuf[p]), Len(wire[p]), a) /\ Runs(rcvbuf[p], b, rcvd[p])
          /\ a <= b /\ (InHand(p) => buff = Run(a, b)) /\ (~InHand(p) => a = b)
    BY <2>1 DEF Chain
  <2>3. Runs(Append(rcvbuf[p], z), b, rcvd[p] + n)
    <3>1. PICK c \in Nat : c = rcvd[p]
      BY <1>1 DEF TyList
    <3>2. PICK d \in Nat : d = c + n
      OBVIOUS
    <3>3. z = Run(c, d) /\ c <= d
      BY <3>1, <3>2
    <3> HIDE DEF z
    <3>4. z \in Seq(Nat)
      <4>1. PICK m \in Nat : m = d - c
        BY <3>3
      <4>2. z = [k \in 1..m |-> c + k]
        BY <3>3, <4>1 DEF Run
      <4>3. \A k \in 1..m : c + k \in Nat
        OBVIOUS
      <4>4. [k \in 1..m |-> c + k] \in Seq(Nat)
        BY <4>3
      <4> QED BY <4>2, <4>4
    <3>5. rcvbuf[p] \in Seq(Seq(Nat)) /\ Runs(rcvbuf[p], b, c)
      BY <1>1, <2>2, <3>1 DEF TyRings
    <3>6. Runs(Append(rcvbuf[p], z), b, d)
      BY <3>3, <3>4, <3>5, RunsAppend
    <3> QED BY <3>1, <3>2, <3>6
  <2>4. Chain(p)'
    <3>1. Runs(rcvbuf'[p], b, rcvd'[p])
      BY <1>2, <2>3
    <3> QED BY <1>4, <2>2, <3>1 DEF Chain
  <2> QED BY <1>5, <2>4 DEF Life
<1> QED BY <1>1, <1>3, <1>5, OthersLive DEF Lives

(* Segments with bytes or a FIN. *)
LEMMA SegmentLives ==
  ASSUME TypeOK, Core, NEW p \in Peer,
         \/ \E n \in 1..MSS, fin \in BOOLEAN : TcpData(p, n, fin)
         \/ TcpFin(p) \/ (TcpDataFin /\ p = tstream)
  PROVE  Lives'
<1> USE DEF streams, epoll, packet, srv, history
<1>1. TyList /\ TyRings /\ Serving
  BY TypeGroups DEF Core
<1>2. ASSUME NEW n \in 1..MSS, NEW fin \in BOOLEAN, TcpData(p, n, fin) PROVE Lives'
  <2>1. n \in Nat /\ rcvd[p] \in Nat
    BY <1>1, Smalls DEF TyList
  <2>2. [k \in 1..n |-> rcvd[p] + k] = Run(rcvd[p], rcvd[p] + n)
    <3>1. (rcvd[p] + n) - rcvd[p] = n
      BY <2>1
    <3> QED BY <3>1 DEF Run
  <2>3. /\ rcvbuf' = Enqueue(rcvbuf, p, Run(rcvd[p], rcvd[p] + n)) /\ status' = status /\ status[p] = "ESTABLISHED"
        /\ UNCHANGED <<sndbuf, wire, spc, cur, buff>>
    BY <1>2, <2>2 DEF TcpData
  <2>4. rcvd'[p] = rcvd[p] + n /\ \A q \in Peer \ {p} : rcvd'[q] = rcvd[q]
    BY <1>1, <1>2 DEF TcpData, TyList
  <2> QED BY <2>1, <2>3, <2>4, ArrivalLives
<1>3. ASSUME TcpFin(p) \/ (TcpDataFin /\ p = tstream) PROVE Lives'
  <2>0. CloseWait(p) /\ status[p] = "ESTABLISHED"
    BY <1>1, <1>3 DEF TcpFin, TcpDataFin, Serving
  <2>1. PICK n \in Nat : n = 0
    OBVIOUS
  <2>2. rcvd[p] \in Nat /\ rcvd[p] + n = rcvd[p] /\ <<>> = Run(rcvd[p], rcvd[p] + n)
    <3>1. rcvd[p] \in Nat
      BY <1>1 DEF TyList
    <3>2. PICK c \in Nat : c = rcvd[p]
      BY <3>1
    <3>3. c + n = c /\ <<>> = Run(c, c)
      BY <2>1 DEF Run
    <3> QED BY <3>2, <3>3
  <2>3. /\ rcvbuf' = Enqueue(rcvbuf, p, Run(rcvd[p], rcvd[p] + n)) /\ status' = [status EXCEPT ![p] = "CLOSE_WAIT"]
        /\ UNCHANGED <<sndbuf, wire, rcvd, spc, cur, buff>>
    BY <2>0, <2>2 DEF CloseWait
  <2>4. status'[p] = "CLOSE_WAIT" /\ \A q \in Peer \ {p} : status'[q] = status[q]
    BY <1>1, <2>3 DEF TyList
  <2>5. rcvd'[p] = rcvd[p] + n /\ \A q \in Peer \ {p} : status'[q] = status[q] /\ rcvd'[q] = rcvd[q]
    BY <2>2, <2>3, <2>4
  <2> QED BY <2>0, <2>3, <2>4, <2>5, ArrivalLives
<1> QED BY <1>2, <1>3

(* A fragment goes out: the next bytes. *)
LEMMA OutLives ==
  ASSUME TypeOK, Core, NEW p \in Peer, TcpOut(p)
  PROVE  Lives'
<1> USE DEF streams, epoll, packet, srv, history
<1>1. TyList /\ TyRings /\ Lives /\ Lists
  BY TypeGroups DEF Core
<1>2. PICK s \in Seq(Fragments) : s = sndbuf[p]
  BY <1>1 DEF TyRings
<1>3. PICK w \in Seq(Nat) : w = wire[p]
  BY <1>1 DEF TyList
<1>4. s # <<>> /\ status[p] # "none" /\ UNCHANGED <<status, rcvbuf, rcvd, spc, cur, buff>>
  BY <1>1, <1>2 DEF TcpOut, Lists
<1>5. PICK f : f = Head(s)
  OBVIOUS
<1>6. PICK t : t = Tail(s)
  OBVIOUS
<1>7. f \in Fragments /\ t \in Seq(Fragments)
  BY <1>4, <1>5, <1>6, HeadTailProperties
<1>8. f.data \in Seq(Nat)
  BY <1>7 DEF Fragments
<1>9. sndbuf'[p] = t /\ wire'[p] = w \o f.data
  <2>1. sndbuf'[p] = t
    BY <1>1, <1>2, <1>6 DEF TcpOut, TyRings
  <2>2. wire'[p] = w \o f.data
    BY <1>1, <1>2, <1>3, <1>5 DEF TcpOut, TyList
  <2> QED BY <2>1, <2>2
<1>10. \A q \in Peer \ {p} : sndbuf'[q] = sndbuf[q] /\ wire'[q] = wire[q]
  <2>1. \A q \in Peer \ {p} : sndbuf'[q] = sndbuf[q]
    BY <1>1 DEF TcpOut, TyRings
  <2>2. \A q \in Peer \ {p} : wire'[q] = wire[q]
    BY <1>1 DEF TcpOut, TyList
  <2> QED BY <2>1, <2>2
<1>11. \A q \in Peer \ {p} : Apart(q)
  BY <1>4, <1>10 DEF Apart, InHand
<1>12. ASSUME Life(p) PROVE Life(p)'
  <2>1. Chain(p)
    BY <1>4, <1>12 DEF Life
  <2>2. PICK a \in Nat, b \in Nat :
          /\ Runs(Datas(s), Len(w), a) /\ Runs(rcvbuf[p], b, rcvd[p])
          /\ a <= b /\ (InHand(p) => buff = Run(a, b)) /\ (~InHand(p) => a = b)
    BY <1>2, <1>3, <2>1 DEF Chain
  <2>3. PICK m \in Nat : m = Len(w)
    BY LenProperties
  <2>4. PICK c \in Nat : m <= c /\ f.data = Run(m, c) /\ Runs(Datas(t), c, a)
    <3>1. Datas(s) \in Seq(Seq(Nat)) /\ Datas(s) # <<>> /\ Head(Datas(s)) = f.data /\ Datas(t) = Tail(Datas(s))
      BY <1>4, <1>5, <1>6, DatasAre
    <3>2. Runs(Datas(s), m, a)
      BY <2>2, <2>3
    <3> QED BY <3>1, <3>2, RunsTail
  <2>5. PICK e \in Nat : e = c - m
    BY <2>4
  <2>6. f.data = [k \in 1..e |-> m + k] /\ Len(f.data) = e
    <3>1. f.data = [k \in 1..e |-> m + k]
      BY <2>4, <2>5 DEF Run
    <3>2. Len([k \in 1..e |-> m + k]) = e
      OBVIOUS
    <3> QED BY <3>1, <3>2
  <2>7. Len(w \o f.data) = c /\ \A k \in 1..c : (w \o f.data)[k] = k
    <3>1. /\ Len(w \o f.data) = m + e
          /\ \A k \in 1..m + e : (w \o f.data)[k] = IF k <= m THEN w[k] ELSE f.data[k - m]
      BY <1>8, <2>3, <2>6, ConcatProperties
    <3>2. \A k \in 1..m : w[k] = k
      BY <1>3, <1>12, <2>3 DEF Life
    <3>3. \A k \in 1..e : f.data[k] = m + k
      BY <2>6
    <3>4. ASSUME NEW k \in 1..m + e PROVE (w \o f.data)[k] = k
      <4>1. CASE k <= m
        BY <3>1, <3>2, <4>1
      <4>2. CASE ~(k <= m)
        <5>1. k - m \in 1..e /\ m + (k - m) = k
          BY <4>2
        <5>2. (w \o f.data)[k] = f.data[k - m]
          BY <3>1, <4>2
        <5> QED BY <3>3, <5>1, <5>2
      <4> QED BY <4>1, <4>2
    <3>5. m + e = c
      BY <2>4, <2>5
    <3> QED BY <3>1, <3>4, <3>5
  <2>8. InHand(p)' <=> InHand(p)
    BY <1>4 DEF InHand
  <2>9. Chain(p)'
    BY <1>4, <1>9, <2>2, <2>4, <2>7, <2>8 DEF Chain
  <2> QED BY <1>9, <2>7, <2>9 DEF Life
<1> QED BY <1>1, <1>11, <1>12, OthersLive DEF Lives

(* nrecv takes the next bytes into the server's hand, or the end. *)
LEMMA RecvLives ==
  ASSUME TypeOK, Places, Core, Straight, Straight', RecvDequeue
  PROVE  Lives'
<1> USE DEF streams, epoll, packet, srv, history
<1>1. TyList /\ TyRings /\ Lives /\ Lists /\ Serving /\ Items
  BY TypeGroups DEF Core
<1>2. PICK p \in Peer : p = cur
  BY DEF Places, RecvDequeue
<1>3. /\ rcvbuf' = [rcvbuf EXCEPT ![p] = Tail(@)] /\ buff' = Head(rcvbuf[p])
      /\ spc' = (IF buff' = <<>> THEN "del" ELSE "send")
  BY <1>1, <1>2, StraightCalls
<1>4. spc = "dequeue" /\ rcvbuf[p] # <<>> /\ UNCHANGED <<status, sndbuf, wire, rcvd, cur>>
  BY <1>2 DEF RecvDequeue
<1>5. status[p] # "none"
  BY <1>1, <1>2, <1>4 DEF Serving, Receiving, Items, Open
<1>6. \A q \in Peer : ~InHand(q) /\ (q # p => ~InHand(q)')
  BY <1>2, <1>4 DEF InHand
<1>7. \A q \in Peer \ {p} : rcvbuf'[q] = rcvbuf[q]
  BY <1>1, <1>3 DEF TyRings
<1>8. \A q \in Peer \ {p} : Apart(q)
  BY <1>4, <1>6, <1>7 DEF Apart
<1>9. PICK r \in Seq(Seq(Nat)) : r = rcvbuf[p] /\ r # <<>>
  BY <1>1, <1>4 DEF TyRings
<1>10. PICK z : z = Head(r)
  OBVIOUS
<1>11. rcvbuf'[p] = Tail(r) /\ buff' = z /\ spc' = (IF z = <<>> THEN "del" ELSE "send")
  BY <1>1, <1>3, <1>9, <1>10 DEF TyRings
<1>12. ASSUME Life(p) PROVE Life(p)'
  <2>1. PICK a \in Nat, b \in Nat :
          Runs(Datas(sndbuf[p]), Len(wire[p]), a) /\ Runs(r, b, rcvd[p]) /\ a = b
    BY <1>5, <1>6, <1>9, <1>12 DEF Life, Chain
  <2>2. PICK n \in Nat : n = rcvd[p]
    BY <1>1 DEF TyList
  <2>3. PICK c \in Nat : b <= c /\ z = Run(b, c) /\ Runs(Tail(r), c, n)
    <3>1. Runs(r, b, n)
      BY <2>1, <2>2
    <3> QED BY <1>9, <1>10, <3>1, RunsTail
  <2>4. CASE z = <<>>
    <3>1. b = c
      BY <2>3, <2>4, RunsEmpty
    <3>2. ~InHand(p)'
      BY <1>11, <2>4 DEF InHand
    <3>3. Runs(Datas(sndbuf'[p]), Len(wire'[p]), a) /\ Runs(rcvbuf'[p], b, rcvd'[p])
      BY <1>4, <1>11, <2>1, <2>2, <2>3, <3>1
    <3>4. Chain(p)'
      BY <2>1, <3>2, <3>3 DEF Chain
    <3> QED BY <1>4, <1>12, <3>4 DEF Life
  <2>5. CASE z # <<>>
    <3>1. InHand(p)'
      BY <1>2, <1>4, <1>11, <2>5 DEF InHand
    <3>2. Runs(Datas(sndbuf'[p]), Len(wire'[p]), b) /\ Runs(rcvbuf'[p], c, rcvd'[p]) /\ buff' = Run(b, c)
      BY <1>4, <1>11, <2>1, <2>2, <2>3
    <3>3. Chain(p)'
      BY <2>3, <3>1, <3>2 DEF Chain
    <3> QED BY <1>4, <1>12, <3>3 DEF Life
  <2> QED BY <2>4, <2>5
<1> QED BY <1>1, <1>8, <1>12, OthersLive DEF Lives

(* nsend queues the bytes behind the others, nclose the FIN.                *)
LEMMA QueueLives ==
  ASSUME TypeOK, Places, Core, Straight, Straight', Send \/ CloseFind
  PROVE  Lives'
<1> USE DEF streams, epoll, packet, srv, history
<1>1. TyList /\ TyRings /\ Lives /\ Lists /\ Serving /\ Items
  BY TypeGroups DEF Core
<1>2. PICK p \in Peer : p = conn[ev] /\ status[p] # "none"
  BY <1>1 DEF Serving, Items, Open, Send, CloseFind
<1>3. PICK z : z = IF spc = "send" THEN Fragment("psh", buff) ELSE Fragment("fin", <<>>)
  OBVIOUS
<1>4. /\ z \in Fragments
      /\ spc = "send" => z.data = buff
      /\ spc # "send" => z.data = <<>>
  BY <1>1, <1>3, EmptySeq DEF Fragment, Fragments, TyRings
<1>5. /\ sndbuf' = Enqueue(sndbuf, p, z) /\ UNCHANGED <<status, rcvbuf, wire, rcvd>>
      /\ spc \in {"send", "close"} /\ spc' \in {"serve", "lastack"} /\ (spc = "send" => cur = p)
  BY <1>1, <1>2, <1>3, StraightCalls DEF Send, CloseFind, Done, Goto, Serving
<1>6. PICK s \in Seq(Fragments) : s = sndbuf[p]
  BY <1>1 DEF TyRings
<1>7. PICK t : t = Append(s, z)
  OBVIOUS
<1>8. sndbuf'[p] = t /\ \A q \in Peer \ {p} : sndbuf'[q] = sndbuf[q]
  BY <1>1, <1>5, <1>6, <1>7 DEF TyRings, Enqueue
<1>9. \A q \in Peer : ~InHand(q)' /\ (InHand(q) <=> spc = "send" /\ q = p)
  BY <1>5 DEF InHand
<1>10. \A q \in Peer \ {p} : Apart(q)
  BY <1>5, <1>8, <1>9 DEF Apart
<1>11. ASSUME Life(p) PROVE Life(p)'
  <2>1. PICK a \in Nat, b \in Nat :
          /\ Runs(Datas(s), Len(wire[p]), a) /\ Runs(rcvbuf[p], b, rcvd[p])
          /\ a <= b /\ (InHand(p) => buff = Run(a, b)) /\ (~InHand(p) => a = b)
    BY <1>2, <1>6, <1>11 DEF Life, Chain
  <2>2. z.data = Run(a, b) /\ z.data \in Seq(Nat)
    <3>1. CASE spc = "send"
      BY <1>4, <1>9, <2>1, <3>1 DEF Fragments
    <3>2. CASE spc # "send"
      <4>1. a = b /\ z.data = <<>>
        BY <1>4, <1>9, <2>1, <3>2
      <4>2. Run(a, a) = <<>>
        BY DEF Run
      <4> QED BY <1>4, <4>1, <4>2 DEF Fragments
    <3> QED BY <3>1, <3>2
  <2>3. Runs(Datas(t), Len(wire[p]), b)
    <3>1. PICK m \in Nat : m = Len(wire[p])
      BY <1>1, LenProperties DEF TyList
    <3>2. Datas(s) \in Seq(Seq(Nat)) /\ Datas(t) = Append(Datas(s), z.data)
      BY <1>4, <1>7, DatasAre
    <3>3. Runs(Datas(s), m, a)
      BY <2>1, <3>1
    <3>4. Runs(Append(Datas(s), z.data), m, b)
      BY <2>1, <2>2, <3>2, <3>3, RunsAppend
    <3> QED BY <3>1, <3>2, <3>4
  <2>4. Runs(Datas(sndbuf'[p]), Len(wire'[p]), b) /\ Runs(rcvbuf'[p], b, rcvd'[p])
    BY <1>5, <1>8, <2>1, <2>3
  <2>5. Chain(p)'
    BY <1>9, <2>4 DEF Chain
  <2> QED BY <1>5, <1>11, <2>5 DEF Life
<1> QED BY <1>1, <1>10, <1>11, OthersLive DEF Lives

(* Every step keeps the lives of the streams. *)
LEMMA LivesKept ==
  ASSUME TypeOK, Places, Core, Straight, Straight', [Next]_vars
  PROVE  Lives'
<1> USE DEF streams, epoll, packet, srv, history
<1>0. /\ TyList /\ Lives /\ Serving
      /\ spc \in {"assign", "dequeue", "lastack"} => cur \in Peer
      /\ tpc \in {"data", "datafin", "fin", "finpost"} => tstream \in Peer
  BY TypeGroups DEF Core, Places
<1>1. ASSUME UNCHANGED <<status, sndbuf, rcvbuf, wire, rcvd>>,
             \/ UNCHANGED <<spc, cur, buff>>
             \/ spc # "send" /\ spc' # "send"
      PROVE  Lives'
  BY <1>0, <1>1, AllApart DEF Apart, InHand
<1>2. CASE UNCHANGED vars
  BY <1>1, <1>2 DEF vars
<1>3. ASSUME NEW p \in Peer, TcpSyn(p) \/ TcpLastAck(p) PROVE Lives'
  BY <1>3, EndsLive
<1>4. ASSUME NEW p \in Peer, TcpEstablish(p) PROVE Lives'
  <2>1. \A q \in Peer : status'[q] = "none" <=> status[q] = "none"
    BY <1>0, <1>4 DEF TcpEstablish, TyList
  <2>2. \A q \in Peer : InHand(q)' <=> InHand(q)
    BY <1>4 DEF TcpEstablish, InHand
  <2>3. UNCHANGED <<sndbuf, rcvbuf, wire, rcvd, buff>>
    BY <1>4 DEF TcpEstablish
  <2> QED BY <1>0, <2>1, <2>2, <2>3, AllApart DEF Apart
<1>5. ASSUME NEW p \in Peer, (\E n \in 1..MSS, fin \in BOOLEAN : TcpData(p, n, fin)) \/ TcpFin(p) PROVE Lives'
  BY <1>5, SegmentLives
<1>6. CASE TcpDataFin
  <2>1. tstream \in Peer
    BY <1>0, <1>6 DEF TcpDataFin
  <2> QED BY <1>6, <2>1, SegmentLives
<1>7. ASSUME NEW p \in Peer, TcpOut(p) PROVE Lives'
  BY <1>7, OutLives
<1>8. CASE TcpPostListener \/ TcpPostData \/ TcpPostFin
  BY <1>1, <1>8 DEF TcpPostListener, TcpPostData, TcpPostFin
<1>9. ASSUME NEW i \in Item, WaitTake(i) \/ Serve(i) PROVE Lives'
  BY <1>1, <1>9 DEF WaitTake, Serve, Goto
<1>10. CASE \/ WaitReturn \/ WaitAgain \/ AcceptFindListener \/ AcceptFindStream \/ AcceptAssign \/ Add
            \/ RecvFind \/ Del
  <2>1. UNCHANGED <<status, sndbuf, rcvbuf, wire, rcvd>> /\ spc # "send"
    BY <1>10 DEF WaitReturn, WaitAgain, AcceptFindListener, AcceptFindStream, AcceptAssign, Add, RecvFind, Del
  <2>2. spc' # "send"
    BY <1>10 DEF WaitReturn, WaitAgain, AcceptFindListener, AcceptFindStream, AcceptAssign, Add, RecvFind, Del,
       Goto, Done
  <2> QED BY <1>1, <2>1, <2>2
<1>11. CASE RecvDequeue \/ Send \/ CloseFind
  BY <1>11, RecvLives, QueueLives
<1>12. CASE CloseStatus
  <2>1. /\ cur \in Peer /\ status[cur] # "none" /\ spc = "lastack" /\ spc' = "serve"
        /\ status' = [status EXCEPT ![cur] = "LAST_ACK"] /\ UNCHANGED <<sndbuf, rcvbuf, wire, rcvd>>
    BY <1>0, <1>12 DEF CloseStatus, Serving, Ending, Done, Goto
  <2>2. \A q \in Peer : status'[q] = "none" <=> status[q] = "none"
    BY <1>0, <2>1 DEF TyList
  <2>3. \A q \in Peer : ~InHand(q) /\ ~InHand(q)'
    BY <2>1 DEF InHand
  <2> QED BY <1>0, <2>1, <2>2, <2>3, AllApart DEF Apart
<1> QED BY <1>2, <1>3, <1>4, <1>5, <1>6, <1>7, <1>8, <1>9, <1>10, <1>11, <1>12
        DEF Next, PacketArrives, PacketStep, ServerStep

-----------------------------------------------------------------------------
(* The theorems *)

(* The threads start with no connection and the listener registered. *)
LEMMA IInvInit == Init => IInv
<1> SUFFICES ASSUME Init PROVE IInv
  OBVIOUS
<1> USE DEF listenfd, Unused, ListenItem
<1>0. /\ <<>> \in Seq(Nat) /\ <<>> \in Seq(Seq(Nat)) /\ <<>> \in Seq(Fragments) /\ <<>> \in Seq(Peer) /\ Len(<<>>) = 0
      /\ 0 \in Item /\ MaxFd \in Nat /\ MaxSegs \in Nat
  BY EmptySeq, Smalls
<1>1. TyList
  BY <1>0 DEF Init, TyList
<1>2. TyFds
  BY <1>0 DEF Init, TyFds
<1>3. TyRings
  BY <1>0 DEF Init, TyRings
<1>4. TyEpoll
  BY <1>0 DEF Init, TyEpoll
<1>5. TySteps /\ Places
  BY DEF Init, TySteps, Places, Step
<1>6. Lists
  BY <1>0 DEF Init, Lists, Listed
<1>7. Owners
  <2>1. \A p \in Peer : ~Open(p)
    BY DEF Init, Open
  <2>2. \A p \in Peer : status[p] = "none" /\ fd[p] = -1
    BY DEF Init
  <2>3. fd_table = {}
    BY DEF Init
  <2> QED BY <2>1, <2>2, <2>3 DEF Owners
<1>8. Items
  <2>1. registered = {0} /\ known = {0} /\ ready = {} /\ handed = {} /\ todo = {} /\ spc = "wait"
    BY DEF Init
  <2>2. itemfd[0] = 0 /\ conn[0] = NoPeer
    BY <1>0 DEF Init
  <2> QED BY <2>1, <2>2 DEF Items, Queue
<1>9. Serving /\ Readings
  BY DEF Init, Serving, Receiving, Ending, Readings, Reading
<1>10. Events
  <2>1. \A p \in Peer : rcvbuf[p] = <<>> /\ ~Ready(p) /\ ~Queued(p) /\ ~Served(p) /\ ~Posting(p)
    BY DEF Init, Ready, Queued, Queue, Served, Receiving, Posting
  <2> QED BY <1>0, <2>1 DEF Events, Event, Count
<1>11. Accepts
  <2>1. Early = {} /\ Waiting = {}
    BY DEF Init, Early, Waiting
  <2>2. Cardinality(Early) = 0 /\ Cardinality(Waiting) = 0
    BY <2>1, FS_EmptySet
  <2>3. 0 \notin ready /\ 0 \notin Queue /\ ~Accepting /\ tpc # "listener" /\ spc # "acceptwait"
    BY DEF Init, Queue, Accepting
  <2> QED BY <2>2, <2>3 DEF Accepts, Accept, Count
<1>12. Lives
  BY <1>0 DEF Init, Lives, Life
<1> QED BY <1>1, <1>2, <1>3, <1>4, <1>5, <1>6, <1>7, <1>8, <1>9, <1>10, <1>11, <1>12, TypeGroups DEF IInv, Core

(* The invariant is inductive: a step that leaves every call right follows  *)
(* one that left it right.                                                  *)
LEMMA IInvKept == IInv /\ [Next]_vars => IInv'
<1> SUFFICES ASSUME IInv, [Next]_vars PROVE IInv'
  OBVIOUS
<1>1. TypeOK /\ Places /\ TypeOK' /\ Places'
  BY Typed DEF IInv
<1>2. ASSUME Straight' PROVE Core'
  <2>1. Straight /\ Core
    BY <1>2, StaysStraight DEF IInv
  <2>2. Lists' /\ Owners' /\ Items' /\ Serving' /\ Readings'
    BY <1>1, <1>2, <2>1, ListsKept, OwnersKept, ItemsKept, ServingKept, ReadingsKept
  <2>3. Events' /\ Accepts' /\ Lives'
    BY <1>1, <1>2, <2>1, EventsKept, AcceptsKept, LivesKept
  <2> QED BY <2>2, <2>3 DEF Core
<1> QED BY <1>1, <1>2 DEF IInv

LEMMA IInvHolds == Spec => []IInv
  BY IInvInit, IInvKept, PTL DEF Spec

(* For any number of connections, the server thread never waits inside      *)
(* nrecv or naccept: the fragment, or the stream, an event announced is     *)
(* there.                                                                   *)
THEOREM NeverWaits == Spec => []ServerNeverWaits
<1>1. IInv => RecvNeverWaits
  <2> SUFFICES ASSUME IInv, Straight, spc = "dequeue" PROVE rcvbuf[cur] # <<>>
    BY DEF RecvNeverWaits
  <2>1. cur \in Peer /\ cur = conn[ev]
    BY DEF IInv, Core, Places, Serving
  <2>2. PICK p \in Peer : p = cur /\ Served(p)
    BY <2>1 DEF Served, Receiving
  <2>3. Event(p)
    BY DEF IInv, Core, Events
  <2>4. PICK a \in Nat, b \in Nat, c \in Nat :
          a = Count(Ready(p)) /\ b = Count(Queued(p)) /\ c = Count(Posting(p)) /\ Count(Served(p)) = 1
    BY <2>2 DEF Count
  <2>5. a + b + 1 + c <= Len(rcvbuf[p])
    BY <2>3, <2>4 DEF Event
  <2>6. Len(rcvbuf[p]) # 0
    <3>1. rcvbuf[p] \in Seq(Seq(Nat))
      BY TypeGroups DEF IInv, TyRings
    <3>2. PICK l \in Nat : l = Len(rcvbuf[p])
      BY <3>1, LenProperties
    <3> QED BY <2>5, <3>2
  <2> QED BY <2>2, <2>6
<1>2. IInv => AcceptNeverWaits
  BY DEF IInv, Core, Accepts, AcceptNeverWaits
<1> QED BY <1>1, <1>2, IInvHolds, PTL DEF ServerNeverWaits

(* Every open connection has a descriptor of its own, and the bitmap holds  *)
(* those descriptors and no others.                                         *)
THEOREM OwnDescriptors == Spec => []FdsOwned
<1>1. IInv => FdsOwned
  BY DEF IInv, Core, Owners, FdsOwned
<1> QED BY <1>1, IInvHolds, PTL

(* Every peer gets back what it sent, in order and without a gap, however   *)
(* many segments, of whatever sizes, are on their way.                      *)
THEOREM EchoesInOrder == Spec => []EchoInOrder
<1>1. IInv => EchoInOrder
  BY DEF IInv, Core, Lives, Life, EchoInOrder
<1> QED BY <1>1, IInvHolds, PTL

(* An epitem is freed when no event of it is pending, and a connection      *)
(* closed when all that arrived has been read.                              *)
THEOREM Closes == Spec => ClosesCleanly
<1>1. IInv => (Straight /\ Del => {i \in registered : itemfd[i] = itemfd[ev]} \cap ready = {})
  <2> SUFFICES ASSUME IInv, Straight, Del PROVE {i \in registered : itemfd[i] = itemfd[ev]} \cap ready = {}
    OBVIOUS
  <2>1. TypeOK /\ Core /\ spc = "del"
    BY DEF IInv, Del
  <2> QED BY <2>1, NothingPending
<1>2. IInv => (Straight /\ CloseStatus => status[cur] = "CLOSE_WAIT" /\ rcvbuf[cur] = <<>>)
  <2> SUFFICES ASSUME IInv, Straight, CloseStatus PROVE status[cur] = "CLOSE_WAIT" /\ rcvbuf[cur] = <<>>
    OBVIOUS
  <2>1. cur \in Peer /\ cur = conn[ev] /\ Ending /\ Serving /\ Readings
    BY DEF IInv, Core, Places, CloseStatus, Serving, Ending
  <2>2. status[cur] = "CLOSE_WAIT" /\ AtEnd(cur) /\ Reading(cur)
    BY <2>1 DEF Serving, AtEnd, Readings
  <2> QED BY <2>2 DEF Reading
<1>3. [] IInv => DelNeverReady
  BY <1>1, PTL DEF DelNeverReady
<1>4. [] IInv => ClosedAfterAll
  BY <1>2, PTL DEF ClosedAfterAll
<1> QED BY <1>3, <1>4, IInvHolds, PTL DEF ClosesCleanly

-----------------------------------------------------------------------------
(* The epoll the server waits on.  TcpServer uses it as an event set; it is *)
(* proved here, for any number of sockets, items and events per wait, that  *)
(* its two threads implement one.                                           *)

\* nepoll_create establishes the inductive invariant.
LEMMA EpollInit == EpollConstants /\ Poll!Init => Poll!IInv
BY DEF EpollConstants, Poll!Init, Poll!IInv, Poll!TypeOK, Poll!LockOwners, Poll!FlagsAccounted, Poll!CounterAccounted,
       Poll!ItemsBuilt, Poll!SleepCovered, Poll!InList

\* Every step of either thread preserves the inductive invariant.
LEMMA EpollStep == EpollConstants /\ Poll!IInv /\ [Poll!Next]_Poll!vars => Poll!IInv'
<1> SUFFICES ASSUME EpollConstants, Poll!IInv, [Poll!Next]_Poll!vars PROVE Poll!IInv'
  OBVIOUS
<1> USE DEF EpollConstants, Poll!IInv, Poll!TypeOK, Poll!LockOwners, Poll!FlagsAccounted, Poll!CounterAccounted, Poll!ItemsBuilt,
        Poll!SleepCovered, Poll!InList, Poll!tree, Poll!ready, Poll!cbvars, Poll!locals
<1>1. ASSUME NEW f \in Fd, Poll!CallbackFind(f) PROVE Poll!IInv'
  BY <1>1 DEF Poll!CallbackFind, Poll!CallbackGoto, Poll!Registered, Poll!TreeInFlux
<1>2. ASSUME NEW f \in Fd, Poll!CallbackMiss(f) PROVE Poll!IInv'
  BY <1>2 DEF Poll!CallbackMiss, Poll!CallbackGoto
<1>3. CASE Poll!CallbackMerge
  BY <1>3 DEF Poll!CallbackMerge, Poll!CallbackGoto
<1>4. CASE Poll!CallbackNotReady
  BY <1>4 DEF Poll!CallbackNotReady, Poll!CallbackGoto
<1>5. CASE Poll!CallbackLock
  BY <1>5 DEF Poll!CallbackLock, Poll!CallbackGoto
<1>6. CASE Poll!CallbackSetRdy
  BY <1>6 DEF Poll!CallbackSetRdy, Poll!CallbackGoto
<1>7. CASE Poll!CallbackLink
  <2>1. /\ cbpc = "link" /\ cbpc' = "count" /\ rdlist' = <<cbitem>> \o rdlist
        /\ UNCHANGED <<Poll!tree, Poll!locals, cbitem, cbret, rdy, rdnum, lock, cdmtx, wpc>>
    BY <1>7 DEF Poll!CallbackLink, Poll!CallbackGoto
  <2>2. /\ rdlist' \in Seq(EpItem) /\ Len(rdlist') = Len(rdlist) + 1 /\ rdlist'[1] = cbitem
        /\ \A k \in 1 .. Len(rdlist) : rdlist'[k + 1] = rdlist[k]
        /\ \A k \in 2 .. Len(rdlist) + 1 : rdlist'[k] = rdlist[k - 1]
    BY <2>1
  <2>3. \A i \in EpItem : Poll!InList(i)' <=> Poll!InList(i) \/ i = cbitem
    BY <2>1, <2>2
  <2>4. Poll!TypeOK' /\ Poll!LockOwners'
    BY <2>1, <2>2
  <2>5. Poll!FlagsAccounted'
    BY <2>1, <2>3
  <2>6. Poll!CounterAccounted'
    <3>1. ~Poll!InList(cbitem)
      BY <2>1
    <3>2. \A j, k \in 1 .. Len(rdlist') : rdlist'[j] = rdlist'[k] => j = k
      <4> SUFFICES ASSUME NEW j \in 1 .. Len(rdlist'), NEW k \in 1 .. Len(rdlist'),
                          rdlist'[j] = rdlist'[k], j < k
                   PROVE  FALSE
        BY <2>2
      <4>1. k - 1 \in 1 .. Len(rdlist) /\ rdlist'[k] = rdlist[k - 1]
        BY <2>2
      <4>2. CASE j = 1
        BY <2>2, <3>1, <4>1, <4>2
      <4>3. CASE j # 1
        <5>1. j - 1 \in 1 .. Len(rdlist) /\ rdlist'[j] = rdlist[j - 1]
          BY <2>2, <4>3
        <5> QED BY <4>1, <5>1
      <4> QED BY <4>2, <4>3
    <3> QED BY <2>1, <2>2, <3>2
  <2>7. Poll!ItemsBuilt' /\ Poll!SleepCovered'
    BY <2>1
  <2> QED BY <2>4, <2>5, <2>6, <2>7
<1>8. CASE Poll!CallbackCount
  BY <1>8 DEF Poll!CallbackCount, Poll!CallbackGoto
<1>9. CASE Poll!CallbackUnlock
  BY <1>9 DEF Poll!CallbackUnlock, Poll!CallbackGoto
<1>10. CASE Poll!CallbackCdLock
  BY <1>10 DEF Poll!CallbackCdLock, Poll!CallbackGoto
<1>11. CASE Poll!CallbackSignal
  BY <1>11 DEF Poll!CallbackSignal, Poll!CallbackGoto
<1>12. ASSUME NEW f \in Fd, Poll!CtlAdd(f) PROVE Poll!IInv'
  BY <1>12 DEF Poll!CtlAdd, Poll!ServerGoto
<1>13. ASSUME NEW f \in Fd, Poll!CtlDel(f) PROVE Poll!IInv'
  BY <1>13 DEF Poll!CtlDel, Poll!ServerGoto, Poll!Registered
<1>14. CASE Poll!CtlAddDone
  BY <1>14 DEF Poll!CtlAddDone, Poll!ServerGoto
<1>15. CASE Poll!CtlDelDone
  BY <1>15 DEF Poll!CtlDelDone, Poll!ServerGoto
<1>16. ASSUME NEW t \in {"zero", "finite", "forever"}, Poll!Wait(t) PROVE Poll!IInv'
  BY <1>16 DEF Poll!Wait, Poll!ServerGoto
<1>17. CASE Poll!WaitDecide \/ Poll!WaitBlock
  <2>1. CASE Poll!WaitDecide
    BY <2>1 DEF Poll!WaitDecide, Poll!ServerGoto
  <2>2. CASE Poll!WaitBlock
    BY <2>2 DEF Poll!WaitBlock, Poll!ServerGoto
  <2> QED BY <1>17, <2>1, <2>2
<1>18. CASE Poll!WaitReady
  BY <1>18 DEF Poll!WaitReady, Poll!ServerGoto
<1>19. CASE Poll!WaitTimeout
  BY <1>19 DEF Poll!WaitTimeout, Poll!ServerGoto
<1>20. CASE Poll!WaitSpurious
  BY <1>20 DEF Poll!WaitSpurious, Poll!ServerGoto
<1>21. CASE Poll!WaitRelock
  BY <1>21 DEF Poll!WaitRelock, Poll!ServerGoto
<1>22. CASE Poll!WaitLock
  BY <1>22 DEF Poll!WaitLock, Poll!ServerGoto
<1>23. CASE Poll!WaitPop
  <2>1. /\ wpc = "pop" /\ wpc' = "clear" /\ num # 0 /\ rdlist # <<>>
        /\ sitem' = Head(rdlist) /\ rdlist' = Tail(rdlist)
        /\ UNCHANGED <<Poll!tree, Poll!cbvars, rdy, rdnum, lock, cdmtx, timeout, num, events>>
    BY <1>23 DEF Poll!WaitPop, Poll!ServerGoto
  <2>2. /\ sitem' \in EpItem /\ sitem' = rdlist[1] /\ Len(rdlist) >= 1
        /\ rdlist' \in Seq(EpItem) /\ Len(rdlist') = Len(rdlist) - 1
        /\ \A k \in 1 .. Len(rdlist) - 1 : rdlist'[k] = rdlist[k + 1]
    BY <2>1
  <2>3. \A i \in EpItem : Poll!InList(i)' <=> Poll!InList(i) /\ i # sitem'
    <3> SUFFICES ASSUME NEW i \in EpItem PROVE Poll!InList(i)' <=> Poll!InList(i) /\ i # sitem'
      OBVIOUS
    <3>1. ASSUME Poll!InList(i)' PROVE Poll!InList(i) /\ i # sitem'
      BY <2>2, <3>1
    <3>2. ASSUME Poll!InList(i), i # sitem' PROVE Poll!InList(i)'
      <4>1. PICK k \in 1 .. Len(rdlist) : rdlist[k] = i
        BY <3>2
      <4>2. k - 1 \in 1 .. Len(rdlist') /\ rdlist'[k - 1] = i
        BY <2>2, <3>2, <4>1
      <4> QED BY <4>2
    <3> QED BY <3>1, <3>2
  <2>4. Poll!TypeOK' /\ Poll!LockOwners'
    BY <2>1, <2>2
  <2>5. Poll!FlagsAccounted'
    <3>1. Poll!InList(sitem')
      <4>1. 1 \in 1 .. Len(rdlist) /\ rdlist[1] = sitem'
        BY <2>2
      <4> QED BY <4>1
    <3>2. cbpc # "link" /\ rdy[sitem']
      BY <2>1, <2>2, <3>1
    <3> HIDE DEF Poll!InList
    <3> QED BY <2>1, <2>2, <2>3, <3>1, <3>2
  <2>6. Poll!CounterAccounted'
    <3>1. \A j, k \in 1 .. Len(rdlist') : rdlist'[j] = rdlist'[k] => j = k
      <4> SUFFICES ASSUME NEW j \in 1 .. Len(rdlist'), NEW k \in 1 .. Len(rdlist'),
                          rdlist'[j] = rdlist'[k]
                   PROVE  j = k
        OBVIOUS
      <4>0. \A m, n \in 1 .. Len(rdlist) : rdlist[m] = rdlist[n] => m = n
        OBVIOUS
      <4> HIDE DEF Poll!IInv
      <4>1. /\ j + 1 \in 1 .. Len(rdlist) /\ rdlist'[j] = rdlist[j + 1]
            /\ k + 1 \in 1 .. Len(rdlist) /\ rdlist'[k] = rdlist[k + 1]
        BY <2>2
      <4>2. j + 1 = k + 1
        BY <4>0, <4>1
      <4>3. j \in Int /\ k \in Int
        OBVIOUS
      <4> QED BY <4>2, <4>3
    <3>2. lock = "srv" /\ cbpc # "count"
      BY <2>1
    <3>3. rdnum' = Len(rdlist') + 1 /\ num' > 0
      BY <2>1, <2>2, <3>2
    <3> QED BY <2>1, <3>1, <3>2, <3>3
  <2>7. Poll!ItemsBuilt' /\ Poll!SleepCovered'
    BY <2>1
  <2> QED BY <2>4, <2>5, <2>6, <2>7
<1>24. CASE Poll!WaitClear
  BY <1>24 DEF Poll!WaitClear, Poll!ServerGoto
<1>25. CASE Poll!WaitCount
  BY <1>25 DEF Poll!WaitCount, Poll!ServerGoto
<1>26. CASE Poll!WaitReturn
  BY <1>26 DEF Poll!WaitReturn, Poll!ServerGoto
<1>27. CASE UNCHANGED Poll!vars
  <2>1. Poll!TypeOK'
    BY <1>27 DEF Poll!vars
  <2>2. Poll!LockOwners' /\ Poll!SleepCovered'
    BY <1>27 DEF Poll!vars
  <2>3. Poll!FlagsAccounted' /\ Poll!ItemsBuilt'
    BY <1>27 DEF Poll!vars
  <2>4. Poll!CounterAccounted'
    BY <1>27 DEF Poll!vars
  <2> QED BY <2>1, <2>2, <2>3, <2>4
<1> QED
  BY <1>1, <1>2, <1>3, <1>4, <1>5, <1>6, <1>7, <1>8, <1>9, <1>10, <1>11, <1>12, <1>13, <1>14, <1>15, <1>16,
     <1>17, <1>18, <1>19, <1>20, <1>21, <1>22, <1>23, <1>24, <1>25, <1>26, <1>27
  DEF Poll!Next, Poll!CallbackStep, Poll!WaitStep, Poll!CtlStep

\* The inductive invariant holds in every reachable state.
THEOREM EpollInvariant == EpollSpec => []Poll!IInv
<1>1. Poll!Init => Poll!IInv
  BY EpollInit, EpollAssumption
<1>2. Poll!IInv /\ [Poll!Next]_Poll!vars => Poll!IInv'
  BY EpollStep, EpollAssumption
<1> QED BY <1>1, <1>2, PTL DEF EpollSpec, Poll!Spec

\* Type correctness of both threads and of the shared structure.
THEOREM PollTyped == EpollSpec => []Poll!TypeOK
<1>1. Poll!IInv => Poll!TypeOK
  BY DEF Poll!IInv
<1> QED BY <1>1, EpollInvariant, PTL

\* "int rdy; //exist in list" is true whenever the spin lock is free.
THEOREM FlagMatchesList == EpollSpec => []Poll!RdyIsInList
<1>1. Poll!IInv => Poll!RdyIsInList
  BY DEF Poll!IInv, Poll!RdyIsInList, Poll!LockOwners, Poll!FlagsAccounted
<1> QED BY <1>1, EpollInvariant, PTL

\* rdnum is the length of a duplicate-free list whenever the spin lock is free.
THEOREM CounterMatchesList == EpollSpec => []Poll!RdnumIsLength
<1>1. Poll!IInv => Poll!RdnumIsLength
  BY DEF Poll!IInv, Poll!RdnumIsLength, Poll!LockOwners, Poll!CounterAccounted, Poll!TypeOK
<1> QED BY <1>1, EpollInvariant, PTL

\* Flag, list and counter agree whenever the spin lock is free: epoll_event_callback
\* and nepoll_wait leave no half-made change behind.
THEOREM StructureSafe == EpollSpec => []Structure
<1>1. Poll!TypeOK /\ Poll!RdyIsInList /\ Poll!RdnumIsLength => Structure
  BY DEF Structure, Poll!Structure
<1> QED BY <1>1, PollTyped, FlagMatchesList, CounterMatchesList, PTL

\* The server never sleeps through a queued event.
THEOREM WakeupSafe == EpollSpec => []NoLostWakeup
<1>1. Poll!IInv => NoLostWakeup
  BY DEF Poll!IInv, Poll!SleepCovered, Poll!NoLostWakeup, NoLostWakeup
<1> QED BY <1>1, EpollInvariant, PTL

\* A merged event is always merged into one that is still to be handed out.
THEOREM MergeSafe == EpollSpec => Poll!MergedIsPending
<1>1. Poll!IInv => [Poll!CallbackMerge => Poll!InList(cbitem) \/ (wpc = "clear" /\ sitem = cbitem)]_Poll!vars
  BY DEF Poll!IInv, Poll!TypeOK, Poll!FlagsAccounted, Poll!CallbackMerge, Poll!CallbackGoto
<1> QED BY <1>1, EpollInvariant, PTL DEF Poll!MergedIsPending

-----------------------------------------------------------------------------
\* nepoll_create starts with nothing registered, ready or handed out.
LEMMA EpollInitRefines == EpollConstants /\ Poll!Init => Poll!ES!Init
BY DEF Poll!Init, Poll!ES!Init

\* Every step of either thread is a step of the abstract event set or leaves
\* it alone: adding counts when the item is built, removing when it is
\* unlinked, posting and handing out when the flag is written.
LEMMA EpollStepRefines == EpollConstants /\ Poll!IInv /\ [Poll!Next]_Poll!vars => [Poll!ES!Next]_Poll!ES!svars
<1> SUFFICES ASSUME EpollConstants, Poll!IInv, [Poll!Next]_Poll!vars PROVE [Poll!ES!Next]_Poll!ES!svars
  OBVIOUS
<1> USE DEF Poll!tree, Poll!ready, Poll!cbvars, Poll!locals, Poll!ServerGoto, Poll!CallbackGoto
<1>1. ASSUME UNCHANGED <<Poll!tree, rdy, events>>, wpc # "inserting", wpc' # "inserting"
      PROVE  UNCHANGED Poll!ES!svars
  BY <1>1 DEF Poll!ES!svars
<1>2. ASSUME UNCHANGED <<Poll!tree, rdy, events, wpc, sitem>>
      PROVE  UNCHANGED Poll!ES!svars
  BY <1>2 DEF Poll!ES!svars
<1>3. ASSUME NEW f \in Fd, Poll!CallbackFind(f) \/ Poll!CallbackMiss(f) PROVE UNCHANGED Poll!ES!svars
  BY <1>2, <1>3 DEF Poll!CallbackFind, Poll!CallbackMiss
<1>4. CASE \/ Poll!CallbackMerge \/ Poll!CallbackNotReady \/ Poll!CallbackLock \/ Poll!CallbackLink
           \/ Poll!CallbackCount \/ Poll!CallbackUnlock \/ Poll!CallbackCdLock
  BY <1>2, <1>4 DEF Poll!CallbackMerge, Poll!CallbackNotReady, Poll!CallbackLock, Poll!CallbackLink,
                    Poll!CallbackCount, Poll!CallbackUnlock, Poll!CallbackCdLock
<1>5. CASE Poll!CallbackSetRdy
  <2>1. cbitem \in EpItem /\ sockfd[cbitem] # NoFd /\ ~rdy[cbitem]
    BY <1>5 DEF Poll!CallbackSetRdy, Poll!IInv, Poll!TypeOK, Poll!FlagsAccounted, Poll!ItemsBuilt
  <2>2. {i \in EpItem : rdy'[i]} = {i \in EpItem : rdy[i]} \cup {cbitem}
    BY <1>5, <2>1 DEF Poll!CallbackSetRdy, Poll!IInv, Poll!TypeOK
  <2>3. PICK i \in EpItem : i = cbitem
    BY <2>1
  <2>4. Poll!ES!Post(i)
    BY <1>5, <2>1, <2>2, <2>3 DEF Poll!CallbackSetRdy, Poll!ES!Post
  <2> QED BY <2>4 DEF Poll!ES!Next
<1>6. CASE Poll!CallbackSignal
  <2>1. CASE wpc = "inserting"
    BY <1>2, <1>6, <2>1 DEF Poll!CallbackSignal
  <2>2. CASE wpc # "inserting"
    BY <1>1, <1>6, <2>2 DEF Poll!CallbackSignal
  <2> QED BY <2>1, <2>2
<1>7. ASSUME NEW f \in Fd, Poll!CtlAdd(f) PROVE Poll!ES!Next
  <2>1. PICK i \in EpItem : sockfd[i] = NoFd /\ sockfd' = [sockfd EXCEPT ![i] = f] /\ sitem' = i
    BY <1>7 DEF Poll!CtlAdd
  <2>2. {j \in EpItem : sockfd'[j] # NoFd} = {j \in EpItem : sockfd[j] # NoFd} \cup {i}
    BY <2>1 DEF EpollConstants, Poll!IInv, Poll!TypeOK
  <2>3. Poll!ES!Register(i)
    BY <1>7, <2>1, <2>2 DEF Poll!CtlAdd, Poll!ES!Register
  <2> QED BY <2>3 DEF Poll!ES!Next
<1>8. CASE Poll!CtlAddDone
  BY <1>8 DEF Poll!CtlAddDone, Poll!ES!svars
<1>9. ASSUME NEW f \in Fd, Poll!CtlDel(f) PROVE UNCHANGED Poll!ES!svars
  BY <1>1, <1>9 DEF Poll!CtlDel
<1>10. CASE Poll!CtlDelDone
  <2>1. sitem \in rbr /\ sitem \in EpItem
    BY <1>10 DEF Poll!CtlDelDone, Poll!IInv, Poll!ItemsBuilt, Poll!TypeOK
  <2>2. PICK i \in EpItem : i = sitem
    BY <2>1
  <2>3. Poll!ES!Unregister(i)
    BY <1>10, <2>1, <2>2 DEF Poll!CtlDelDone, Poll!ES!Unregister
  <2> QED BY <2>3 DEF Poll!ES!Next
<1>11. ASSUME NEW t \in {"zero", "finite", "forever"}, Poll!Wait(t) PROVE UNCHANGED Poll!ES!svars
  BY <1>1, <1>11 DEF Poll!Wait
<1>12. CASE \/ Poll!WaitDecide \/ Poll!WaitBlock \/ Poll!WaitReady \/ Poll!WaitTimeout
            \/ Poll!WaitSpurious \/ Poll!WaitRelock
            \/ Poll!WaitPop \/ Poll!WaitCount \/ Poll!WaitReturn
  BY <1>1, <1>12 DEF Poll!WaitDecide, Poll!WaitBlock, Poll!WaitReady, Poll!WaitTimeout,
                     Poll!WaitSpurious, Poll!WaitRelock,
                     Poll!WaitPop, Poll!WaitCount, Poll!WaitReturn
<1>13. CASE Poll!WaitLock
  BY <1>13 DEF Poll!WaitLock, Poll!ES!Next, Poll!ES!Begin
<1>14. CASE Poll!WaitClear
  <2>1. /\ wpc = "clear" /\ wpc' = "count" /\ rdy' = [rdy EXCEPT ![sitem] = FALSE]
        /\ events' = Append(events, sitem) /\ UNCHANGED <<sockfd, rbr>>
    BY <1>14 DEF Poll!WaitClear
  <2>2. sitem \in EpItem /\ rdy[sitem] /\ lock = "srv" /\ events \in Seq(EpItem)
    BY <2>1 DEF Poll!IInv, Poll!TypeOK, Poll!FlagsAccounted, Poll!LockOwners
  <2>3. \A k \in 1 .. Len(events) : events[k] # sitem
    BY <2>2 DEF Poll!IInv, Poll!ItemsBuilt
  <2>4. {i \in EpItem : rdy'[i]} = {i \in EpItem : rdy[i]} \ {sitem}
    BY <2>1, <2>2 DEF Poll!IInv, Poll!TypeOK
  <2>5. {i \in EpItem : \E k \in 1 .. Len(events') : events'[k] = i}
          = {i \in EpItem : \E k \in 1 .. Len(events) : events[k] = i} \cup {sitem}
    <3>1. /\ Len(events') = Len(events) + 1 /\ events'[Len(events) + 1] = sitem
          /\ \A k \in 1 .. Len(events) : events'[k] = events[k]
          /\ Len(events) \in Nat
      BY <2>1, <2>2
    <3> QED BY <2>2, <3>1
  <2>6. PICK i \in EpItem : i = sitem
    BY <2>2
  <2>7. Poll!ES!Take(i)
    BY <2>1, <2>2, <2>3, <2>4, <2>5, <2>6 DEF Poll!ES!Take
  <2> QED BY <2>7 DEF Poll!ES!Next
<1>15. CASE UNCHANGED Poll!vars
  BY <1>2, <1>15 DEF Poll!vars
<1> QED
  BY <1>3, <1>4, <1>5, <1>6, <1>7, <1>8, <1>9, <1>10, <1>11, <1>12, <1>13, <1>14, <1>15
  DEF Poll!Next, Poll!CallbackStep, Poll!WaitStep, Poll!CtlStep

\* The epoll implements the edge-triggered event set, for any number of
\* sockets, items and events per wait.
THEOREM EpollRefines == EpollSpec => ImplementsEventSet
<1>1. Poll!Init => Poll!ES!Init
  BY EpollInitRefines, EpollAssumption
<1>2. Poll!IInv /\ [Poll!Next]_Poll!vars => [Poll!ES!Next]_Poll!ES!svars
  BY EpollStepRefines, EpollAssumption
<1> QED BY <1>1, <1>2, EpollInvariant, PTL
        DEF EpollSpec, Poll!Spec, Poll!ES!Spec, ImplementsEventSet, Poll!ImplementsEventSet
=============================================================================
