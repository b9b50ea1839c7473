---------------------------- MODULE TcpApiProofs ----------------------------
(***************************************************************************)
(* Proofs about the blocking socket API of lesson 10, for any number of     *)
(* clients, descriptors, bytes and datagrams.                               *)
(***************************************************************************)
EXTENDS TcpApiProps, FunctionTheorems, SequenceTheorems, FiniteSetTheorems, TLAPS

-----------------------------------------------------------------------------
(* Runs of bytes *)

\* The bytes after the a-th up to the b-th.
Run(a, b) == [k \in 1..b - a |-> a + k]
\* The fragments of q hold the bytes after the a-th up to the b-th, in order.
Cuts(q, a, b, at) ==
  /\ at \in [1..Len(q) + 1 -> Nat] /\ at[1] = a /\ at[Len(q) + 1] = b
  /\ \A j \in 1..Len(q) : at[j] <= at[j + 1] /\ q[j] = Run(at[j], at[j + 1])
Runs(q, a, b) == \E at : Cuts(q, a, b, at)

(* No fragments hold no bytes. *)
LEMMA RunsEmpty ==
  ASSUME NEW a \in Nat, NEW b
  PROVE  /\ Runs(<<>>, a, a) /\ (Runs(<<>>, a, b) => a = b)
         /\ \A c \in Nat : a <= c /\ Run(a, c) = <<>> => a = c
<1>1. Cuts(<<>>, a, a, [j \in 1..1 |-> a])
  BY DEF Cuts
<1>2. ASSUME NEW at, Cuts(<<>>, a, b, at) PROVE a = b
  BY <1>2 DEF Cuts
<1>3. ASSUME NEW c \in Nat, a <= c, Run(a, c) = <<>> PROVE a = c
  <2>1. CASE c - a = 0
    BY <2>1
  <2>2. CASE c - a # 0
    <3>1. 1 \in 1..c - a
      BY <1>3, <2>2
    <3>2. 1 \in DOMAIN Run(a, c)
      BY <3>1 DEF Run
    <3> QED BY <1>3, <3>2
  <2> QED BY <2>1, <2>2
<1> QED BY <1>1, <1>2, <1>3 DEF Runs

(* A fragment with the next bytes is put behind the others.                 *)
LEMMA RunsAppend ==
  ASSUME NEW S, NEW q \in Seq(S), NEW a \in Nat, NEW b \in Nat, NEW c \in Nat, b <= c,
         Runs(q, a, b), NEW z \in S, z = Run(b, c)
  PROVE  Runs(Append(q, z), a, c)
<1>1. PICK at : Cuts(q, a, b, at)
  BY DEF Runs
<1> DEFINE n == Len(q)
           t == Append(q, z)
           at2 == [j \in 1..n + 2 |-> IF j = n + 2 THEN c ELSE at[j]]
<1>2. n \in Nat /\ Len(t) = n + 1 /\ t[n + 1] = z /\ \A j \in 1..n : t[j] = q[j]
  BY AppendProperties, LenProperties
<1>3. /\ at \in [1..n + 1 -> Nat] /\ at[1] = a /\ at[n + 1] = b
      /\ \A j \in 1..n : at[j] <= at[j + 1] /\ q[j] = Run(at[j], at[j + 1])
  BY <1>1 DEF Cuts
<1> HIDE DEF n, t
<1>4. at2 \in [1..n + 2 -> Nat] /\ at2[1] = a /\ at2[n + 2] = c
  BY <1>2, <1>3
<1>5. ASSUME NEW j \in 1..n + 1 PROVE at2[j] <= at2[j + 1] /\ t[j] = Run(at2[j], at2[j + 1])
  <2>1. CASE j = n + 1
    <3>1. at2[j] = b /\ at2[j + 1] = c
      BY <1>2, <1>3, <2>1
    <3> QED BY <1>2, <2>1, <3>1
  <2>2. CASE j # n + 1
    <3>1. j \in 1..n /\ at2[j] = at[j] /\ at2[j + 1] = at[j + 1]
      BY <1>2, <2>2
    <3> QED BY <1>2, <1>3, <3>1
  <2> QED BY <2>1, <2>2
<1> HIDE DEF at2
<1>6. Len(t) + 1 = n + 2
  BY <1>2
<1>7. Cuts(t, a, c, at2)
  BY <1>2, <1>4, <1>5, <1>6 DEF Cuts
<1> QED BY <1>7 DEF Runs, t

(* The first fragment is taken. *)
LEMMA RunsTail ==
  ASSUME NEW S, NEW q \in Seq(S), q # <<>>, NEW a \in Nat, NEW b \in Nat, Runs(q, a, b)
  PROVE  \E c \in Nat : a <= c /\ Head(q) = Run(a, c) /\ Runs(Tail(q), c, b)
<1>1. PICK at : Cuts(q, a, b, at)
  BY DEF Runs
<1> DEFINE n == Len(q)
           t == Tail(q)
           at2 == [j \in 1..n |-> at[j + 1]]
<1>2. n \in Nat /\ n > 0 /\ Head(q) = q[1] /\ Len(t) = n - 1 /\ \A j \in 1..n - 1 : t[j] = q[j + 1]
  BY HeadTailProperties, LenProperties, EmptySeq
<1>3. /\ at \in [1..n + 1 -> Nat] /\ at[1] = a /\ at[n + 1] = b
      /\ \A j \in 1..n : at[j] <= at[j + 1] /\ q[j] = Run(at[j], at[j + 1])
  BY <1>1 DEF Cuts
<1> HIDE DEF n, t
<1>4. at[2] \in Nat /\ a <= at[2] /\ Head(q) = Run(a, at[2])
  <2>1. 1 \in 1..n /\ 1 + 1 = 2 /\ 2 \in 1..n + 1
    BY <1>2
  <2> QED BY <1>2, <1>3, <2>1
<1>5. at2 \in [1..n -> Nat] /\ at2[1] = at[2] /\ at2[n] = b
  BY <1>2, <1>3
<1>6. ASSUME NEW j \in 1..n - 1 PROVE at2[j] <= at2[j + 1] /\ t[j] = Run(at2[j], at2[j + 1])
  <2>1. j + 1 \in 1..n /\ at2[j] = at[j + 1] /\ at2[j + 1] = at[(j + 1) + 1]
    BY <1>2
  <2> QED BY <1>2, <1>3, <2>1
<1> HIDE DEF at2
<1>7. Len(t) + 1 = n
  BY <1>2
<1>8. Cuts(t, at[2], b, at2)
  BY <1>2, <1>5, <1>6, <1>7 DEF Cuts
<1> QED BY <1>4, <1>8 DEF Runs, t

\* What the fragments of a send ring hold.
Datas(q) == [k \in 1..Len(q) |-> q[k].data]
Fragments == [flags : {"synack", "psh", "fin"}, data : Seq(Nat)]

(* ... when one is queued and when one is taken.                            *)
LEMMA DatasAre ==
  ASSUME NEW q \in Seq(Fragments)
  PROVE  /\ Datas(q) \in Seq(Seq(Nat)) /\ Len(Datas(q)) = Len(q)
         /\ \A z \in Fragments : Datas(Append(q, z)) = Append(Datas(q), z.data)
         /\ q # <<>> => /\ Datas(q) # <<>> /\ Head(Datas(q)) = Head(q).data
                        /\ Datas(Tail(q)) = Tail(Datas(q))
<1> DEFINE n == Len(q)
           d == Datas(q)
<1>1. n \in Nat /\ \A k \in 1..n : q[k] \in Fragments
  BY LenProperties, ElementOfSeq
<1>2. \A k \in 1..n : q[k].data \in Seq(Nat)
  BY <1>1 DEF Fragments
<1>3. d \in Seq(Seq(Nat)) /\ Len(d) = n /\ \A k \in 1..n : d[k] = q[k].data
  <2>1. d = [k \in 1..n |-> q[k].data]
    BY DEF Datas
  <2> QED BY <1>1, <1>2, <2>1
<1> HIDE DEF n, d
<1>4. ASSUME NEW z \in Fragments PROVE Datas(Append(q, z)) = Append(d, z.data)
  <2>1. /\ Len(Append(q, z)) = n + 1 /\ Append(q, z)[n + 1] = z
        /\ \A k \in 1..n : Append(q, z)[k] = q[k]
    BY AppendProperties DEF n
  <2>2. Datas(Append(q, z)) = [k \in 1..n + 1 |-> Append(q, z)[k].data]
    BY <2>1 DEF Datas
  <2>3. z.data \in Seq(Nat)
    BY DEF Fragments
  <2>4. /\ Append(d, z.data) \in Seq(Seq(Nat)) /\ Len(Append(d, z.data)) = n + 1
        /\ Append(d, z.data)[n + 1] = z.data
        /\ \A k \in 1..n : Append(d, z.data)[k] = d[k]
    BY <1>3, <2>3, AppendProperties
  <2>5. \A k \in 1..n + 1 : Append(q, z)[k].data = Append(d, z.data)[k]
    BY <1>1, <1>3, <2>1, <2>4
  <2>6. Append(d, z.data) = [k \in 1..n + 1 |-> Append(d, z.data)[k]]
    BY <2>4
  <2> QED BY <2>2, <2>5, <2>6
<1>5. ASSUME q # <<>>
      PROVE  d # <<>> /\ Head(d) = Head(q).data /\ Datas(Tail(q)) = Tail(d)
  <2>1. n > 0 /\ Head(q) = q[1] /\ Len(Tail(q)) = n - 1 /\ \A k \in 1..n - 1 : Tail(q)[k] = q[k + 1]
    BY <1>1, <1>5, HeadTailProperties, EmptySeq DEF n
  <2>2. d # <<>>
    BY <1>3, <2>1, EmptySeq
  <2>3. /\ Head(d) = d[1] /\ Tail(d) \in Seq(Seq(Nat)) /\ Len(Tail(d)) = n - 1
        /\ \A k \in 1..n - 1 : Tail(d)[k] = d[k + 1]
    BY <1>3, <2>2, HeadTailProperties
  <2>4. Head(d) = Head(q).data
    BY <1>1, <1>3, <2>1, <2>3
  <2>5. Datas(Tail(q)) = [k \in 1..n - 1 |-> Tail(q)[k].data]
    BY <2>1 DEF Datas
  <2>6. \A k \in 1..n - 1 : Tail(q)[k].data = Tail(d)[k]
    <3>1. ASSUME NEW k \in 1..n - 1 PROVE Tail(q)[k].data = Tail(d)[k]
      <4>1. k + 1 \in 1..n
        BY <1>1
      <4> QED BY <1>3, <2>1, <2>3, <4>1
    <3> QED BY <3>1
  <2>7. Tail(d) = [k \in 1..n - 1 |-> Tail(d)[k]]
    <3>1. PICK t \in Seq(Seq(Nat)) : t = Tail(d)
      BY <2>3
    <3>2. Len(t) = n - 1
      BY <2>3, <3>1
    <3>3. t = [k \in 1..Len(t) |-> t[k]]
      BY LenProperties
    <3> QED BY <3>1, <3>2, <3>3
  <2> QED BY <2>2, <2>4, <2>5, <2>6, <2>7
<1> QED BY <1>3, <1>4, <1>5 DEF n, d

-----------------------------------------------------------------------------
(* The invariant *)

\* The descriptor of the connection being served.
Held == IF spc \in {"recv", "recvwait", "send", "close", "lastack"} THEN {cfd} ELSE {}
\* Beside it the bitmap marks, and any thread has seen, the two sockets of the
\* servers and k: a descriptor closed after udp_server_entry had seen it in use.
Few(k) ==
  /\ fd_table \subseteq {lfd, ufd, k} \union Held
  /\ pick.seen \subseteq {lfd, ufd, k} /\ upick.seen \subseteq {lfd, k}
  /\ upc = "socket" => k = NoFd
Descriptors ==
  /\ \E k \in Int : Few(k)
  /\ spc \in {"socket", "mark"} => lfd = NoFd
  /\ upc \in {"socket", "mark"} => ufd = NoFd
  /\ spc \in {"mark", "assign"} => pick.fd \in Fds
  /\ upc = "mark" => upick.fd \in Fds

\* What the threads' steps say of the streams they are at.
Threads ==
  /\ kpc \in {"start", "alloc"} => \A p \in Peer : status[p] = "none"
  /\ spc \in {"assign", "recvwait", "send", "close", "lastack"} => cur \in Peer
  /\ spc = "send" => status[cur] \in {"ESTABLISHED", "CLOSE_WAIT"} /\ buff # <<>>
  /\ spc \in {"close", "lastack"} => status[cur] = "CLOSE_WAIT"
  /\ kpc \in {"signal", "fin"} => kcur \in Peer
  /\ kfin => kpc \in {"signal", "fin"} /\ status[kcur] = "ESTABLISHED"
  /\ kpc = "fin" => kfin
  /\ \A p \in Peer : pst[p] = "new" => status[p] = "none"
  /\ upc = "send" => udata \in 1..dsent

\* Of a connection the server has read the end of the stream.
AtEnd(p) == spc \in {"close", "lastack"} /\ cur = p
\* The end of the stream is one empty fragment, behind the others.
Reading(p) ==
  /\ status[p] \in {"none", "SYN_RCVD", "LAST_ACK"} => rcvbuf[p] = <<>>
  /\ status[p] = "ESTABLISHED" => \A k \in 1..Len(rcvbuf[p]) : rcvbuf[p][k] # <<>>
  /\ status[p] = "CLOSE_WAIT" =>
       IF AtEnd(p) THEN rcvbuf[p] = <<>>
       ELSE /\ rcvbuf[p] # <<>>
            /\ \A k \in 1..Len(rcvbuf[p]) : rcvbuf[p][k] = <<>> <=> k = Len(rcvbuf[p])
Readings == \A p \in Peer : Reading(p)

\* The waits, without the types.
Wakes ==
  /\ spc = "acceptwait" => \A p \in Holder(Unused) : status[p] = "ESTABLISHED" => kpc = "listener"
  /\ spc = "recvwait" /\ rcvbuf[cur] # <<>> => kpc = "signal" /\ kcur = cur
  /\ upc = "wait" /\ urcv # <<>> => kpc = "sigudp"

\* What the peer has sent is, in order, with the peer again, in the send ring,
\* in the server's buffer and in the receive ring.
InHand(p) == spc = "send" /\ cur = p
Chain(p) ==
  \E a, b \in Nat :
    /\ Runs(Datas(sndbuf[p]), Len(wire[p]), a) /\ Runs(rcvbuf[p], b, rcvd[p])
    /\ a <= b /\ (InHand(p) => buff = Run(a, b)) /\ (~InHand(p) => a = b)
\* nclose has queued the FIN; it is the last fragment or has gone out.
Closing(p) == status[p] = "LAST_ACK" \/ (spc = "lastack" /\ cur = p)
FinQueued(p) ==
  /\ "fin" \notin heard[p] /\ sndbuf[p] # <<>>
  /\ \A k \in 1..Len(sndbuf[p]) : sndbuf[p][k].flags = "fin" <=> k = Len(sndbuf[p])
FinGone(p) == "fin" \in heard[p] /\ sndbuf[p] = <<>> /\ finwire[p] = rcvd[p]
NoFin(p) == "fin" \notin heard[p] /\ \A k \in 1..Len(sndbuf[p]) : sndbuf[p][k].flags # "fin"
Life(p) ==
  /\ \A k \in 1..Len(wire[p]) : wire[p][k] = k
  /\ pst[p] = "new" => rcvd[p] = 0 /\ wire[p] = <<>> /\ sndbuf[p] = <<>> /\ heard[p] = {}
  /\ status[p] # "none" => Chain(p)
  /\ status[p] # "none" /\ Closing(p) => FinQueued(p) \/ FinGone(p)
  /\ status[p] # "none" /\ ~Closing(p) => NoFin(p)
  /\ status[p] = "none" /\ "fin" \in heard[p] => finwire[p] = rcvd[p] /\ Len(wire[p]) = rcvd[p]
  /\ \A k \in 1..Len(sndbuf[p]) : sndbuf[p][k].flags = "fin" => sndbuf[p][k].data = <<>>
Lives == \A p \in Peer \ missed : Life(p)

Core == TypeOK /\ Descriptors /\ Threads /\ Readings /\ Wakes /\ Lives

(* Among numbers from 1 there is a least one.                               *)
LEMMA LeastOne ==
  ASSUME NEW N \in Nat, NEW S \in SUBSET (1..N), S # {}
  PROVE  \E i \in S : \A j \in S : i <= j
<1> DEFINE Below(i) == {j \in S : j < i}
           T == {Below(i) : i \in S}
<1>1. IsFiniteSet(1..N)
  BY FS_Interval
<1>2. T \subseteq FiniteSubsetsOf(1..N) /\ T # {}
  <2>1. \A i \in S : Below(i) \subseteq 1..N /\ IsFiniteSet(Below(i))
    BY <1>1, FS_Subset
  <2> QED BY <2>1 DEF FiniteSubsetsOf
<1>3. PICK U \in T : \A V \in T : ~(<<V, U>> \in StrictSubsetOrdering(1..N))
  BY <1>2, FS_StrictSubsetOrderingWellFounded, WFMin
<1>4. PICK i \in S : U = Below(i)
  BY <1>3
<1>5. ASSUME NEW j \in S, ~(i <= j) PROVE FALSE
  <2>1. i \in Int /\ j \in Int /\ \A k \in S : k \in Int
    OBVIOUS
  <2>2. Below(j) \subseteq Below(i) /\ j \in Below(i)
    <3>1. j < i
      BY <1>5, <2>1
    <3>2. \A k \in S : k \in Int /\ (k < j => k < i)
      BY <2>1, <3>1
    <3> QED BY <3>1, <3>2
  <2>3. j \notin Below(j)
    BY <2>1
  <2>4. Below(j) \in T /\ Below(j) \in SUBSET (1..N) /\ Below(i) \in SUBSET (1..N) /\ Below(j) # Below(i)
    BY <2>2, <2>3
  <2> QED BY <1>3, <1>4, <2>2, <2>4 DEF StrictSubsetOrdering
<1> QED BY <1>5

(* A descriptor is found as long as three are in use at most.               *)
LEMMA FoundOne ==
  ASSUME NEW seen \in SUBSET Fds, NEW a, NEW b, NEW c, seen \subseteq {a, b, c}
  PROVE  Found(seen).fd \in Fds /\ Found(seen).seen = seen /\ Found(seen) \in [fd : 0..MaxFd, seen : SUBSET Fds]
<1>1. MaxFd \in Nat /\ {1, 2, 3, 4} \subseteq Fds
  BY ApiAssumption DEF Fds
<1>2. Fds \ seen # {}
  BY <1>1
<1>3. Fds \ seen \in SUBSET (1..MaxFd)
  BY DEF Fds
<1>4. \E f \in Fds \ seen : \A g \in Fds \ seen : f <= g
  BY <1>1, <1>2, <1>3, LeastOne
<1>5. (CHOOSE f \in Fds \ seen : \A g \in Fds \ seen : f <= g) \in Fds
  BY <1>4
<1>6. Fds \subseteq 0..MaxFd
  BY DEF Fds
<1> QED BY <1>5, <1>6 DEF Found

-----------------------------------------------------------------------------
(* Types *)

(* What the types of the constants give. *)
LEMMA Smalls ==
  /\ Peers \in Nat /\ MaxFd \in Nat /\ MaxDgrams \in Nat /\ MSS \in Nat
  /\ NoPeer \notin Peer /\ Unused \notin Fds /\ NoFd \notin Fds
  /\ Fds \subseteq 0..MaxFd /\ Fds \subseteq Int /\ NoFd \in 0..MaxFd
  BY ApiAssumption DEF Peer, NoPeer, Fds, Unused, NoFd

\* The types, in groups.
TyFlags ==
  /\ tInst \in {"none", "pkt", "srv"} /\ tcb_set \in [{"pkt", "srv"} -> SUBSET (Peer \cup {Listener})]
  /\ listener \in {"none", "CLOSED", "LISTEN"} /\ uhost \in {"none", "unbound", "bound"}
  /\ known \subseteq Peer \cup {UdpHost} /\ missed \subseteq Peer \cup {UdpHost} /\ hasty \subseteq Peer
  /\ retaken \in BOOLEAN
  /\ fault \in {"none", "sharedfd", "nullring"}
TySteps ==
  /\ kpc \in {"start", "alloc", "idle", "listener", "signal", "fin", "sigudp"}
  /\ kcur \in Peer \cup {NoPeer} /\ kfin \in BOOLEAN
  /\ spc \in {"socket", "mark", "alloc", "link", "linkown", "listen", "lookup", "accept",
              "acceptwait", "assign", "recv", "recvwait", "send", "close", "lastack"}
  /\ cur \in Peer \cup {NoPeer} /\ torn \in BOOLEAN
  /\ upc \in {"socket", "mark", "bind", "recv", "wait", "send"}
TyFds ==
  /\ fd_table \subseteq Fds /\ lfd \in 0 .. MaxFd /\ fd \in [Peer -> {Unused} \cup Fds] /\ ufd \in 0 .. MaxFd
  /\ pick \in [fd : 0 .. MaxFd, seen : SUBSET Fds] /\ upick \in [fd : 0 .. MaxFd, seen : SUBSET Fds]
  /\ cfd \in {Unused} \cup 0 .. MaxFd
TyStreams ==
  /\ status \in [Peer -> {"none", "SYN_RCVD", "ESTABLISHED", "CLOSE_WAIT", "LAST_ACK"}]
  /\ pst \in [Peer -> {"new", "syn", "open", "fin"}] /\ heard \in [Peer -> SUBSET {"synack", "fin"}]
  /\ acks \in [Peer -> SUBSET {"psh", "fin"}]
  /\ rcvd \in [Peer -> Nat] /\ wire \in [Peer -> Seq(Nat)] /\ finwire \in [Peer -> Nat]
TyRings ==
  /\ rcvbuf \in [Peer -> Seq(Seq(Nat))] /\ sndbuf \in [Peer -> Seq(Fragments)] /\ buff \in Seq(Nat)
TyDgrams ==
  /\ dsent \in 0 .. MaxDgrams /\ echoed \subseteq 1 .. dsent /\ udata \in 0 .. dsent
  /\ urcv \in Seq(1 .. dsent) /\ usnd \in Seq(1 .. dsent)
LEMMA TypeGroups == TypeOK <=> TyFlags /\ TySteps /\ TyFds /\ TyStreams /\ TyRings /\ TyDgrams
  BY Zenon DEF TypeOK, TyFlags, TySteps, TyFds, TyStreams, TyRings, TyDgrams, Fragments

(* The flags and sets keep their types. *)
LEMMA FlagsTyped ==
  ASSUME TyFlags, TySteps, [Next]_vars
  PROVE  TyFlags'
<1> USE DEF table, lsock, stream, udphost, packet, server, userver, peers, dgrams, history
<1>1. CASE UNCHANGED vars
  BY <1>1 DEF TyFlags, vars
<1>2. ASSUME NEW p \in Peer, Arrives(p) \/ Answers(p) \/ TcpOut(p) \/ TcpOutMiss(p) PROVE TyFlags'
  <2>1. CASE TcpSyn(p)
    <3>1. tcb_set' \in [{"pkt", "srv"} -> SUBSET (Peer \cup {Listener})]
      BY <2>1 DEF TyFlags, TcpSyn, LL_ADD
    <3> QED BY <2>1, <3>1 DEF TyFlags, TcpSyn
  <2>2. ASSUME NEW what, TcpAck(p, what) PROVE TyFlags'
    <3>1. tcb_set' \in [{"pkt", "srv"} -> SUBSET (Peer \cup {Listener})]
      BY <2>2 DEF TyFlags, TcpAck, Without
    <3> QED BY <2>2, <3>1 DEF TyFlags, TcpAck
  <2>3. CASE TcpSynCrash(p) \/ TcpEstablish(p) \/ TcpFin(p) \/ TcpOut(p) \/ TcpOutMiss(p)
    BY <2>3 DEF TyFlags, TcpSynCrash, TcpEstablish, TcpFin, CloseWait, TcpOut, TcpOutMiss
  <2>4. ASSUME NEW n, NEW fin, TcpData(p, n, fin) PROVE TyFlags'
    BY <2>4 DEF TyFlags, TcpData
  <2> QED BY <1>2, <2>1, <2>2, <2>3, <2>4 DEF Arrives, Answers
<1>3. CASE UdpArrives \/ UdpOutMiss \/ TcpServerStep
  <2>1. CASE AcceptTake
    <3>1. retaken' \in BOOLEAN
      BY <2>1, Zenon DEF TyFlags, AcceptTake
    <3> QED BY <2>1, <3>1 DEF TyFlags, AcceptTake
  <2>2. CASE UdpArrives \/ UdpOutMiss
    BY <2>2 DEF TyFlags, UdpArrives, UdpOutMiss
  <2>3. CASE TcpServerStep /\ ~AcceptTake
    BY <2>3 DEF TyFlags, TcpServerStep, SocketFd, SocketMark, SocketAllocate, SocketLink, BindListen,
      AcceptLookup, AcceptMark, Recv, Send, Close, CloseStatus, Quiet, Goto, Mark, LL_ADD
  <2> QED BY <1>3, <2>1, <2>2, <2>3
<1>4. CASE UdpServerStep
  BY <1>4 DEF TyFlags, UdpServerStep, UdpFd, UdpMark, UdpBind, UdpRecv, UdpSend, Still, Mark
<1>5. CASE PktInstance \/ PktAllocate \/ SignalListener \/ TcpDataFin \/ SignalRecv \/ SignalUdp \/ UdpOut
  BY <1>5 DEF TyFlags, PktInstance, PktAllocate, SignalListener, TcpDataFin, CloseWait, SignalRecv, SignalUdp, UdpOut
<1>6. ASSUME NEW h \in Peer \cup {UdpHost}, ArpReply(h) PROVE TyFlags'
  BY <1>6 DEF TyFlags, ArpReply
<1> QED BY <1>1, <1>2, <1>3, <1>4, <1>5, <1>6 DEF Next, PacketStep, Misses

(* Neither do the steps of the threads leave their ranges. *)
LEMMA StepsTyped ==
  ASSUME TySteps, TyStreams, Threads, [Next]_vars
  PROVE  TySteps'
<1> USE DEF table, lsock, stream, udphost, packet, server, userver, peers, dgrams, history
<1>1. CASE UNCHANGED vars
  BY <1>1 DEF TySteps, vars
<1>2. ASSUME NEW p \in Peer, Arrives(p) \/ Answers(p) \/ TcpOut(p) \/ TcpOutMiss(p) PROVE TySteps'
  <2>1. ASSUME NEW what, TcpAck(p, what) PROVE TySteps'
    <3>1. torn' \in BOOLEAN
      BY <2>1 DEF TySteps, TcpAck
    <3> QED BY <2>1, <3>1 DEF TySteps, TcpAck
  <2>2. CASE TcpSyn(p) \/ TcpSynCrash(p) \/ TcpOut(p) \/ TcpOutMiss(p)
    <3>1. UNCHANGED <<packet, server, userver>>
      BY <2>2 DEF TcpSyn, TcpSynCrash, TcpOut, TcpOutMiss
    <3> QED BY <3>1 DEF TySteps
  <2>5. CASE TcpEstablish(p)
    BY <2>5 DEF TySteps, TcpEstablish
  <2>3. CASE TcpFin(p)
    BY <2>3 DEF TySteps, TcpFin, CloseWait
  <2>4. ASSUME NEW n, NEW fin \in BOOLEAN, TcpData(p, n, fin) PROVE TySteps'
    <3>1. kfin' \in BOOLEAN
      BY <2>4, Zenon DEF TcpData
    <3> QED BY <2>4, <3>1 DEF TySteps, TcpData
  <2> QED BY <1>2, <2>1, <2>2, <2>3, <2>4, <2>5 DEF Arrives, Answers
<1>3. CASE UdpArrives \/ UdpOutMiss \/ TcpServerStep
  <2>1. CASE AcceptTake
    <3>1. Holder(Unused) \subseteq Peer
      BY DEF Holder, Streams
    <3> QED BY <2>1, <3>1 DEF TySteps, AcceptTake, Goto, Quiet
  <2>2. CASE Recv
    BY <2>2 DEF TySteps, Recv, Quiet, Holder, Streams
  <2>3. CASE AcceptLookup
    BY <2>3 DEF TySteps, AcceptLookup, Quiet
  <2>4. CASE UdpArrives \/ UdpOutMiss \/ SocketFd \/ SocketMark \/ SocketAllocate \/ SocketLink \/ BindListen
    BY <2>4 DEF TySteps, UdpArrives, UdpOutMiss, SocketFd, SocketMark, SocketAllocate, SocketLink, BindListen, Quiet, Goto
  <2>5. CASE AcceptMark \/ Send \/ Close \/ CloseStatus
    BY <2>5 DEF TySteps, AcceptMark, Send, Close, CloseStatus, Quiet, Goto
  <2> QED BY <1>3, <2>1, <2>2, <2>3, <2>4, <2>5 DEF TcpServerStep
<1>4. CASE UdpServerStep
  BY <1>4 DEF TySteps, UdpServerStep, UdpFd, UdpMark, UdpBind, UdpRecv, UdpSend, Still
<1>5. CASE PktInstance \/ PktAllocate \/ SignalListener \/ TcpDataFin \/ SignalRecv \/ SignalUdp \/ UdpOut
  <2>1. CASE SignalRecv
    BY <2>1 DEF TySteps, SignalRecv
  <2>2. CASE TcpDataFin
    BY <2>2 DEF TySteps, TcpDataFin, CloseWait
  <2>3. CASE PktInstance \/ PktAllocate \/ SignalListener \/ SignalUdp \/ UdpOut
    BY <2>3 DEF TySteps, PktInstance, PktAllocate, SignalListener, SignalUdp, UdpOut
  <2> QED BY <1>5, <2>1, <2>2, <2>3
<1>6. ASSUME NEW h \in Peer \cup {UdpHost}, ArpReply(h) PROVE TySteps'
  BY <1>6 DEF TySteps, ArpReply
<1> QED BY <1>1, <1>2, <1>3, <1>4, <1>5, <1>6 DEF Next, PacketStep, Misses

(* ... nor the descriptors.                                                 *)
LEMMA FdsTyped ==
  ASSUME TyFds, TySteps, Descriptors, Threads, [Next]_vars
  PROVE  TyFds'
<1> USE DEF table, lsock, stream, udphost, packet, server, userver, peers, dgrams, history
<1>0. /\ Fds \subseteq 0..MaxFd /\ NoPick \in [fd : 0..MaxFd, seen : SUBSET Fds]
      /\ NoFd \in 0..MaxFd
  BY ApiAssumption DEF Fds, NoPick, NoFd
<1>1. CASE UNCHANGED vars
  BY <1>1 DEF TyFds, vars
<1>2. ASSUME NEW p \in Peer, Arrives(p) \/ Answers(p) \/ TcpOut(p) \/ TcpOutMiss(p) PROVE TyFds'
  BY <1>2 DEF TyFds, Arrives, Answers, TcpSyn, TcpSynCrash, TcpData, TcpEstablish, TcpFin, CloseWait, TcpAck,
              TcpOut, TcpOutMiss
<1>3. CASE TcpServerStep
  <2>1. PICK k \in Int : Few(k)
    BY DEF Descriptors
  <2>2. CASE SocketFd \/ AcceptTake
    <3>1. fd_table \subseteq {lfd, ufd, k}
      BY <2>1, <2>2 DEF Few, Held, SocketFd, AcceptTake
    <3>2. Found(fd_table) \in [fd : 0..MaxFd, seen : SUBSET Fds]
      BY <3>1, FoundOne DEF TyFds
    <3> QED BY <2>2, <3>2 DEF TyFds, SocketFd, AcceptTake, Goto, Quiet
  <2>3. CASE SocketMark \/ AcceptMark
    <3>1. pick.fd \in Fds /\ pick.seen \in SUBSET Fds
      BY <2>3 DEF TyFds, SocketMark, AcceptMark, Descriptors
    <3>2. fd_table' \subseteq Fds
      BY <2>3, <3>1 DEF TyFds, SocketMark, AcceptMark, Mark, Written
    <3> QED BY <1>0, <2>3, <3>1, <3>2 DEF TyFds, SocketMark, AcceptMark, Quiet
  <2>4. CASE ~SocketFd /\ ~AcceptTake /\ ~SocketMark /\ ~AcceptMark
    BY <1>0, <1>3, <2>4 DEF TyFds, TcpServerStep, SocketAllocate, SocketLink,
      BindListen, AcceptLookup, Recv, Send, Close, CloseStatus, Quiet, Goto
  <2> QED BY <2>2, <2>3, <2>4
<1>4. CASE UdpServerStep
  <2>1. PICK k \in Int : Few(k)
    BY DEF Descriptors
  <2>2. CASE UdpFd
    <3>1. fd_table \subseteq {lfd, IF Held = {} THEN NoFd ELSE cfd, NoFd}
      BY <2>1, <2>2 DEF Few, Held, UdpFd, Descriptors
    <3>2. Found(fd_table) \in [fd : 0..MaxFd, seen : SUBSET Fds]
      BY <3>1, FoundOne DEF TyFds
    <3> QED BY <2>2, <3>2 DEF TyFds, UdpFd, Still
  <2>3. CASE UdpMark
    <3>1. upick.fd \in Fds /\ upick.seen \in SUBSET Fds
      BY <2>3 DEF TyFds, UdpMark, Descriptors
    <3>2. fd_table' \subseteq Fds
      BY <2>3, <3>1 DEF TyFds, UdpMark, Mark, Written
    <3> QED BY <1>0, <2>3, <3>1, <3>2 DEF TyFds, UdpMark, Still
  <2>4. CASE ~UdpFd /\ ~UdpMark
    BY <1>4, <2>4 DEF TyFds, UdpServerStep, UdpBind, UdpRecv, UdpSend, Still
  <2> QED BY <2>2, <2>3, <2>4
<1>5. CASE PktInstance \/ PktAllocate \/ SignalListener \/ TcpDataFin \/ SignalRecv \/ SignalUdp \/ UdpOut
  BY <1>5 DEF TyFds, PktInstance, PktAllocate, SignalListener, TcpDataFin, CloseWait, SignalRecv, SignalUdp, UdpOut
<1>6. ASSUME NEW h \in Peer \cup {UdpHost}, ArpReply(h) PROVE TyFds'
  BY <1>6 DEF TyFds, ArpReply
<1>7. CASE UdpArrives \/ UdpOutMiss
  BY <1>7 DEF TyFds, UdpArrives, UdpOutMiss
<1> QED BY <1>1, <1>2, <1>3, <1>4, <1>5, <1>6, <1>7 DEF Next, PacketStep, Misses

(* ... nor what the streams and their peers are at. *)
LEMMA StreamsTyped ==
  ASSUME TyStreams, TyRings, TySteps, Threads, [Next]_vars
  PROVE  TyStreams'
<1> USE DEF table, lsock, stream, udphost, packet, server, userver, peers, dgrams, history
<1>1. CASE UNCHANGED vars
  BY <1>1 DEF TyStreams, vars
<1>2. ASSUME NEW p \in Peer, Arrives(p) \/ Answers(p) PROVE TyStreams'
  <2>1. ASSUME NEW what, TcpAck(p, what) PROVE TyStreams'
    BY <2>1 DEF TyStreams, TcpAck
  <2>2. CASE TcpSyn(p) \/ TcpSynCrash(p) \/ TcpEstablish(p)
    BY <2>2 DEF TyStreams, TcpSyn, TcpSynCrash, TcpEstablish
  <2>3. CASE TcpFin(p)
    BY <2>3 DEF TyStreams, TcpFin, CloseWait
  <2>4. ASSUME NEW n \in 1..MSS, NEW fin \in BOOLEAN, TcpData(p, n, fin) PROVE TyStreams'
    <3>1. rcvd' \in [Peer -> Nat]
      BY <2>4 DEF TyStreams, TcpData
    <3> QED BY <2>4, <3>1 DEF TyStreams, TcpData
  <2> QED BY <1>2, <2>1, <2>2, <2>3, <2>4 DEF Arrives, Answers
<1>3. ASSUME NEW p \in Peer, TcpOut(p) \/ TcpOutMiss(p) PROVE TyStreams'
  <2>1. CASE TcpOut(p)
    <3>1. sndbuf[p] \in Seq(Fragments) /\ sndbuf[p] # <<>>
      BY <2>1 DEF TyRings, TcpOut
    <3>2. Head(sndbuf[p]) \in Fragments
      BY <3>1, HeadTailProperties
    <3>3. Head(sndbuf[p]).data \in Seq(Nat)
      BY <3>2 DEF Fragments
    <3>4. wire[p] \o Head(sndbuf[p]).data \in Seq(Nat) /\ Len(wire[p]) \in Nat
      BY <3>3, ConcatProperties, LenProperties DEF TyStreams
    <3>5. wire' \in [Peer -> Seq(Nat)] /\ finwire' \in [Peer -> Nat]
      BY <2>1, <3>4 DEF TyStreams, TcpOut
    <3>6. heard' \in [Peer -> SUBSET {"synack", "fin"}] /\ acks' \in [Peer -> SUBSET {"psh", "fin"}]
      BY <2>1 DEF TyStreams, TcpOut
    <3> QED BY <2>1, <3>5, <3>6 DEF TyStreams, TcpOut
  <2>2. CASE TcpOutMiss(p)
    BY <2>2 DEF TyStreams, TcpOutMiss
  <2> QED BY <1>3, <2>1, <2>2
<1>4. CASE UdpArrives \/ UdpOutMiss \/ TcpServerStep
  <2>1. CASE UdpArrives \/ UdpOutMiss \/ SocketFd \/ SocketMark \/ SocketAllocate \/ SocketLink \/ BindListen
    BY <2>1 DEF TyStreams, UdpArrives, UdpOutMiss, SocketFd, SocketMark, SocketAllocate, SocketLink, BindListen, Quiet, Goto
  <2>2. CASE AcceptLookup \/ AcceptTake \/ AcceptMark \/ Recv \/ Send \/ Close \/ CloseStatus
    BY <2>2 DEF TyStreams, AcceptLookup, AcceptTake, AcceptMark, Recv, Send, Close, CloseStatus, Quiet, Goto
  <2> QED BY <1>4, <2>1, <2>2 DEF TcpServerStep
<1>5. CASE UdpServerStep
  BY <1>5 DEF TyStreams, UdpServerStep, UdpFd, UdpMark, UdpBind, UdpRecv, UdpSend, Still
<1>6. CASE PktInstance \/ PktAllocate \/ SignalListener \/ TcpDataFin \/ SignalRecv \/ SignalUdp \/ UdpOut
  BY <1>6 DEF TyStreams, Threads, PktInstance, PktAllocate, SignalListener, TcpDataFin, CloseWait, SignalRecv, SignalUdp, UdpOut
<1>7. ASSUME NEW h \in Peer \cup {UdpHost}, ArpReply(h) PROVE TyStreams'
  BY <1>7 DEF TyStreams, ArpReply
<1> QED BY <1>1, <1>2, <1>3, <1>4, <1>5, <1>6, <1>7 DEF Next, PacketStep, Misses

(* ... nor the fragments in the rings.                                      *)
LEMMA RingsTyped ==
  ASSUME TyRings, TyStreams, TySteps, Threads, [Next]_vars
  PROVE  TyRings'
<1> USE DEF table, lsock, stream, udphost, packet, server, userver, peers, dgrams, history
<1>0. <<>> \in Seq(Nat) /\ <<>> \in Seq(Seq(Nat)) /\ <<>> \in Seq(Fragments)
  BY EmptySeq
<1>1. ASSUME NEW p \in Peer, NEW z \in Seq(Nat) PROVE Enqueue(rcvbuf, p, z) \in [Peer -> Seq(Seq(Nat))]
  <2>1. Append(rcvbuf[p], z) \in Seq(Seq(Nat))
    BY AppendProperties DEF TyRings
  <2> QED BY <2>1 DEF Enqueue, TyRings
<1>2. ASSUME NEW p \in Peer, NEW z \in Fragments PROVE Enqueue(sndbuf, p, z) \in [Peer -> Seq(Fragments)]
  <2>1. Append(sndbuf[p], z) \in Seq(Fragments)
    BY AppendProperties DEF TyRings
  <2> QED BY <2>1 DEF Enqueue, TyRings
<1>3. CASE UNCHANGED <<rcvbuf, sndbuf, buff>>
  BY <1>3 DEF TyRings
<1>4. ASSUME NEW p \in Peer, Arrives(p) \/ Answers(p) PROVE TyRings'
  <2>1. CASE TcpSyn(p)
    <3>1. Fragment("synack", <<>>) \in Fragments
      BY <1>0 DEF Fragment, Fragments
    <3> QED BY <1>2, <2>1, <3>1 DEF TyRings, TcpSyn
  <2>2. ASSUME NEW n \in 1..MSS, NEW fin \in BOOLEAN, TcpData(p, n, fin) PROVE TyRings'
    <3>1. [k \in 1..n |-> rcvd[p] + k] \in Seq(Nat)
      <4>1. rcvd[p] \in Nat /\ n \in Nat
        BY DEF TyStreams
      <4> QED BY <4>1
    <3> QED BY <1>1, <2>2, <3>1 DEF TyRings, TcpData
  <2>3. CASE TcpFin(p)
    BY <1>0, <1>1, <2>3 DEF TyRings, TcpFin, CloseWait
  <2>4. ASSUME NEW what, TcpAck(p, what) PROVE TyRings'
    BY <1>0, <2>4 DEF TyRings, TcpAck
  <2>5. CASE TcpSynCrash(p) \/ TcpEstablish(p)
    BY <1>3, <2>5 DEF TcpSynCrash, TcpEstablish
  <2> QED BY <1>4, <2>1, <2>2, <2>3, <2>4, <2>5 DEF Arrives, Answers
<1>5. CASE TcpDataFin
  BY <1>0, <1>1, <1>5 DEF TyRings, TcpDataFin, CloseWait, Threads
<1>6. ASSUME NEW p \in Peer, TcpOut(p) \/ TcpOutMiss(p) PROVE TyRings'
  <2>1. sndbuf[p] \in Seq(Fragments) /\ sndbuf[p] # <<>>
    BY <1>6 DEF TyRings, TcpOut, TcpOutMiss
  <2>2. Head(sndbuf[p]) \in Fragments /\ Tail(sndbuf[p]) \in Seq(Fragments)
    BY <2>1, HeadTailProperties
  <2>3. Append(Tail(sndbuf[p]), Head(sndbuf[p])) \in Seq(Fragments)
    BY <2>2, AppendProperties
  <2> QED BY <1>6, <2>2, <2>3 DEF TyRings, TcpOut, TcpOutMiss
<1>7. CASE Recv
  <2>1. PICK p \in Peer : /\ rcvbuf[p] = <<>> => UNCHANGED <<rcvbuf, buff>>
                          /\ rcvbuf[p] # <<>> => /\ rcvbuf' = [rcvbuf EXCEPT ![p] = Tail(@)]
                                                 /\ buff' = Head(rcvbuf[p])
    BY <1>7 DEF Recv, Holder, Streams
  <2>2. sndbuf' = sndbuf
    BY <1>7 DEF Recv
  <2>3. CASE rcvbuf[p] # <<>>
    <3>1. rcvbuf[p] \in Seq(Seq(Nat))
      BY DEF TyRings
    <3>2. Head(rcvbuf[p]) \in Seq(Nat) /\ Tail(rcvbuf[p]) \in Seq(Seq(Nat))
      BY <2>3, <3>1, HeadTailProperties
    <3> QED BY <2>1, <2>2, <2>3, <3>2 DEF TyRings
  <2> QED BY <1>3, <2>1, <2>2, <2>3
<1>8. CASE Send \/ Close
  <2>1. cur \in Peer /\ Fragment("psh", buff) \in Fragments /\ Fragment("fin", <<>>) \in Fragments
    BY <1>0, <1>8 DEF Send, Close, Threads, Fragment, Fragments, TyRings
  <2> QED BY <1>0, <1>2, <1>8, <2>1 DEF TyRings, Send, Close, Goto
<1>9. CASE UNCHANGED vars
  BY <1>3, <1>9 DEF vars
<1>10. CASE UdpArrives \/ UdpOutMiss \/ PktInstance \/ PktAllocate \/ SignalListener \/ SignalRecv \/ SignalUdp \/ UdpOut
  BY <1>3, <1>10 DEF UdpArrives, UdpOutMiss, PktInstance, PktAllocate, SignalListener, SignalRecv, SignalUdp, UdpOut
<1>11. CASE UdpServerStep
  BY <1>3, <1>11 DEF UdpServerStep, UdpFd, UdpMark, UdpBind, UdpRecv, UdpSend, Still
<1>12. ASSUME NEW h \in Peer \cup {UdpHost}, ArpReply(h) PROVE TyRings'
  BY <1>3, <1>12 DEF ArpReply
<1>13. CASE SocketFd \/ SocketMark \/ SocketAllocate \/ SocketLink \/ BindListen \/ AcceptLookup \/ AcceptTake
         \/ AcceptMark \/ CloseStatus
  BY <1>3, <1>13 DEF SocketFd, SocketMark, SocketAllocate, SocketLink, BindListen, AcceptLookup, AcceptTake, AcceptMark,
                     CloseStatus, Goto
<1> QED BY <1>4, <1>5, <1>6, <1>7, <1>8, <1>9, <1>10, <1>11, <1>12, <1>13 DEF Next, PacketStep, Misses, TcpServerStep

(* ... nor the datagrams. *)
LEMMA DgramsTyped ==
  ASSUME TyDgrams, TySteps, Threads, [Next]_vars
  PROVE  TyDgrams'
<1> USE DEF table, lsock, stream, udphost, packet, server, userver, peers, dgrams, history
<1>0. /\ dsent \in Nat /\ echoed \subseteq 1..dsent /\ udata \in 0..dsent
      /\ urcv \in Seq(1..dsent) /\ usnd \in Seq(1..dsent)
  BY ApiAssumption DEF TyDgrams
<1>1. CASE UNCHANGED <<dgrams, urcv, usnd, udata>>
  BY <1>1 DEF TyDgrams
<1>2. CASE UdpArrives
  <2>1. 1..dsent \subseteq 1..dsent + 1 /\ dsent + 1 \in 1..dsent + 1
    BY <1>0
  <2>2. \A q : q \in Seq(1..dsent) => q \in Seq(1..dsent + 1)
    <3>1. ASSUME NEW q, q \in Seq(1..dsent) PROVE q \in Seq(1..dsent + 1)
      <4>1. \A i \in 1..Len(q) : q[i] \in 1..dsent + 1
        BY <2>1, <3>1, ElementOfSeq
      <4>2. Len(q) \in Nat /\ q = [i \in 1..Len(q) |-> q[i]]
        BY <3>1, LenProperties
      <4>3. [i \in 1..Len(q) |-> q[i]] \in Seq(1..dsent + 1)
        BY <4>1, <4>2
      <4> QED BY <4>2, <4>3
    <3> QED BY <3>1
  <2>3. urcv \in Seq(1..dsent + 1) /\ usnd \in Seq(1..dsent + 1)
    BY <1>0, <2>2
  <2>4. Append(urcv, dsent + 1) \in Seq(1..dsent + 1)
    BY <2>1, <2>3, AppendProperties
  <2>5. dsent' = dsent + 1 /\ dsent' \in 0..MaxDgrams /\ udata' \in 0..dsent'
    BY <1>0, <1>2, ApiAssumption DEF UdpArrives
  <2>6. echoed' \subseteq 1..dsent + 1
    BY <1>0, <1>2, <2>1 DEF UdpArrives
  <2>7. urcv' \in Seq(1..dsent + 1) /\ usnd' \in Seq(1..dsent + 1)
    BY <1>2, <2>3, <2>4 DEF UdpArrives
  <2> QED BY <2>5, <2>6, <2>7 DEF TyDgrams
<1>3. CASE UdpOut \/ UdpOutMiss
  <2>1. usnd # <<>>
    BY <1>3 DEF UdpOut, UdpOutMiss
  <2>2. Head(usnd) \in 1..dsent /\ Tail(usnd) \in Seq(1..dsent)
    BY <1>0, <2>1, HeadTailProperties
  <2>3. Append(Tail(usnd), Head(usnd)) \in Seq(1..dsent)
    BY <2>2, AppendProperties
  <2> QED BY <1>3, <2>2, <2>3 DEF UdpOut, UdpOutMiss, TyDgrams
<1>4. CASE UdpRecv
  <2>1. CASE urcv = <<>>
    BY <1>1, <1>4, <2>1 DEF UdpRecv, Still
  <2>2. CASE urcv # <<>>
    <3>1. Head(urcv) \in 1..dsent /\ Tail(urcv) \in Seq(1..dsent)
      BY <1>0, <2>2, HeadTailProperties
    <3>2. Head(urcv) \in 0..dsent
      BY <1>0, <3>1
    <3> QED BY <1>4, <2>2, <3>1, <3>2 DEF UdpRecv, Still, TyDgrams
  <2> QED BY <2>1, <2>2
<1>5. CASE UdpSend
  <2>1. udata \in 1..dsent
    BY <1>5 DEF UdpSend, Threads
  <2>2. Append(usnd, udata) \in Seq(1..dsent) /\ 0 \in 0..dsent
    BY <1>0, <2>1, AppendProperties
  <2> QED BY <1>5, <2>2 DEF UdpSend, Still, TyDgrams
<1>6. CASE PktInstance \/ PktAllocate \/ SignalListener \/ TcpDataFin \/ SignalRecv \/ SignalUdp \/ UdpFd \/ UdpMark \/ UdpBind
  BY <1>1, <1>6 DEF PktInstance, PktAllocate, SignalListener, TcpDataFin, CloseWait, SignalRecv, SignalUdp,
                    UdpFd, UdpMark, UdpBind, Still
<1>7. CASE TcpServerStep
  BY <1>1, <1>7 DEF TcpServerStep, SocketFd, SocketMark, SocketAllocate, SocketLink, BindListen,
    AcceptLookup, AcceptTake, AcceptMark, Recv, Send, Close, CloseStatus, Quiet
<1>8. ASSUME NEW p \in Peer, Arrives(p) \/ Answers(p) \/ TcpOut(p) \/ TcpOutMiss(p) PROVE TyDgrams'
  BY <1>1, <1>8 DEF Arrives, Answers, TcpSyn, TcpSynCrash, TcpData, TcpEstablish, TcpFin, CloseWait, TcpAck,
                    TcpOut, TcpOutMiss
<1>9. ASSUME NEW h \in Peer \cup {UdpHost}, ArpReply(h) PROVE TyDgrams'
  BY <1>1, <1>9 DEF ArpReply
<1>10. CASE UNCHANGED vars
  BY <1>1, <1>10 DEF vars
<1> QED BY <1>2, <1>3, <1>4, <1>5, <1>6, <1>7, <1>8, <1>9, <1>10 DEF Next, PacketStep, Misses, UdpServerStep

(* No step leaves the types. *)
LEMMA TypesKept ==
  ASSUME TypeOK, Descriptors, Threads, [Next]_vars
  PROVE  TypeOK'
<1>1. TyFlags /\ TySteps /\ TyFds /\ TyStreams /\ TyRings /\ TyDgrams
  BY TypeGroups
<1>2. TyFlags' /\ TySteps' /\ TyFds' /\ TyStreams' /\ TyRings' /\ TyDgrams'
  BY <1>1, FlagsTyped, StepsTyped, FdsTyped, StreamsTyped, RingsTyped, DgramsTyped
<1>3. TypeOK' <=> TyFlags' /\ TySteps' /\ TyFds' /\ TyStreams' /\ TyRings' /\ TyDgrams'
  BY TypeGroups, PTL
<1> QED BY <1>2, <1>3

-----------------------------------------------------------------------------
(* The descriptors *)

(* No socket is given the descriptor of another because too many are in use. *)
LEMMA DescriptorsKept ==
  ASSUME TypeOK, Descriptors, Threads, [Next]_vars
  PROVE  Descriptors'
<1> USE DEF table, lsock, stream, udphost, packet, server, userver, peers, dgrams, history
<1>1. PICK k \in Int : Few(k)
  BY DEF Descriptors
<1>2. TyFds /\ TySteps /\ TyFlags
  BY TypeGroups
<1>3. CASE UNCHANGED <<fd_table, lfd, ufd, spc, upc, cfd, pick, upick>>
  BY <1>1, <1>3 DEF Descriptors, Few, Held
<1>4. CASE UdpArrives \/ UdpOutMiss \/ PktInstance \/ PktAllocate \/ TcpDataFin \/ UdpOut
  BY <1>3, <1>4 DEF UdpArrives, UdpOutMiss, PktInstance, PktAllocate, TcpDataFin, CloseWait, UdpOut
<1>5. ASSUME NEW p \in Peer, Arrives(p) \/ Answers(p) \/ TcpOut(p) \/ TcpOutMiss(p) PROVE Descriptors'
  BY <1>3, <1>5 DEF Arrives, Answers, TcpSyn, TcpSynCrash, TcpData, TcpEstablish, TcpFin, CloseWait, TcpAck,
                    TcpOut, TcpOutMiss
<1>6. ASSUME NEW h \in Peer \cup {UdpHost}, ArpReply(h) PROVE Descriptors'
  BY <1>3, <1>6 DEF ArpReply
<1>7. ASSUME UNCHANGED <<fd_table, lfd, ufd, cfd, pick, upick>>, upc = "socket" <=> upc' = "socket", Held' = Held,
             spc' \in {"socket", "mark"} => spc \in {"socket", "mark"},
             spc' \in {"mark", "assign"} => spc \in {"mark", "assign"},
             upc' \in {"socket", "mark"} => upc \in {"socket", "mark"}, upc' = "mark" => upc = "mark"
      PROVE  Descriptors'
  <2>1. Few(k)'
    BY <1>1, <1>7 DEF Few
  <2> QED BY <1>7, <2>1 DEF Descriptors
<1>8. CASE SignalListener \/ SignalRecv \/ SignalUdp
  BY <1>7, <1>8 DEF SignalListener, SignalRecv, SignalUdp, Held
<1>9. CASE SocketAllocate \/ SocketLink \/ BindListen \/ Recv \/ Send \/ Close
  BY <1>7, <1>9 DEF SocketAllocate, SocketLink, BindListen, Recv, Send, Close, Goto, Quiet, Held
<1>10. CASE UdpBind \/ UdpRecv \/ UdpSend
  BY <1>7, <1>10 DEF UdpBind, UdpRecv, UdpSend, Still, Held
<1>11. CASE UNCHANGED vars
  BY <1>3, <1>11 DEF vars
<1>12. CASE SocketFd \/ AcceptTake
  <2>1. fd_table \subseteq {lfd, ufd, k} /\ UNCHANGED <<fd_table, lfd, ufd, upc, upick>>
    BY <1>1, <1>12 DEF Few, Held, SocketFd, AcceptTake, Quiet
  <2>2. Found(fd_table).fd \in Fds /\ Found(fd_table).seen = fd_table
    BY <1>2, <2>1, FoundOne DEF TyFds
  <2>3. Few(k)'
    <3>1. Held' = {}
      BY <1>12 DEF SocketFd, AcceptTake, Goto, Held
    <3>2. pick'.seen \subseteq {lfd, ufd, k}
      BY <1>1, <1>12, <2>1, <2>2 DEF SocketFd, AcceptTake, Goto, Few
    <3> QED BY <1>1, <2>1, <3>1, <3>2 DEF Few
  <2>4. spc' \in {"mark", "assign"} => pick'.fd \in Fds
    BY <1>12, <2>2 DEF SocketFd, AcceptTake, Goto
  <2>5. spc' \in {"socket", "mark"} => lfd' = NoFd
    BY <1>12, <2>1 DEF SocketFd, AcceptTake, Goto, Descriptors
  <2> QED BY <1>12, <2>1, <2>3, <2>4, <2>5 DEF Descriptors
<1>13. CASE SocketMark
  <2>1. pick.fd \in Fds /\ lfd = NoFd /\ UNCHANGED <<ufd, upc, upick>> /\ lfd' = pick.fd /\ pick' = NoPick /\ spc' \in {"alloc", "link"}
    BY <1>13 DEF SocketMark, Quiet, Descriptors
  <2>2. fd_table' \subseteq fd_table \union {pick.fd} \union pick.seen
    BY <1>13 DEF SocketMark, Mark, Written
  <2>3. Held = {} /\ Held' = {}
    BY <1>13, <2>1 DEF SocketMark, Held
  <2>4. Few(k)'
    BY <1>1, <1>2, <2>1, <2>2, <2>3, Smalls DEF Few, NoPick, TyFds
  <2> QED BY <2>1, <2>4 DEF Descriptors
<1>14. CASE AcceptMark
  <2>1. UNCHANGED <<lfd, ufd, upc, upick>> /\ cfd' = pick.fd /\ pick' = NoPick /\ spc' = "recv"
    BY <1>14 DEF AcceptMark, Quiet
  <2>2. fd_table' \subseteq fd_table \union {pick.fd} \union pick.seen
    BY <1>14 DEF AcceptMark, Mark, Written
  <2>3. Held = {} /\ Held' = {pick.fd}
    BY <1>14, <2>1 DEF AcceptMark, Held
  <2>4. Few(k)'
    BY <1>1, <2>1, <2>2, <2>3 DEF Few, NoPick
  <2> QED BY <2>1, <2>4 DEF Descriptors
<1>15. CASE AcceptLookup
  <2>1. UNCHANGED <<fd_table, lfd, ufd, pick, upick, upc>> /\ spc' \in {"accept", "recv"}
    BY <1>15 DEF AcceptLookup, Quiet
  <2>2. Held = {}
    BY <1>15 DEF AcceptLookup, Held
  <2>3. Few(k)'
    BY <1>1, <2>1, <2>2 DEF Few
  <2> QED BY <2>1, <2>3 DEF Descriptors
<1>16. CASE CloseStatus
  <2>1. UNCHANGED <<lfd, ufd, pick, upick, upc>> /\ spc' = "lookup" /\ fd_table' = fd_table \ {cfd}
    BY <1>16 DEF CloseStatus, Quiet
  <2>2. Held = {cfd} /\ Held' = {}
    BY <1>16, <2>1 DEF CloseStatus, Held
  <2>3. Few(k)'
    BY <1>1, <2>1, <2>2 DEF Few
  <2> QED BY <2>1, <2>3 DEF Descriptors
<1>17. CASE UdpFd
  <2>1. /\ UNCHANGED <<fd_table, lfd, ufd, pick, cfd, spc>> /\ upc = "socket" /\ upc' = "mark"
        /\ upick' = Found(fd_table) /\ ufd = NoFd /\ k = NoFd
    BY <1>1, <1>17 DEF UdpFd, Still, Descriptors, Few
  <2>2. PICK c \in Int : Held \subseteq {c}
    BY <1>2, Smalls DEF Held, NoFd, TyFds, Unused
  <2>3. fd_table \subseteq {lfd, c} /\ pick.seen \subseteq {lfd, c}
    BY <1>1, <1>2, <2>1, <2>2, Smalls DEF Few, TyFds
  <2>4. Found(fd_table).fd \in Fds /\ Found(fd_table).seen = fd_table
    <3>1. fd_table \in SUBSET Fds /\ fd_table \subseteq {lfd, c, c}
      BY <1>2, <2>3 DEF TyFds
    <3> QED BY <3>1, FoundOne
  <2>5. Held' = Held
    BY <2>1 DEF Held
  <2>6. Few(c)'
    BY <2>1, <2>3, <2>4, <2>5 DEF Few
  <2> QED BY <2>1, <2>2, <2>4, <2>6 DEF Descriptors
<1>18. CASE UdpMark
  <2>1. /\ upick.fd \in Fds /\ ufd = NoFd /\ UNCHANGED <<lfd, spc, cfd, pick>> /\ ufd' = upick.fd
        /\ upick' = NoPick /\ upc' = "bind"
    BY <1>18 DEF UdpMark, Still, Descriptors
  <2>2. fd_table' \subseteq fd_table \union {upick.fd} \union upick.seen
    BY <1>18 DEF UdpMark, Mark, Written
  <2>3. Held' = Held
    BY <2>1 DEF Held
  <2>4. Few(k)'
    BY <1>1, <1>2, <2>1, <2>2, <2>3, Smalls DEF Few, NoPick, TyFds
  <2> QED BY <2>1, <2>4 DEF Descriptors
<1> QED BY <1>4, <1>5, <1>6, <1>8, <1>9, <1>10, <1>11, <1>12, <1>13, <1>14, <1>15, <1>16, <1>17, <1>18
        DEF Next, PacketStep, Misses, TcpServerStep, UdpServerStep

-----------------------------------------------------------------------------
(* The threads *)

(* What the steps of the threads say of their streams stays true.           *)
LEMMA ThreadsKept ==
  ASSUME TypeOK, Threads, Readings, Wakes, [Next]_vars
  PROVE  Threads'
<1> USE DEF table, lsock, stream, udphost, packet, server, userver, peers, dgrams, history
<1>1. TyFlags /\ TySteps /\ TyStreams /\ TyRings /\ TyDgrams /\ NoPeer \notin Peer
  BY TypeGroups, Smalls
<1>2. CASE UNCHANGED <<kpc, kcur, kfin, spc, cur, buff, status, pst, upc, udata, dsent>>
  BY <1>2 DEF Threads
<1>3. CASE UNCHANGED vars
  BY <1>2, <1>3 DEF vars
<1>4. ASSUME NEW p \in Peer, TcpSynCrash(p) \/ TcpOut(p) \/ TcpOutMiss(p) PROVE Threads'
  BY <1>2, <1>4 DEF TcpSynCrash, TcpOut, TcpOutMiss
<1>5. ASSUME NEW h \in Peer \cup {UdpHost}, ArpReply(h) PROVE Threads'
  BY <1>2, <1>5 DEF ArpReply
<1>6. CASE UdpOut \/ UdpOutMiss \/ UdpFd \/ UdpMark \/ UdpBind
  BY <1>2, <1>6 DEF UdpOut, UdpOutMiss, UdpFd, UdpMark, UdpBind, Still, Threads
<1>7. CASE SocketFd \/ SocketMark \/ SocketAllocate \/ SocketLink \/ BindListen \/ AcceptLookup \/ AcceptMark
  BY <1>7 DEF SocketFd, SocketMark, SocketAllocate, SocketLink, BindListen, AcceptLookup, AcceptMark, Goto, Quiet, Threads
<1>8. CASE AcceptTake
  <2>1. Holder(Unused) \subseteq Peer
    BY DEF Holder, Streams
  <2> QED BY <1>8, <2>1 DEF AcceptTake, Goto, Quiet, Threads
<1>9. CASE Recv
  <2>1. PICK p \in Peer : /\ cur' = p /\ Listed(p)
          /\ IF rcvbuf[p] = <<>> THEN spc' = "recvwait"
             ELSE /\ buff' = Head(rcvbuf[p])
                  /\ spc' = IF Head(rcvbuf[p]) = <<>> THEN "close" ELSE "send"
    BY <1>9 DEF Recv, Holder, Streams
  <2>2. spc = "recv" /\ UNCHANGED <<kpc, kcur, kfin, status, pst, upc, udata, dsent>>
    BY <1>9 DEF Recv, Quiet
  <2>3. CASE rcvbuf[p] = <<>>
    BY <2>1, <2>2, <2>3 DEF Threads
  <2>4. CASE rcvbuf[p] # <<>>
    <3>1. /\ status[p] \in {"ESTABLISHED", "CLOSE_WAIT"}
          /\ Head(rcvbuf[p]) = <<>> => status[p] = "CLOSE_WAIT"
      <4>1. rcvbuf[p] \in Seq(Seq(Nat)) /\ status[p] \in {"none", "SYN_RCVD", "ESTABLISHED", "CLOSE_WAIT", "LAST_ACK"}
        BY <1>1 DEF TyRings, TyStreams
      <4>2. 1 \in 1..Len(rcvbuf[p]) /\ Head(rcvbuf[p]) = rcvbuf[p][1]
        BY <2>4, <4>1, HeadTailProperties, LenProperties, EmptySeq
      <4>3. Reading(p)
        BY DEF Readings
      <4> QED BY <2>4, <4>1, <4>2, <4>3 DEF Reading
    <3>2. /\ buff' = Head(rcvbuf[p])
          /\ spc' = IF Head(rcvbuf[p]) = <<>> THEN "close" ELSE "send"
      BY <2>1, <2>4
    <3> QED BY <2>1, <2>2, <3>1, <3>2 DEF Threads
  <2> QED BY <2>3, <2>4
<1>10. CASE Send \/ Close
  BY <1>10 DEF Send, Close, Goto, Quiet, Threads
<1>11. CASE CloseStatus
  <2>1. /\ status' = [status EXCEPT ![cur] = "LAST_ACK"] /\ status[cur] = "CLOSE_WAIT" /\ cur \in Peer
        /\ spc' = "lookup" /\ UNCHANGED <<kpc, kcur, kfin, pst, upc, udata, dsent>>
    BY <1>11 DEF CloseStatus, Quiet, Threads
  <2>2. kfin => status'[kcur] = "ESTABLISHED"
    BY <1>1, <2>1 DEF Threads, TyStreams
  <2>3. kpc \notin {"start", "alloc"} /\ \A p \in Peer : status'[p] = "none" <=> status[p] = "none"
    BY <1>1, <2>1 DEF Threads, TyStreams
  <2> QED BY <2>1, <2>2, <2>3 DEF Threads
<1>12. CASE PktInstance \/ PktAllocate \/ SignalListener \/ SignalRecv \/ SignalUdp
  <2>1. UNCHANGED <<status, cur, buff, pst, udata, dsent, kfin>>
    BY <1>12 DEF PktInstance, PktAllocate, SignalListener, SignalRecv, SignalUdp
  <2>2. CASE SignalRecv
    <3>1. kpc = "signal" /\ kcur \in Peer /\ kpc' = (IF kfin THEN "fin" ELSE "idle") /\ (kfin => kcur' = kcur)
          /\ spc' \in {spc, "recv"} /\ upc' = upc
      BY <2>2 DEF SignalRecv, Threads
    <3> QED BY <1>1, <2>1, <3>1 DEF Threads, TySteps
  <2>3. CASE ~SignalRecv
    <3>1. /\ kpc' \in {"idle", "alloc"} /\ kpc \in {"start", "alloc", "listener", "sigudp"} /\ kcur' = kcur
          /\ kpc' = "alloc" => kpc = "start"
          /\ spc' \in {spc, "accept"} /\ upc' \in {upc, "recv"}
      BY <1>12, <2>3 DEF PktInstance, PktAllocate, SignalListener, SignalUdp
    <3> QED BY <2>1, <3>1 DEF Threads
  <2> QED BY <2>2, <2>3
<1>13. CASE TcpDataFin
  <2>1. /\ kcur \in Peer /\ status' = [status EXCEPT ![kcur] = "CLOSE_WAIT"] /\ kpc' = "signal" /\ kcur' = kcur /\ kfin' = FALSE
        /\ status[kcur] = "ESTABLISHED" /\ UNCHANGED <<spc, cur, buff, pst, upc, udata, dsent>>
    BY <1>13 DEF TcpDataFin, CloseWait, Threads
  <2>2. \A p \in Peer : /\ status'[p] = "none" <=> status[p] = "none"
                        /\ status[p] \in {"ESTABLISHED", "CLOSE_WAIT"} => status'[p] \in {"ESTABLISHED", "CLOSE_WAIT"}
                        /\ status[p] = "CLOSE_WAIT" => status'[p] = "CLOSE_WAIT"
    BY <1>1, <2>1 DEF TyStreams
  <2> QED BY <2>1, <2>2 DEF Threads
<1>14. ASSUME NEW p \in Peer, TcpSyn(p) \/ TcpEstablish(p) PROVE Threads'
  <2>1. /\ status[p] \in {"none", "SYN_RCVD"} /\ pst'[p] # "new"
        /\ \A q \in Peer \ {p} : status'[q] = status[q] /\ pst'[q] = pst[q]
        /\ kpc = "idle" /\ kpc' \in {"idle", "listener"} /\ UNCHANGED <<kcur, kfin, spc, cur, buff, upc, udata, dsent>>
    BY <1>1, <1>14 DEF TcpSyn, TcpEstablish, Connects, TyStreams, Threads
  <2> QED BY <2>1 DEF Threads
<1>15. ASSUME NEW p \in Peer, NEW n \in 1..MSS, NEW fin \in BOOLEAN, TcpData(p, n, fin) PROVE Threads'
  <2>1. /\ status[p] = "ESTABLISHED" /\ \A q \in Peer : pst'[q] = "new" => pst[q] = "new"
        /\ kpc = "idle" /\ kpc' = "signal" /\ kcur' = p /\ UNCHANGED <<status, spc, cur, buff, upc, udata, dsent>>
    BY <1>1, <1>15 DEF TcpData, TyStreams
  <2> QED BY <2>1 DEF Threads
<1>16. ASSUME NEW p \in Peer, TcpFin(p) PROVE Threads'
  <2>1. /\ status[p] = "ESTABLISHED" /\ \A q \in Peer : pst'[q] = "new" => pst[q] = "new"
        /\ status' = [status EXCEPT ![p] = "CLOSE_WAIT"]
        /\ kpc' = "signal" /\ kcur' = p /\ kfin' = FALSE /\ UNCHANGED <<spc, cur, buff, upc, udata, dsent>>
    BY <1>1, <1>16 DEF TcpFin, CloseWait, TyStreams
  <2>2. \A q \in Peer : /\ status'[q] = "none" <=> status[q] = "none"
                        /\ status[q] \in {"ESTABLISHED", "CLOSE_WAIT"} => status'[q] \in {"ESTABLISHED", "CLOSE_WAIT"}
                        /\ status[q] = "CLOSE_WAIT" => status'[q] = "CLOSE_WAIT"
    BY <1>1, <2>1 DEF TyStreams
  <2> QED BY <2>1, <2>2 DEF Threads
<1>17. ASSUME NEW p \in Peer, NEW what, TcpAck(p, what) PROVE Threads'
  <2>1. kpc = "idle" /\ UNCHANGED <<kpc, kcur, kfin, spc, cur, buff, pst, upc, udata, dsent>>
    BY <1>17 DEF TcpAck
  <2>2. \A q \in Peer : /\ status'[q] # status[q] => status[q] = "LAST_ACK" /\ status'[q] = "none"
    BY <1>1, <1>17 DEF TcpAck, TyStreams
  <2> QED BY <2>1, <2>2 DEF Threads
<1>18. CASE UdpRecv \/ UdpSend
  <2>1. UNCHANGED <<kpc, kcur, kfin, spc, cur, buff, status, pst, dsent>>
    BY <1>18 DEF UdpRecv, UdpSend, Still
  <2>2. upc' = "send" => udata' \in 1..dsent
    <3>1. urcv \in Seq(1..dsent)
      BY <1>1 DEF TyDgrams
    <3>2. urcv # <<>> => Head(urcv) \in 1..dsent
      BY <3>1, HeadTailProperties
    <3> QED BY <1>18, <3>2 DEF UdpRecv, UdpSend
  <2> QED BY <2>1, <2>2 DEF Threads
<1>19. CASE UdpArrives
  <2>1. UNCHANGED <<kcur, kfin, spc, cur, buff, status, pst, upc, udata>> /\ kpc' \in {kpc, "sigudp"} /\ kpc = "idle" /\ dsent' = dsent + 1
    BY <1>19 DEF UdpArrives
  <2>2. 1..dsent \subseteq 1..dsent + 1
    BY <1>1, ApiAssumption DEF TyDgrams
  <2> QED BY <2>1, <2>2 DEF Threads
<1> QED BY <1>3, <1>4, <1>5, <1>6, <1>7, <1>8, <1>9, <1>10, <1>11, <1>12, <1>13, <1>14, <1>15, <1>16, <1>17, <1>18, <1>19
        DEF Next, PacketStep, Misses, TcpServerStep, UdpServerStep, Arrives, Answers

(* The end of the stream stays the last fragment, behind the bytes.         *)
LEMMA ReadingsKept ==
  ASSUME TypeOK, Threads, Readings, [Next]_vars
  PROVE  Readings'
<1> USE DEF table, lsock, stream, udphost, packet, server, userver, peers, dgrams, history
<1>1. TySteps /\ TyStreams /\ TyRings
  BY TypeGroups
<1>2. ASSUME NEW p \in Peer, status'[p] = status[p], rcvbuf'[p] = rcvbuf[p], AtEnd(p)' <=> AtEnd(p) PROVE Reading(p)'
  BY <1>2, Zenon DEF Readings, Reading
<1>3. ASSUME UNCHANGED <<status, rcvbuf>>, \A p \in Peer : AtEnd(p)' <=> AtEnd(p) PROVE Readings'
  BY <1>2, <1>3 DEF Readings
<1>4. CASE UNCHANGED vars
  BY <1>3, <1>4 DEF vars, AtEnd
<1>5. ASSUME NEW p \in Peer, TcpSynCrash(p) \/ TcpOut(p) \/ TcpOutMiss(p) PROVE Readings'
  BY <1>3, <1>5 DEF TcpSynCrash, TcpOut, TcpOutMiss, AtEnd
<1>6. ASSUME NEW h \in Peer \cup {UdpHost}, ArpReply(h) PROVE Readings'
  BY <1>3, <1>6 DEF ArpReply, AtEnd
<1>7. CASE UdpOut \/ UdpOutMiss \/ UdpArrives \/ UdpServerStep \/ PktInstance \/ PktAllocate \/ SignalUdp
  BY <1>3, <1>7 DEF UdpOut, UdpOutMiss, UdpArrives, UdpServerStep, UdpFd, UdpMark, UdpBind, UdpRecv, UdpSend, Still,
                    PktInstance, PktAllocate, SignalUdp, AtEnd
<1>8. CASE SignalListener \/ SignalRecv
  BY <1>3, <1>8 DEF SignalListener, SignalRecv, AtEnd
<1>9. CASE SocketFd \/ SocketMark \/ SocketAllocate \/ SocketLink \/ BindListen \/ AcceptLookup \/ AcceptTake \/ AcceptMark
  BY <1>3, <1>9 DEF SocketFd, SocketMark, SocketAllocate, SocketLink, BindListen, AcceptLookup, AcceptTake, AcceptMark,
                    Goto, AtEnd
<1>10. CASE Send \/ Close
  BY <1>3, <1>10 DEF Send, Close, Goto, AtEnd
<1>11. CASE CloseStatus
  <2>1. /\ status' = [status EXCEPT ![cur] = "LAST_ACK"] /\ status[cur] = "CLOSE_WAIT" /\ cur \in Peer
        /\ spc = "lastack" /\ spc' = "lookup" /\ rcvbuf' = rcvbuf
    BY <1>11 DEF CloseStatus, Threads
  <2>2. Reading(cur)
    BY <2>1 DEF Readings
  <2>3. rcvbuf[cur] = <<>>
    BY <2>1, <2>2 DEF Reading, AtEnd
  <2>4. ASSUME NEW p \in Peer PROVE Reading(p)'
    <3>1. CASE p = cur
      <4>1. status'[p] = "LAST_ACK"
        BY <1>1, <2>1, <3>1 DEF TyStreams
      <4> QED BY <2>1, <2>3, <3>1, <4>1 DEF Reading
    <3>2. CASE p # cur
      <4>1. status'[p] = status[p] /\ ~AtEnd(p) /\ ~AtEnd(p)'
        BY <1>1, <2>1, <3>2 DEF TyStreams, AtEnd
      <4> QED BY <1>2, <2>1, <4>1
    <3> QED BY <3>1, <3>2
  <2> QED BY <2>4 DEF Readings
<1>12. ASSUME NEW p \in Peer, TcpSyn(p) \/ TcpEstablish(p) PROVE Readings'
  <2>1. /\ status[p] \in {"none", "SYN_RCVD"} /\ status'[p] \in {"SYN_RCVD", "ESTABLISHED"}
        /\ \A q \in Peer \ {p} : status'[q] = status[q]
        /\ rcvbuf' = rcvbuf /\ UNCHANGED <<spc, cur>>
    BY <1>1, <1>12 DEF TcpSyn, TcpEstablish, Connects, TyStreams, Threads
  <2>2. rcvbuf[p] = <<>>
    BY <2>1 DEF Readings, Reading
  <2>3. rcvbuf'[p] = <<>> /\ \A k \in 1..Len(rcvbuf'[p]) : rcvbuf'[p][k] # <<>>
    BY <2>1, <2>2
  <2>4. Reading(p)'
    BY <2>1, <2>3 DEF Reading
  <2>5. ASSUME NEW q \in Peer \ {p} PROVE Reading(q)'
    BY <1>2, <2>1 DEF AtEnd
  <2> QED BY <2>4, <2>5 DEF Readings
<1>13. ASSUME NEW p \in Peer, NEW n \in 1..MSS, NEW fin \in BOOLEAN, TcpData(p, n, fin) PROVE Readings'
  <2> DEFINE z == [k \in 1..n |-> rcvd[p] + k]
  <2>1. /\ status[p] = "ESTABLISHED" /\ rcvbuf' = [rcvbuf EXCEPT ![p] = Append(@, z)] /\ UNCHANGED <<status, spc, cur>>
    BY <1>13 DEF TcpData, Enqueue
  <2>2. z \in Seq(Nat) /\ z # <<>>
    <3>1. rcvd[p] \in Nat /\ n \in Nat /\ 1 \in 1..n
      BY <1>1, Smalls DEF TyStreams
    <3> QED BY <3>1
  <2>3. rcvbuf[p] \in Seq(Seq(Nat)) /\ \A k \in 1..Len(rcvbuf[p]) : rcvbuf[p][k] # <<>>
    BY <1>1, <2>1 DEF TyRings, Readings, Reading
  <2> HIDE DEF z
  <2>4. \A k \in 1..Len(Append(rcvbuf[p], z)) : Append(rcvbuf[p], z)[k] # <<>>
    <3>1. PICK l \in Nat : l = Len(rcvbuf[p])
      BY <2>3, LenProperties
    <3>2. /\ Len(Append(rcvbuf[p], z)) = l + 1 /\ Append(rcvbuf[p], z)[l + 1] = z
          /\ \A k \in 1..l : Append(rcvbuf[p], z)[k] = rcvbuf[p][k]
      BY <2>2, <2>3, <3>1, AppendProperties
    <3> QED BY <2>2, <2>3, <3>1, <3>2
  <2>5. rcvbuf'[p] = Append(rcvbuf[p], z) /\ \A q \in Peer \ {p} : rcvbuf'[q] = rcvbuf[q]
    BY <1>1, <2>1 DEF TyRings
  <2>6. Reading(p)'
    BY <2>1, <2>4, <2>5 DEF Reading
  <2>7. ASSUME NEW q \in Peer \ {p} PROVE Reading(q)'
    BY <1>2, <2>1, <2>5 DEF AtEnd
  <2> QED BY <2>6, <2>7 DEF Readings
<1>14. ASSUME NEW p \in Peer, status[p] = "ESTABLISHED", CloseWait(p), UNCHANGED <<spc, cur>> PROVE Readings'
  <2>1. rcvbuf' = [rcvbuf EXCEPT ![p] = Append(@, <<>>)] /\ status' = [status EXCEPT ![p] = "CLOSE_WAIT"]
    BY <1>14 DEF CloseWait, Enqueue
  <2>2. rcvbuf[p] \in Seq(Seq(Nat)) /\ \A k \in 1..Len(rcvbuf[p]) : rcvbuf[p][k] # <<>>
    BY <1>1, <1>14 DEF TyRings, Readings, Reading
  <2>3. PICK l \in Nat : l = Len(rcvbuf[p])
    BY <2>2, LenProperties
  <2>4. PICK q : q = Append(rcvbuf[p], <<>>)
    OBVIOUS
  <2>5. /\ Len(q) = l + 1 /\ q[l + 1] = <<>> /\ q # <<>>
        /\ \A k \in 1..l : q[k] = rcvbuf[p][k]
    <3>1. <<>> \in Seq(Nat) /\ Len(rcvbuf[p]) \in Nat
      BY <2>2, EmptySeq, LenProperties
    <3>2. /\ q \in Seq(Seq(Nat)) /\ Len(q) = l + 1 /\ q[l + 1] = <<>>
          /\ \A k \in 1..l : q[k] = rcvbuf[p][k]
      BY <2>2, <2>3, <2>4, <3>1, AppendProperties
    <3>3. q # <<>>
      BY <2>3, <3>2, EmptySeq
    <3> QED BY <3>2, <3>3
  <2>6. \A k \in 1..l + 1 : q[k] = <<>> <=> k = l + 1
    BY <2>2, <2>3, <2>5
  <2>7. /\ rcvbuf'[p] = q /\ status'[p] = "CLOSE_WAIT"
        /\ \A r \in Peer \ {p} : rcvbuf'[r] = rcvbuf[r] /\ status'[r] = status[r]
    BY <1>1, <2>1, <2>4 DEF TyRings, TyStreams
  <2>8. ~AtEnd(p)'
    BY <1>14 DEF Threads, AtEnd
  <2>9. Reading(p)'
    BY <2>5, <2>6, <2>7, <2>8 DEF Reading
  <2>10. ASSUME NEW r \in Peer \ {p} PROVE Reading(r)'
    BY <1>2, <1>14, <2>7 DEF AtEnd
  <2> QED BY <2>9, <2>10 DEF Readings
<1>15. CASE TcpDataFin
  BY <1>14, <1>15 DEF TcpDataFin, CloseWait, Threads
<1>16. ASSUME NEW p \in Peer, TcpFin(p) PROVE Readings'
  BY <1>14, <1>16 DEF TcpFin, CloseWait
<1>17. ASSUME NEW p \in Peer, NEW what, TcpAck(p, what) PROVE Readings'
  <2>1. UNCHANGED <<spc, cur>> /\ \A q \in Peer \ {p} : status'[q] = status[q] /\ rcvbuf'[q] = rcvbuf[q]
    BY <1>1, <1>17 DEF TcpAck, TyStreams, TyRings
  <2>2. CASE status[p] = "LAST_ACK"
    <3>1. status'[p] = "none" /\ rcvbuf'[p] = <<>>
      BY <1>1, <1>17, <2>2 DEF TcpAck, TyStreams, TyRings
    <3>2. Reading(p)'
      BY <3>1 DEF Reading
    <3>3. \A q \in Peer \ {p} : Reading(q)'
      BY <1>2, <2>1 DEF AtEnd
    <3> QED BY <3>2, <3>3 DEF Readings
  <2>3. CASE status[p] # "LAST_ACK"
    BY <1>3, <1>17, <2>1, <2>3 DEF TcpAck, AtEnd
  <2> QED BY <2>2, <2>3
<1>18. CASE Recv
  <2>1. PICK p \in Peer : /\ cur' = p /\ Listed(p)
          /\ IF rcvbuf[p] = <<>> THEN spc' = "recvwait" /\ rcvbuf' = rcvbuf
             ELSE /\ rcvbuf' = [rcvbuf EXCEPT ![p] = Tail(@)]
                  /\ spc' = IF Head(rcvbuf[p]) = <<>> THEN "close" ELSE "send"
    BY <1>18 DEF Recv, Holder, Streams
  <2>2. spc = "recv" /\ UNCHANGED status
    BY <1>18 DEF Recv
  <2>3. CASE rcvbuf[p] = <<>>
    <3>1. \A q \in Peer : ~AtEnd(q) /\ ~AtEnd(q)'
      BY <2>1, <2>2, <2>3 DEF AtEnd
    <3> QED BY <1>3, <2>1, <2>2, <2>3, <3>1
  <2>4. CASE rcvbuf[p] # <<>>
    <3>1. PICK q \in Seq(Seq(Nat)) : q = rcvbuf[p]
      BY <1>1 DEF TyRings
    <3>2. PICK l \in Nat : l = Len(q) /\ l > 0
      BY <2>4, <3>1, LenProperties, EmptySeq
    <3>3. PICK t : t = Tail(q)
      OBVIOUS
    <3>4. Head(q) = q[1] /\ t \in Seq(Seq(Nat)) /\ Len(t) = l - 1 /\ \A k \in 1..l - 1 : t[k] = q[k + 1]
      BY <2>4, <3>1, <3>2, <3>3, HeadTailProperties
    <3>5. /\ rcvbuf'[p] = t /\ \A r \in Peer \ {p} : rcvbuf'[r] = rcvbuf[r]
          /\ spc' = IF q[1] = <<>> THEN "close" ELSE "send"
      BY <1>1, <2>1, <2>4, <3>1, <3>3, <3>4 DEF TyRings
    <3>6. Reading(p) /\ ~AtEnd(p)
      BY <2>2 DEF Readings, AtEnd
    <3>7. status[p] \in {"ESTABLISHED", "CLOSE_WAIT"}
      BY <1>1, <2>4, <3>6 DEF Reading, TyStreams
    <3>8. CASE status[p] = "ESTABLISHED"
      <4>1. \A k \in 1..l : q[k] # <<>>
        BY <3>1, <3>2, <3>6, <3>8 DEF Reading
      <4>2. \A k \in 1..l - 1 : t[k] # <<>>
        <5>1. ASSUME NEW k \in 1..l - 1 PROVE t[k] # <<>>
          <6>1. k + 1 \in 1..l
            BY <3>2
          <6> QED BY <3>4, <4>1, <6>1
        <5> QED BY <5>1
      <4>3. Reading(p)'
        BY <2>2, <3>4, <3>5, <3>8, <4>2 DEF Reading
      <4>4. spc' = "send"
        BY <3>2, <3>5, <4>1
      <4>5. \A r \in Peer \ {p} : Reading(r)'
        BY <1>2, <2>2, <3>5, <4>4 DEF AtEnd
      <4> QED BY <4>3, <4>5 DEF Readings
    <3>9. CASE status[p] = "CLOSE_WAIT"
      <4>1. \A k \in 1..l : q[k] = <<>> <=> k = l
        BY <3>1, <3>2, <3>6, <3>9 DEF Reading
      <4>2. q[1] = <<>> <=> l = 1
        <5>1. 1 \in 1..l
          BY <3>2
        <5>2. q[1] = <<>> <=> 1 = l
          BY <4>1, <5>1
        <5> QED BY <5>2
      <4>3. \A k \in 1..l - 1 : t[k] = <<>> <=> k = l - 1
        <5>1. ASSUME NEW k \in 1..l - 1 PROVE t[k] = <<>> <=> k = l - 1
          <6>1. k + 1 \in 1..l /\ (k + 1 = l <=> k = l - 1)
            BY <3>2
          <6>2. t[k] = q[k + 1] /\ (q[k + 1] = <<>> <=> k + 1 = l)
            BY <3>4, <4>1, <6>1
          <6> QED BY <6>1, <6>2
        <5> QED BY <5>1
      <4>4. l = 1 => t = <<>>
        BY <3>4, EmptySeq
      <4>5. l # 1 => t # <<>>
        BY <3>2, <3>4, EmptySeq
      <4>6. AtEnd(p)' <=> l = 1
        BY <2>1, <3>5, <4>2 DEF AtEnd
      <4>7. Reading(p)'
        BY <2>2, <3>4, <3>5, <3>9, <4>3, <4>4, <4>5, <4>6 DEF Reading
      <4>8. \A r \in Peer \ {p} : Reading(r)'
        BY <1>2, <2>1, <2>2, <3>5 DEF AtEnd
      <4> QED BY <4>7, <4>8 DEF Readings
    <3> QED BY <3>7, <3>8, <3>9
  <2> QED BY <2>3, <2>4
<1> QED BY <1>4, <1>5, <1>6, <1>7, <1>8, <1>9, <1>10, <1>11, <1>12, <1>13, <1>15, <1>16, <1>17, <1>18
        DEF Next, PacketStep, Misses, TcpServerStep, Arrives, Answers

(* No thread sleeps on what it waits for, but for the signal under way.     *)
LEMMA WakesKept ==
  ASSUME TypeOK, Threads, Wakes, [Next]_vars
  PROVE  Wakes'
<1> USE DEF table, lsock, stream, udphost, packet, server, userver, peers, dgrams, history
<1>1. TyFlags /\ TySteps /\ TyStreams /\ TyRings /\ TyDgrams /\ TyFds
  BY TypeGroups
<1> DEFINE Ready == \E p \in Peer : Linked(p) /\ fd[p] = Unused /\ status[p] = "ESTABLISHED"
<1>2. /\ Wakes <=> /\ spc = "acceptwait" /\ Ready => kpc = "listener"
                   /\ spc = "recvwait" /\ rcvbuf[cur] # <<>> => kpc = "signal" /\ kcur = cur
                   /\ upc = "wait" /\ urcv # <<>> => kpc = "sigudp"
  BY DEF Wakes, Holder, Streams, Listed
<1>3. Wakes' <=> /\ spc' = "acceptwait" /\ Ready' => kpc' = "listener"
                 /\ spc' = "recvwait" /\ rcvbuf'[cur'] # <<>> => kpc' = "signal" /\ kcur' = cur'
                 /\ upc' = "wait" /\ urcv' # <<>> => kpc' = "sigudp"
  BY DEF Wakes, Holder, Streams, Listed
<1>4. ASSUME UNCHANGED <<table, fd, status>> PROVE Ready' <=> Ready
  BY <1>4 DEF Linked
<1>5. CASE UNCHANGED vars
  BY <1>2, <1>3, <1>4, <1>5 DEF vars
<1>6. CASE PktInstance \/ PktAllocate
  <2>1. ~Ready'
    BY <1>6 DEF PktInstance, PktAllocate, Threads
  <2> QED BY <1>2, <1>3, <1>6, <2>1 DEF PktInstance, PktAllocate
<1>7. CASE SignalListener \/ SignalRecv \/ SignalUdp \/ UdpArrives
  BY <1>2, <1>3, <1>4, <1>7 DEF SignalListener, SignalRecv, SignalUdp, UdpArrives
<1>8. CASE UdpOut \/ UdpOutMiss \/ UdpServerStep
  BY <1>2, <1>3, <1>4, <1>8 DEF UdpOut, UdpOutMiss, UdpServerStep, UdpFd, UdpMark, UdpBind, UdpRecv, UdpSend, Still
<1>9. ASSUME NEW h \in Peer \cup {UdpHost}, ArpReply(h) PROVE Wakes'
  BY <1>2, <1>3, <1>4, <1>9 DEF ArpReply
<1>10. ASSUME NEW p \in Peer, TcpSynCrash(p) \/ TcpOut(p) \/ TcpOutMiss(p) PROVE Wakes'
  BY <1>2, <1>3, <1>4, <1>10 DEF TcpSynCrash, TcpOut, TcpOutMiss
<1>11. ASSUME NEW p \in Peer, TcpSyn(p) PROVE Wakes'
  <2>1. /\ status' = [status EXCEPT ![p] = "SYN_RCVD"] /\ tcb_set' = [tcb_set EXCEPT ![tInst] = @ \cup {p}]
        /\ UNCHANGED <<tInst, fd, packet, server, userver, rcvbuf, urcv>>
    BY <1>11 DEF TcpSyn, LL_ADD
  <2>2. Ready' => Ready
    <3>1. \A q \in Peer : Linked(q)' /\ status'[q] = "ESTABLISHED" => Linked(q) /\ status[q] = "ESTABLISHED"
      BY <1>1, <2>1 DEF TyFlags, TyStreams, Linked
    <3> QED BY <2>1, <3>1
  <2> QED BY <1>2, <1>3, <2>1, <2>2
<1>12. ASSUME NEW p \in Peer, TcpEstablish(p) PROVE Wakes'
  BY <1>2, <1>3, <1>12 DEF TcpEstablish
<1>13. ASSUME NEW p \in Peer, NEW n, NEW fin, TcpData(p, n, fin) PROVE Wakes'
  <2>1. kpc = "idle" /\ kpc' = "signal" /\ kcur' = p /\ \A q \in Peer \ {p} : rcvbuf'[q] = rcvbuf[q]
    BY <1>1, <1>13 DEF TcpData, Enqueue, TyRings
  <2>2. UNCHANGED <<table, fd, status, server, userver, urcv>>
    BY <1>13 DEF TcpData
  <2>3. spc = "recvwait" => cur \in Peer
    BY DEF Threads
  <2> QED BY <1>2, <1>3, <1>4, <2>1, <2>2, <2>3
<1>14. ASSUME NEW p \in Peer, kpc \in {"idle", "fin"}, CloseWait(p) PROVE Wakes'
  <2>1. kpc' = "signal" /\ kcur' = p /\ \A q \in Peer \ {p} : rcvbuf'[q] = rcvbuf[q]
    BY <1>1, <1>14 DEF CloseWait, Enqueue, TyRings
  <2>2. UNCHANGED <<table, fd, server, userver, urcv>> /\ status' = [status EXCEPT ![p] = "CLOSE_WAIT"]
    BY <1>14 DEF CloseWait
  <2>3. spc = "recvwait" => cur \in Peer
    BY DEF Threads
  <2>4. Ready' => Ready
    <3>1. \A q \in Peer : status'[q] = "ESTABLISHED" => status[q] = "ESTABLISHED"
      BY <1>1, <2>2 DEF TyStreams
    <3> QED BY <2>2, <3>1 DEF Linked
  <2> QED BY <1>2, <1>3, <1>14, <2>1, <2>2, <2>3, <2>4
<1>15. ASSUME NEW p \in Peer, TcpFin(p) PROVE Wakes'
  BY <1>14, <1>15 DEF TcpFin
<1>16. CASE TcpDataFin
  BY <1>14, <1>16 DEF TcpDataFin, Threads
<1>17. ASSUME NEW p \in Peer, NEW what, TcpAck(p, what) PROVE Wakes'
  <2>1. kpc = "idle" /\ UNCHANGED <<packet, spc, cur, userver, urcv, tInst>>
    BY <1>17 DEF TcpAck
  <2>2. CASE status[p] # "LAST_ACK"
    BY <1>2, <1>3, <1>4, <1>17, <2>1, <2>2 DEF TcpAck
  <2>3. CASE status[p] = "LAST_ACK"
    <3>1. /\ tcb_set' = [tcb_set EXCEPT ![tInst] = @ \ {p}] /\ status' = [status EXCEPT ![p] = "none"]
          /\ fd' = [fd EXCEPT ![p] = Unused] /\ rcvbuf' = [rcvbuf EXCEPT ![p] = <<>>]
      BY <1>17, <2>3 DEF TcpAck, Without
    <3>2. \A q \in Peer : Linked(q)' => Linked(q)
      BY <1>1, <2>1, <3>1 DEF TyFlags, Linked
    <3>3. \A q \in Peer : status'[q] = "ESTABLISHED" => q # p /\ status[q] = "ESTABLISHED"
      BY <1>1, <3>1 DEF TyStreams
    <3>4. \A q \in Peer : q # p => fd'[q] = fd[q]
      BY <1>1, <3>1 DEF TyFds
    <3>5. Ready' => Ready
      BY <3>2, <3>3, <3>4
    <3>6. \A q \in Peer : rcvbuf'[q] # <<>> => rcvbuf[q] # <<>>
      BY <1>1, <3>1 DEF TyRings
    <3>7. spc = "recvwait" => cur \in Peer
      BY DEF Threads
    <3> QED BY <1>2, <1>3, <2>1, <3>5, <3>6, <3>7
  <2> QED BY <2>2, <2>3
<1>18. CASE TcpServerStep
  <2>1. UNCHANGED <<upc, urcv, kpc>>
    BY <1>18 DEF TcpServerStep, SocketFd, SocketMark, SocketAllocate, SocketLink, BindListen,
      AcceptLookup, AcceptTake, AcceptMark, Recv, Send, Close, CloseStatus, Quiet
  <2>2. CASE AcceptTake
    <3>1. UNCHANGED <<table, stream>> /\ spc' \in {"assign", "acceptwait"} /\ (spc' = "acceptwait" => Holder(Unused) = {})
      BY <1>18, <2>2 DEF AcceptTake, Goto
    <3>2. Holder(Unused) = {} => ~Ready
      BY DEF Holder, Streams, Listed
    <3> QED BY <1>2, <1>3, <1>4, <2>1, <3>1, <3>2
  <2>3. CASE Recv
    <3>1. spc' # "acceptwait" /\ (spc' = "recvwait" => rcvbuf'[cur'] = <<>>)
      BY <2>3 DEF Recv
    <3> QED BY <1>2, <1>3, <2>1, <3>1
  <2>4. CASE ~AcceptTake /\ ~Recv
    <3>1. spc' \notin {"acceptwait", "recvwait"}
      BY <1>18, <2>4 DEF TcpServerStep, SocketFd, SocketMark, SocketAllocate, SocketLink, BindListen,
        AcceptLookup, AcceptMark, Send, Close, CloseStatus, Goto
    <3> QED BY <1>2, <1>3, <2>1, <3>1
  <2> QED BY <2>2, <2>3, <2>4
<1> QED BY <1>5, <1>6, <1>7, <1>8, <1>9, <1>10, <1>11, <1>12, <1>13, <1>15, <1>16, <1>17, <1>18
        DEF Next, PacketStep, Misses, Arrives, Answers

-----------------------------------------------------------------------------
(* The bytes and the FIN *)

\* What a step must leave alone of a stream for its life to go on.
Apart(p) ==
  /\ sndbuf'[p] = sndbuf[p] /\ rcvbuf'[p] = rcvbuf[p] /\ wire'[p] = wire[p] /\ heard'[p] = heard[p]
  /\ finwire'[p] = finwire[p] /\ rcvd'[p] = rcvd[p]
  /\ status'[p] = "none" <=> status[p] = "none"
  /\ pst'[p] = "new" => pst[p] = "new"
  /\ InHand(p)' <=> InHand(p)
  /\ InHand(p) => buff' = buff
  /\ Closing(p)' <=> Closing(p)

(* Such a step keeps what is said of the stream. *)
LEMMA LifeGoesOn ==
  ASSUME NEW p \in Peer, Life(p), Apart(p)
  PROVE  Life(p)'
<1>1. Chain(p) => Chain(p)'
  BY DEF Apart, Chain
<1>2. FinQueued(p) => FinQueued(p)'
  BY DEF Apart, FinQueued
<1>3. FinGone(p) => FinGone(p)'
  BY DEF Apart, FinGone
<1>4. NoFin(p) => NoFin(p)'
  BY DEF Apart, NoFin
<1>5. /\ sndbuf'[p] = sndbuf[p] /\ wire'[p] = wire[p] /\ heard'[p] = heard[p]
      /\ finwire'[p] = finwire[p] /\ rcvd'[p] = rcvd[p]
      /\ status'[p] = "none" <=> status[p] = "none"
      /\ pst'[p] = "new" => pst[p] = "new"
      /\ Closing(p)' <=> Closing(p)
  BY DEF Apart
<1> QED BY <1>1, <1>2, <1>3, <1>4, <1>5 DEF Life

(* Of a stream with its FIN queued the server has read and echoed all.      *)
LEMMA AllRead ==
  ASSUME TypeOK, Threads, Readings, NEW p \in Peer, status[p] # "none", Closing(p)
  PROVE  rcvbuf[p] = <<>> /\ ~InHand(p) /\ (status[p] # "LAST_ACK" => status[p] = "CLOSE_WAIT")
<1>1. Reading(p)
  BY DEF Readings
<1>2. CASE status[p] = "LAST_ACK"
  BY <1>1, <1>2 DEF Reading, Threads, InHand
<1>3. CASE spc = "lastack" /\ cur = p
  BY <1>1, <1>3 DEF Reading, Threads, InHand, AtEnd
<1> QED BY <1>2, <1>3 DEF Closing

(* When the FIN has gone out every byte has gone out before it.             *)
LEMMA AllSent ==
  ASSUME TypeOK, Threads, Readings, NEW p \in Peer, Life(p), status[p] # "none", Closing(p), FinGone(p)
  PROVE  Len(wire[p]) = rcvd[p]
<1>1. rcvbuf[p] = <<>> /\ ~InHand(p) /\ Chain(p)
  BY AllRead DEF Life
<1>2. PICK a \in Nat, b \in Nat : Runs(Datas(sndbuf[p]), Len(wire[p]), a) /\ Runs(rcvbuf[p], b, rcvd[p]) /\ a = b
  BY <1>1 DEF Chain
<1>3. Datas(sndbuf[p]) = <<>>
  <2>1. sndbuf[p] \in Seq(Fragments) /\ sndbuf[p] = <<>>
    BY TypeGroups DEF TyRings, FinGone
  <2>2. Datas(sndbuf[p]) \in Seq(Seq(Nat)) /\ Len(Datas(sndbuf[p])) = 0
    BY <2>1, DatasAre, EmptySeq
  <2> QED BY <2>2, EmptySeq
<1>4. Len(wire[p]) \in Nat
  BY TypeGroups, LenProperties DEF TyStreams
<1>5. Len(wire[p]) = a /\ b = rcvd[p]
  BY <1>1, <1>2, <1>3, <1>4, RunsEmpty
<1> QED BY <1>2, <1>5

(* Steps that move no byte, and no status that matters. *)
LEMMA LivesUntouched ==
  ASSUME Core, [Next]_vars,
         ~\E p \in Peer : \/ TcpSyn(p) \/ TcpOut(p) \/ TcpOutMiss(p)
                          \/ \E n \in 1..MSS, fin \in BOOLEAN : TcpData(p, n, fin)
                          \/ \E what \in {"psh", "fin"} : TcpAck(p, what)
                          \/ TcpFin(p),
         ~TcpDataFin, ~Recv, ~Send, ~Close
  PROVE  Lives'
<1> USE DEF table, lsock, stream, udphost, packet, server, userver, peers, dgrams, history
<1>1. TypeOK /\ Threads /\ Lives /\ TySteps /\ TyStreams
  BY TypeGroups DEF Core
<1>2. ASSUME missed \subseteq missed', \A p \in Peer : Apart(p) PROVE Lives'
  <2>1. \A p \in Peer \ missed' : Life(p)
    BY <1>1, <1>2 DEF Lives
  <2> QED BY <1>2, <2>1, LifeGoesOn DEF Lives
<1>3. ASSUME UNCHANGED <<stream, heard, wire, finwire, rcvd, pst, missed>>,
             \A p \in Peer : (InHand(p)' <=> InHand(p)) /\ (InHand(p) => buff' = buff)
                             /\ ((spc' = "lastack" /\ cur' = p) <=> (spc = "lastack" /\ cur = p))
      PROVE  Lives'
  BY <1>2, <1>3 DEF Apart, Closing
<1>4. CASE UNCHANGED vars
  BY <1>3, <1>4 DEF vars, InHand
<1>5. ASSUME NEW p \in Peer, TcpSynCrash(p) PROVE Lives'
  BY <1>3, <1>5 DEF TcpSynCrash, InHand
<1>6. ASSUME NEW h \in Peer \cup {UdpHost}, ArpReply(h) PROVE Lives'
  BY <1>3, <1>6 DEF ArpReply, InHand
<1>7. CASE UdpOut \/ UdpArrives \/ UdpServerStep \/ PktInstance \/ PktAllocate \/ SignalUdp
  BY <1>3, <1>7 DEF UdpOut, UdpArrives, UdpServerStep, UdpFd, UdpMark, UdpBind, UdpRecv, UdpSend, Still,
                    PktInstance, PktAllocate, SignalUdp, InHand
<1>8. CASE UdpOutMiss
  <2>1. missed \subseteq missed' /\ UNCHANGED <<stream, heard, wire, finwire, rcvd, pst, server>>
    BY <1>8 DEF UdpOutMiss
  <2> QED BY <1>2, <2>1 DEF Apart, Closing, InHand
<1>9. CASE SignalListener \/ SignalRecv
  BY <1>3, <1>9 DEF SignalListener, SignalRecv, InHand
<1>10. CASE SocketFd \/ SocketMark \/ SocketAllocate \/ SocketLink \/ BindListen \/ AcceptLookup \/ AcceptTake
  BY <1>3, <1>10 DEF SocketFd, SocketMark, SocketAllocate, SocketLink, BindListen, AcceptLookup, AcceptTake,
                     Goto, Quiet, InHand
<1>11. CASE AcceptMark
  <2>1. /\ missed' = missed /\ UNCHANGED <<status, sndbuf, rcvbuf, heard, wire, finwire, rcvd, pst>>
        /\ spc = "assign" /\ spc' = "recv"
    BY <1>11 DEF AcceptMark, Quiet
  <2> QED BY <1>2, <2>1 DEF Apart, Closing, InHand
<1>12. ASSUME NEW p \in Peer, TcpEstablish(p) PROVE Lives'
  <2>1. /\ status[p] = "SYN_RCVD" /\ status' = [status EXCEPT ![p] = "ESTABLISHED"]
        /\ pst' = [pst EXCEPT ![p] = "open"]
        /\ UNCHANGED <<sndbuf, rcvbuf, heard, wire, finwire, rcvd, missed, spc, cur, buff>>
    BY <1>12 DEF TcpEstablish
  <2>2. \A q \in Peer : /\ status'[q] = IF q = p THEN "ESTABLISHED" ELSE status[q]
                        /\ pst'[q] = IF q = p THEN "open" ELSE pst[q]
    BY <1>1, <2>1 DEF TyStreams
  <2>3. \A q \in Peer : Closing(q)' <=> Closing(q)
    BY <2>1, <2>2 DEF Closing
  <2> QED BY <1>2, <2>1, <2>2, <2>3 DEF Apart, InHand
<1>13. CASE CloseStatus
  <2>1. /\ cur \in Peer /\ spc = "lastack" /\ spc' = "lookup" /\ status' = [status EXCEPT ![cur] = "LAST_ACK"]
        /\ status[cur] = "CLOSE_WAIT"
        /\ UNCHANGED <<sndbuf, rcvbuf, heard, wire, finwire, rcvd, missed, pst>>
    BY <1>1, <1>13 DEF CloseStatus, Quiet, Threads
  <2>2. \A q \in Peer : status'[q] = IF q = cur THEN "LAST_ACK" ELSE status[q]
    BY <1>1, <2>1 DEF TyStreams
  <2>3. \A q \in Peer : (Closing(q)' <=> Closing(q)) /\ ~InHand(q) /\ ~InHand(q)'
    BY <2>1, <2>2 DEF Closing, InHand
  <2> QED BY <1>2, <2>1, <2>2, <2>3 DEF Apart
<1> QED BY <1>4, <1>5, <1>6, <1>7, <1>8, <1>9, <1>10, <1>11, <1>12, <1>13
        DEF Next, PacketStep, Misses, TcpServerStep, Arrives, Answers

(* What a step does to one stream leaves the lives of the others alone.     *)
LEMMA OthersLive ==
  ASSUME Lives, NEW p, missed \subseteq missed', \A q \in Peer \ {p} : Apart(q), p \in Peer \ missed' => Life(p)'
  PROVE  Lives'
<1>1. \A q \in Peer \ missed' : Life(q)
  BY DEF Lives
<1>2. ASSUME NEW q \in Peer \ missed' PROVE Life(q)'
  <2>1. CASE q = p
    BY <2>1
  <2>2. CASE q # p
    <3>1. q \in Peer /\ Apart(q) /\ Life(q)
      BY <1>1, <2>2
    <3> QED BY <3>1, LifeGoesOn
  <2> QED BY <2>1, <2>2
<1> QED BY <1>2 DEF Lives

(* A connection begins with its SYN-ACK queued and no byte sent. *)
LEMMA SynLives ==
  ASSUME Core, NEW p \in Peer, TcpSyn(p)
  PROVE  Lives'
<1> USE DEF table, lsock, stream, udphost, packet, server, userver, peers, dgrams, history
<1>1. TypeOK /\ Threads /\ Lives /\ Readings /\ TyStreams /\ TyRings
  BY TypeGroups DEF Core
<1>2. /\ pst[p] = "new" /\ status[p] = "none" /\ pst' = [pst EXCEPT ![p] = "syn"]
      /\ status' = [status EXCEPT ![p] = "SYN_RCVD"]
      /\ sndbuf' = [sndbuf EXCEPT ![p] = Append(@, Fragment("synack", <<>>))]
      /\ UNCHANGED <<rcvbuf, heard, wire, finwire, rcvd, missed, spc, cur, buff>>
  BY <1>1, Zenon DEF TcpSyn, Connects, Enqueue, Threads
<1>3. \A q \in Peer \ {p} : pst'[q] = pst[q] /\ status'[q] = status[q] /\ sndbuf'[q] = sndbuf[q]
  BY <1>1, <1>2 DEF TyStreams, TyRings
<1>4. \A q \in Peer \ {p} : Apart(q)
  BY <1>2, <1>3 DEF Apart, InHand, Closing
<1>5. ASSUME Life(p) PROVE Life(p)'
  <2>1. rcvd[p] = 0 /\ wire[p] = <<>> /\ sndbuf[p] = <<>> /\ heard[p] = {}
    BY <1>2, <1>5 DEF Life
  <2>2. rcvbuf[p] = <<>>
    BY <1>1, <1>2 DEF Readings, Reading
  <2>3. PICK z : z = Fragment("synack", <<>>)
    OBVIOUS
  <2>4. z \in Fragments /\ z.data = <<>> /\ z.flags = "synack"
    BY <2>3, EmptySeq DEF Fragment, Fragments
  <2>5. PICK q \in Seq(Fragments) : q = sndbuf[p]
    BY <1>1 DEF TyRings
  <2>6. PICK t : t = Append(q, z)
    OBVIOUS
  <2>7. sndbuf'[p] = t /\ status'[p] = "SYN_RCVD" /\ pst'[p] = "syn"
    BY <1>1, <1>2, <2>3, <2>5, <2>6 DEF TyStreams, TyRings
  <2>8. t \in Seq(Fragments) /\ Len(t) = 1 /\ t[1] = z
    <3>1. Len(q) = 0
      BY <2>1, <2>5, EmptySeq
    <3>2. t \in Seq(Fragments) /\ Len(t) = Len(q) + 1 /\ t[Len(q) + 1] = z
      BY <2>4, <2>6, AppendProperties
    <3> QED BY <3>1, <3>2
  <2>9. Runs(Datas(t), 0, 0)
    <3>1. Datas(q) = <<>> /\ Datas(t) = Append(Datas(q), z.data)
      <4>1. Len(Datas(q)) = 0 /\ Datas(q) \in Seq(Seq(Nat))
        BY <2>1, <2>5, DatasAre, EmptySeq
      <4> QED BY <2>4, <2>6, <4>1, DatasAre, EmptySeq
    <3>2. Runs(<<>>, 0, 0) /\ <<>> \in Seq(Seq(Nat)) /\ <<>> \in Seq(Nat)
      BY RunsEmpty, EmptySeq
    <3>3. <<>> = Run(0, 0)
      BY DEF Run
    <3>4. Runs(Append(<<>>, <<>>), 0, 0)
      <4>1. PICK o \in Nat : o = 0
        OBVIOUS
      <4>2. PICK e \in Seq(Seq(Nat)), w \in Seq(Nat) : e = <<>> /\ w = <<>>
        BY <3>2
      <4>3. Runs(e, o, o) /\ w = Run(o, o) /\ o <= o
        BY <3>2, <3>3, <4>1, <4>2
      <4>4. Runs(Append(e, w), o, o)
        BY <4>3, RunsAppend
      <4> QED BY <4>1, <4>2, <4>4
    <3> QED BY <2>4, <3>1, <3>4
  <2>10. ~InHand(p)' /\ ~Closing(p)'
    BY <1>1, <1>2, <2>7 DEF InHand, Closing, Threads
  <2>11. Chain(p)'
    <3>1. Runs(rcvbuf'[p], 0, rcvd'[p]) /\ Runs(Datas(sndbuf'[p]), Len(wire'[p]), 0)
      BY <1>2, <2>1, <2>2, <2>7, <2>9, RunsEmpty, EmptySeq
    <3> QED BY <2>10, <3>1 DEF Chain
  <2>12. NoFin(p)'
    BY <1>2, <2>1, <2>4, <2>7, <2>8 DEF NoFin
  <2>13. /\ \A k \in 1..Len(wire'[p]) : wire'[p][k] = k
         /\ \A k \in 1..Len(sndbuf'[p]) : sndbuf'[p][k].flags # "fin"
    BY <1>2, <1>5, <2>12 DEF Life, NoFin
  <2> QED BY <1>2, <2>1, <2>7, <2>10, <2>11, <2>12, <2>13 DEF Life
<1> QED BY <1>1, <1>2, <1>4, <1>5, OthersLive DEF Lives

(* Bytes, or the end of the stream, arrive: nothing else of it changes.     *)
LEMMA ArrivalLives ==
  ASSUME Core, NEW p \in Peer, NEW n \in Nat, status[p] = "ESTABLISHED", status'[p] \in {"ESTABLISHED", "CLOSE_WAIT"},
         rcvbuf' = Enqueue(rcvbuf, p, Run(rcvd[p], rcvd[p] + n)), rcvd'[p] = rcvd[p] + n, pst'[p] = "new" => pst[p] = "new",
         \A q \in Peer \ {p} : status'[q] = status[q] /\ rcvd'[q] = rcvd[q] /\ pst'[q] = pst[q],
         UNCHANGED <<sndbuf, heard, wire, finwire, missed, spc, cur, buff>>
  PROVE  Lives'
<1>1. TypeOK /\ Threads /\ Lives /\ TyStreams /\ TyRings
  BY TypeGroups DEF Core
<1> DEFINE z == Run(rcvd[p], rcvd[p] + n)
<1>2. /\ rcvbuf'[p] = Append(rcvbuf[p], z) /\ \A q \in Peer \ {p} : rcvbuf'[q] = rcvbuf[q]
  BY <1>1 DEF TyRings, Enqueue
<1>3. \A q \in Peer \ {p} : Apart(q)
  BY <1>2 DEF Apart, InHand, Closing
<1>4. ~Closing(p) /\ ~Closing(p)' /\ (InHand(p)' <=> InHand(p))
  BY <1>1 DEF Closing, InHand, Threads
<1>5. ASSUME Life(p) PROVE Life(p)'
  <2>1. Chain(p) /\ NoFin(p) /\ pst[p] # "new"
    BY <1>1, <1>4, <1>5 DEF Life, Threads
  <2>2. PICK a \in Nat, b \in Nat :
          /\ Runs(Datas(sndbuf[p]), Len(wire[p]), a) /\ Runs(rcvbuf[p], b, rcvd[p])
          /\ a <= b /\ (InHand(p) => buff = Run(a, b)) /\ (~InHand(p) => a = b)
    BY <2>1 DEF Chain
  <2>3. Runs(Append(rcvbuf[p], z), b, rcvd[p] + n)
    <3>1. PICK c \in Nat : c = rcvd[p]
      BY <1>1 DEF TyStreams
    <3>2. PICK d \in Nat : d = c + n
      OBVIOUS
    <3>3. z = Run(c, d) /\ c <= d
      BY <3>1, <3>2
    <3> HIDE DEF z
    <3>4. z \in Seq(Nat)
      <4>1. PICK m \in Nat : m = d - c
        BY <3>3
      <4>2. z = [k \in 1..m |-> c + k]
        BY <3>3, <4>1 DEF Run
      <4>3. \A k \in 1..m : c + k \in Nat
        OBVIOUS
      <4>4. [k \in 1..m |-> c + k] \in Seq(Nat)
        BY <4>3
      <4> QED BY <4>2, <4>4
    <3>5. rcvbuf[p] \in Seq(Seq(Nat)) /\ Runs(rcvbuf[p], b, c)
      BY <1>1, <2>2, <3>1 DEF TyRings
    <3>6. Runs(Append(rcvbuf[p], z), b, d)
      BY <3>3, <3>4, <3>5, RunsAppend
    <3> QED BY <3>1, <3>2, <3>6
  <2>4. Chain(p)'
    <3>1. Runs(rcvbuf'[p], b, rcvd'[p])
      BY <1>2, <2>3
    <3> QED BY <1>4, <2>2, <3>1 DEF Chain
  <2>5. NoFin(p)'
    BY <2>1 DEF NoFin
  <2> QED BY <1>4, <1>5, <2>1, <2>4, <2>5 DEF Life
<1> QED BY <1>1, <1>3, <1>5, OthersLive DEF Lives

(* The stream is freed: the FIN is out, with every byte before it. *)
LEMMA AckLives ==
  ASSUME Core, NEW p \in Peer, NEW what, TcpAck(p, what)
  PROVE  Lives'
<1> USE DEF table, lsock, stream, udphost, packet, server, userver, peers, dgrams, history
<1>1. TypeOK /\ Threads /\ Lives /\ Readings /\ TyStreams /\ TyRings
  BY TypeGroups DEF Core
<1>2. UNCHANGED <<heard, wire, finwire, rcvd, pst, missed, spc, cur, buff>>
  BY DEF TcpAck
<1>3. CASE status[p] # "LAST_ACK"
  <2>1. UNCHANGED stream
    BY <1>3 DEF TcpAck
  <2>2. \A q \in Peer : Apart(q)
    BY <1>2, <2>1 DEF Apart, InHand, Closing
  <2> QED BY <1>1, <1>2, <2>2, LifeGoesOn DEF Lives
<1>4. CASE status[p] = "LAST_ACK"
  <2>1. /\ status' = [status EXCEPT ![p] = "none"]
        /\ rcvbuf' = [rcvbuf EXCEPT ![p] = <<>>] /\ sndbuf' = [sndbuf EXCEPT ![p] = <<>>]
    BY <1>4 DEF TcpAck
  <2>2. /\ status'[p] = "none" /\ sndbuf'[p] = <<>>
        /\ \A q \in Peer \ {p} : status'[q] = status[q] /\ rcvbuf'[q] = rcvbuf[q] /\ sndbuf'[q] = sndbuf[q]
    BY <1>1, <2>1 DEF TyStreams, TyRings
  <2>3. \A q \in Peer \ {p} : Apart(q)
    BY <1>2, <2>2 DEF Apart, InHand, Closing
  <2>4. ASSUME Life(p) PROVE Life(p)'
    <3>1. Closing(p) /\ pst[p] # "new"
      BY <1>1, <1>4 DEF Closing, Threads
    <3>2. "fin" \in heard[p] => finwire[p] = rcvd[p] /\ Len(wire[p]) = rcvd[p]
      <4>1. FinQueued(p) \/ FinGone(p)
        BY <1>4, <2>4, <3>1 DEF Life
      <4>2. FinGone(p) => Len(wire[p]) = rcvd[p]
        BY <1>1, <1>4, <2>4, <3>1, AllSent
      <4> QED BY <4>1, <4>2 DEF FinQueued, FinGone
    <3>3. \A k \in 1..Len(wire[p]) : wire[p][k] = k
      BY <2>4 DEF Life
    <3>4. \A k \in 1..Len(sndbuf'[p]) : sndbuf'[p][k].flags # "fin"
      BY <2>2, EmptySeq
    <3> QED BY <1>2, <2>2, <3>1, <3>2, <3>3, <3>4 DEF Life
  <2> QED BY <1>1, <1>2, <2>3, <2>4, OthersLive DEF Lives
<1> QED BY <1>3, <1>4

(* Segments with bytes or a FIN. *)
LEMMA SegmentLives ==
  ASSUME Core, NEW p \in Peer,
         \/ \E n \in 1..MSS, fin \in BOOLEAN : TcpData(p, n, fin)
         \/ TcpFin(p) \/ (TcpDataFin /\ p = kcur)
  PROVE  Lives'
<1> USE DEF table, lsock, stream, udphost, packet, server, userver, peers, dgrams, history
<1>1. TypeOK /\ Threads /\ TyStreams /\ TyRings
  BY TypeGroups DEF Core
<1>2. ASSUME NEW n \in 1..MSS, NEW fin \in BOOLEAN, TcpData(p, n, fin) PROVE Lives'
  <2>1. n \in Nat /\ rcvd[p] \in Nat
    BY <1>1, Smalls DEF TyStreams
  <2>2. [k \in 1..n |-> rcvd[p] + k] = Run(rcvd[p], rcvd[p] + n)
    <3>1. (rcvd[p] + n) - rcvd[p] = n
      BY <2>1
    <3> QED BY <3>1 DEF Run
  <2>3. /\ rcvbuf' = Enqueue(rcvbuf, p, Run(rcvd[p], rcvd[p] + n)) /\ status' = status /\ status[p] = "ESTABLISHED"
        /\ UNCHANGED <<sndbuf, heard, wire, finwire, missed, spc, cur, buff>>
    BY <1>2, <2>2 DEF TcpData
  <2>4. rcvd'[p] = rcvd[p] + n /\ \A q \in Peer \ {p} : rcvd'[q] = rcvd[q] /\ pst'[q] = pst[q]
    BY <1>1, <1>2 DEF TcpData, TyStreams
  <2>5. pst'[p] = "new" => pst[p] = "new"
    BY <1>1, <1>2 DEF TcpData, TyStreams
  <2> QED BY <2>1, <2>3, <2>4, <2>5, ArrivalLives
<1>3. ASSUME CloseWait(p), status[p] = "ESTABLISHED", UNCHANGED <<missed, spc, cur, buff>>,
             \A q \in Peer : q # p => pst'[q] = pst[q], pst'[p] = "new" => pst[p] = "new"
      PROVE  Lives'
  <2>1. PICK n \in Nat : n = 0
    OBVIOUS
  <2>2. rcvd[p] \in Nat /\ rcvd[p] + n = rcvd[p] /\ <<>> = Run(rcvd[p], rcvd[p] + n)
    <3>1. rcvd[p] \in Nat
      BY <1>1 DEF TyStreams
    <3>2. PICK c \in Nat : c = rcvd[p]
      BY <3>1
    <3>3. c + n = c /\ <<>> = Run(c, c)
      BY <2>1 DEF Run
    <3> QED BY <3>2, <3>3
  <2>3. /\ rcvbuf' = Enqueue(rcvbuf, p, Run(rcvd[p], rcvd[p] + n)) /\ status' = [status EXCEPT ![p] = "CLOSE_WAIT"]
        /\ UNCHANGED <<sndbuf, heard, wire, finwire, rcvd>>
    BY <1>3, <2>2 DEF CloseWait
  <2>4. status'[p] = "CLOSE_WAIT" /\ \A q \in Peer \ {p} : status'[q] = status[q]
    BY <1>1, <2>3 DEF TyStreams
  <2>5. rcvd'[p] = rcvd[p] + n /\ \A q \in Peer \ {p} : status'[q] = status[q] /\ rcvd'[q] = rcvd[q] /\ pst'[q] = pst[q]
    BY <1>3, <2>2, <2>3, <2>4
  <2> QED BY <1>3, <2>3, <2>4, <2>5, ArrivalLives
<1>4. CASE TcpFin(p)
  <2>1. pst' = [pst EXCEPT ![p] = "fin"] /\ CloseWait(p) /\ status[p] = "ESTABLISHED" /\ UNCHANGED <<missed, spc, cur, buff>>
    BY <1>4 DEF TcpFin, CloseWait
  <2>2. \A q \in Peer : pst'[q] = IF q = p THEN "fin" ELSE pst[q]
    BY <1>1, <2>1 DEF TyStreams
  <2> QED BY <1>3, <2>1, <2>2
<1>5. CASE TcpDataFin /\ p = kcur
  <2>1. CloseWait(p) /\ status[p] = "ESTABLISHED" /\ UNCHANGED <<pst, missed, spc, cur, buff>>
    BY <1>1, <1>5 DEF TcpDataFin, CloseWait, Threads
  <2> QED BY <1>3, <2>1
<1> QED BY <1>2, <1>4, <1>5

(* A fragment goes out: the next bytes, or the FIN after all of them.       *)
LEMMA OutLives ==
  ASSUME Core, NEW p \in Peer, TcpOut(p)
  PROVE  Lives'
<1> USE DEF table, lsock, stream, udphost, packet, server, userver, peers, dgrams, history
<1>1. TypeOK /\ Threads /\ Lives /\ Readings /\ TyStreams /\ TyRings
  BY TypeGroups DEF Core
<1>2. PICK s \in Seq(Fragments) : s = sndbuf[p]
  BY <1>1 DEF TyRings
<1>3. PICK w \in Seq(Nat) : w = wire[p]
  BY <1>1 DEF TyStreams
<1>4. s # <<>> /\ status[p] # "none" /\ UNCHANGED <<status, rcvbuf, pst, rcvd, missed, spc, cur, buff>>
  BY <1>2 DEF TcpOut, Listed
<1>5. PICK f : f = Head(s)
  OBVIOUS
<1>6. PICK t : t = Tail(s)
  OBVIOUS
<1>7. PICK l \in Nat : l = Len(s)
  BY LenProperties
<1>8. /\ f \in Fragments /\ f = s[1] /\ t \in Seq(Fragments) /\ Len(t) = l - 1 /\ l > 0
      /\ \A k \in 1..l - 1 : t[k] = s[k + 1]
  <2>1. f = s[1] /\ f \in Fragments /\ t \in Seq(Fragments)
    BY <1>4, <1>5, <1>6, HeadTailProperties
  <2>2. Len(t) = l - 1 /\ \A k \in 1..l - 1 : t[k] = s[k + 1]
    BY <1>4, <1>6, <1>7, HeadTailProperties
  <2>3. l > 0
    BY <1>4, <1>7, EmptySeq
  <2> QED BY <2>1, <2>2, <2>3
<1>9. f.data \in Seq(Nat)
  BY <1>8 DEF Fragments
<1>10. /\ sndbuf'[p] = t /\ wire'[p] = w \o f.data
       /\ heard'[p] = heard[p] \union ({f.flags} \cap {"synack", "fin"})
       /\ finwire'[p] = IF f.flags = "fin" THEN Len(w) ELSE finwire[p]
  <2>1. sndbuf'[p] = t
    BY <1>1, <1>2, <1>6 DEF TcpOut, TyRings
  <2>2. wire'[p] = w \o f.data
    BY <1>1, <1>2, <1>3, <1>5 DEF TcpOut, TyStreams
  <2>3. heard'[p] = heard[p] \union ({f.flags} \cap {"synack", "fin"})
    BY <1>1, <1>2, <1>5 DEF TcpOut, TyStreams
  <2>4. finwire'[p] = IF f.flags = "fin" THEN Len(w) ELSE finwire[p]
    BY <1>1, <1>2, <1>3, <1>5 DEF TcpOut, TyStreams
  <2> QED BY <2>1, <2>2, <2>3, <2>4
<1>11. \A q \in Peer \ {p} : /\ sndbuf'[q] = sndbuf[q] /\ wire'[q] = wire[q]
                             /\ heard'[q] = heard[q] /\ finwire'[q] = finwire[q]
  <2>1. \A q \in Peer \ {p} : sndbuf'[q] = sndbuf[q]
    BY <1>1 DEF TcpOut, TyRings
  <2>2. \A q \in Peer \ {p} : wire'[q] = wire[q] /\ heard'[q] = heard[q] /\ finwire'[q] = finwire[q]
    BY <1>1 DEF TcpOut, TyStreams
  <2> QED BY <2>1, <2>2
<1>12. \A q \in Peer \ {p} : Apart(q)
  BY <1>4, <1>11 DEF Apart, InHand, Closing
<1>13. ASSUME Life(p) PROVE Life(p)'
  <2>1. Chain(p) /\ pst[p] # "new"
    BY <1>1, <1>4, <1>13 DEF Life, Threads
  <2>2. PICK a \in Nat, b \in Nat :
          /\ Runs(Datas(s), Len(w), a) /\ Runs(rcvbuf[p], b, rcvd[p])
          /\ a <= b /\ (InHand(p) => buff = Run(a, b)) /\ (~InHand(p) => a = b)
    BY <1>2, <1>3, <2>1 DEF Chain
  <2>3. PICK m \in Nat : m = Len(w)
    BY LenProperties
  <2>4. PICK c \in Nat : m <= c /\ f.data = Run(m, c) /\ Runs(Datas(t), c, a)
    <3>1. Datas(s) \in Seq(Seq(Nat)) /\ Datas(s) # <<>> /\ Head(Datas(s)) = f.data /\ Datas(t) = Tail(Datas(s))
      BY <1>4, <1>5, <1>6, DatasAre
    <3>2. Runs(Datas(s), m, a)
      BY <2>2, <2>3
    <3> QED BY <3>1, <3>2, RunsTail
  <2>5. PICK e \in Nat : e = c - m
    BY <2>4
  <2>6. f.data = [k \in 1..e |-> m + k] /\ Len(f.data) = e
    <3>1. f.data = [k \in 1..e |-> m + k]
      BY <2>4, <2>5 DEF Run
    <3>2. Len([k \in 1..e |-> m + k]) = e
      OBVIOUS
    <3> QED BY <3>1, <3>2
  <2>7. Len(w \o f.data) = c /\ \A k \in 1..c : (w \o f.data)[k] = k
    <3>1. /\ Len(w \o f.data) = m + e
          /\ \A k \in 1..m + e : (w \o f.data)[k] = IF k <= m THEN w[k] ELSE f.data[k - m]
      BY <1>9, <2>3, <2>6, ConcatProperties
    <3>2. \A k \in 1..m : w[k] = k
      BY <1>3, <1>13, <2>3 DEF Life
    <3>3. \A k \in 1..e : f.data[k] = m + k
      BY <2>6
    <3>4. ASSUME NEW k \in 1..m + e PROVE (w \o f.data)[k] = k
      <4>1. CASE k <= m
        BY <3>1, <3>2, <4>1
      <4>2. CASE ~(k <= m)
        <5>1. k - m \in 1..e /\ m + (k - m) = k
          BY <4>2
        <5>2. (w \o f.data)[k] = f.data[k - m]
          BY <3>1, <4>2
        <5> QED BY <3>3, <5>1, <5>2
      <4> QED BY <4>1, <4>2
    <3>5. m + e = c
      BY <2>4, <2>5
    <3> QED BY <3>1, <3>4, <3>5
  <2>8. (InHand(p)' <=> InHand(p)) /\ (Closing(p)' <=> Closing(p))
    BY <1>4 DEF InHand, Closing
  <2>9. Chain(p)'
    BY <1>4, <1>10, <2>2, <2>4, <2>7, <2>8 DEF Chain
  <2>10. \A k \in 1..l : s[k].flags = "fin" => s[k].data = <<>>
    BY <1>2, <1>7, <1>13 DEF Life
  <2>11. \A k \in 1..Len(t) : t[k].flags = "fin" => t[k].data = <<>>
    <3>1. ASSUME NEW k \in 1..l - 1, t[k].flags = "fin" PROVE t[k].data = <<>>
      <4>1. k + 1 \in 1..l /\ t[k] = s[k + 1]
        BY <1>8
      <4> QED BY <2>10, <3>1, <4>1
    <3> QED BY <1>8, <3>1
  <2>12. CASE ~Closing(p)
    <3>1. NoFin(p)
      BY <1>4, <1>13, <2>12 DEF Life
    <3>2. "fin" \notin heard[p] /\ \A k \in 1..l : s[k].flags # "fin"
      BY <1>2, <1>7, <3>1 DEF NoFin
    <3>3. f.flags # "fin"
      BY <1>8, <3>2
    <3>4. \A k \in 1..l - 1 : t[k].flags # "fin"
      <4>1. ASSUME NEW k \in 1..l - 1 PROVE t[k].flags # "fin"
        <5>1. k + 1 \in 1..l /\ t[k] = s[k + 1]
          BY <1>8
        <5> QED BY <3>2, <5>1
      <4> QED BY <4>1
    <3>5. NoFin(p)'
      BY <1>8, <1>10, <3>2, <3>3, <3>4 DEF NoFin
    <3> QED BY <1>4, <1>10, <2>1, <2>7, <2>8, <2>9, <2>11, <2>12, <3>5 DEF Life
  <2>13. CASE Closing(p)
    <3>1. FinQueued(p)
      BY <1>2, <1>4, <1>13, <2>13 DEF Life, FinGone
    <3>2. "fin" \notin heard[p] /\ \A k \in 1..l : s[k].flags = "fin" <=> k = l
      BY <1>2, <1>7, <3>1 DEF FinQueued
    <3>3. CASE l = 1
      <4>1. f.flags = "fin" /\ f.data = <<>>
        <5>1. 1 \in 1..l
          BY <3>3
        <5> QED BY <1>8, <2>10, <3>2, <3>3, <5>1
      <4>2. t = <<>>
        BY <1>8, <3>3, EmptySeq
      <4>3. m = c
        BY <2>4, <4>1, RunsEmpty
      <4>4. a = c
        <5>1. Datas(t) = <<>>
          BY <4>2, <1>8, DatasAre, EmptySeq
        <5> QED BY <2>4, <5>1, RunsEmpty
      <4>5. rcvbuf[p] = <<>> /\ ~InHand(p)
        BY <1>1, <1>4, <2>13, AllRead
      <4>6. b = rcvd[p]
        BY <2>2, <4>5, RunsEmpty
      <4>7. finwire'[p] = rcvd[p] /\ "fin" \in heard'[p]
        BY <1>10, <2>2, <2>3, <4>1, <4>3, <4>4, <4>5, <4>6
      <4>8. FinGone(p)'
        BY <1>4, <1>10, <4>2, <4>7 DEF FinGone
      <4> QED BY <1>4, <1>10, <2>1, <2>7, <2>8, <2>9, <2>11, <2>13, <4>8 DEF Life
    <3>4. CASE l # 1
      <4>1. f.flags # "fin"
        <5>1. 1 \in 1..l
          BY <1>8
        <5> QED BY <1>8, <3>2, <3>4, <5>1
      <4>2. \A k \in 1..l - 1 : t[k].flags = "fin" <=> k = l - 1
        <5>1. ASSUME NEW k \in 1..l - 1 PROVE t[k].flags = "fin" <=> k = l - 1
          <6>1. k + 1 \in 1..l /\ t[k] = s[k + 1] /\ (k + 1 = l <=> k = l - 1)
            BY <1>8
          <6>2. s[k + 1].flags = "fin" <=> k + 1 = l
            BY <3>2, <6>1
          <6> QED BY <6>1, <6>2
        <5> QED BY <5>1
      <4>3. t # <<>>
        BY <1>8, <3>4, EmptySeq
      <4>4. FinQueued(p)'
        BY <1>8, <1>10, <3>2, <4>1, <4>2, <4>3 DEF FinQueued
      <4> QED BY <1>4, <1>10, <2>1, <2>7, <2>8, <2>9, <2>11, <2>13, <4>4 DEF Life
    <3> QED BY <3>3, <3>4
  <2> QED BY <2>12, <2>13
<1> QED BY <1>1, <1>4, <1>12, <1>13, OthersLive DEF Lives

(* What is put back because its MAC is missing counts as missed. *)
LEMMA MissLives ==
  ASSUME Core, NEW p \in Peer, TcpOutMiss(p)
  PROVE  Lives'
<1> USE DEF table, lsock, stream, udphost, packet, server, userver, peers, dgrams, history
<1>1. TyRings /\ Lives
  BY TypeGroups DEF Core
<1>2. missed' = missed \union {p} /\ UNCHANGED <<status, rcvbuf, heard, wire, finwire, pst, rcvd, spc, cur, buff>>
  BY DEF TcpOutMiss
<1>3. \A q \in Peer \ {p} : sndbuf'[q] = sndbuf[q]
  BY <1>1 DEF TcpOutMiss, TyRings
<1>4. \A q \in Peer \ {p} : Apart(q)
  BY <1>2, <1>3 DEF Apart, InHand, Closing
<1> QED BY <1>1, <1>2, <1>4, OthersLive

(* nrecv takes the next bytes into the server's hand, or the end. *)
LEMMA RecvLives ==
  ASSUME Core, Recv
  PROVE  Lives'
<1> USE DEF table, lsock, stream, udphost, packet, server, userver, peers, dgrams, history
<1>1. TypeOK /\ Threads /\ Lives /\ TyStreams /\ TyRings
  BY TypeGroups DEF Core
<1>2. PICK p \in Peer :
        /\ cur' = p /\ Listed(p)
        /\ IF rcvbuf[p] = <<>>
           THEN spc' = "recvwait" /\ UNCHANGED <<rcvbuf, buff>>
           ELSE /\ rcvbuf' = [rcvbuf EXCEPT ![p] = Tail(@)] /\ buff' = Head(rcvbuf[p])
                /\ spc' = IF Head(rcvbuf[p]) = <<>> THEN "close" ELSE "send"
  BY DEF Recv, Holder, Streams
<1>3. spc = "recv" /\ UNCHANGED <<status, sndbuf, heard, wire, finwire, pst, rcvd, missed>>
  BY DEF Recv, Quiet
<1>4. \A q \in Peer : /\ ~InHand(q) /\ (q # p => ~InHand(q)')
                      /\ Closing(q)' <=> Closing(q)
  BY <1>2, <1>3 DEF InHand, Closing
<1>5. \A q \in Peer \ {p} : rcvbuf'[q] = rcvbuf[q]
  BY <1>1, <1>2 DEF TyRings
<1>6. \A q \in Peer \ {p} : Apart(q)
  BY <1>3, <1>4, <1>5 DEF Apart
<1>7. CASE rcvbuf[p] = <<>>
  <2>1. Apart(p)
    BY <1>2, <1>3, <1>4, <1>7 DEF Apart, InHand
  <2> QED BY <1>1, <1>3, <1>6, <2>1, LifeGoesOn, OthersLive DEF Lives
<1>8. CASE rcvbuf[p] # <<>>
  <2>1. PICK q \in Seq(Seq(Nat)) : q = rcvbuf[p] /\ q # <<>>
    BY <1>1, <1>8 DEF TyRings
  <2>2. PICK z : z = Head(q)
    OBVIOUS
  <2>3. /\ rcvbuf'[p] = Tail(q) /\ buff' = z /\ spc' = IF z = <<>> THEN "close" ELSE "send"
    BY <1>1, <1>2, <1>8, <2>1, <2>2 DEF TyRings
  <2>4. ASSUME Life(p) PROVE Life(p)'
    <3>1. Chain(p) /\ status[p] # "none"
      BY <1>2, <2>4 DEF Life, Listed
    <3>2. PICK a \in Nat, b \in Nat :
            Runs(Datas(sndbuf[p]), Len(wire[p]), a) /\ Runs(q, b, rcvd[p]) /\ a = b
      BY <1>4, <2>1, <3>1 DEF Chain
    <3>3. PICK n \in Nat : n = rcvd[p]
      BY <1>1 DEF TyStreams
    <3>4. PICK c \in Nat : b <= c /\ z = Run(b, c) /\ Runs(Tail(q), c, n)
      <4>1. Runs(q, b, n)
        BY <3>2, <3>3
      <4> QED BY <2>1, <2>2, <4>1, RunsTail
    <3>5. CASE z = <<>>
      <4>1. b = c
        BY <3>4, <3>5, RunsEmpty
      <4>2. ~InHand(p)'
        BY <2>3, <3>5 DEF InHand
      <4>3. Runs(Datas(sndbuf'[p]), Len(wire'[p]), a) /\ Runs(rcvbuf'[p], b, rcvd'[p])
        BY <1>3, <2>3, <3>2, <3>3, <3>4, <4>1
      <4>4. Chain(p)'
        BY <3>2, <4>2, <4>3 DEF Chain
      <4> QED BY <1>3, <1>4, <2>4, <4>4 DEF Life, FinQueued, FinGone, NoFin
    <3>6. CASE z # <<>>
      <4>1. InHand(p)'
        BY <1>2, <2>3, <3>6 DEF InHand
      <4>2. Runs(Datas(sndbuf'[p]), Len(wire'[p]), b) /\ Runs(rcvbuf'[p], c, rcvd'[p]) /\ buff' = Run(b, c)
        BY <1>3, <2>3, <3>2, <3>3, <3>4
      <4>3. Chain(p)'
        BY <3>4, <4>1, <4>2 DEF Chain
      <4> QED BY <1>3, <1>4, <2>4, <4>3 DEF Life, FinQueued, FinGone, NoFin
    <3> QED BY <3>5, <3>6
  <2> QED BY <1>1, <1>3, <1>6, <2>4, OthersLive DEF Lives
<1> QED BY <1>7, <1>8

(* nsend queues the bytes behind the others, nclose the FIN behind them.    *)
LEMMA QueueLives ==
  ASSUME Core, Send \/ Close
  PROVE  Lives'
<1> USE DEF table, lsock, stream, udphost, packet, server, userver, peers, dgrams, history
<1>1. TypeOK /\ Threads /\ Lives /\ TyStreams /\ TyRings
  BY TypeGroups DEF Core
<1>2. PICK p \in Peer : p = cur
  BY <1>1 DEF Threads, Send, Close
<1>3. PICK z : z = IF spc = "send" THEN Fragment("psh", buff) ELSE Fragment("fin", <<>>)
  OBVIOUS
<1>4. /\ z \in Fragments
      /\ spc = "send" => z.flags = "psh" /\ z.data = buff
      /\ spc # "send" => z.flags = "fin" /\ z.data = <<>>
  BY <1>1, <1>3, EmptySeq DEF Fragment, Fragments, TyRings
<1>5. /\ sndbuf' = [sndbuf EXCEPT ![p] = Append(@, z)]
      /\ UNCHANGED <<status, rcvbuf, heard, wire, finwire, pst, rcvd, missed, cur>>
      /\ (spc = "send" /\ spc' = "recv") \/ (spc = "close" /\ spc' = "lastack")
  BY <1>2, <1>3 DEF Send, Close, Goto, Quiet, Enqueue
<1>6. PICK s \in Seq(Fragments) : s = sndbuf[p]
  BY <1>1 DEF TyRings
<1>7. PICK t : t = Append(s, z)
  OBVIOUS
<1>8. sndbuf'[p] = t /\ \A q \in Peer \ {p} : sndbuf'[q] = sndbuf[q]
  BY <1>1, <1>5, <1>6, <1>7 DEF TyRings
<1>9. \A q \in Peer \ {p} : Apart(q)
  BY <1>2, <1>5, <1>8 DEF Apart, InHand, Closing
<1>10. ASSUME Life(p) PROVE Life(p)'
  <2>1. /\ status[p] # "none" /\ ~Closing(p) /\ pst[p] # "new"
    BY <1>1, <1>2, <1>5 DEF Threads, Closing
  <2>2. Chain(p) /\ NoFin(p)
    BY <1>10, <2>1 DEF Life
  <2>3. PICK a \in Nat, b \in Nat :
          /\ Runs(Datas(s), Len(wire[p]), a) /\ Runs(rcvbuf[p], b, rcvd[p])
          /\ a <= b /\ (InHand(p) => buff = Run(a, b)) /\ (~InHand(p) => a = b)
    BY <1>6, <2>2 DEF Chain
  <2>4. z.data = Run(a, b) /\ z.data \in Seq(Nat)
    <3>1. CASE spc = "send"
      BY <1>2, <1>4, <2>3, <3>1 DEF InHand, Fragments
    <3>2. CASE spc # "send"
      <4>1. a = b /\ z.data = <<>>
        BY <1>4, <2>3, <3>2 DEF InHand
      <4>2. Run(a, a) = <<>>
        BY DEF Run
      <4> QED BY <1>4, <4>1, <4>2 DEF Fragments
    <3> QED BY <3>1, <3>2
  <2>5. Runs(Datas(t), Len(wire[p]), b)
    <3>1. PICK m \in Nat : m = Len(wire[p])
      BY <1>1, LenProperties DEF TyStreams
    <3>2. Datas(s) \in Seq(Seq(Nat)) /\ Datas(t) = Append(Datas(s), z.data)
      BY <1>4, <1>7, DatasAre
    <3>3. Runs(Datas(s), m, a)
      BY <2>3, <3>1
    <3>4. Runs(Append(Datas(s), z.data), m, b)
      BY <2>3, <2>4, <3>2, <3>3, RunsAppend
    <3> QED BY <3>1, <3>2, <3>4
  <2>6. Chain(p)'
    <3>1. ~InHand(p)'
      BY <1>5 DEF InHand
    <3>2. Runs(Datas(sndbuf'[p]), Len(wire'[p]), b) /\ Runs(rcvbuf'[p], b, rcvd'[p])
      BY <1>5, <1>8, <2>3, <2>5
    <3> QED BY <3>1, <3>2 DEF Chain
  <2>7. PICK l \in Nat : l = Len(s)
    BY LenProperties
  <2>8. Len(t) = l + 1 /\ t[l + 1] = z /\ \A k \in 1..l : t[k] = s[k]
    BY <1>4, <1>7, <2>7, AppendProperties
  <2>9. "fin" \notin heard[p] /\ \A k \in 1..l : s[k].flags # "fin"
    BY <1>6, <2>2, <2>7 DEF NoFin
  <2>10. \A k \in 1..l : t[k].flags # "fin"
    BY <2>8, <2>9
  <2>11. \A k \in 1..l + 1 : t[k].flags = "fin" => t[k].data = <<>>
    <3>1. z.flags = "fin" => z.data = <<>>
      BY <1>4
    <3> QED BY <2>8, <2>10, <3>1
  <2>12. CASE spc = "send"
    <3>1. ~Closing(p)'
      BY <1>5, <2>1, <2>12 DEF Closing
    <3>2. \A k \in 1..l + 1 : t[k].flags # "fin"
      BY <1>4, <2>8, <2>10, <2>12
    <3>3. NoFin(p)'
      BY <1>5, <1>8, <2>8, <2>9, <3>2 DEF NoFin
    <3> QED BY <1>5, <1>8, <1>10, <2>1, <2>6, <2>8, <2>11, <3>1, <3>3 DEF Life
  <2>13. CASE spc # "send"
    <3>1. Closing(p)'
      BY <1>2, <1>5, <2>13 DEF Closing
    <3>2. \A k \in 1..l + 1 : t[k].flags = "fin" <=> k = l + 1
      BY <1>4, <2>8, <2>10, <2>13
    <3>3. t # <<>>
      BY <2>8, EmptySeq
    <3>4. FinQueued(p)'
      BY <1>5, <1>8, <2>8, <2>9, <3>2, <3>3 DEF FinQueued
    <3> QED BY <1>5, <1>8, <1>10, <2>1, <2>6, <2>8, <2>11, <3>1, <3>4 DEF Life
  <2> QED BY <2>12, <2>13
<1> QED BY <1>1, <1>5, <1>9, <1>10, OthersLive DEF Lives

(* Every step keeps the lives of the streams. *)
LEMMA LivesKept ==
  ASSUME Core, [Next]_vars
  PROVE  Lives'
<1>1. ASSUME NEW p \in Peer, TcpSyn(p) PROVE Lives'
  BY <1>1, SynLives
<1>2. ASSUME NEW p \in Peer, TcpOut(p) PROVE Lives'
  BY <1>2, OutLives
<1>3. ASSUME NEW p \in Peer, TcpOutMiss(p) PROVE Lives'
  BY <1>3, MissLives
<1>4. ASSUME NEW p \in Peer, (\E n \in 1..MSS, fin \in BOOLEAN : TcpData(p, n, fin)) \/ TcpFin(p) PROVE Lives'
  BY <1>4, SegmentLives
<1>5. ASSUME NEW p \in Peer, NEW what, TcpAck(p, what) PROVE Lives'
  BY <1>5, AckLives
<1>6. CASE TcpDataFin
  <2>1. kcur \in Peer
    BY <1>6 DEF Core, Threads, TcpDataFin
  <2> QED BY <1>6, <2>1, SegmentLives
<1> QED BY <1>1, <1>2, <1>3, <1>4, <1>5, <1>6, LivesUntouched, RecvLives, QueueLives

-----------------------------------------------------------------------------
(* The theorems *)

(* The threads start with no stream and no descriptor in use. *)
LEMMA CoreInit == Init => Core
<1> SUFFICES ASSUME Init PROVE Core
  OBVIOUS
<1>0. <<>> \in Seq(Nat) /\ <<>> \in Seq(Seq(Nat)) /\ <<>> \in Seq(Fragments) /\ <<>> \in Seq(1..0) /\ Len(<<>>) = 0
  BY EmptySeq
<1>1. TyFlags /\ TySteps
  BY DEF Init, TyFlags, TySteps, NoPeer
<1>2. TyFds
  BY ApiAssumption DEF Init, TyFds, NoPick, NoFd
<1>3. TyStreams /\ TyRings
  BY <1>0 DEF Init, TyStreams, TyRings
<1>4. TyDgrams
  BY <1>0, ApiAssumption DEF Init, TyDgrams
<1>5. Descriptors
  <2>1. Few(NoFd) /\ NoFd \in Int
    BY DEF Init, Few, Held, NoPick, NoFd
  <2> QED BY <2>1 DEF Init, Descriptors
<1>6. Threads /\ Readings /\ Wakes
  BY DEF Init, Threads, Readings, Reading, Wakes
<1>7. Lives
  BY <1>0 DEF Init, Lives, Life
<1> QED BY <1>1, <1>2, <1>3, <1>4, <1>5, <1>6, <1>7, TypeGroups DEF Core

(* The invariant is inductive. *)
LEMMA CoreKept == Core /\ [Next]_vars => Core'
  BY TypesKept, DescriptorsKept, ThreadsKept, ReadingsKept, WakesKept, LivesKept DEF Core
LEMMA CoreHolds == Spec => []Core
  BY CoreInit, CoreKept, PTL DEF Spec

(* No blocking call sleeps for ever on what it waits for: whatever the      *)
(* number of clients and the interleaving of the three threads, the signal  *)
(* of pkt_process is still to come.                                         *)
THEOREM SignalsKept == Spec => []WakeupsKept
<1>1. Core => WakeupsKept
  BY DEF Core, Wakes, WakeupsKept
<1> QED BY <1>1, CoreHolds, PTL

(* A peer whose MAC was known gets back its bytes in order, and the FIN of  *)
(* nclose after the last of them.                                           *)
THEOREM FinsFollowEchoes == Spec => []FinAfterEcho
<1>1. Core => FinAfterEcho
  <2> SUFFICES ASSUME Core, NEW p \in Peer \ missed
               PROVE  /\ \A k \in 1..Len(wire[p]) : wire[p][k] = k
                      /\ "fin" \in heard[p] => finwire[p] = rcvd[p] /\ Len(wire[p]) = rcvd[p]
    BY DEF FinAfterEcho
  <2>1. Life(p) /\ TypeOK /\ Threads /\ Readings
    BY DEF Core, Lives
  <2>2. ASSUME "fin" \in heard[p], status[p] # "none" PROVE finwire[p] = rcvd[p] /\ Len(wire[p]) = rcvd[p]
    <3>1. Closing(p) /\ FinGone(p)
      BY <2>1, <2>2 DEF Life, NoFin, FinQueued
    <3> QED BY <2>1, <2>2, <3>1, AllSent DEF FinGone
  <2> QED BY <2>1, <2>2 DEF Life
<1> QED BY <1>1, CoreHolds, PTL
=============================================================================
